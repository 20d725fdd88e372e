\* Every caller, answer and report failure; calls share no state, so nothing needs
\* a bound.
SPECIFICATION Spec
INVARIANT TypeOK
INVARIANT EffectIsAuthorized
INVARIANT ResultIsTrue
INVARIANT LastReportAgrees
INVARIANT RaisesOnlyForLogs
INVARIANT ProposedIsAuthorizable
