SPECIFICATION Spec
CONSTANTS
    NUM_RECORDS = 3
    MAX_AGENTS = 2
    MAX_ATTEMPTS = 3
INVARIANTS
    TypeOK
    OneEntryPerAttempt
    EntryDescribesContext
    NoMatchIsLost
    HeaderIsTrueUnlessRanked
PROPERTY
    NoRankingAfterFailure
CHECK_DEADLOCK FALSE
