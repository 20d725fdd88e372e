-------------------------- MODULE ExecutionBoundary --------------------------
(***************************************************************************)
(* What the kernel promises about effects (ADR-042, ADR-021, ADR-040),     *)
(* whatever its queue, gate, model and caller do: a cycle is advised, then *)
(* either authorized and attempted or refused; what the kernel believes    *)
(* changes only by absorbing an effect that was performed, once; and after *)
(* a halt no cycle opens.  Agent implements it (Agent!RefinesBoundary).    *)
(***************************************************************************)
VARIABLES phase,    \* of the cycle: "closed", "open", "authorized", "performed",
                    \* "refused" or "settled"
          halted,   \* irreversible
          evidence  \* what the kernel has learnt from effects; any value

vars == <<phase, halted, evidence>>

Init == /\ phase = "closed"
        /\ halted \in BOOLEAN

Halt == /\ phase = "closed"
        /\ ~halted
        /\ halted' = TRUE
        /\ UNCHANGED <<phase, evidence>>

Open == /\ phase = "closed"
        /\ ~halted
        /\ phase' = "open"
        /\ UNCHANGED <<halted, evidence>>

Authorize == /\ phase = "open"
             /\ phase' = "authorized"
             /\ UNCHANGED <<halted, evidence>>

Refuse == /\ phase \in {"open", "authorized"}
          /\ phase' = "refused"
          /\ UNCHANGED <<halted, evidence>>

Perform == /\ phase = "authorized"
           /\ phase' = "performed"
           /\ UNCHANGED <<halted, evidence>>

\* The only action that leaves the new evidence open.
Absorb == /\ phase = "performed"
          /\ phase' \in {"settled", "closed"}
          /\ UNCHANGED halted

Settle == /\ phase = "refused"
          /\ phase' = "settled"
          /\ UNCHANGED <<halted, evidence>>

\* The end of the cycle, or an exception that leaves it unfinished.
Close == /\ phase # "closed"
         /\ phase' = "closed"
         /\ UNCHANGED <<halted, evidence>>

Next == Halt \/ Open \/ Authorize \/ Refuse \/ Perform \/ Absorb \/ Settle \/ Close

Spec == Init /\ [][Next]_vars
=============================================================================
