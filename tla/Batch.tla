------------------------------- MODULE Batch --------------------------------
(***************************************************************************)
(* What a run promises its caller about the actions of its plan: they are  *)
(* settled in order and once each, the run stops short of the last one     *)
(* only because it was cancelled or an error left nothing to go on with,   *)
(* and that error is charged to the one action it met.                     *)
(***************************************************************************)
EXTENDS Naturals

VARIABLES
    kinds,      \* what each action of the plan is
    fate,       \* what became of it
    cancelled,  \* whether the user asked to stop
    outcome     \* how the run ended

vars == <<kinds, fate, cancelled, outcome>>

Init ==
    /\ fate = [i \in DOMAIN kinds |-> "planned"]
    /\ cancelled = FALSE
    /\ outcome = "running"

IsNext(i) ==
    /\ outcome = "running"
    /\ fate[i] = "planned"
    /\ \A j \in DOMAIN kinds : j < i => fate[j] # "planned"

Settle(i) ==
    /\ IsNext(i)
    /\ \E f \in IF kinds[i] = "skip" THEN {"skipped"} ELSE {"done", "failed"} :
           fate' = [fate EXCEPT ![i] = f]
    /\ UNCHANGED <<kinds, cancelled, outcome>>

Abort(i) ==
    /\ IsNext(i)
    /\ kinds[i] # "skip"
    /\ fate' = [fate EXCEPT ![i] = "failed"]
    /\ outcome' = "aborted"
    /\ UNCHANGED <<kinds, cancelled>>

Interrupt(i) ==
    /\ IsNext(i)
    /\ cancelled
    /\ outcome' = "interrupted"
    /\ UNCHANGED <<kinds, fate, cancelled>>

Finish ==
    /\ outcome = "running"
    /\ \A i \in DOMAIN kinds : fate[i] # "planned"
    /\ outcome' = "finished"
    /\ UNCHANGED <<kinds, fate, cancelled>>

Cancel ==
    /\ ~cancelled
    /\ cancelled' = TRUE
    /\ UNCHANGED <<kinds, fate, outcome>>

Next ==
    \/ \E i \in DOMAIN kinds : Settle(i) \/ Abort(i) \/ Interrupt(i)
    \/ Finish
    \/ Cancel

Spec == Init /\ [][Next]_vars
=============================================================================
