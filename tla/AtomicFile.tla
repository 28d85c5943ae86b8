----------------------------- MODULE AtomicFile -----------------------------
(***************************************************************************)
(* What a destination file promises its user: under its final name there   *)
(* is nothing, or one whole copy; it changes at once from one to the       *)
(* other, and a new copy is that of the object a run planned to copy.      *)
(***************************************************************************)
CONSTANTS Objects, NoObject, Content

VARIABLES source, planned, final

Init ==
    /\ source \in Objects
    /\ planned = NoObject
    /\ final \in {{}} \cup {{Content[o]} : o \in Objects}

\* The world changes what lies at the source path.
Change ==
    /\ source' \in Objects
    /\ UNCHANGED <<planned, final>>

\* The user removes the copy.
Clear ==
    /\ final' = {}
    /\ UNCHANGED <<source, planned>>

\* A run decides to copy what lies at the source path.
Plan ==
    /\ planned' = source
    /\ UNCHANGED <<source, final>>

\* The run ends, whether or not the copy landed.
End ==
    /\ planned' = NoObject
    /\ UNCHANGED <<source, final>>

\* The planned copy lands, whole.
Download ==
    /\ planned # NoObject
    /\ final' = {Content[planned]}
    /\ UNCHANGED <<source, planned>>

Next == Change \/ Clear \/ Plan \/ End \/ Download

Spec == Init /\ [][Next]_<<source, planned, final>>
=============================================================================
