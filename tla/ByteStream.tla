----------------------------- MODULE ByteStream -----------------------------
(***************************************************************************)
(* What a read promises whoever pulls it (Endpoint::read): the windows of  *)
(* the file from an offset on, in order and without a gap, and then either *)
(* a clean end, after the last one only, or one error.                     *)
(***************************************************************************)
EXTENDS Naturals

VARIABLES
    next,     \* windows of the file that lie behind the reader
    size,     \* windows of the file
    state     \* "none", "open", "whole", "broken"

stream == <<next, size, state>>

Init == next = 0 /\ size = 0 /\ state = "none"

\* A read of a file; one that starts past its end is whole at once.
Open ==
    /\ state = "none"
    /\ next' \in Nat /\ size' \in Nat /\ state' = "open"

Deliver == state = "open" /\ next < size /\ next' = next + 1 /\ UNCHANGED <<size, state>>

End == state = "open" /\ next >= size /\ state' = "whole" /\ UNCHANGED <<next, size>>

\* An error, or a reader that stops pulling.
Break == state = "open" /\ state' = "broken" /\ UNCHANGED <<next, size>>

\* The reader is through with it.
Close ==
    /\ state \in {"whole", "broken"}
    /\ next' = 0 /\ size' = 0 /\ state' = "none"

Spec == Init /\ [][Open \/ Deliver \/ End \/ Break \/ Close]_stream
=============================================================================
