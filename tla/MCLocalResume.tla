--------------------------- MODULE MCLocalResume ---------------------------
(***************************************************************************)
(* Instances of LocalResume for TLC.  Phone A holds a1, then perhaps a2,   *)
(* an edit of the same size, then a3, which is longer; phone B holds b, a  *)
(* file of the same name, size and time as a1; phones N and M report no    *)
(* serial and hold n and m, again of one name, size and time.              *)
(***************************************************************************)
EXTENDS LocalResume

CONSTANTS a1, a2, a3, b, n, m

MCIdentity ==
    [o \in Objects |->
        IF o \in {a1, a2, a3} THEN "A" ELSE IF o = b THEN "B" ELSE "no serial"]

MCFingerprint ==
    [o \in Objects |->
        CASE o \in {a1, b} -> [size |-> 4, modified |-> 1]
          [] o = a2 -> [size |-> 4, modified |-> 2]
          [] o = a3 -> [size |-> 6, modified |-> 3]
          [] o \in {n, m} -> [size |-> 2, modified |-> 1]]

\* An object once replaced never comes back.
Forward ==
    LET order == <<a1, b, a2, n, m, a3>> IN
    {e \in Objects \X Objects :
        \E i, j \in 1..6 : i < j /\ e = <<order[i], order[j]>>}

\* Phones are swapped back and forth and edits are undone.
BackAndForth == (Objects \X Objects) \ {<<o, o>> : o \in Objects}

\* What an edit during a run may do.
NoEdits   == {}
Resizing  == {<<a1, a3>>, <<a2, a3>>} \cap Forward
SameSize  == {<<a1, a2>>}
=============================================================================
