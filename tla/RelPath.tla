------------------------------- MODULE RelPath -------------------------------
(***************************************************************************)
(* Paths relative to a transfer root, as both sides share them, and the    *)
(* two ways a destination compares them.  A path is a sequence of names;   *)
(* the empty one is the root itself.                                       *)
(***************************************************************************)
EXTENDS Integers, FiniteSets, SequencesExt

CONSTANTS
    Alphabet,   \* the names, in byte order
    Folded      \* Folded[n]: n in lower case

ASSUME RelPathAssumption ==
    /\ Alphabet \in Seq(STRING) /\ IsInjective(Alphabet)
    /\ Folded \in [Range(Alphabet) -> STRING]

Names == Range(Alphabet)
Rank(name) == CHOOSE i \in DOMAIN Alphabet : Alphabet[i] = name

Root == <<>>
Parent(path) == Front(path)
StartsWith(path, prefix) == IsPrefix(prefix, path)

\* The order of a snapshot: segment by segment, a folder before what it holds.
Before(p, q) ==
    \/ IsStrictPrefix(p, q)
    \/ \E i \in DOMAIN p \cap DOMAIN q :
        /\ SubSeq(p, 1, i - 1) = SubSeq(q, 1, i - 1)
        /\ Rank(p[i]) < Rank(q[i])

Fold(path) == [i \in DOMAIN path |-> Folded[path[i]]]

Foldings == {"exact", "insensitive"}

\* Whether a destination takes the two for one file.
Same(p, q, folding) == IF folding = "exact" THEN p = q ELSE Fold(p) = Fold(q)
-----------------------------------------------------------------------------
(* One listed file or folder, and a side's listing.                        *)

Entry(path, kind, size, modified) ==
    [path |-> path, kind |-> kind, size |-> size, modified |-> modified]

\* Snapshot::new: entries of distinct paths, sorted.
Snapshot(entries) ==
    [i \in 1..Cardinality(entries) |->
        CHOOSE e \in entries :
            Cardinality({f \in entries : Before(f.path, e.path)}) = i - 1]
=============================================================================
