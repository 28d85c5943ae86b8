------------------------------ MODULE LocalScan ------------------------------
(***************************************************************************)
(* The listing of the local folder a transfer writes to: the walk, the     *)
(* resume files it vets, what it cannot list, and the guess at how the     *)
(* volume compares names.  Siblings come in any order, as read_dir gives   *)
(* them.                                                                   *)
(*                                                                         *)
(* An item of the volume is [path, is, size, modified, record].  A link is *)
(* the item it leads to; one that leads nowhere, or back up, is "broken".  *)
(* A "locked" folder cannot be listed, whatever it holds; what lies in it  *)
(* can still be reached by name.  record is what a sidecar says:           *)
(* [read, ours, path, size, modified, bytes], of which a "torn" one says   *)
(* nothing and one that "fails" cannot be read.                            *)
(***************************************************************************)
EXTENDS RelPath, CancelToken

CONSTANTS
    PartOf,       \* PartOf[n]: the name of n's part file
    SidecarOf,    \* SidecarOf[n]: the name of the record beside it
    Temporary,    \* names of records that are being replaced
    Unnameable,   \* names that are no text, or not allowed
    Lettered      \* names with a letter whose case can be flipped

ASSUME LocalScanAssumption ==
    /\ PartOf \in [DOMAIN PartOf -> Names] /\ SidecarOf \in [DOMAIN PartOf -> Names]
    /\ Unnameable \cup Lettered \cup Temporary \subseteq Names

VARIABLES
    rootIs,      \* what lies at the root: "dir", "locked", "file", "absent", "unknown"
    volume,      \* the items beneath it
    folds,       \* how the volume compares names, a folding
    baseTells,   \* what flipping the case of the root's own name shows: a folding, or "nothing"
    only,        \* the one name a single-file transfer looks for: none or one
    walk,        \* "stat", "walk", "listed", "failed"; "over" once a plan is made of it
    toVisit,     \* items walkdir yields next
    found        \* [entries, partials, skipped, folding]

disk == <<rootIs, volume, folds, baseTells>>
scanVars == <<only, walk, toVisit, found>>

NothingFound == [entries |-> {}, partials |-> {}, skipped |-> {}, folding |-> "exact"]

ChildrenIn(items, path) ==
    {i \in items : i.path # Root /\ Parent(i.path) = path}
Children(path) == ChildrenIn(volume, path)

\* The item a path leads to, as the volume compares names.
AtIn(items, path) == {i \in items : Same(i.path, path, folds)}

Reserved == Range(PartOf) \cup Range(SidecarOf) \cup Temporary
IsTransferFile(i) == i.is = "file" /\ Last(i.path) \in Reserved

ResumeFiles(name) ==
    {name} \cup IF name \in DOMAIN PartOf
                THEN {PartOf[name], SidecarOf[name]} ELSE {}

\* In single-file mode only the file itself and its resume files matter.
Wanted(i) == \A name \in only : Last(i.path) \in ResumeFiles(name)
-----------------------------------------------------------------------------
(* The steps.                                                              *)

FailWalk ==
    /\ walk' = "failed" /\ toVisit' = {}
    /\ UNCHANGED <<only, found>>

\* A missing root is an empty destination; one that cannot be listed is an empty
\* listing and an omission (skip_unreadable); a file, or what cannot be looked
\* at ("unknown"), is an error.
StatRoot ==
    /\ walk = "stat"
    /\ IF rootIs \in {"dir", "locked", "absent"}
       THEN /\ walk' = "walk"
            /\ toVisit' = IF rootIs = "dir" THEN Children(Root) ELSE {}
            /\ found' = [found EXCEPT !.skipped = IF rootIs = "locked" THEN {Root} ELSE @]
            /\ UNCHANGED only
       ELSE FailWalk

WalkCancelled ==
    /\ walk = "walk" /\ cancelled
    /\ FailWalk

\* Slip: below a name that cannot be used, nothing of its parent is listed either.
WithoutSiblings(i) == toVisit \ Children(Parent(i.path))

Deeper(i) ==
    (toVisit \ {i}) \cup IF only = {} /\ i.is = "dir" THEN Children(i.path) ELSE {}

OmitFolder(i) == toVisit \ {i}

\* One item handled, the walk going on with the given ones.
Walking(i, rest) ==
    /\ walk = "walk" /\ ~cancelled /\ i \in toVisit
    /\ toVisit' = rest
    /\ UNCHANGED <<only, walk>>

\* A broken link, or a name that cannot be used: reported under its parent and left out.
VisitUnlistable(i) ==
    /\ i.is = "broken" \/ (Wanted(i) /\ ~IsTransferFile(i) /\ Last(i.path) \in Unnameable)
    /\ Walking(i, OmitFolder(i))
    /\ found' = [found EXCEPT !.skipped = @ \cup {Parent(i.path)}]

\* Not asked for, or neither a file nor a folder.
VisitUnwanted(i) ==
    /\ ~(i.is = "broken")
    /\ ~Wanted(i) \/ (i.is = "special" /\ Last(i.path) \notin Unnameable)
    /\ Walking(i, OmitFolder(i))
    /\ UNCHANGED found

KindOf(i) == IF i.is = "file" THEN "file" ELSE "dir"

\* A folder that is entered and cannot be listed is an entry and an omission.
VisitEntry(i) ==
    /\ Wanted(i) /\ i.is \in {"file", "dir", "locked"}
    /\ ~IsTransferFile(i) /\ Last(i.path) \notin Unnameable
    /\ Walking(i, Deeper(i))
    /\ found' = [found EXCEPT
        !.entries = @ \cup {Entry(i.path, KindOf(i), IF i.is = "file" THEN i.size ELSE 0,
                                  i.modified)},
        !.skipped = @ \cup IF i.is = "locked" /\ only = {} THEN {Parent(i.path)} ELSE {}]

IsSidecar(i) == IsTransferFile(i) /\ Last(i.path) \in Range(SidecarOf)

\* The record is ours, about this very path, and the part holds what it vouches for.
Vouched(i, path) ==
    /\ i.record.read = "whole" /\ i.record.ours /\ i.record.path = path
    /\ \E part \in AtIn(volume, Append(Parent(path), PartOf[Last(path)])) :
        part.is = "file" /\ part.size >= i.record.bytes

FinalPath(i) ==
    Append(Parent(i.path), CHOOSE n \in DOMAIN SidecarOf : SidecarOf[n] = Last(i.path))

\* Part and temporary files are passed over; a record is read and vetted.
VisitTransferFile(i) ==
    /\ Wanted(i) /\ i.is = "file" /\ IsTransferFile(i)
    /\ ~(IsSidecar(i) /\ i.record.read = "fails")
    /\ Walking(i, OmitFolder(i))
    /\ found' = IF IsSidecar(i) /\ Vouched(i, FinalPath(i))
                THEN [found EXCEPT !.partials = @ \cup
                        {[path |-> FinalPath(i), size |-> i.record.size,
                          modified |-> i.record.modified, bytes |-> i.record.bytes]}]
                ELSE found

\* A record that cannot be read at all ends the scan.
VisitUnreadable(i) ==
    /\ walk = "walk" /\ ~cancelled /\ i \in toVisit
    /\ Wanted(i) /\ IsSidecar(i) /\ i.record.read = "fails"
    /\ FailWalk

\* Two spellings of a name that may be links to one file, on a volume that tells
\* them apart.
Twins(i, j) == i # j /\ Same(i.path, j.path, "insensitive") /\ i.is = j.is /\ i.size = j.size

\* probe: whether the other spelling of a name leads to the same file.
Probe(i) ==
    IF i.is = "broken" THEN {"exact"}
    ELSE {folds} \cup IF \E j \in volume : Twins(i, j) THEN {"insensitive"} ELSE {}

\* detect: the first name with a letter tells, the root's own one first.
Detected(tells) ==
    IF baseTells # "nothing" THEN tells = baseTells
    ELSE LET lettered == {i \in Children(Root) : Last(i.path) \in Lettered}
         IN IF rootIs # "dir" \/ lettered = {} THEN tells = "exact"
            ELSE \E i \in lettered : tells \in Probe(i)

FinishWalk ==
    /\ walk = "walk" /\ ~cancelled /\ toVisit = {}
    /\ \E tells \in Foldings :
        /\ Detected(tells)
        /\ found' = [found EXCEPT !.folding = tells]
    /\ walk' = "listed"
    /\ UNCHANGED <<only, toVisit>>

LocalScanNext ==
    \/ StatRoot \/ WalkCancelled \/ FinishWalk
    \/ \E i \in toVisit :
        \/ VisitUnlistable(i) \/ VisitUnwanted(i) \/ VisitEntry(i)
        \/ VisitTransferFile(i) \/ VisitUnreadable(i)

\* The planner takes what was found.
HandOver ==
    /\ walk = "listed" /\ walk' = "over" /\ found' = NothingFound
    /\ UNCHANGED <<only, toVisit>>

\* A second look at the folder, by a later run.
ScanAgain ==
    /\ walk' = "stat" /\ toVisit' = {} /\ found' = NothingFound
    /\ UNCHANGED only
-----------------------------------------------------------------------------
(* A listing is whole: what it lacks is a transfer's own file, neither     *)
(* file nor folder, or reported; every sibling of what could not be listed *)
(* is there (visit, skip_current_dir), and no cancelled walk passes for a  *)
(* listing (run).                                                          *)
Omitted(i) ==
    /\ Parent(i.path) \in found.skipped
    /\ i.is \in {"broken", "locked"} \/ Last(i.path) \in Unnameable

ListingIsWhole ==
    walk = "listed" /\ only = {} =>
        \A i \in volume :
            \/ rootIs = "locked" /\ Root \in found.skipped
            \/ \E e \in found.entries : e.path = i.path /\ e.kind = KindOf(i)
            \/ IsTransferFile(i) \/ i.is = "special"
            \/ \E j \in volume : StartsWith(i.path, j.path) /\ Omitted(j)
=============================================================================
