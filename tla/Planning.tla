------------------------------ MODULE Planning ------------------------------
(***************************************************************************)
(* A transfer from the destination's point of view: its folder is listed,  *)
(* a plan is made of the two listings, the plan is carried out on the      *)
(* volume, and a later run lists and plans again.  Carrying out an action  *)
(* is one step here; Executor and LocalResume have its details.            *)
(***************************************************************************)
EXTENDS LocalScan, Planner

CONSTANTS
    Sources,      \* what the phone may hold beneath the root, as sets of entries
    Volumes,      \* the destinations: [rootIs, items, folds, baseTells]
    SinglesFold   \* whether one file may be pulled by name to a volume that folds names

\* Names that no listing has: those of a transfer's own files, and unusable ones.
OddNames == Reserved \cup Unnameable

\* Whether a name is one of them is no matter of its case.
CaseKeepsOddNames ==
    \A m, n \in Names : Folded[m] = Folded[n] /\ m \in OddNames => n \in OddNames

\* What the phone's scan lists: a tree of files and folders (FindsATree).
IsSource(entries) ==
    /\ IsFiniteSet(entries)
    /\ entries \subseteq [path : Seq(Names) \ {Root}, kind : {"file", "dir"},
                           size : Nat, modified : Nat]
    /\ \A e, f \in entries : e.path = f.path => e = f
    /\ \A e \in entries : e.kind = "dir" => e.size = 0
    /\ \A e \in entries : Range(e.path) \cap OddNames = {}
    /\ \A e \in entries : \A n \in 1..(Len(e.path) - 1) :
        \E f \in entries : f.path = SubSeq(e.path, 1, n) /\ f.kind = "dir"

IsFolder(i) == i.is \in {"dir", "locked"}

\* What a volume may hold: one item of a name in a folder, as it compares names,
\* and nothing below what is no folder.
IsVolume(items, fold) ==
    /\ items \subseteq [path : Seq(Names) \ {Root}, size : Nat, modified : Nat,
                         is : {"file", "dir", "locked", "broken", "special"},
                         record : [read : {"whole", "torn", "fails"}, ours : BOOLEAN, path : Seq(Names),
                                   size : Nat, modified : Nat, bytes : Nat]]
    /\ \A i, j \in items : Same(i.path, j.path, fold) => i = j
    /\ \A i \in items : \A n \in 1..(Len(i.path) - 1) :
        \E j \in items : j.path = SubSeq(i.path, 1, n) /\ IsFolder(j)

ASSUME PlanningAssumption ==
    /\ \A s \in Sources : IsSource(s)
    /\ \A v \in Volumes :
        /\ v.rootIs \in {"dir", "locked", "file", "absent", "unknown"}
        /\ v.folds \in Foldings /\ v.baseTells \in Foldings \cup {"nothing"}
        /\ IsVolume(v.items, v.folds)
        /\ v.rootIs \notin {"dir", "locked"} => v.items = {}

VARIABLES
    round,     \* how many plans were made before this one
    ran,       \* how many actions of the first plan were carried out
    failed     \* the paths that could not be

runVars == <<round, ran, failed>>
vars == <<disk, scanVars, cancelled, plannerVars, runVars>>

\* A single-file pull looks for nothing but its one name.
IsSingle == Len(source) = 1 /\ Len(source[1].path) = 1 /\ source[1].kind = "file"

Init ==
    /\ \E s \in Sources : source = Snapshot(s)
    /\ policy \in Policies
    /\ \E v \in Volumes :
        /\ rootIs = v.rootIs /\ volume = v.items
        /\ folds = v.folds /\ baseTells = v.baseTells
    /\ only \in {{}} \cup IF IsSingle /\ (folds = "exact" \/ SinglesFold)
                          THEN {{source[1].path[1]}} ELSE {}
    /\ walk = "stat" /\ toVisit = {} /\ found = NothingFound
    /\ NotCancelled
    /\ dest = {} /\ folding = "exact" /\ partials = {} /\ phase = "idle" /\ Blank
    /\ round = 0 /\ ran = 0 /\ failed = {}

Scan ==
    /\ LocalScanNext
    /\ UNCHANGED <<disk, cancelled, plannerVars, runVars>>

Cancel ==
    /\ walk = "walk" /\ Interrupt
    /\ UNCHANGED <<disk, scanVars, plannerVars, runVars>>

Begin ==
    /\ BeginPlan(found) /\ HandOver
    /\ UNCHANGED <<disk, cancelled, runVars>>

Plan ==
    /\ PlannerNext
    /\ UNCHANGED <<disk, scanVars, cancelled, runVars>>
-----------------------------------------------------------------------------
(* What carrying out a plan does to the volume.                            *)

\* How much of a path the volume has.
Has(items, path, n) == AtIn(items, SubSeq(path, 1, n)) # {}
Deepest(items, path) ==
    CHOOSE n \in 0..Len(path) :
        /\ n = 0 \/ Has(items, path, n)
        /\ \A m \in (n + 1)..Len(path) : ~Has(items, path, m)

\* What it has keeps the spelling it has, folders to come take the one they are given.
Spelling(items, path) ==
    IF path = Root THEN Root ELSE (CHOOSE i \in AtIn(items, path) : TRUE).path
Kept(items, path) ==
    LET n == Deepest(items, path)
    IN Spelling(items, SubSeq(path, 1, n)) \o SubSeq(path, n + 1, Len(path))

NoRecord == [read |-> "whole", ours |-> FALSE, path |-> Root, size |-> 0, modified |-> 0, bytes |-> 0]
Item(path, is, size, modified) ==
    [path |-> path, is |-> is, size |-> size, modified |-> modified, record |-> NoRecord]

HasFolder(items, path) == path = Root \/ \E i \in AtIn(items, path) : IsFolder(i)

\* The files of a transfer that are gone once it committed.
LeftBy(items, path) ==
    UNION {AtIn(items, Append(Parent(path), n)) : n \in ResumeFiles(Last(path))}

Ancestry(path) == {SubSeq(path, 1, n) : n \in 1..Len(path)}

\* create_dir_all: every folder of the path that is missing.  A folder need not be
\* listed to be written to.
MakeFolder(items, path) ==
    LET missing == {p \in Ancestry(path) : AtIn(items, p) = {}}
    IN [ok |-> \A p \in Ancestry(path) \ missing : HasFolder(items, p),
        items |-> items \cup {Item(Kept(items, p), "dir", 0, 0) : p \in missing}]

\* write refuses a folder, then makes the file's own; neither the part nor its
\* record can take the place of one either.
PutFile(items, a) ==
    LET folder == MakeFolder(items, Parent(a.path))
        path == Append(Kept(folder.items, Parent(a.path)), Last(a.path))
    IN [ok |-> folder.ok /\ \A i \in LeftBy(items, a.path) : ~IsFolder(i),
        items |-> (folder.items \ LeftBy(items, a.path))
                    \cup {Item(path, "file", a.size, a.modified)}]

Effect(a) ==
    CASE a.do = "mkdir" -> MakeFolder(volume, a.path)
      [] a.do = "copy" -> PutFile(volume, a)
      [] a.do = "skip" -> [ok |-> TRUE, items |-> volume]

\* Executor::step, from the volume's side.  Any write may fail, for want of space
\* or of leave; an action that failed leaves the volume as it was (the folders and
\* resume files it may have made are left out).
RunAction ==
    /\ phase \in {"ready", "run"} /\ round = 0 /\ ran < Len(Actions)
    /\ LET a == Actions[ran + 1]
           end == Effect(a)
       IN  /\ \/ /\ end.ok
                 /\ volume' = end.items /\ UNCHANGED failed
              \/ /\ a.do # "skip"
                 /\ failed' = failed \cup {a.path} /\ UNCHANGED volume
           /\ rootIs' = IF a.do = "skip" \/ rootIs = "locked" THEN rootIs ELSE "dir"
    /\ phase' = "run" /\ ran' = ran + 1
    /\ UNCHANGED <<folds, baseTells, scanVars, cancelled, given, decider, round>>

\* The run is over, and another one looks at what it left.
RunAgain ==
    /\ phase \in {"ready", "run"} /\ round = 0 /\ ran = Len(Actions)
    /\ round' = 1
    /\ phase' = "idle" /\ at' = 1 /\ claims' = {} /\ blocked' = <<>>
    /\ mkdirs' = <<>> /\ files' = <<>> /\ conflicts' = <<>>
    /\ ScanAgain
    /\ UNCHANGED <<disk, cancelled, given, ran, failed>>

Next == Scan \/ Cancel \/ Begin \/ Plan \/ RunAction \/ RunAgain

Spec == Init /\ [][Next]_vars
-----------------------------------------------------------------------------
\* Scanning and planning hold what the code's types allow; at most one folder is
\* blocked, and there is at most one action per source entry.
TypeOK ==
    /\ walk \in {"stat", "walk", "listed", "over", "failed"} /\ toVisit \subseteq volume
    /\ phase \in {"idle", "collect", "decide", "ready", "conflicts", "run"}
    /\ at \in 1..(Len(source) + 1) /\ folding \in Foldings /\ policy \in Policies
    /\ Len(blocked) <= 1 /\ Len(mkdirs) + Len(files) <= Len(source)
    /\ round \in 0..1 /\ ran \in 0..Len(source)

\* Whether the scan learned how the volume compares names.
FoldingKnown == folding = folds

\* Whether a path leads through a folder the scan could not list.  What lies there
\* is on record as an omission (ListingIsWhole), and for the plan it is not there.
Hidden(path) ==
    \/ rootIs = "locked"
    \/ \E i \in volume : /\ i.is = "locked"
                          /\ \E n \in 1..(Len(path) - 1) : Same(i.path, SubSeq(path, 1, n), folds)

\* Every entry of the phone has one fate: one action, or it is a folder the
\* destination already has (decide; nothing a blocked folder holds is forgotten).
EveryEntryHasOneFate ==
    phase = "ready" =>
        \A i \in DOMAIN source :
            LET fates == {j \in DOMAIN Actions : Actions[j].path = source[i].path}
            IN \/ Cardinality(fates) = 1
               \/ /\ fates = {} /\ source[i].kind = "dir"
                  /\ \E x \in Get(source[i].path) : x.kind = "dir"

\* The same where the probe had a name to try: two files of the phone that
\* differ only by case are reported rather than silently merged (README).
NeverMergesSilently ==
    phase = "ready" /\ baseTells # "nothing" =>
        \A i, j \in Done({"copy"}) :
            i # j => ~Same(Actions[i].path, Actions[j].path, folds)

\* Everything a plan puts somewhere has a place of its own.  No two things are
\* one name on the volume, folders that merge aside (Claims); each has a folder
\* to land in, one the volume has or one the plan makes before it; and, where the
\* scan could look, no file is to replace a folder or a folder a file (refuse,
\* into_plan, decide_dir).
EverythingHasAPlace ==
    phase = "ready" /\ FoldingKnown =>
        \A i \in Done({"copy", "mkdir"}) :
            /\ \A j \in Done({"copy", "mkdir"}) \ {i} :
                Same(Actions[i].path, Actions[j].path, folds) =>
                    Actions[i].do = "mkdir" /\ Actions[j].do = "mkdir"
            /\ \/ HasFolder(volume, Parent(Actions[i].path))
               \/ \E j \in 1..(i - 1) : /\ Actions[j].do = "mkdir"
                                        /\ Same(Actions[j].path, Parent(Actions[i].path), folds)
            /\ ~Hidden(Actions[i].path) =>
                /\ ~HasFolder(volume, Actions[i].path)
                /\ \A x \in AtIn(volume, Actions[i].path) :
                    x.is = "file" => Actions[i].do = "copy"

\* A pull without a policy overwrites no file the scan could have seen:
\* collect_conflicts looks where the volume would put each copy, and the
\* decisions of the second pass meet no conflict the first one did not (the
\* comment in decide_file relies on it).  OnConflict::Fail says that conflicts
\* abort before any byte moves, of every file; the code does not keep that of a
\* Hidden one, which is new to the plan and is renamed over.
FailTouchesNothing ==
    phase = "ready" /\ policy = "fail" =>
        /\ \A i \in DOMAIN files : files[i].reason \in {"new", "identical"}
        /\ FoldingKnown => \A i \in Done({"copy"}) : ~Hidden(Actions[i].path) =>
            ~\E x \in AtIn(volume, Actions[i].path) : x.is = "file"

\* A copy resumes only on bytes the volume has, that a record of this very
\* path and version of the file vouches for, and no more than the part holds
\* (collect_partial, is_valid_for, resume_offset).
ResumesWhatWasVouched ==
    phase = "ready" =>
        \A i \in Done({"copy"}) : Actions[i].from > 0 =>
            /\ Actions[i].from <= Actions[i].size
            /\ \E part \in AtIn(volume, Append(Parent(Actions[i].path),
                                               PartOf[Last(Actions[i].path)])) :
                part.is = "file" /\ part.size >= Actions[i].from
            /\ \E s \in volume :
                /\ IsSidecar(s) /\ FinalPath(s) = Actions[i].path
                /\ s.record.ours /\ s.record.bytes = Actions[i].from
                /\ s.record.size = Actions[i].size /\ s.record.modified = Actions[i].modified

\* What was carried out in full needs nothing more: a second run has nothing
\* to copy and no folder to make, under every policy, provided both runs knew
\* how the volume compares names and could list where the files went.
SecondRunHasNothingToDo ==
    /\ phase \in {"ready", "conflicts"} /\ round = 1 /\ failed = {} /\ baseTells = folds
    /\ ~\E i \in DOMAIN source : Hidden(source[i].path)
    => phase = "ready" /\ Done({"copy", "mkdir"}) = {}

=============================================================================
