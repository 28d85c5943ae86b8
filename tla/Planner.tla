------------------------------- MODULE Planner -------------------------------
(***************************************************************************)
(* The decision procedure: two listings become an ordered plan, or the     *)
(* list of conflicts that rules one out.  One step decides one entry of    *)
(* the source, in the order of its snapshot.                               *)
(***************************************************************************)
EXTENDS RelPath

VARIABLES
    source,      \* the phone's snapshot
    dest,        \* the entries of the destination
    folding,     \* how the destination compares names
    partials,    \* its resumable partials: [path, size, modified, bytes]
    policy,      \* ConflictPolicy
    phase,       \* "idle", "collect", "decide", "ready", "conflicts"
    at,          \* the entry to look at next
    claims,      \* names taken by earlier entries: [name, kind]
    blocked,     \* the folder that cannot exist, if any: <<[path, reason]>>
    mkdirs, files,   \* the actions so far
    conflicts    \* the paths Error::Conflicts lists

given   == <<source, dest, folding, partials, policy>>
decider == <<at, claims, blocked, mkdirs, files, conflicts>>
plannerVars == <<given, phase, decider>>

Policies == {"fail", "wins", "skip"}

Blank ==
    /\ at = 1 /\ claims = {} /\ blocked = <<>>
    /\ mkdirs = <<>> /\ files = <<>> /\ conflicts = <<>>

\* A plan of what two scans found.
BeginPlan(listing) ==
    /\ phase = "idle"
    /\ dest' = listing.entries /\ partials' = listing.partials
    /\ folding' = listing.folding
    /\ phase' = IF policy = "fail" THEN "collect" ELSE "decide"
    /\ UNCHANGED <<source, policy, decider>>

entry == source[at]
More(step) == phase = step /\ at <= Len(source)
Next1 == at' = at + 1
-----------------------------------------------------------------------------
(* What the destination holds and what the source has claimed.             *)

\* Slip: names are looked up byte for byte on every volume.
GetExactly(path) == {e \in dest : e.path = path}

\* DestIndex: the first entry, in order, that the destination takes for path.
Get(path) ==
    LET alike == {e \in dest : Same(e.path, path, folding)}
    IN {e \in alike : \A f \in alike : ~Before(f.path, e.path)}

\* Slip: entries of one kind merge, be they folders or files.
CollidesAcrossKinds(e) ==
    /\ folding = "insensitive"
    /\ \E c \in claims : c.name = Fold(e.path) /\ c.kind # e.kind

\* Two folders merge; anything else cannot share a name.
Collides(e) ==
    /\ folding = "insensitive"
    /\ \E c \in claims : c.name = Fold(e.path) /\ ~(e.kind = "dir" /\ c.kind = "dir")

Claimed(e) ==
    IF folding = "exact" \/ \E c \in claims : c.name = Fold(e.path)
    THEN claims
    ELSE claims \cup {[name |-> Fold(e.path), kind |-> e.kind]}

IsConflict(e, existing) == e.kind # existing.kind \/ e.size # existing.size

\* Slip: names that fold to one another are no conflict.
ConflictingOnDisk(e) == \E existing \in Get(e.path) : IsConflict(e, existing)

Conflicting(e) ==
    Collides(e) \/ \E existing \in Get(e.path) : IsConflict(e, existing)
-----------------------------------------------------------------------------
(* Under the policy that refuses, every conflict is found first.           *)

CollectConflict ==
    /\ More("collect")
    /\ conflicts' = IF Conflicting(entry) THEN Append(conflicts, entry.path) ELSE conflicts
    /\ claims' = Claimed(entry)
    /\ Next1
    /\ UNCHANGED <<given, phase, blocked, mkdirs, files>>

EndCollect ==
    /\ phase = "collect" /\ at > Len(source)
    /\ phase' = IF conflicts = <<>> THEN "decide" ELSE "conflicts"
    /\ at' = 1 /\ claims' = {}
    /\ UNCHANGED <<given, blocked, mkdirs, files, conflicts>>
-----------------------------------------------------------------------------
(* The actions of a plan.                                                  *)

Action(do, e, from, reason) ==
    [do |-> do, path |-> e.path, size |-> e.size, modified |-> e.modified,
     from |-> from, reason |-> reason]
Skip(e, reason) == Action("skip", e, 0, reason)

\* Slip: a partial of another version of the file counts.
OffsetOfAny(e) ==
    IF \E p \in partials : p.path = e.path
    THEN (CHOOSE p \in partials : p.path = e.path).bytes
    ELSE 0

ResumeOffset(e) ==
    LET matching == {p \in partials : /\ p.path = e.path
                                      /\ p.size = e.size /\ p.modified = e.modified
                                      /\ p.bytes <= e.size}
    IN IF matching = {} THEN 0 ELSE (CHOOSE p \in matching : TRUE).bytes

Copy(e, reason) == Action("copy", e, ResumeOffset(e), reason)

DecideFile(e) ==
    LET existing == Get(e.path)
    IN IF existing = {} THEN Copy(e, "new")
       ELSE IF \E x \in existing : x.kind = "dir" THEN Skip(e, "kind")
       ELSE IF ~\E x \in existing : IsConflict(e, x) THEN Skip(e, "identical")
       ELSE IF policy = "skip" THEN Skip(e, "conflict")
       ELSE Copy(e, "differs")
-----------------------------------------------------------------------------
(* One entry decided.                                                      *)

IsBlocked(e) == blocked # <<>> /\ StartsWith(e.path, blocked[1].path)
Unblocked == blocked' = IF IsBlocked(entry) THEN blocked ELSE <<>>

\* A folder takes everything beneath it along.
Refuse(e, reason) ==
    /\ blocked' = IF e.kind = "dir" THEN <<[path |-> e.path, reason |-> reason]>> ELSE <<>>
    /\ files' = Append(files, Skip(e, reason))

\* Slip: what a blocked folder holds is passed over in silence.
DecideBlockedSilently ==
    /\ More("decide") /\ IsBlocked(entry)
    /\ Next1
    /\ UNCHANGED <<given, phase, claims, blocked, mkdirs, files, conflicts>>

DecideBlocked ==
    /\ More("decide") /\ IsBlocked(entry)
    /\ files' = Append(files, Skip(entry, blocked[1].reason))
    /\ Next1
    /\ UNCHANGED <<given, phase, claims, blocked, mkdirs, conflicts>>

DecideCollision ==
    /\ More("decide") /\ ~IsBlocked(entry) /\ Collides(entry)
    /\ Refuse(entry, "collision")
    /\ claims' = Claimed(entry)
    /\ Next1
    /\ UNCHANGED <<given, phase, mkdirs, conflicts>>

Free(kind) ==
    /\ More("decide") /\ ~IsBlocked(entry) /\ ~Collides(entry)
    /\ entry.kind = kind
    /\ claims' = Claimed(entry)
    /\ Next1
    /\ UNCHANGED <<given, phase, conflicts>>

DecideMkdir ==
    /\ Free("dir") /\ Get(entry.path) = {}
    /\ mkdirs' = Append(mkdirs, Action("mkdir", entry, 0, "none"))
    /\ Unblocked
    /\ UNCHANGED files

DecideExists ==
    /\ Free("dir") /\ \E x \in Get(entry.path) : x.kind = "dir"
    /\ Unblocked
    /\ UNCHANGED <<mkdirs, files>>

\* Slip: the folder that cannot exist is planned as well.
DecideInTheWayAnyway ==
    /\ Free("dir") /\ \E x \in Get(entry.path) : x.kind = "file"
    /\ Refuse(entry, "kind")
    /\ mkdirs' = Append(mkdirs, Action("mkdir", entry, 0, "none"))

DecideInTheWay ==
    /\ Free("dir") /\ \E x \in Get(entry.path) : x.kind = "file"
    /\ Refuse(entry, "kind")
    /\ UNCHANGED mkdirs

DecideOneFile ==
    /\ Free("file")
    /\ files' = Append(files, DecideFile(entry))
    /\ Unblocked
    /\ UNCHANGED mkdirs

EndDecide ==
    /\ phase = "decide" /\ at > Len(source)
    /\ phase' = "ready"
    /\ UNCHANGED <<given, decider>>

PlannerNext ==
    \/ CollectConflict \/ EndCollect
    \/ DecideBlocked \/ DecideCollision
    \/ DecideMkdir \/ DecideExists \/ DecideInTheWay \/ DecideOneFile
    \/ EndDecide
-----------------------------------------------------------------------------
(* The plan.                                                               *)

Actions == mkdirs \o files
Done(kinds) == {i \in DOMAIN Actions : Actions[i].do \in kinds}
=============================================================================
