------------------------------- MODULE Phone -------------------------------
(***************************************************************************)
(* What mtpx relies on of a phone (external: mtp-rs, USB and Android).  An *)
(* object has a name and lies in a folder; the phone names it by a handle  *)
(* and gives it a fresh one whenever it likes (a media rescan), so that an *)
(* old handle is stale: it never comes to name another object.             *)
(***************************************************************************)
EXTENDS Naturals, Sequences, SequencesExt, FiniteSets

CONSTANTS
    Objects,       \* what may lie on the storage
    Storage,       \* the storage root, listed like a folder (None in the code)
    Name,          \* of each object
    Folders,       \* the objects that are folders
    Under,         \* the folders each object is listed in; an index that
                   \* drifted from the file system may list one twice, or in itself
    AtFirst,       \* the sets of objects that may be there to begin with
    MaxChanges     \* bound on how often the phone changes

ASSUME PhoneAssumption ==
    /\ IsFiniteSet(Objects) /\ Storage \notin Objects
    /\ Name \in [Objects -> STRING]
    /\ Folders \subseteq Objects
    /\ \A o \in Objects : Under[o] \subseteq Folders \cup {Storage}
    /\ AtFirst \subseteq SUBSET Objects

VARIABLES
    alive,     \* the objects there are
    key,       \* how often each was given a handle
    changed,   \* how often it changed, up to the bound
    since      \* what happened since the last scan or read began (history)

phone == <<alive, key, changed>>

\* A handle of an object, and the one that stands for the storage root.
Handle(o) == [object |-> o, key |-> key[o]]
RootHandle == [object |-> Storage, key |-> 0]
Handles == [object : Objects \cup {Storage}, key : Nat]

Names(h) == h = RootHandle \/ (h.object \in alive /\ key[h.object] = h.key)
Children(h) == {o \in alive : h.object \in Under[o]}

Undisturbed == [changes |-> 0, rekeys |-> 0, faults |-> 0]

PhoneInit ==
    /\ alive \in AtFirst
    /\ key = [o \in Objects |-> 1]
    /\ changed = 0
    /\ since = Undisturbed

\* A way down a path: each object lies in the one before it, the first in the root.
LeadsDown(way, path) ==
    \A n \in DOMAIN path :
        /\ Name[way[n]] = path[n]
        /\ (IF n = 1 THEN Storage ELSE way[n - 1]) \in Under[way[n]]

\* The objects a path may name, by a way through some of them.
AtPathThrough(some, path) ==
    IF path = <<>> THEN {Storage}
    ELSE {way[Len(path)] : way \in {w \in [DOMAIN path -> some] : LeadsDown(w, path)}}
AtPath(path) == AtPathThrough(Objects, path)

\* A folder shares its name with nothing that lies beside it.
FoldersStandOut ==
    \A o, p \in Objects :
        o \in Folders /\ o # p /\ Name[o] = Name[p] => Under[o] \cap Under[p] = {}
-----------------------------------------------------------------------------
(* Answers.                                                                *)

\* A listing of what h names: the children in some order, but for those the
\* phone refuses to describe.  A folder that is gone, or has another handle by
\* now, is an error on some phones and empty on others.
Listings(h) ==
    IF Names(h)
    THEN UNION {{[listed |-> order, refused |-> some] :
                    order \in SetToSeqs(Children(h) \ some)} :
                    some \in SUBSET Children(h)}
    ELSE {[listed |-> <<>>, refused |-> {}]}

\* The phone refuses objects and fails calls once at most per scan or read.
Refuses(n) ==
    /\ since.faults + n <= 1
    /\ since' = [since EXCEPT !.faults = @ + n]
-----------------------------------------------------------------------------
(* Changes.                                                                *)

Change(rekeys) ==
    /\ changed < MaxChanges
    /\ changed' = changed + 1
    /\ since' = [since EXCEPT !.changes = @ + 1, !.rekeys = @ + rekeys]

\* A media rescan gives every object, or just one, a new handle.
Rekey ==
    /\ \E some \in {Objects} \cup {{o} : o \in alive} :
           key' = [o \in Objects |-> IF o \in some THEN key[o] + 1 ELSE key[o]]
    /\ key' # key
    /\ Change(1)
    /\ UNCHANGED alive

\* What is listed nowhere else goes with its folder (trees of three levels).
Held(some) == {o \in some : \E f \in Under[o] : f # o /\ f \in some \cup {Storage}}

Lose ==
    /\ \E o \in alive : alive' = Held(Held(alive \ {o}))
    /\ Change(0)
    /\ UNCHANGED key

Appear ==
    /\ \E o \in Objects \ alive :
           /\ Under[o] \cap (alive \cup {Storage}) # {}
           /\ alive' = alive \cup {o}
           /\ key' = [key EXCEPT ![o] = @ + 1]
    /\ Change(0)

PhoneChanges == Rekey \/ Lose \/ Appear
=============================================================================
