----------------------------- MODULE DeviceWalk -----------------------------
(***************************************************************************)
(* Opening a remote path and listing what lies beneath it: locate_root and *)
(* find_child walk to the root of the transfer one folder per segment,     *)
(* walk lists every folder under it, pick_file looks a single file up      *)
(* again.  Every listing is one call to the phone, which may change        *)
(* between any two.                                                        *)
(***************************************************************************)
EXTENDS Phone, CancelToken, FiniteSets

CONSTANTS
    RootPaths,     \* remote paths a user asks for
    Reserved       \* names ending like the files of a transfer in progress

ASSUME DeviceWalkAssumption == RootPaths \subseteq Seq(STRING)

\* Nobody asks for a file by the name of one of a transfer in progress.
PlainRoots == \A p \in RootPaths : p # <<>> => Last(p) \notin Reserved

VARIABLES
    scan,        \* "locate", "opened", "walk", "pick", "find", "picked", "walked", "failed"
    error,       \* what it failed with
    rootPath,    \* RemotePath
    left,        \* its segments that were not found yet
    root,        \* the folder everything is listed under, a handle
    file,        \* the objects behind a root that is a file: none or one
    pending,     \* folders to list yet, the last first: [path, handle]
    visited,     \* handles of the folders met, while the walk lasts
    entries,     \* what was found: [path, handle, folder], while the walk lasts
    skipped,     \* what was left out, while the walk lasts: [parent, object]
    snapshot     \* the files the planner is told of, as paths

opened == <<rootPath, left, root, file>>
walked == <<pending, visited, entries, skipped, snapshot>>
walkVars == <<scan, error, opened, walked>>

WalkInit ==
    /\ scan = "locate" /\ error = "none"
    /\ rootPath \in RootPaths /\ left = rootPath /\ root = RootHandle /\ file = {}
    /\ pending = <<>> /\ visited = {} /\ entries = {} /\ skipped = {}
    /\ snapshot = {}

FailScan(e) ==
    /\ scan' = "failed" /\ error' = e
    /\ UNCHANGED <<opened, walked>>

IsFolder(h) == h.object \in Folders

\* What a call answers instead of an answer: the token ends it (only a listing
\* takes the token), the phone fails it.
ListingFails(h, e) ==
    \/ cancelled /\ e = "cancelled" /\ UNCHANGED since
    \/ ~cancelled /\ e = "device" /\ Refuses(1)
    \/ ~cancelled /\ ~Names(h) /\ e = "stale" /\ UNCHANGED since

ListingAnswers(h, listing) ==
    /\ ~cancelled
    /\ listing \in Listings(h)
    /\ Cardinality(listing.refused) <= 1 /\ Refuses(Cardinality(listing.refused))
-----------------------------------------------------------------------------
(* Classification of a listing.                                            *)

\* classify, repeated_names, child_path: the first object of a name has it,
\* and no object may have a name a transfer in progress uses.
IsRepeated(listed, i) == \E j \in 1..(i - 1) : Name[listed[j]] = Name[listed[i]]

\* Slip: an object is compared with the one before it only.
NamesChildNeighbour(listed, i) ==
    /\ Name[listed[i]] \notin Reserved
    /\ i > 1 => Name[listed[i - 1]] # Name[listed[i]]

NamesChild(listed, i) ==
    /\ Name[listed[i]] \notin Reserved
    /\ ~IsRepeated(listed, i)

NamedIn(listed) == {i \in DOMAIN listed : NamesChild(listed, i)}

\* list_folder: the children that could be named, and all that could not.
Child(path, o) ==
    [path |-> Append(path, Name[o]), handle |-> Handle(o), folder |-> o \in Folders]
ChildrenOf(path, listing) ==
    {Child(path, listing.listed[i]) : i \in NamedIn(listing.listed)}

\* Slip: an object that could not be named is dropped without a word.
LeftOutRefused(path, listing) == {[parent |-> path, object |-> o] : o \in listing.refused}

LeftOut(path, listing) ==
    {[parent |-> path, object |-> o] :
        o \in listing.refused \cup
              {listing.listed[i] : i \in DOMAIN listing.listed \ NamedIn(listing.listed)}}
-----------------------------------------------------------------------------
(* Opening.                                                                *)

\* find_child stops at the first object of the name it looks for.
FirstCalled(name, listed) ==
    {listed[i] : i \in {j \in DOMAIN listed : Name[listed[j]] = name /\ ~IsRepeated(listed, j)}}

\* locate_root; Target::found.
LocateSegment ==
    /\ scan = "locate" /\ left # <<>>
    /\ \/ \E e \in {"cancelled", "device", "stale"} : ListingFails(root, e) /\ FailScan(e)
       \/ \E listing \in Listings(root) :
            /\ ListingAnswers(root, listing)
            /\ LET hits == FirstCalled(Head(left), listing.listed)
               IN  \/ /\ hits = {}
                      /\ FailScan(IF listing.refused = {} THEN "notFound" ELSE "undescribed")
                   \/ /\ hits \cap Folders = {} /\ hits # {} /\ Len(left) > 1
                      /\ FailScan("notDirectory")
                   \/ \E o \in hits :
                      /\ o \in Folders \/ Len(left) = 1
                      /\ left' = Tail(left)
                      /\ IF o \in Folders
                         THEN root' = Handle(o) /\ UNCHANGED file
                         ELSE file' = {Handle(o)} /\ UNCHANGED root
                      /\ UNCHANGED <<scan, error, rootPath, walked>>
    /\ UNCHANGED <<phone, cancelled>>

Located ==
    /\ scan = "locate" /\ left = <<>>
    /\ scan' = "opened"
    /\ UNCHANGED <<phone, since, cancelled, error, opened, walked>>

\* MtpEndpoint::scan: a folder is walked, a single file is picked.
BeginScan ==
    /\ scan = "opened"
    /\ scan' = IF file = {} THEN "walk" ELSE "pick"
    /\ pending' = <<[path |-> <<>>, handle |-> root]>>
    /\ visited' = {root}
    /\ since' = Undisturbed
    /\ UNCHANGED <<phone, cancelled, error, opened, entries, skipped, snapshot>>
-----------------------------------------------------------------------------
(* The walk.                                                               *)

\* The n-th of some places in a listing.
Nth(some, n) == CHOOSE i \in some : Cardinality({j \in some : j < i}) = n - 1

\* Walked::record and skip, over the children in the order they were listed.
Record(path, listing) ==
    LET listed == listing.listed
        again == {i \in NamedIn(listed) : listed[i] \in Folders /\ Handle(listed[i]) \in visited}
        fresh == NamedIn(listed) \ again
        beneath == {i \in fresh : listed[i] \in Folders}
        toList(o) == [path |-> Append(path, Name[o]), handle |-> Handle(o)]
    IN  /\ entries' = entries \cup {Child(path, listed[i]) : i \in fresh}
        /\ visited' = visited \cup {Handle(listed[i]) : i \in beneath}
        /\ pending' = Front(pending)
                         \o [n \in 1..Cardinality(beneath) |-> toList(listed[Nth(beneath, n)])]
        /\ skipped' = skipped \cup LeftOut(path, listing)
                         \cup {[parent |-> path, object |-> listed[i]] : i \in again}
        /\ UNCHANGED snapshot

WalkFolder ==
    /\ scan = "walk" /\ pending # <<>>
    /\ LET folder == Last(pending)
       IN  \/ /\ \E e \in {"cancelled", "device", "stale"} :
                    ListingFails(folder.handle, e) /\ FailScan(e)
           \/ /\ \E listing \in Listings(folder.handle) :
                    /\ ListingAnswers(folder.handle, listing)
                    /\ Record(folder.path, listing)
              /\ UNCHANGED <<scan, error, opened>>
    /\ UNCHANGED <<phone, cancelled>>

\* The last folder is listed, or the single file is found.
WalkIsOver == \/ scan = "walk" /\ pending = <<>>
              \/ scan = "picked"

WalkDone ==
    /\ WalkIsOver
    /\ scan' = "walked"
    /\ snapshot' = {e.path : e \in {d \in entries : ~d.folder}}
    /\ pending' = <<>> /\ visited' = {} /\ entries' = {} /\ skipped' = {}
    /\ UNCHANGED <<phone, since, cancelled, error, opened>>
-----------------------------------------------------------------------------
(* A single file.                                                          *)

PickedAs(h) ==
    /\ scan' = "picked"
    /\ entries' = {[path |-> <<Last(rootPath)>>, handle |-> h, folder |-> FALSE]}
    /\ pending' = <<>> /\ visited' = {}
    /\ UNCHANGED <<error, opened, skipped, snapshot>>

\* revalidate asks for the object seen at open; a stale handle is looked up by name.
Revalidate ==
    /\ scan = "pick"
    /\ \E h \in file :
        \/ cancelled /\ FailScan("cancelled") /\ UNCHANGED since
        \/ ~cancelled /\ Refuses(1) /\ FailScan("device")
        \/ ~cancelled /\ Names(h) /\ PickedAs(h) /\ UNCHANGED since
        \/ /\ ~cancelled /\ ~Names(h)
           /\ scan' = "find"
           /\ UNCHANGED <<since, error, opened, walked>>
    /\ UNCHANGED <<phone, cancelled>>

\* find_file lists the folder once.
FindFile ==
    /\ scan = "find"
    /\ \/ \E e \in {"cancelled", "device", "stale"} : ListingFails(root, e) /\ FailScan(e)
       \/ \E listing \in Listings(root) :
            /\ ListingAnswers(root, listing)
            /\ LET found == {c \in ChildrenOf(<<>>, listing) :
                                 c.path = <<Last(rootPath)>> /\ ~c.folder}
               IN  \/ found = {} /\ FailScan("vanished")
                   \/ \E c \in found : PickedAs(c.handle)
    /\ UNCHANGED <<phone, cancelled>>
-----------------------------------------------------------------------------
WalkStep ==
    LocateSegment \/ Located \/ BeginScan \/ WalkFolder \/ Revalidate \/ FindFile
-----------------------------------------------------------------------------
(* Properties.                                                             *)

\* The walk holds what the code's types allow: a scan has
\* failed exactly when it has an error, and a folder to be listed yet was visited.
WalkTypeOK ==
    /\ scan \in {"locate", "opened", "walk", "pick", "find", "picked", "walked", "failed"}
    /\ error \in {"none", "cancelled", "device", "stale", "notFound", "undescribed",
                  "notDirectory", "vanished"}
    /\ (scan = "failed") = (error # "none")
    /\ root \in Handles /\ file \subseteq Handles
    /\ scan = "walk" => \A i \in DOMAIN pending : pending[i].handle \in visited
    /\ visited \subseteq Handles
    /\ \A e \in entries : e.handle \in Handles /\ e.folder = IsFolder(e.handle)

\* What the planner and the cache are given is a tree, whatever the phone lists
\* and however it changes meanwhile: a path stands for one object, what lies in a
\* folder comes with that folder, and no folder is listed twice.
FindsATree ==
    /\ \A e, f \in entries : e.path = f.path => e = f
    /\ \A e, f \in entries : e.folder /\ e.handle = f.handle => e = f
    /\ \A e \in entries :
           Len(e.path) > 1 => \E f \in entries : f.folder /\ f.path = Front(e.path)

\* A scan of a phone that keeps still leaves nothing out in silence: what each
\* folder lists is an entry, or on record as skipped there.
NothingLost ==
    WalkIsOver /\ file = {} /\ since.changes = 0 =>
        \A f \in {[path |-> <<>>, handle |-> root]}
                    \cup {[path |-> e.path, handle |-> e.handle] : e \in {d \in entries : d.folder}} :
            \A o \in Children(f.handle) :
                \/ [parent |-> f.path, object |-> o] \in skipped
                \/ [path |-> Append(f.path, Name[o]), handle |-> Handle(o),
                    folder |-> o \in Folders] \in entries
=============================================================================
