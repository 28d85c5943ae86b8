------------------------------ MODULE Resolver ------------------------------
(***************************************************************************)
(* The handle cache of one endpoint, and a read that goes through it.  The *)
(* cache remembers what the phone listed; the phone re-keys, loses and     *)
(* gains objects between any two calls.  A read resolves its path, opens   *)
(* the handle, and on a stale one tries again: first with the object       *)
(* forgotten, then with everything forgotten.                              *)
(***************************************************************************)
EXTENDS DeviceWalk

VARIABLES
    cache,       \* HandleCache: from paths below the root to handles
    reader,      \* "idle", "resolve", "descend", "operate", "probe", "opened", "failed"
    path,        \* what is read
    attempt,     \* 1, then 2 and 3 in recover
    level,       \* how many segments of the path are resolved
    target,      \* the handle of that many segments
    failure,     \* what a failed read answers
    known        \* what the cache held of the path when the read began (history)

position == <<path, attempt, level, target, known>>
readVars == <<cache, reader, position, failure>>
outside == <<phone, cancelled, walkVars>>

ResolverInit ==
    /\ cache = <<>> /\ reader = "idle" /\ failure = "none"
    /\ path = <<>> /\ attempt = 1 /\ level = 0 /\ target = RootHandle
    /\ known = "nothing"

\* A read that is over leaves nothing but the cache.
Rest ==
    /\ reader' = "idle" /\ failure' = "none"
    /\ path' = <<>> /\ attempt' = 1 /\ level' = 0 /\ target' = RootHandle
    /\ known' = "nothing" /\ since' = Undisturbed
    /\ UNCHANGED cache

Prefix(n) == SubSeq(path, 1, n)

\* HandleCache::prime, remove and clear.
Primed(some) ==
    LET paths == {e.path : e \in some}
    IN  [p \in paths \cup DOMAIN cache |->
            IF p \in paths THEN (CHOOSE e \in some : e.path = p).handle ELSE cache[p]]
Forgotten(kept, p) == [q \in DOMAIN kept \ {p} |-> kept[q]]
-----------------------------------------------------------------------------
\* MtpEndpoint::scan hands the cache what the walk found.
Prime ==
    /\ WalkIsOver
    /\ cache' = Primed(entries)
    /\ UNCHANGED <<reader, position, failure>>

BeginRead ==
    /\ scan = "walked" /\ reader = "idle"
    /\ path' \in snapshot
    /\ known' = IF path' \notin DOMAIN cache THEN "nothing"
                ELSE IF Names(cache[path']) THEN "handle" ELSE "stale"
    /\ reader' = "resolve" /\ attempt' = 1 /\ level' = 0 /\ target' = root
    /\ since' = Undisturbed
    /\ UNCHANGED <<outside, cache, failure>>

TryAgain(n, kept) ==
    /\ attempt' = n /\ cache' = kept
    /\ reader' = "resolve" /\ level' = 0 /\ target' = root
    /\ UNCHANGED <<path, known, failure>>

Answer(e, kept) ==
    /\ reader' = "failed" /\ failure' = e /\ cache' = kept
    /\ UNCHANGED position

\* Slip: a path that keeps going stale is tried again and again.
OutcomeStubborn(e, kept) ==
    CASE e = "stale" -> TryAgain(attempt + 1, Forgotten(kept, path))
      [] e = "vanished" /\ attempt = 2 ->
           reader' = "probe" /\ cache' = kept /\ UNCHANGED <<position, failure>>
      [] OTHER -> Answer(e, kept)

\* with_handle and recover, by the number of tries: what an error leads to.
Outcome(e, kept) ==
    CASE e = "stale" /\ attempt = 1 ->
           TryAgain(2, Forgotten(kept, path))
      [] e = "stale" /\ attempt = 2 -> TryAgain(3, <<>>)
      [] e = "vanished" /\ attempt = 2 ->
           reader' = "probe" /\ cache' = kept /\ UNCHANGED <<position, failure>>
      [] OTHER -> Answer(e, kept)

\* resolve: the path itself, or a walk down to its parent and one listing more.
Resolve ==
    /\ reader = "resolve"
    /\ IF path \in DOMAIN cache
       THEN reader' = "operate" /\ level' = Len(path) /\ target' = cache[path]
       ELSE reader' = "descend" /\ UNCHANGED <<level, target>>
    /\ UNCHANGED <<outside, since, cache, path, attempt, known, failure>>

\* child: found in the cache
DescendCached ==
    /\ reader = "descend" /\ Prefix(level + 1) \in DOMAIN cache
    /\ target' = cache[Prefix(level + 1)] /\ level' = level + 1
    /\ reader' = IF level + 1 = Len(path) THEN "operate" ELSE "descend"
    /\ UNCHANGED <<outside, since, cache, path, attempt, known, failure>>

\* Slip: the listing is taken to be the root's.
DescendListedAtRoot ==
    /\ reader = "descend" /\ Prefix(level + 1) \notin DOMAIN cache
    /\ \/ \E e \in {"cancelled", "device", "stale"} : ListingFails(root, e) /\ Outcome(e, cache)
       \/ \E listing \in Listings(root) :
            /\ ListingAnswers(root, listing)
            /\ LET now == Primed(ChildrenOf(Prefix(level), listing))
               IN  IF Prefix(level + 1) \in DOMAIN now
                   THEN /\ cache' = now
                        /\ UNCHANGED <<reader, position, failure>>
                   ELSE Outcome("vanished", now)
    /\ UNCHANGED outside

\* child: listed, which teaches the cache the siblings as well
DescendListed ==
    /\ reader = "descend" /\ Prefix(level + 1) \notin DOMAIN cache
    /\ \/ \E e \in {"cancelled", "device", "stale"} : ListingFails(target, e) /\ Outcome(e, cache)
       \/ \E listing \in Listings(target) :
            /\ ListingAnswers(target, listing)
            /\ LET now == Primed(ChildrenOf(Prefix(level), listing))
               IN  IF Prefix(level + 1) \in DOMAIN now
                   THEN /\ cache' = now
                        /\ UNCHANGED <<reader, position, failure>>
                   ELSE Outcome("vanished", now)
    /\ UNCHANGED outside

\* attempt: the download is opened on the handle.
Operate ==
    /\ reader = "operate"
    /\ \/ /\ Names(target)
          /\ reader' = "opened"
          /\ UNCHANGED <<since, cache, position, failure>>
       \/ ~Names(target) /\ Outcome("stale", cache) /\ UNCHANGED since
       \/ Refuses(1) /\ Outcome("device", cache)
    /\ UNCHANGED outside

\* Slip: a path that vanished on the second try is taken at its word.
ProbeNothing ==
    /\ reader = "probe"
    /\ Answer("vanished", cache)
    /\ UNCHANGED <<outside, since>>

\* Slip: every disappearance passes for a media rescan.
ParentIsStaleAlways == TRUE

\* parent_is_stale: the storage root is never cached and never stale.
ParentIsStale == Front(path) \in DOMAIN cache /\ ~Names(cache[Front(path)])

\* recover: only then is the cache thrown away; a probe that fails proves nothing.
Probe ==
    /\ reader = "probe"
    /\ \/ ParentIsStale /\ TryAgain(3, <<>>) /\ UNCHANGED since
       \/ ~ParentIsStale /\ Answer("vanished", cache) /\ UNCHANGED since
       \/ Front(path) \in DOMAIN cache /\ Refuses(1) /\ Answer("vanished", cache)
    /\ UNCHANGED outside

\* The executor has the error; it may well read the path again.
ReadFailed == reader = "failed" /\ Rest /\ UNCHANGED outside

ReadStep == ReadFailed \/ Resolve \/ DescendCached \/ DescendListed \/ Operate \/ Probe
-----------------------------------------------------------------------------
(* Properties.                                                             *)

\* The cache and a read under way hold what the code's types allow, and no read
\* makes more attempts than with_handle and recover do.
ResolverTypeOK ==
    /\ reader \in {"idle", "resolve", "descend", "operate", "probe", "opened", "failed"}
    /\ DOMAIN cache \subseteq Seq({Name[o] : o \in Objects}) \ {<<>>}
    /\ \A p \in DOMAIN cache : cache[p] \in Handles
    /\ attempt \in 1..3 /\ level \in 0..Len(path) /\ target \in Handles
    /\ (reader = "failed") = (failure # "none")
    /\ known \in {"nothing", "stale", "handle"}

\* The transfer root: the parent of a root that is a file.
Base == IF file = {} THEN rootPath ELSE Front(rootPath)

\* Whatever was re-keyed, lost or replaced, a read opens an object that lies at
\* its path, never one of another path whose handle the cache once learned.
OpensWhatWasAsked == reader = "opened" => target.object \in AtPath(Base \o path)

\* The path names something now, with the handles and objects there are.
Present(p) == AtPathThrough(alive, p) # {}

\* A file that is there, and of which a handle was learned, is read although
\* the phone re-keyed whatever it likes since, or does so once more while a good
\* handle is used (README: re-keying mid-transfer is handled inside mtpx-core).
RecoversFromRekey ==
    /\ reader = "failed" /\ known # "nothing"
    /\ ~cancelled /\ since.faults = 0
    /\ since.changes = since.rekeys
    /\ since.rekeys <= IF known = "handle" THEN 1 ELSE 0
    => ~Present(Base \o path)

\* One object that goes does not cost the whole cache (the comment at recover):
\* unless a folder above it is stale as well, other paths stay known.
OneLossKeepsCache ==
    [][/\ since.changes <= 1 /\ known = "handle"
       /\ (\E p \in DOMAIN cache \ {path} : p \notin DOMAIN cache')
       => \/ ~Names(root)
          \/ \E n \in 1..(Len(path) - 1) :
                 Prefix(n) \in DOMAIN cache /\ ~Names(cache[Prefix(n)])]_<<cache, reader, phone>>
=============================================================================
