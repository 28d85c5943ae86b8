------------------------------ MODULE Executor ------------------------------
(***************************************************************************)
(* One run of a plan: the loop over its actions, the retries of a read     *)
(* that fails, the cancel token, the report, the events it announces over  *)
(* a bounded channel, and the renderer at the channel's other end.  The    *)
(* two endpoints answer every call with any outcome their contract allows. *)
(*                                                                         *)
(* An action is named by its place in the plan, sizes are counted in       *)
(* chunks, and a backoff in the slices after which it looks at the token.  *)
(***************************************************************************)
EXTENDS Integers, Sequences, FiniteSetsExt

CONSTANTS
    Plans,           \* the plans a run may be given
    MaxReadRetries,  \* MAX_READ_RETRIES
    FirstBackoff,    \* RETRY_BACKOFF, in slices of CANCEL_POLL
    Capacity,        \* how many events the channel holds
    HangsUp          \* whether the receiver may be dropped

Actions == [kind : {"mkdir", "skip", "copy"}, size : Nat, from : Nat]

ASSUME ConstantsAssumption ==
    /\ Plans \subseteq Seq(Actions)
    /\ \A p \in Plans : \A i \in 1..Len(p) : p[i].from <= p[i].size
    /\ MaxReadRetries \in Nat
    /\ FirstBackoff \in Nat \ {0}
    /\ Capacity \in Nat \ {0}
    /\ HangsUp \in BOOLEAN
-----------------------------------------------------------------------------
VARIABLES
    plan,       \* the actions, in order
    index,      \* the action the loop is at
    pc,         \* the call the executor makes next; "ok", "error": it returned
    copy,       \* the copy in progress: retries, the next backoff, slices to wait,
                \* offset, position
    report,     \* the totals so far
    cancelled,  \* the cancel token
    outbox,     \* an event that waits for room in the channel
    queue,      \* the channel
    receiving,  \* whether the receiver is there
    seen        \* what the renderer made of the events it received

progress == <<index, pc, copy, report>>
channel  == <<outbox, queue, receiving, seen>>
vars     == <<plan, progress, cancelled, channel>>
-----------------------------------------------------------------------------
NoCopy ==
    [retries |-> 0, backoff |-> FirstBackoff, wait |-> 0, offset |-> 0, position |-> 0]

EmptyReport ==
    [copied |-> 0, bytes |-> 0, skipped |-> 0, failed |-> <<>>, interrupted |-> FALSE]

NothingSeen ==
    [file |-> 0, from |-> 0, overall |-> 0, base |-> 0, done |-> 0,
     failed |-> 0, remaining |-> 0, last |-> <<>>]

Init ==
    /\ plan \in Plans
    /\ index = 1
    /\ pc = "step"
    /\ copy = NoCopy
    /\ report = EmptyReport
    /\ cancelled = FALSE
    /\ outbox = <<>>
    /\ queue = <<>>
    /\ receiving = TRUE
    /\ seen = NothingSeen

Action == plan[index]
Copies == {i \in 1..Len(plan) : plan[i].kind = "copy"}

RemainingCopies == Cardinality({i \in Copies : i >= index})

\* The events, n being an offset, a position, a byte count or a file count.
Event(type, path, n, reports) ==
    [type |-> type, path |-> path, n |-> n, report |-> reports]
Emit(type, path, n) == outbox' = <<Event(type, path, n, <<>>)>>
Conclude(type, n, totals) == outbox' = <<Event(type, 0, n, <<totals>>)>>

\* The executor goes on once its last event is in the channel.
At(step) == pc = step /\ outbox = <<>>

Advance ==
    /\ index' = index + 1
    /\ pc' = "step"
    /\ copy' = NoCopy

\* What a call may fail with: an error after which no call can succeed or one that
\* only concerns this file and, where the call is given the token, the token's own.
Faults == {"fatal", "plain"}
Errors == Faults \cup IF cancelled THEN {"cancelled"} ELSE {}

Interrupting ==
    /\ pc' = "interrupt"
    /\ UNCHANGED <<index, copy, report, outbox>>

\* Slip: the file that fails is announced and not recorded.
FailUnrecorded(error) ==
    \/ /\ error = "cancelled"
       /\ Interrupting
    \/ /\ error = "fatal"
       /\ report' = [report EXCEPT !.failed = Append(@, index)]
       /\ pc' = "abort"
       /\ UNCHANGED <<index, copy, outbox>>
    \/ /\ error = "plain"
       /\ Emit("FileFailed", index, 0)
       /\ Advance
       /\ UNCHANGED report

\* Slip: a cancelled call is one more failed file.
FailWhenCancelled(error) ==
    \/ /\ error = "fatal"
       /\ report' = [report EXCEPT !.failed = Append(@, index)]
       /\ pc' = "abort"
       /\ UNCHANGED <<index, copy, outbox>>
    \/ /\ error \in {"plain", "cancelled"}
       /\ report' = [report EXCEPT !.failed = Append(@, index)]
       /\ IF error = "cancelled"
          THEN pc' = "interrupt" /\ UNCHANGED <<index, copy, outbox>>
          ELSE Emit("FileFailed", index, 0) /\ Advance

Fail(error) ==
    \/ /\ error = "cancelled"
       /\ Interrupting
    \/ /\ error = "fatal"
       /\ report' = [report EXCEPT !.failed = Append(@, index)]
       /\ pc' = "abort"
       /\ UNCHANGED <<index, copy, outbox>>
    \/ /\ error = "plain"
       /\ report' = [report EXCEPT !.failed = Append(@, index)]
       /\ Emit("FileFailed", index, 0)
       /\ Advance
-----------------------------------------------------------------------------
(* The loop over the plan.                                                 *)

\* The token is looked at before every action, and not after the last one.
StepInterrupted ==
    /\ At("step")
    /\ index <= Len(plan)
    /\ cancelled
    /\ Interrupting
    /\ UNCHANGED <<plan, cancelled, queue, receiving, seen>>

\* Slip: the token is not looked at.
BeginsAnyway(kind) ==
    /\ At("step")
    /\ index <= Len(plan)
    /\ Action.kind = kind

Begins(kind) ==
    /\ At("step")
    /\ index <= Len(plan)
    /\ ~cancelled
    /\ Action.kind = kind

Mkdir ==
    /\ Begins("mkdir")
    /\ \/ Advance /\ UNCHANGED <<report, outbox>>
       \/ \E error \in Faults : Fail(error)
    /\ UNCHANGED <<plan, cancelled, queue, receiving, seen>>

Skip ==
    /\ Begins("skip")
    /\ report' = [report EXCEPT !.skipped = @ + 1]
    /\ Emit("Skipped", index, 0)
    /\ Advance
    /\ UNCHANGED <<plan, cancelled, queue, receiving, seen>>

BeginCopy ==
    /\ Begins("copy")
    /\ pc' = "settle"
    /\ UNCHANGED <<plan, index, copy, report, cancelled, channel>>

Finish ==
    /\ At("step")
    /\ index > Len(plan)
    /\ Conclude("Finished", 0, report)
    /\ pc' = "ok"
    /\ UNCHANGED <<plan, index, copy, report, cancelled, queue, receiving, seen>>

Interrupt ==
    /\ At("interrupt")
    /\ Emit("Interrupted", 0, RemainingCopies)
    /\ report' = [report EXCEPT !.interrupted = TRUE]
    /\ pc' = "finish"
    /\ UNCHANGED <<plan, index, copy, cancelled, queue, receiving, seen>>

FinishInterrupted ==
    /\ At("finish")
    /\ Conclude("Finished", 0, report)
    /\ pc' = "ok"
    /\ UNCHANGED <<plan, index, copy, report, cancelled, queue, receiving, seen>>

Abort ==
    /\ At("abort")
    /\ Conclude("Aborted", RemainingCopies, report)
    /\ pc' = "error"
    /\ UNCHANGED <<plan, index, copy, report, cancelled, queue, receiving, seen>>
-----------------------------------------------------------------------------
(* One copy.                                                               *)

\* The destination confirms the planned offset or, if the part is gone, none.
Settle ==
    /\ At("settle")
    /\ \/ \E offset \in {0, Action.from} :
              /\ copy' = [copy EXCEPT !.offset = offset, !.position = offset]
              /\ Emit("FileStarted", index, offset)
              /\ pc' = "read"
              /\ UNCHANGED <<index, report>>
       \/ \E error \in Faults : Fail(error)
    /\ UNCHANGED <<plan, cancelled, queue, receiving, seen>>

ReadOpens ==
    /\ At("read")
    /\ pc' = "write"
    /\ UNCHANGED <<plan, index, copy, report, cancelled, channel>>

\* Slip: one retry too many.
ReadStallsOnceMore ==
    /\ At("read")
    /\ copy.retries <= MaxReadRetries
    /\ \/ /\ cancelled
          /\ Interrupting
       \/ /\ ~cancelled
          /\ Emit("FileRetried", index, 0)
          /\ copy' = [copy EXCEPT !.retries = @ + 1, !.wait = copy.backoff, !.backoff = 2 * @]
          /\ pc' = "backOff"
          /\ UNCHANGED <<index, report>>
    /\ UNCHANGED <<plan, cancelled, queue, receiving, seen>>

\* The device is busy or timed out: announced and retried, unless the token is
\* set or this was the last retry.
ReadStalls ==
    /\ At("read")
    /\ copy.retries < MaxReadRetries
    /\ \/ /\ cancelled
          /\ Interrupting
       \/ /\ ~cancelled
          /\ Emit("FileRetried", index, 0)
          /\ copy' = [copy EXCEPT !.retries = @ + 1, !.wait = copy.backoff, !.backoff = 2 * @]
          /\ pc' = "backOff"
          /\ UNCHANGED <<index, report>>
    /\ UNCHANGED <<plan, cancelled, queue, receiving, seen>>

ReadFails ==
    /\ At("read")
    /\ \/ \E error \in Errors : Fail(error)
       \/ copy.retries = MaxReadRetries /\ Fail("plain")
    /\ UNCHANGED <<plan, cancelled, queue, receiving, seen>>

\* The token is looked at before each slice, and not after the last one.
BackOff ==
    /\ At("backOff")
    /\ copy.wait > 0
    /\ \/ cancelled /\ Interrupting
       \/ /\ ~cancelled
          /\ copy' = [copy EXCEPT !.wait = @ - 1]
          /\ UNCHANGED <<index, pc, report, outbox>>
    /\ UNCHANGED <<plan, cancelled, queue, receiving, seen>>

Retry ==
    /\ At("backOff")
    /\ copy.wait = 0
    /\ pc' = "read"
    /\ UNCHANGED <<plan, index, copy, report, cancelled, channel>>

\* The destination pulls a chunk; its progress event is dropped when there is no
\* room.  A source that grew since the plan delivers more than was planned.
Chunk ==
    /\ At("write")
    /\ copy.position <= Action.size
    /\ copy' = [copy EXCEPT !.position = @ + 1]
    /\ queue' = IF receiving /\ Len(queue) < Capacity
                THEN Append(queue, Event("FileProgress", index, copy'.position, <<>>))
                ELSE queue
    /\ UNCHANGED <<plan, index, pc, report, cancelled, outbox, receiving, seen>>

\* Slip: the resumed prefix is counted in the totals.
CopyLandsWhole ==
    /\ At("write")
    /\ copy.position = Action.size
    /\ report' = [report EXCEPT !.copied = @ + 1, !.bytes = @ + Action.size]
    /\ Emit("FileFinished", index, Action.size - copy.offset)
    /\ Advance
    /\ UNCHANGED <<plan, cancelled, queue, receiving, seen>>

\* The destination answers Ok for the planned length only.
CopyLands ==
    /\ At("write")
    /\ copy.position = Action.size
    /\ LET bytes == Action.size - copy.offset IN
         /\ report' = [report EXCEPT !.copied = @ + 1, !.bytes = @ + bytes]
         /\ Emit("FileFinished", index, bytes)
    /\ Advance
    /\ UNCHANGED <<plan, cancelled, queue, receiving, seen>>

\* The stream ends early or late or with an error, or the disk fails.
CopyFails ==
    /\ At("write")
    /\ \E error \in Errors : Fail(error)
    /\ UNCHANGED <<plan, cancelled, queue, receiving, seen>>
-----------------------------------------------------------------------------
(* The channel, the renderer and the user.                                 *)

\* Slip: every event is sent as progress is, and dropped when there is no room.
SendIfRoom ==
    /\ outbox # <<>>
    /\ queue' = IF receiving /\ Len(queue) < Capacity THEN queue \o outbox ELSE queue
    /\ outbox' = <<>>
    /\ UNCHANGED <<plan, progress, cancelled, receiving, seen>>

\* Slip: a receiver that is gone is waited for.
SendToReceiver ==
    /\ outbox # <<>>
    /\ receiving
    /\ Len(queue) < Capacity
    /\ queue' = queue \o outbox
    /\ outbox' = <<>>
    /\ UNCHANGED <<plan, progress, cancelled, receiving, seen>>

Send ==
    /\ outbox # <<>>
    /\ receiving => Len(queue) < Capacity
    /\ queue' = IF receiving THEN queue \o outbox ELSE queue
    /\ outbox' = <<>>
    /\ UNCHANGED <<plan, progress, cancelled, receiving, seen>>

Difference(m, n) == IF m > n THEN m - n ELSE 0

\* Renderer::handle: its Tally, where the overall bar stands, and what it prints.
\* The properties need two things it does not keep: file, the one it last saw
\* start, until it is settled, and last, the final totals.
Handle(tally, e) ==
    CASE e.type = "FileStarted" ->
           [tally EXCEPT !.file = e.path, !.from = e.n]
      [] e.type = "FileProgress" ->
           [tally EXCEPT !.overall = tally.base + Difference(e.n, tally.from)]
      [] e.type = "FileFinished" ->
           [tally EXCEPT !.base = @ + e.n, !.overall = tally.base + e.n,
                         !.done = @ + 1, !.file = 0]
      [] e.type = "FileFailed" ->
           [tally EXCEPT !.failed = @ + 1, !.file = 0]
      [] e.type \in {"FileRetried", "Skipped"} -> tally
      [] e.type = "Interrupted" -> [tally EXCEPT !.remaining = e.n]
      [] e.type \in {"Finished", "Aborted"} ->
           [tally EXCEPT !.last = @ \o e.report, !.remaining = @ + e.n]

Receive ==
    /\ queue # <<>>
    /\ seen' = Handle(seen, Head(queue))
    /\ queue' = Tail(queue)
    /\ UNCHANGED <<plan, progress, cancelled, outbox, receiving>>

\* The renderer panicked, or a library caller dropped the receiver.
HangUp ==
    /\ HangsUp
    /\ receiving
    /\ receiving' = FALSE
    /\ queue' = <<>>
    /\ UNCHANGED <<plan, progress, cancelled, outbox, seen>>

\* The first Ctrl-C.
Cancel ==
    /\ ~cancelled
    /\ cancelled' = TRUE
    /\ UNCHANGED <<plan, progress, channel>>
-----------------------------------------------------------------------------
Run ==
    \/ StepInterrupted
    \/ Mkdir
    \/ Skip
    \/ BeginCopy
    \/ Finish
    \/ Interrupt
    \/ FinishInterrupted
    \/ Abort
    \/ Settle
    \/ ReadOpens
    \/ ReadStalls
    \/ ReadFails
    \/ BackOff
    \/ Retry
    \/ Chunk
    \/ CopyLands
    \/ CopyFails
    \/ Send

Next == Run \/ Receive \/ HangUp \/ Cancel

Spec == Init /\ [][Next]_vars

\* Every call of an endpoint returns, and the renderer drains the channel.
FairSpec == Spec /\ WF_vars(Run) /\ WF_vars(Receive)
-----------------------------------------------------------------------------
(* Properties.                                                             *)

Paths == 0..Len(plan)
EventTypes == {"FileStarted", "FileProgress", "FileFinished", "FileFailed", "FileRetried",
               "Skipped", "Interrupted", "Finished", "Aborted"}
Reports == [copied : Nat, bytes : Nat, skipped : Nat, failed : Seq(Nat), interrupted : BOOLEAN]
Events == [type : EventTypes, path : Paths, n : Nat, report : Seq({report})]
Tallies == [file : Paths, from : Nat, overall : Nat, base : Nat, done : Nat, failed : Nat,
            remaining : Nat, last : Seq({report})]

\* Every variable holds what the code's types allow, a copy is retried no more
\* than MAX_READ_RETRIES times, and an event that carries totals carries the final ones.
TypeOK ==
    /\ plan \in Plans
    /\ index \in 1..Len(plan) + 1
    /\ pc \in {"step", "settle", "read", "backOff", "write", "interrupt", "finish", "abort",
               "ok", "error"}
    /\ pc \notin {"step", "ok"} => index <= Len(plan)
    /\ copy \in [retries : 0..MaxReadRetries, backoff : Nat, wait : Nat, offset : Nat,
                 position : Nat]
    /\ report \in Reports
    /\ cancelled \in BOOLEAN
    /\ outbox \in Seq(Events) /\ Len(outbox) <= 1
    /\ queue \in Seq(Events) /\ Len(queue) <= Capacity
    /\ receiving \in BOOLEAN
    /\ seen \in Tallies

Over == pc \in {"ok", "error"} /\ outbox = <<>>
Failed == {report.failed[k] : k \in 1..Len(report.failed)}
Before == 1..index - 1
Landed == (Copies \cap Before) \ Failed

\* Every action the run has passed has one fate, and the report counts it there.
Counted ==
    /\ report.skipped = Cardinality({i \in Before : plan[i].kind = "skip"})
    /\ report.copied = Cardinality(Landed)
    /\ Cardinality(Failed) = Len(report.failed)
    /\ Failed \subseteq IF pc \in {"abort", "error"} THEN 1..index ELSE Before
    /\ \A i \in Failed : plan[i].kind # "skip"

\* The chunks of some files, and those beyond what a copy may resume from.
Chunks(files) == UNION {{i} \X (1..plan[i].size) : i \in files}
FreshChunks(files) == UNION {{i} \X (plan[i].from + 1..plan[i].size) : i \in files}

\* Every action the run has passed has exactly one fate and the report counts it
\* there, the file in flight is charged only when it ends the run, and the bytes
\* are those of the files that landed, less prefixes that may have been resumed.
Accounted ==
    /\ Counted
    /\ report.bytes <= Cardinality(Chunks(Landed))
    /\ report.bytes >= Cardinality(FreshChunks(Landed))

\* When the renderer has the last event, its own tally of the files and bytes it
\* saw finish and of the failures it was told of is the report's, but for the
\* failure that ended the run, which only the report has; and its summary line adds
\* up: copies that landed, failed or remain are the plan's.  Those that remain are
\* the copies from the action that ended the run on, so that a file that was started
\* and cancelled is one of them: remaining_copies counts it, for an Interrupted as
\* for an Aborted event, although event.rs says of the first that its copies "were
\* not attempted" and "never started".
EventsMatchReport ==
    seen.last # <<>> =>
        /\ seen.last = <<report>>
        /\ seen.done = report.copied
        /\ seen.base = report.bytes
        /\ seen.failed = Cardinality(Failed \ {index})
        /\ seen.done + Cardinality((Copies \cap Failed) \ {index}) + seen.remaining
            = Cardinality(Copies)
        /\ seen.remaining = RemainingCopies
        /\ seen.file \in {0, index}

\* The renderer ignores the path of a progress event: it is always that of the
\* file it last saw start, no other one starts before that one is settled, the
\* bytes a file finishes with are those past the offset it started from, and
\* nothing follows the last event.
RendererFollows ==
    queue # <<>> =>
        LET e == Head(queue) IN
          /\ seen.last = <<>>
          /\ e.type = "FileStarted" => seen.file = 0
          /\ e.type \in {"FileProgress", "FileRetried", "FileFinished"} => e.path = seen.file
          /\ e.type = "FileFinished" => e.n = plan[e.path].size - seen.from

\* A cancel stops the run at the action under way at the latest: the one after it
\* is never begun, so that no call that follows a cancel starts another file.
CancelHonoured ==
    \A k \in 1..Max({Len(p) : p \in Plans}) :
        [](cancelled /\ index = k =>
               [](\/ index = k
                  \/ index = k + 1 /\ pc \in {"step", "interrupt", "finish", "ok"}))

\* Whatever the endpoints answer and whether or not the receiver stays, the run
\* returns; a receiver that stays and drains the channel hears the last event.
Ends == <>[](Over /\ (receiving => seen.last # <<>>))

\* What the caller is promised, the fates being read off the report.
Promised == INSTANCE Batch WITH
    kinds <- [i \in 1..Len(plan) |-> plan[i].kind],
    fate <- [i \in 1..Len(plan) |->
                CASE i \in Failed -> "failed"
                  [] i \in Before \ Failed ->
                         IF plan[i].kind = "skip" THEN "skipped" ELSE "done"
                  [] OTHER -> "planned"],
    outcome <- CASE pc \in {"abort", "error"} -> "aborted"
                 [] pc \in {"interrupt", "finish"} \/ report.interrupted -> "interrupted"
                 [] pc = "ok" /\ ~report.interrupted -> "finished"
                 [] OTHER -> "running"

\* The executor keeps that promise: actions settled in order and once each, a stop
\* short of the last only by a cancel or by an error charged to the action it met.
ImplementsBatch == Promised!Spec
=============================================================================
