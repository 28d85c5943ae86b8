-------------------------------- MODULE Pump --------------------------------
(***************************************************************************)
(* The download pump of MtpEndpoint::read.  A spawned task fetches one     *)
(* window after the other and sends it into a bounded channel; a second    *)
(* task waits for the first and reports a panic; whoever asked for the     *)
(* file pulls the other end.  A window is a unit here.                     *)
(***************************************************************************)
EXTENDS Naturals, Sequences, CancelToken

CONSTANTS
    Depth,       \* PUMP_DEPTH: windows the channel holds
    Sizes        \* sizes of files, in windows

ASSUME PumpAssumption == Depth \in Nat \ {0} /\ Sizes \subseteq Nat

VARIABLES
    start,       \* the offset the stream was opened at
    length,      \* WindowedDownload::size
    offset,      \* WindowedDownload::offset
    pump,        \* the task that fetches: "none", "fetch", "send", "ended", "panicked"
    item,        \* what it sends: a window, by its place in the file, or an error
    reporter,    \* the task that waits for it: "none", "join", "send", "ended"
    channel,     \* items on their way
    consumer,    \* "none", "pulling", "whole", "gone"
    reached      \* where in the file the last window it got ends

download == <<start, length, offset>>
tasks == <<pump, item, reporter>>
sink == <<channel, consumer, reached>>
pumpVars == <<download, tasks, sink>>

Window(n) == [kind |-> "window", at |-> n]
Error(kind) == [kind |-> kind, at |-> 0]
Items == [kind : {"window", "cancelled", "failed", "panic"}, at : Nat]
IsError(i) == i.kind # "window"

\* Nothing of an earlier stream runs any more.
PumpIdle ==
    /\ pump \in {"none", "ended", "panicked"}
    /\ reporter \in {"none", "ended"}
    /\ consumer # "pulling"

NoStream ==
    /\ start = 0 /\ length = 0 /\ offset = 0
    /\ pump = "none" /\ item = Error("failed") /\ reporter = "none"
    /\ channel = <<>> /\ consumer = "none" /\ reached = 0

PumpInit == NoStream
-----------------------------------------------------------------------------
\* read: the download is open, both tasks are spawned, the channel is new.
OpenStream(from, total) ==
    /\ pump = "none"
    /\ start' = from /\ length' = total /\ offset' = from
    /\ pump' = "fetch" /\ item' = Error("failed") /\ reporter' = "join"
    /\ channel' = <<>> /\ consumer' = "pulling" /\ reached' = from
    /\ UNCHANGED cancelled

\* Slip: a cancel is obeyed even when every window was fetched.
FetchCancelledAlways ==
    /\ pump = "fetch"
    /\ cancelled
    /\ item' = Error("cancelled") /\ pump' = "send"
    /\ UNCHANGED <<download, reporter, sink, cancelled>>

\* The token is looked at between windows, and only while some are missing.
FetchCancelled ==
    /\ pump = "fetch"
    /\ cancelled /\ offset < length
    /\ item' = Error("cancelled") /\ pump' = "send"
    /\ UNCHANGED <<download, reporter, sink, cancelled>>

\* next_window answers.
FetchWindow ==
    /\ pump = "fetch"
    /\ ~cancelled /\ offset < length
    /\ \/ item' = Window(offset + 1) /\ offset' = offset + 1
       \/ item' = Error("failed") /\ UNCHANGED offset
    /\ pump' = "send"
    /\ UNCHANGED <<start, length, reporter, sink, cancelled>>

FetchNothing ==
    /\ pump = "fetch"
    /\ offset >= length
    /\ pump' = "ended"
    /\ UNCHANGED <<download, item, reporter, sink, cancelled>>

FetchPanics ==
    /\ pump = "fetch"
    /\ pump' = "panicked"
    /\ UNCHANGED <<download, item, reporter, sink, cancelled>>

\* After an error the pump is through; after a window it fetches the next one.
AfterSend == IF IsError(item) THEN "ended" ELSE "fetch"

\* Slip: a channel without a bound.
SendItemUnbounded ==
    /\ pump = "send" /\ consumer = "pulling"
    /\ channel' = Append(channel, item)
    /\ pump' = AfterSend
    /\ UNCHANGED <<download, item, reporter, consumer, reached, cancelled>>

SendItem ==
    /\ pump = "send" /\ consumer = "pulling"
    /\ Len(channel) < Depth
    /\ channel' = Append(channel, item)
    /\ pump' = AfterSend
    /\ UNCHANGED <<download, item, reporter, consumer, reached, cancelled>>

\* Slip: a receiver that is gone is noticed only if there is room to send.
SendRefusedIfRoom ==
    /\ pump = "send" /\ consumer # "pulling"
    /\ Len(channel) < Depth
    /\ pump' = "ended"
    /\ UNCHANGED <<download, item, reporter, sink, cancelled>>

\* The receiver was dropped.
SendRefused ==
    /\ pump = "send" /\ consumer # "pulling"
    /\ pump' = "ended"
    /\ UNCHANGED <<download, item, reporter, sink, cancelled>>

\* Slip: nobody looks at how the pump ended.
JoinBlind ==
    /\ reporter = "join" /\ pump \in {"ended", "panicked"}
    /\ reporter' = "ended"
    /\ UNCHANGED <<download, pump, item, sink, cancelled>>

\* report_pump_failure: the first task ended, in order or not.
Join ==
    /\ reporter = "join" /\ pump \in {"ended", "panicked"}
    /\ reporter' = IF pump = "panicked" THEN "send" ELSE "ended"
    /\ UNCHANGED <<download, pump, item, sink, cancelled>>

\* The report waits for room in the same channel, and gives up with the receiver.
SendReport ==
    /\ reporter = "send"
    /\ \/ consumer = "pulling" /\ Len(channel) < Depth /\ channel' = Append(channel, Error("panic"))
       \/ consumer # "pulling" /\ UNCHANGED channel
    /\ reporter' = "ended"
    /\ UNCHANGED <<download, pump, item, consumer, reached, cancelled>>

\* The consumer takes the next item; an error ends its copy.
Pull ==
    /\ consumer = "pulling" /\ channel # <<>>
    /\ channel' = Tail(channel)
    /\ IF IsError(Head(channel))
       THEN consumer' = "gone" /\ UNCHANGED reached
       ELSE reached' = Head(channel).at /\ UNCHANGED consumer
    /\ UNCHANGED <<download, tasks, cancelled>>

\* The channel is empty and both senders are dropped: a clean end.
PullEnd ==
    /\ consumer = "pulling" /\ channel = <<>>
    /\ pump \in {"ended", "panicked"} /\ reporter = "ended"
    /\ consumer' = "whole"
    /\ UNCHANGED <<download, tasks, channel, reached, cancelled>>

\* The destination failed, or stopped for a reason of its own.
DropStream ==
    /\ consumer = "pulling"
    /\ consumer' = "gone"
    /\ UNCHANGED <<download, tasks, channel, reached, cancelled>>
-----------------------------------------------------------------------------
\* Nothing is left of the stream.
CloseStream ==
    /\ pump # "none" /\ PumpIdle
    /\ start' = 0 /\ length' = 0 /\ offset' = 0
    /\ pump' = "none" /\ item' = Error("failed") /\ reporter' = "none"
    /\ channel' = <<>> /\ consumer' = "none" /\ reached' = 0
    /\ UNCHANGED cancelled

PumpTasks ==
    \/ FetchCancelled \/ FetchWindow \/ FetchNothing
    \/ SendItem \/ SendRefused
    \/ Join \/ SendReport \/ CloseStream

PumpConsumer == Pull \/ PullEnd

PumpStep == PumpTasks \/ FetchPanics \/ PumpConsumer \/ DropStream

PumpNext ==
    \/ \E from \in {0} \cup Sizes, total \in Sizes : OpenStream(from, total)
    \/ PumpStep
    \/ Interrupt /\ UNCHANGED pumpVars

PumpSpec == PumpInit /\ NotCancelled /\ [][PumpNext]_<<pumpVars, cancelled>>
-----------------------------------------------------------------------------
(* Properties.                                                             *)

\* The tasks, the item under way and the channel hold what the code's types allow,
\* and without a task there is no stream.
PumpTypeOK ==
    /\ cancelled \in BOOLEAN
    /\ start \in Nat /\ length \in Nat /\ offset \in Nat /\ reached \in Nat
    /\ pump \in {"none", "fetch", "send", "ended", "panicked"}
    /\ item \in Items
    /\ reporter \in {"none", "join", "send", "ended"}
    /\ channel \in Seq(Items)
    /\ consumer \in {"none", "pulling", "whole", "gone"}
    /\ pump = "none" => NoStream

\* However slow the consumer is, no more than the channel and one window in
\* hand are fetched ahead of it: memory stays bounded (PUMP_DEPTH).
PrefetchBounded == consumer = "pulling" => offset <= reached + Depth + 1

\* Once every window was fetched a cancel cannot fail the file: the error is
\* neither in the channel nor on its way there (the comment in pump).
LandedIsNotCancelled ==
    offset >= length =>
        /\ \A i \in DOMAIN channel : channel[i].kind # "cancelled"
        /\ pump = "send" => item.kind # "cancelled"

\* The consumer sees a byte stream, whatever the tasks, a cancel, a failing
\* window or a panic do: no gap, and no clean end before the last window.
Promised == INSTANCE ByteStream WITH
    next <- reached, size <- length,
    state <- CASE consumer = "none" -> "none"
               [] consumer = "pulling" -> "open"
               [] consumer = "whole" -> "whole"
               [] consumer = "gone" -> "broken"
ImplementsByteStream == Promised!Spec
=============================================================================
