----------------------------- MODULE PumpProofs -----------------------------
(***************************************************************************)
(* What the download pump guarantees for every size of a file, every       *)
(* offset a read may start at, every capacity of its channel and any       *)
(* interleaving of its two tasks, the consumer and a cancel.               *)
(***************************************************************************)
EXTENDS Pump, SequenceTheorems, TLAPS

\* The channel holds the windows that come next, and nothing else.
Clean ==
    /\ \A i \in 1..Len(channel) : channel[i] = Window(reached + i)
    /\ offset = reached + Len(channel)

\* An error is behind the windows that come next.
Broken ==
    /\ channel # <<>> /\ IsError(channel[Len(channel)])
    /\ \A i \in 1..Len(channel) : i < Len(channel) => channel[i] = Window(reached + i)
    /\ offset + 1 = reached + Len(channel)

\* The windows that come next, up to the one the pump is about to send.
Holding ==
    /\ \A i \in 1..Len(channel) : channel[i] = Window(reached + i)
    /\ item = Window(offset) /\ offset = reached + Len(channel) + 1

\* The reporter waits for the pump, and reports only a panic.
ReporterInv ==
    /\ reporter = "send" => pump = "panicked"
    /\ reporter = "ended" => pump \in {"ended", "panicked"}
    /\ pump # "none" => reporter # "none" /\ consumer # "none"

\* What lies between the consumer and the pump, by where the pump is.
ChannelInv ==
    consumer = "pulling" =>
        /\ Len(channel) <= Depth
        /\ pump = "fetch" => Clean
        /\ pump = "send" => IF IsError(item) THEN Clean ELSE Holding
        /\ pump = "ended" => Broken \/ (Clean /\ offset >= length)
        /\ pump = "panicked" => IF reporter = "ended" THEN Broken ELSE Clean

\* Only windows of the file are fetched.
RangeInv ==
    /\ start <= offset /\ start <= reached
    /\ offset > start => offset <= length

\* A cancel is an error only while windows are missing.
CancelInv ==
    /\ \A i \in 1..Len(channel) :
           channel[i].kind = "cancelled" => pump = "ended" /\ offset < length
    /\ pump = "send" /\ item.kind = "cancelled" => offset < length

PumpInv == PumpTypeOK /\ ReporterInv /\ ChannelInv /\ RangeInv /\ CancelInv

USE DEF Window, Error, IsError, Items

LEMMA InitPump == PumpInit /\ NotCancelled => PumpInv
<1> SUFFICES ASSUME PumpInit, NotCancelled PROVE PumpInv
  OBVIOUS
<1> USE DEF PumpInit, NoStream
<1>c. cancelled \in BOOLEAN
  BY Zenon DEF NotCancelled
<1>1. PumpTypeOK
  BY <1>c DEF PumpTypeOK
<1>2. ReporterInv /\ ChannelInv /\ RangeInv /\ CancelInv
  BY DEF ReporterInv, ChannelInv, RangeInv, CancelInv
<1> QED
  BY <1>1, <1>2 DEF PumpInv

\* A stream is opened.
LEMMA OpenStep ==
    ASSUME PumpInv, NEW from \in Nat, NEW total \in Nat, OpenStream(from, total)
    PROVE  PumpInv'
<1> USE DEF OpenStream
<1>1. PumpTypeOK'
  BY DEF PumpInv, PumpTypeOK
<1>2. ReporterInv' /\ RangeInv' /\ CancelInv'
  BY DEF ReporterInv, RangeInv, CancelInv
<1>3. ChannelInv'
  BY PumpAssumption DEF ChannelInv, Clean
<1> QED
  BY <1>1, <1>2, <1>3 DEF PumpInv

\* The pump fetches, in the order its loop looks at things.
LEMMA FetchStep ==
    ASSUME PumpInv, FetchCancelled \/ FetchWindow \/ FetchNothing \/ FetchPanics
    PROVE  PumpInv'
<1> USE DEF PumpInv, PumpTypeOK, download, sink
<1>1. CASE FetchCancelled
  <2> USE <1>1 DEF FetchCancelled
  <2>1. PumpTypeOK'
    OBVIOUS
  <2>2. ReporterInv' /\ RangeInv' /\ CancelInv'
    BY DEF ReporterInv, RangeInv, CancelInv
  <2>3. ChannelInv'
    BY DEF ChannelInv, Clean
  <2> QED
    BY <2>1, <2>2, <2>3
<1>2. CASE FetchWindow
  <2> USE <1>2 DEF FetchWindow
  <2>1. PumpTypeOK'
    OBVIOUS
  <2>2. ReporterInv' /\ RangeInv' /\ CancelInv'
    BY DEF ReporterInv, RangeInv, CancelInv
  <2>3. ChannelInv'
    BY DEF ChannelInv, Clean, Holding
  <2> QED
    BY <2>1, <2>2, <2>3
<1>3. CASE FetchNothing
  <2> USE <1>3 DEF FetchNothing
  <2>1. PumpTypeOK'
    OBVIOUS
  <2>2. ReporterInv' /\ RangeInv' /\ CancelInv'
    BY DEF ReporterInv, RangeInv, CancelInv
  <2>3. ChannelInv'
    BY DEF ChannelInv, Clean
  <2> QED
    BY <2>1, <2>2, <2>3
<1>4. CASE FetchPanics
  <2> USE <1>4 DEF FetchPanics
  <2>1. PumpTypeOK'
    OBVIOUS
  <2>2. ReporterInv' /\ RangeInv' /\ CancelInv'
    BY DEF ReporterInv, RangeInv, CancelInv
  <2>3. ChannelInv'
    BY DEF ChannelInv, Clean, ReporterInv
  <2> QED
    BY <2>1, <2>2, <2>3
<1> QED
  BY <1>1, <1>2, <1>3, <1>4

\* What an item at the end of the channel does to it.
LEMMA SentBehind ==
    ASSUME channel \in Seq(Items), reached \in Nat, offset \in Nat,
           NEW e \in Items, channel' = Append(channel, e), UNCHANGED <<offset, reached>>
    PROVE  /\ channel' \in Seq(Items) /\ channel' # <<>>
           /\ Len(channel') = Len(channel) + 1
           /\ \A i \in 1..Len(channel') :
                  channel'[i] = IF i <= Len(channel) THEN channel[i] ELSE e
           /\ Clean /\ IsError(e) => Broken'
           /\ Holding /\ e = item => Clean'
<1>1. /\ channel' \in Seq(Items) /\ channel' # <<>>
      /\ Len(channel') = Len(channel) + 1
      /\ \A i \in 1..Len(channel) : channel'[i] = channel[i]
      /\ channel'[Len(channel) + 1] = e
  <2> HIDE DEF Items
  <2> QED
    BY AppendProperties
<1>2. Len(channel) \in Nat
  BY LenProperties, Zenon
<1>3. \A i \in 1..Len(channel') :
          channel'[i] = IF i <= Len(channel) THEN channel[i] ELSE e
  BY <1>1, <1>2
<1>4. ASSUME Clean, IsError(e) PROVE Broken'
  <2>1. ASSUME NEW i \in 1..Len(channel'), i < Len(channel')
        PROVE  channel'[i] = Window(reached' + i)
    <3> HIDE DEF Items, Window
    <3> QED
      BY <1>1, <1>2, <1>3, <1>4, <2>1 DEF Clean
  <2>2. offset' + 1 = reached' + Len(channel')
    BY <1>1, <1>2, <1>4 DEF Clean
  <2> QED
    BY <1>1, <1>2, <1>4, <2>1, <2>2 DEF Broken
<1>5. ASSUME Holding, e = item PROVE Clean'
  <2>1. ASSUME NEW i \in 1..Len(channel') PROVE channel'[i] = Window(reached' + i)
    <3> HIDE DEF Items, Window
    <3>1. CASE i <= Len(channel)
      BY <1>1, <1>2, <1>3, <1>5, <3>1 DEF Holding
    <3>2. CASE i = Len(channel) + 1
      BY <1>1, <1>2, <1>5, <3>2 DEF Holding
    <3> QED
      BY <1>1, <1>2, <3>1, <3>2
  <2>2. offset' = reached' + Len(channel')
    BY <1>1, <1>2, <1>5 DEF Holding
  <2> QED
    BY <2>1, <2>2 DEF Clean
<1> QED
  BY <1>1, <1>3, <1>4, <1>5

\* What the consumer does to the channel when it takes a window.
LEMMA TakenAhead ==
    ASSUME channel \in Seq(Items), reached \in Nat, offset \in Nat, channel # <<>>,
           channel' = Tail(channel), reached' = reached + 1, UNCHANGED <<offset, item>>
    PROVE  /\ Clean => Clean'
           /\ Holding => Holding'
           /\ Broken /\ ~IsError(Head(channel)) => Broken'
<1> HIDE DEF Items, Window
<1>1. /\ Len(channel') = Len(channel) - 1
      /\ \A i \in 1..Len(channel') : channel'[i] = channel[i + 1]
  BY HeadTailProperties
<1>2. Len(channel) \in Nat \ {0} /\ Len(channel') \in Nat
  BY <1>1, EmptySeq
<1>3. ASSUME NEW i \in 1..Len(channel')
      PROVE  /\ i + 1 \in 1..Len(channel) /\ channel'[i] = channel[i + 1]
             /\ reached' + i = reached + (i + 1)
  BY <1>1, <1>2
<1>4. ASSUME Clean PROVE Clean'
  <2>1. offset' = reached' + Len(channel')
    BY <1>1, <1>2, <1>4 DEF Clean
  <2> QED
    BY <1>3, <1>4, <2>1 DEF Clean
<1>5. ASSUME Holding PROVE Holding'
  <2>1. offset' = reached' + Len(channel') + 1
    BY <1>1, <1>2, <1>5 DEF Holding
  <2> QED
    BY <1>3, <1>5, <2>1 DEF Holding
<1>6. ASSUME Broken, ~IsError(Head(channel)) PROVE Broken'
  <2>1. Head(channel) = channel[1]
    BY <1>2
  <2>2. Len(channel') \in Nat \ {0} /\ channel' # <<>>
    <3>1. Len(channel) # 1
      BY <1>6, <2>1 DEF Broken
    <3>2. Len(channel') \in Nat \ {0}
      BY <1>1, <1>2, <3>1
    <3> QED
      BY <3>2
  <2>3. channel'[Len(channel')] = channel[Len(channel)]
    BY <1>1, <1>2, <1>3, <2>2
  <2>4. ASSUME NEW i \in 1..Len(channel'), i < Len(channel')
        PROVE  channel'[i] = Window(reached' + i)
    <3>1. i + 1 < Len(channel)
      BY <1>1, <1>2, <2>4
    <3> QED
      BY <1>3, <1>6, <3>1 DEF Broken
  <2>5. offset' + 1 = reached' + Len(channel')
    BY <1>1, <1>2, <1>6 DEF Broken
  <2> QED
    BY <1>6, <2>2, <2>3, <2>4, <2>5 DEF Broken
<1> QED
  BY <1>4, <1>5, <1>6

\* The pump sends, or finds nobody to send to.
LEMMA SendStep ==
    ASSUME PumpInv, SendItem \/ SendRefused
    PROVE  PumpInv'
<1> USE DEF PumpInv, PumpTypeOK, download, sink
<1>1. CASE SendItem
  <2> USE <1>1 DEF SendItem, AfterSend
  <2>0. /\ channel' \in Seq(Items) /\ Len(channel') = Len(channel) + 1
        /\ \A i \in 1..Len(channel') :
               channel'[i] = IF i <= Len(channel) THEN channel[i] ELSE item
        /\ Clean /\ IsError(item) => Broken'
        /\ Holding => Clean'
    BY SentBehind
  <2>1. PumpTypeOK'
    BY <2>0
  <2>2. ReporterInv' /\ RangeInv'
    BY DEF ReporterInv, RangeInv
  <2>3. CancelInv'
    BY <2>0 DEF CancelInv
  <2>4. ChannelInv'
    <3>1. CASE IsError(item)
      BY <2>0, <3>1, PumpAssumption DEF ChannelInv
    <3>2. CASE ~IsError(item)
      BY <2>0, <3>2, PumpAssumption DEF ChannelInv
    <3> QED
      BY <3>1, <3>2
  <2> QED
    BY <2>1, <2>2, <2>3, <2>4
<1>2. CASE SendRefused
  <2> USE <1>2 DEF SendRefused
  <2>1. PumpTypeOK'
    OBVIOUS
  <2>2. ReporterInv' /\ RangeInv' /\ CancelInv'
    BY DEF ReporterInv, RangeInv, CancelInv
  <2>3. ChannelInv'
    BY DEF ChannelInv
  <2> QED
    BY <2>1, <2>2, <2>3
<1> QED
  BY <1>1, <1>2

\* The second task sees how the first one ended, and reports a panic.
LEMMA ReportStep ==
    ASSUME PumpInv, Join \/ SendReport
    PROVE  PumpInv'
<1> USE DEF PumpInv, PumpTypeOK, download, sink
<1>1. CASE Join
  <2> USE <1>1 DEF Join
  <2>1. PumpTypeOK'
    OBVIOUS
  <2>2. ReporterInv' /\ RangeInv' /\ CancelInv'
    BY DEF ReporterInv, RangeInv, CancelInv
  <2>3. ChannelInv'
    BY DEF ChannelInv, Clean, Broken, ReporterInv
  <2> QED
    BY <2>1, <2>2, <2>3
<1>2. CASE SendReport
  <2> USE <1>2 DEF SendReport
  <2>1. CASE consumer = "pulling"
    <3> DEFINE e == Error("panic")
    <3>e. e \in Items /\ IsError(e) /\ channel' = Append(channel, e)
      BY <2>1
    <3>0. /\ channel' \in Seq(Items) /\ Len(channel') = Len(channel) + 1
          /\ \A i \in 1..Len(channel') :
                 channel'[i] = IF i <= Len(channel) THEN channel[i] ELSE e
          /\ Clean => Broken'
      <4> HIDE DEF e
      <4> QED
        BY <3>e, SentBehind
    <3>1. PumpTypeOK'
      BY <3>0 DEF ReporterInv
    <3>2. ReporterInv' /\ RangeInv' /\ CancelInv'
      BY <3>0 DEF ReporterInv, RangeInv, CancelInv
    <3>3. ChannelInv'
      BY <2>1, <3>0, PumpAssumption DEF ChannelInv, ReporterInv
    <3> QED
      BY <3>1, <3>2, <3>3
  <2>2. CASE consumer # "pulling"
    <3>1. PumpTypeOK'
      BY <2>2 DEF ReporterInv
    <3>2. ReporterInv' /\ RangeInv' /\ CancelInv' /\ ChannelInv'
      BY <2>2 DEF ReporterInv, RangeInv, CancelInv, ChannelInv
    <3> QED
      BY <3>1, <3>2
  <2> QED
    BY <2>1, <2>2
<1> QED
  BY <1>1, <1>2

\* What the consumer takes first is the next window, or the error.
LEMMA HeadIsNext ==
    ASSUME PumpInv, consumer = "pulling", channel # <<>>
    PROVE  /\ Head(channel) \in Items
           /\ \/ IsError(Head(channel))
              \/ Head(channel) = Window(reached + 1) /\ reached + 1 <= length
<1> USE DEF PumpInv, PumpTypeOK
<1>1. /\ Head(channel) = channel[1] /\ channel[1] \in Items
      /\ 1 \in 1..Len(channel) /\ Len(channel) \in Nat
  <2> HIDE DEF Items
  <2>1. Len(channel) \in Nat \ {0}
    BY EmptySeq
  <2>2. Head(channel) = channel[1] /\ 1 \in 1..Len(channel)
    BY <2>1
  <2> QED
    BY <2>1, <2>2, ElementOfSeq
<1>2. CASE channel[1] = Window(reached + 1)
  BY <1>1, <1>2 DEF ChannelInv, NoStream, RangeInv, Clean, Broken, Holding
<1>3. CASE channel[1] # Window(reached + 1)
  BY <1>1, <1>3 DEF ChannelInv, NoStream, Clean, Broken, Holding
<1> QED
  BY <1>1, <1>2, <1>3

\* The consumer pulls, or stops.
LEMMA ConsumerStep ==
    ASSUME PumpInv, Pull \/ PullEnd \/ DropStream
    PROVE  PumpInv'
<1> USE DEF PumpInv, PumpTypeOK, download, tasks
<1>1. CASE Pull
  <2> USE <1>1 DEF Pull
  <2>0. /\ Len(channel') = Len(channel) - 1
        /\ \A i \in 1..Len(channel') : channel'[i] = channel[i + 1]
        /\ channel' \in Seq(Items) /\ Len(channel) \in Nat /\ Len(channel') \in Nat
    BY HeadTailProperties, LenProperties
  <2>1. PumpTypeOK'
    BY <2>0, HeadIsNext DEF NoStream
  <2>2. ReporterInv' /\ RangeInv'
    BY HeadIsNext DEF ReporterInv, RangeInv
  <2>3. CancelInv'
    BY <2>0 DEF CancelInv
  <2>4. ChannelInv'
    <3>1. CASE IsError(Head(channel))
      BY <3>1 DEF ChannelInv
    <3>2. CASE ~IsError(Head(channel))
      <4>1. /\ consumer' = "pulling" /\ reached' = reached + 1
            /\ UNCHANGED <<pump, item, reporter, offset, length>>
        BY <3>2, HeadIsNext
      <4>2. (Clean => Clean') /\ (Holding => Holding') /\ (Broken => Broken')
        BY <3>2, <4>1, TakenAhead
      <4> QED
        BY <2>0, <4>1, <4>2, PumpAssumption DEF ChannelInv
    <3> QED
      BY <3>1, <3>2
  <2> QED
    BY <2>1, <2>2, <2>3, <2>4
<1>2. CASE PullEnd \/ DropStream
  <2> USE <1>2 DEF PullEnd, DropStream
  <2>1. PumpTypeOK'
    BY DEF ReporterInv, NoStream
  <2>2. ReporterInv' /\ RangeInv' /\ CancelInv' /\ ChannelInv'
    BY DEF ReporterInv, RangeInv, CancelInv, ChannelInv
  <2> QED
    BY <2>1, <2>2
<1> QED
  BY <1>1, <1>2

\* A stream of which nothing is left makes room for the next one.
LEMMA CloseStep ==
    ASSUME PumpInv, CloseStream
    PROVE  PumpInv'
<1> USE DEF PumpInv, CloseStream
<1>1. PumpTypeOK'
  BY DEF PumpTypeOK, NoStream
<1>2. ReporterInv' /\ RangeInv' /\ CancelInv' /\ ChannelInv'
  BY DEF ReporterInv, RangeInv, CancelInv, ChannelInv
<1> QED
  BY <1>1, <1>2

LEMMA PumpInvariant ==
    ASSUME PumpInv, [PumpNext]_<<pumpVars, cancelled>>
    PROVE  PumpInv'
<1>1. CASE \E from \in {0} \cup Sizes, total \in Sizes : OpenStream(from, total)
  BY <1>1, PumpAssumption, OpenStep
<1>2. CASE PumpStep
  BY <1>2, FetchStep, SendStep, ReportStep, ConsumerStep, CloseStep
  DEF PumpStep, PumpTasks, PumpConsumer
<1>3. CASE (Interrupt /\ UNCHANGED pumpVars) \/ UNCHANGED <<pumpVars, cancelled>>
  <2>1. cancelled' \in BOOLEAN
    BY <1>3, Zenon DEF Interrupt, PumpInv, PumpTypeOK
  <2>2. UNCHANGED <<start, length, offset, pump, item, reporter, channel, consumer, reached>>
    BY <1>3 DEF pumpVars, download, tasks, sink
  <2>3. PumpTypeOK'
    BY <2>1, <2>2 DEF PumpInv, PumpTypeOK, NoStream
  <2>4. ReporterInv' /\ ChannelInv' /\ RangeInv' /\ CancelInv'
    BY <2>2 DEF PumpInv, ReporterInv, ChannelInv, RangeInv, CancelInv,
                Clean, Broken, Holding
  <2> QED
    BY <2>3, <2>4 DEF PumpInv
<1> QED
  BY <1>1, <1>2, <1>3 DEF PumpNext

LEMMA Always == PumpSpec => []PumpInv
<1>1. PumpInv /\ [PumpNext]_<<pumpVars, cancelled>> => PumpInv'
  BY PumpInvariant
<1> QED
  BY InitPump, <1>1, PTL DEF PumpSpec

\* The variables of the pump keep their types, whatever the sizes.
THEOREM PumpTypeCorrect == PumpSpec => []PumpTypeOK
<1>1. PumpInv => PumpTypeOK
  BY DEF PumpInv
<1> QED
  BY <1>1, Always, PTL

\* However slow the consumer is, no more than the channel and one window in
\* hand are fetched ahead of it: memory stays bounded (PUMP_DEPTH).
THEOREM PrefetchIsBounded == PumpSpec => []PrefetchBounded
<1>1. PumpInv => PrefetchBounded
  <2> SUFFICES ASSUME PumpInv, consumer = "pulling"
               PROVE  offset <= reached + Depth + 1
    BY DEF PrefetchBounded
  <2>1. Len(channel) \in Nat /\ Len(channel) <= Depth
    BY LenProperties DEF PumpInv, PumpTypeOK, ChannelInv
  <2>2. pump \in {"fetch", "send", "ended", "panicked"}
    BY DEF PumpInv, PumpTypeOK, NoStream
  <2>3. offset <= reached + Len(channel) + 1
    BY <2>1, <2>2 DEF PumpInv, PumpTypeOK, ChannelInv, Clean, Broken, Holding
  <2> QED
    BY <2>1, <2>3, PumpAssumption DEF PumpInv, PumpTypeOK
<1> QED
  BY <1>1, Always, PTL

\* A cancel that comes once every window was fetched cannot fail the file.
THEOREM CancelComesTooLate == PumpSpec => []LandedIsNotCancelled
<1>1. PumpInv => LandedIsNotCancelled
  <2> SUFFICES ASSUME PumpInv PROVE LandedIsNotCancelled
    OBVIOUS
  <2>1. DOMAIN channel = 1..Len(channel)
    BY LenProperties DEF PumpInv, PumpTypeOK
  <2> QED
    BY <2>1 DEF PumpInv, PumpTypeOK, CancelInv, LandedIsNotCancelled
<1> QED
  BY <1>1, Always, PTL

(***************************************************************************)
(* The refinement: what the consumer sees is a byte stream.                *)
(***************************************************************************)
USE DEF Promised!stream, Promised!Init, Promised!Open, Promised!Deliver, Promised!End,
        Promised!Break, Promised!Close

LEMMA StreamStep ==
    ASSUME PumpInv, [PumpNext]_<<pumpVars, cancelled>>
    PROVE  [\/ Promised!Open \/ Promised!Deliver \/ Promised!End
            \/ Promised!Break \/ Promised!Close]_Promised!stream
<1> DEFINE Step == \/ Promised!Open \/ Promised!Deliver \/ Promised!End
                   \/ Promised!Break \/ Promised!Close
<1> USE DEF PumpInv, PumpTypeOK, download, tasks, sink
<1>1. ASSUME NEW from \in Nat, NEW total \in Nat, OpenStream(from, total)
      PROVE  Promised!Open
  BY <1>1 DEF OpenStream, NoStream
<1>2. ASSUME Pull PROVE Promised!Deliver \/ Promised!Break
  <2>1. CASE IsError(Head(channel))
    BY <1>2, <2>1 DEF Pull
  <2>2. CASE ~IsError(Head(channel))
    <3>1. Head(channel) = Window(reached + 1) /\ reached + 1 <= length
      BY <1>2, <2>2, HeadIsNext DEF Pull
    <3>2. /\ consumer = "pulling" /\ consumer' = "pulling"
          /\ reached' = reached + 1 /\ length' = length /\ reached < length
      BY <1>2, <2>2, <3>1 DEF Pull
    <3> QED
      BY <3>2
  <2> QED
    BY <2>1, <2>2
<1>3. ASSUME PullEnd PROVE Promised!End
  <2>1. Len(channel) = 0
    BY <1>3 DEF PullEnd
  <2>2. ~Broken /\ (Clean => offset = reached)
    BY <1>3, <2>1 DEF PullEnd, Broken, Clean
  <2>3. reached >= length
    BY <1>3, <2>2 DEF PullEnd, ChannelInv
  <2> QED
    BY <1>3, <2>3 DEF PullEnd
<1>4. ASSUME DropStream PROVE Promised!Break
  BY <1>4 DEF DropStream
<1>5. ASSUME CloseStream PROVE Promised!Close
  BY <1>5 DEF CloseStream, PumpIdle, ReporterInv
<1>6. ASSUME \/ FetchCancelled \/ FetchWindow \/ FetchNothing \/ FetchPanics
             \/ SendItem \/ SendRefused \/ Join \/ SendReport
             \/ UNCHANGED pumpVars
      PROVE  UNCHANGED Promised!stream
  <2>1. UNCHANGED <<reached, length, consumer>>
    BY <1>6 DEF FetchCancelled, FetchWindow, FetchNothing, FetchPanics, SendItem,
                SendRefused, Join, SendReport, pumpVars
  <2> QED
    BY <2>1
<1>7. CASE PumpNext
  <2>1. CASE \E from \in {0} \cup Sizes, total \in Sizes : OpenStream(from, total)
    BY <2>1, <1>1, PumpAssumption
  <2>2. CASE PumpStep \/ (Interrupt /\ UNCHANGED pumpVars)
    BY <2>2, <1>2, <1>3, <1>4, <1>5, <1>6 DEF PumpStep, PumpTasks, PumpConsumer
  <2> QED
    BY <1>7, <2>1, <2>2 DEF PumpNext
<1>8. CASE UNCHANGED <<pumpVars, cancelled>>
  BY <1>6, <1>8
<1> QED
  BY <1>7, <1>8

\* The consumer sees a byte stream, whatever the tasks, a cancel, a failing
\* window or a panic do: no gap, and no clean end before the last window.
THEOREM PumpImplements == PumpSpec => ImplementsByteStream
<1>1. PumpInit => Promised!Init
  BY DEF PumpInit, NoStream
<1> QED
  BY <1>1, StreamStep, Always, PTL DEF PumpSpec, ImplementsByteStream, Promised!Spec
=============================================================================
