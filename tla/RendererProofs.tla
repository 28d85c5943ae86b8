--------------------------- MODULE RendererProofs ---------------------------
(***************************************************************************)
(* What the renderer is told, for every plan, capacity and answer of the   *)
(* endpoints.  The events on their way are a bridge from what the renderer *)
(* knows to what the executor did: handled one after the other, each fits  *)
(* what was known before it, and after the last the tally is the report's. *)
(***************************************************************************)
EXTENDS ExecutorProofs

\* What RendererFollows says of the next event e and a tally t.
Fits(actions, t, e) ==
    /\ t.last = <<>>
    /\ e.type = "FileStarted" => t.file = 0
    /\ e.type \in {"FileProgress", "FileRetried", "FileFinished"} => e.path = t.file
    /\ e.type = "FileFinished" => e.n = actions[e.path].size - t.from

\* The events q lead from the tally s to u, over tallies of a set.
Leads(actions, tallies, q, s, u) ==
    \E f \in [0..Len(q) -> tallies] :
        /\ f[0] = s /\ f[Len(q)] = u
        /\ \A i \in 1..Len(q) :
               Fits(actions, f[i - 1], q[i]) /\ f[i] = Handle(f[i - 1], q[i])

\* The totals an event or a tally may hold: the final ones, once there are any.
Totals == {<<>>} \cup IF pc \in {"ok", "error"} THEN {<<report>>} ELSE {}
EventsOf(paths, totals) == [type : EventTypes, path : paths, n : Nat, report : totals]
TalliesOf(paths, totals) ==
    [file : paths, from : Nat, overall : Nat, base : Nat, done : Nat, failed : Nat,
     remaining : Nat, last : totals]
Sendable == EventsOf(Paths, Totals)
Hearable == TalliesOf(Paths, Totals)

\* The tally u of a renderer that was told everything.
Told(u) ==
    /\ u.done = report.copied /\ u.base = report.bytes
    /\ u.failed = Cardinality(Failed \ {index})
    /\ u.remaining = IF pc \in {"finish", "ok", "error"} THEN RemainingCopies ELSE 0
    /\ u.last = IF pc \in {"ok", "error"} THEN <<report>> ELSE <<>>
    /\ pc \in {"step", "settle"} => u.file = 0
    /\ pc \in {"read", "backOff", "write"} => u.file = index /\ u.from = copy.offset
    /\ u.file \in {0, index}

ChannelTypes ==
    /\ queue \in Seq(Sendable) /\ Len(queue) <= Capacity
    /\ outbox \in Seq(Sendable) /\ Len(outbox) <= 1
    /\ receiving \in BOOLEAN
    /\ seen \in Hearable

TellInv ==
    /\ receiving => \E u \in Hearable :
                        Leads(plan, Hearable, queue \o outbox, seen, u) /\ Told(u)
    /\ ~receiving => queue = <<>> /\ (seen.last # <<>> => Told(seen))

HearInv == ChannelTypes /\ TellInv
-----------------------------------------------------------------------------
(* Bridges.                                                                *)

LEMMA LeadsNowhere ==
    ASSUME NEW actions, NEW tallies, NEW s \in tallies
    PROVE  Leads(actions, tallies, <<>>, s, s)
<1> DEFINE f == [i \in 0..0 |-> s]
<1>1. Len(<<>>) = 0
  BY EmptySeq
<1>2. f \in [0..Len(<<>>) -> tallies] /\ f[0] = s /\ f[Len(<<>>)] = s
  BY <1>1
<1>3. \A i \in 1..Len(<<>>) : FALSE
  BY <1>1
<1> QED
  BY <1>2, <1>3 DEF Leads

LEMMA LeadsFurther ==
    ASSUME NEW actions, NEW tallies, NEW events, NEW q \in Seq(events), NEW e \in events,
           NEW s, NEW u, Leads(actions, tallies, q, s, u), Fits(actions, u, e),
           Handle(u, e) \in tallies
    PROVE  Leads(actions, tallies, Append(q, e), s, Handle(u, e))
<1>1. PICK f \in [0..Len(q) -> tallies] :
          /\ f[0] = s /\ f[Len(q)] = u
          /\ \A i \in 1..Len(q) :
                 Fits(actions, f[i - 1], q[i]) /\ f[i] = Handle(f[i - 1], q[i])
  BY DEF Leads
<1> DEFINE n == Len(q)
           p == Append(q, e)
           g == [i \in 0..Len(p) |-> IF i = n + 1 THEN Handle(u, e) ELSE f[i]]
<1>2. /\ n \in Nat /\ Len(p) = n + 1 /\ p[n + 1] = e
      /\ \A i \in 1..n : p[i] = q[i]
  BY AppendProperties, LenProperties
<1>3. g \in [0..Len(p) -> tallies]
  BY <1>1, <1>2
<1>4. g[0] = s /\ g[Len(p)] = Handle(u, e)
  BY <1>1, <1>2
<1>5. ASSUME NEW i \in 1..Len(p)
      PROVE  Fits(actions, g[i - 1], p[i]) /\ g[i] = Handle(g[i - 1], p[i])
  <2>1. CASE i = n + 1
    <3>1. g[i - 1] = u /\ p[i] = e /\ g[i] = Handle(u, e)
      BY <1>1, <1>2, <2>1
    <3> QED
      BY <3>1
  <2>2. CASE i # n + 1
    <3>1. i \in 1..n /\ g[i - 1] = f[i - 1] /\ g[i] = f[i] /\ p[i] = q[i]
      BY <1>2, <2>2
    <3> QED
      BY <1>1, <3>1
  <2> QED
    BY <2>1, <2>2
<1> HIDE DEF g, p
<1>6. Leads(actions, tallies, p, s, Handle(u, e))
  BY <1>3, <1>4, <1>5 DEF Leads
<1> QED
  BY <1>6 DEF p

LEMMA LeadsOn ==
    ASSUME NEW actions, NEW tallies, NEW events, NEW q \in Seq(events), q # <<>>,
           NEW s, NEW u, Leads(actions, tallies, q, s, u)
    PROVE  /\ Fits(actions, s, Head(q))
           /\ Handle(s, Head(q)) \in tallies
           /\ Leads(actions, tallies, Tail(q), Handle(s, Head(q)), u)
<1>1. PICK f \in [0..Len(q) -> tallies] :
          /\ f[0] = s /\ f[Len(q)] = u
          /\ \A i \in 1..Len(q) :
                 Fits(actions, f[i - 1], q[i]) /\ f[i] = Handle(f[i - 1], q[i])
  BY DEF Leads
<1> DEFINE t == Tail(q)
           g == [i \in 0..Len(t) |-> f[i + 1]]
<1>2. /\ Len(q) \in Nat \ {0} /\ Head(q) = q[1] /\ Len(t) = Len(q) - 1
      /\ \A i \in 1..Len(t) : t[i] = q[i + 1]
  BY HeadTailProperties, EmptySeq, LenProperties
<1>3. Fits(actions, s, Head(q)) /\ f[1] = Handle(s, Head(q)) /\ f[1] \in tallies
  BY <1>1, <1>2
<1>4. g \in [0..Len(t) -> tallies]
  BY <1>1, <1>2
<1>5. g[0] = Handle(s, Head(q)) /\ g[Len(t)] = u
  BY <1>1, <1>2, <1>3
<1>6. ASSUME NEW i \in 1..Len(t)
      PROVE  Fits(actions, g[i - 1], t[i]) /\ g[i] = Handle(g[i - 1], t[i])
  <2>1. i + 1 \in 1..Len(q) /\ g[i - 1] = f[(i + 1) - 1] /\ g[i] = f[i + 1] /\ t[i] = q[i + 1]
    BY <1>2
  <2> QED
    BY <1>1, <2>1
<1> HIDE DEF g, t
<1>7. Leads(actions, tallies, t, Handle(s, Head(q)), u)
  BY <1>4, <1>5, <1>6 DEF Leads
<1> QED
  BY <1>3, <1>7 DEF t

\* Nothing is under way to a renderer that has the final totals.
LEMMA LeadsEnd ==
    ASSUME NEW actions, NEW tallies, NEW events, NEW q \in Seq(events), NEW s, NEW u,
           Leads(actions, tallies, q, s, u), q = <<>> \/ s.last # <<>>
    PROVE  q = <<>> /\ u = s
<1>1. q = <<>>
  BY LeadsOn DEF Fits
<1>2. Len(q) = 0
  BY <1>1, EmptySeq
<1> QED
  BY <1>1, <1>2 DEF Leads

LEMMA LeadsMore ==
    ASSUME NEW actions, NEW tallies, NEW more, tallies \subseteq more, NEW q, NEW s, NEW u,
           Leads(actions, tallies, q, s, u)
    PROVE  Leads(actions, more, q, s, u)
<1>1. [0..Len(q) -> tallies] \subseteq [0..Len(q) -> more]
  OBVIOUS
<1> QED
  BY <1>1 DEF Leads
-----------------------------------------------------------------------------
(* What the renderer makes of one event.                                   *)

LEMMA HandleTypes ==
    ASSUME NEW paths, 0 \in paths, NEW totals, <<>> \in totals, totals \subseteq Seq(Reports),
           NEW t \in TalliesOf(paths, totals), NEW e \in EventsOf(paths, totals),
           t.last = <<>>
    PROVE  Handle(t, e) \in TalliesOf(paths, totals)
<1> USE DEF TalliesOf, EventsOf
<1>1. CASE e.type = "FileStarted"
  BY <1>1 DEF Handle
<1>2. CASE e.type = "FileProgress"
  <2>1. Difference(e.n, t.from) \in Nat
    BY DEF Difference
  <2>2. t.base + Difference(e.n, t.from) \in Nat
    BY <2>1
  <2>3. Handle(t, e) = [t EXCEPT !.overall = t.base + Difference(e.n, t.from)]
    BY <1>2 DEF Handle
  <2> QED
    BY <2>2, <2>3
<1>3. CASE e.type = "FileFinished"
  <2>1. t.base + e.n \in Nat /\ t.done + 1 \in Nat
    OBVIOUS
  <2>2. Handle(t, e) = [t EXCEPT !.base = t.base + e.n, !.overall = t.base + e.n,
                                 !.done = t.done + 1, !.file = 0]
    BY <1>3 DEF Handle
  <2> QED
    BY <2>1, <2>2
<1>4. CASE e.type = "FileFailed"
  <2>1. t.failed + 1 \in Nat
    OBVIOUS
  <2>2. Handle(t, e) = [t EXCEPT !.failed = t.failed + 1, !.file = 0]
    BY <1>4 DEF Handle
  <2> QED
    BY <2>1, <2>2
<1>5. CASE e.type \in {"FileRetried", "Skipped"}
  BY <1>5 DEF Handle
<1>6. CASE e.type = "Interrupted"
  BY <1>6 DEF Handle
<1>7. CASE e.type \in {"Finished", "Aborted"}
  <2>1. t.remaining + e.n \in Nat
    OBVIOUS
  <2>2. t.last \o e.report = e.report
    BY DEF Reports
  <2>3. Handle(t, e) = [t EXCEPT !.last = t.last \o e.report, !.remaining = t.remaining + e.n]
    BY <1>7 DEF Handle
  <2> QED
    BY <2>1, <2>2, <2>3
<1> QED
  BY <1>1, <1>2, <1>3, <1>4, <1>5, <1>6, <1>7 DEF EventTypes

\* The sets an event or a tally may be of, as the run goes on.
LEMMA Grows ==
    ASSUME RunInv, RunInv', UNCHANGED plan,
           pc \in {"ok", "error"} => UNCHANGED <<pc, report>>
    PROVE  /\ Totals \subseteq Totals' /\ Sendable \subseteq Sendable'
           /\ Hearable \subseteq Hearable' /\ Paths' = Paths
<1>1. Totals \subseteq Totals' /\ Paths' = Paths
  BY DEF Totals, Paths
<1> QED
  BY <1>1 DEF Sendable, Hearable, EventsOf, TalliesOf

LEMMA TotalsFacts ==
    ASSUME RunInv
    PROVE  /\ <<>> \in Totals /\ Totals \subseteq Seq({report}) /\ Totals \subseteq Seq(Reports)
           /\ Paths \subseteq Nat /\ 0 \in Paths /\ index \in Nat
           /\ index <= Len(plan) => index \in Paths
<1>1. Len(plan) \in Nat /\ index \in 1..Len(plan) + 1 /\ report \in Reports
  BY PlanFacts DEF RunInv, StateTypes
<1>2. <<>> \in Seq({report}) /\ <<>> \in Seq(Reports)
  BY EmptySeq
<1>3. <<report>> \in Seq({report}) /\ <<report>> \in Seq(Reports)
  BY <1>1
<1>4. Totals \subseteq Seq({report}) /\ Totals \subseteq Seq(Reports) /\ <<>> \in Totals
  BY <1>2, <1>3 DEF Totals
<1>5. Paths \subseteq Nat /\ 0 \in Paths /\ index \in Nat /\ (index <= Len(plan) => index \in Paths)
  BY <1>1 DEF Paths
<1> QED
  BY <1>4, <1>5
-----------------------------------------------------------------------------
(* One step of the executor.                                               *)

LEMMA InitHear == Init => HearInv
<1> SUFFICES ASSUME Init PROVE HearInv
  OBVIOUS
<1>0. RunInv
  BY InitRun
<1>1. queue = <<>> /\ outbox = <<>> /\ receiving = TRUE /\ seen = NothingSeen
  BY DEF Init
<1>2. Failed = {}
  BY EmptySeq DEF Init, EmptyReport, Failed
<1>3. Told(seen)
  <2>1. Cardinality(Failed \ {index}) = 0
    BY <1>2, FS_EmptySet
  <2> QED
    BY <1>1, <2>1 DEF Init, EmptyReport, NothingSeen, Told
<1>4. seen \in Hearable
  BY <1>0, <1>1, TotalsFacts DEF NothingSeen, Hearable, TalliesOf
<1>5. ChannelTypes
  <2>1. <<>> \in Seq(Sendable) /\ Len(<<>>) = 0
    BY EmptySeq
  <2> QED
    BY <1>1, <1>4, <2>1, ConstantsAssumption DEF ChannelTypes
<1>6. queue \o outbox = <<>>
  BY <1>1
<1>7. TellInv
  <2>1. Leads(plan, Hearable, queue \o outbox, seen, seen)
    BY <1>4, <1>6, LeadsNowhere
  <2> QED
    BY <1>1, <1>3, <1>4, <2>1 DEF TellInv
<1> QED
  BY <1>5, <1>7 DEF HearInv

\* The types of the channel survive a step that leaves it alone.
LEMMA TypesStay ==
    ASSUME ChannelTypes, Sendable \subseteq Sendable', Hearable \subseteq Hearable',
           UNCHANGED <<queue, receiving, seen>>,
           outbox' = outbox \/ \E e \in Sendable' : outbox' = <<e>>
    PROVE  ChannelTypes'
<1>1. Seq(Sendable) \subseteq Seq(Sendable')
  OBVIOUS
<1>2. outbox' \in Seq(Sendable') /\ Len(outbox') <= 1
  <2>1. CASE outbox' = outbox
    BY <1>1, <2>1 DEF ChannelTypes
  <2>2. ASSUME NEW e \in Sendable', outbox' = <<e>> PROVE outbox' \in Seq(Sendable') /\ Len(outbox') <= 1
    BY <2>2
  <2> QED
    BY <2>1, <2>2
<1> QED
  BY <1>1, <1>2 DEF ChannelTypes

\* A step that says nothing, and changes nothing the renderer should know.
LEMMA Silent ==
    ASSUME HearInv, RunInv, RunInv', UNCHANGED <<plan, channel>>,
           pc \in {"ok", "error"} => UNCHANGED <<pc, report>>,
           ASSUME NEW u \in Hearable, Told(u) PROVE Told(u)'
    PROVE  HearInv'
<1>1. Sendable \subseteq Sendable' /\ Hearable \subseteq Hearable'
  BY Grows
<1>2. ChannelTypes'
  BY <1>1, TypesStay DEF HearInv, channel
<1>3. TellInv'
  <2>1. CASE receiving
    <3>1. PICK u \in Hearable : Leads(plan, Hearable, queue \o outbox, seen, u) /\ Told(u)
      BY <2>1 DEF HearInv, TellInv
    <3>2. Leads(plan, Hearable', queue \o outbox, seen, u)
      BY <1>1, <3>1, LeadsMore
    <3>3. Told(u)'
      BY <3>1
    <3> QED
      BY <1>1, <2>1, <3>2, <3>3 DEF TellInv, channel
  <2>2. CASE ~receiving
    <3>1. seen.last # <<>> => Told(seen)'
      <4> SUFFICES ASSUME seen.last # <<>> PROVE Told(seen)'
        OBVIOUS
      <4>1. PICK u : u = seen
        OBVIOUS
      <4>2. u \in Hearable /\ Told(u)
        BY <2>2, <4>1 DEF HearInv, TellInv, ChannelTypes, Told
      <4>3. Told(u)'
        BY <4>2
      <4> QED
        BY <4>1, <4>3 DEF Told, channel
    <3> QED
      BY <2>2, <3>1 DEF HearInv, TellInv, channel
  <2> QED
    BY <2>1, <2>2
<1> QED
  BY <1>2, <1>3 DEF HearInv

\* One event more under way leads the renderer one tally further.
LEMMA OneMore ==
    ASSUME HearInv, RunInv, RunInv', UNCHANGED <<plan, seen>>, outbox = <<>>, receiving,
           pc \notin {"ok", "error"}, NEW e \in Sendable',
           queue' \o outbox' = Append(queue, e),
           ASSUME NEW u \in Hearable, NEW v, v = Handle(u, e), Told(u)
           PROVE  Fits(plan, u, e) /\ Told(v)'
    PROVE  \E v \in Hearable' :
               Leads(plan', Hearable', queue' \o outbox', seen', v) /\ Told(v)'
<1>1. Sendable \subseteq Sendable' /\ Hearable \subseteq Hearable' /\ Paths' = Paths
  BY Grows
<1>2. queue \in Seq(Sendable') /\ queue \o outbox = queue
  <2>1. queue \in Seq(Sendable) /\ Seq(Sendable) \subseteq Seq(Sendable')
    BY <1>1 DEF HearInv, ChannelTypes
  <2> QED
    BY <2>1
<1>3. PICK u \in Hearable : Leads(plan, Hearable, queue, seen, u) /\ Told(u)
  BY <1>2 DEF HearInv, TellInv
<1>4. Leads(plan, Hearable', queue, seen, u)
  BY <1>1, <1>3, LeadsMore
<1>5. PICK v : v = Handle(u, e)
  OBVIOUS
<1>6. Fits(plan, u, e) /\ Told(v)'
  BY <1>3, <1>5
<1>7. v \in Hearable'
  <2>1. Totals \subseteq Seq(Reports) /\ <<>> \in Totals /\ 0 \in Paths
    BY TotalsFacts
  <2>2. Totals' \subseteq Seq(Reports) /\ <<>> \in Totals'
    <3>1. report' \in Reports
      BY DEF RunInv, StateTypes
    <3>2. <<>> \in Seq(Reports) /\ <<report'>> \in Seq(Reports)
      BY <3>1, EmptySeq
    <3> QED
      BY <3>2 DEF Totals
  <2>3. u \in TalliesOf(Paths, Totals') /\ e \in EventsOf(Paths, Totals') /\ u.last = <<>>
    BY <1>1, <1>6 DEF Hearable, Sendable, Fits
  <2>4. Handle(u, e) \in TalliesOf(Paths, Totals')
    BY <2>1, <2>2, <2>3, HandleTypes
  <2> QED
    BY <1>1, <1>5, <2>4 DEF Hearable
<1>8. Leads(plan, Hearable', Append(queue, e), seen, Handle(u, e))
  BY <1>2, <1>4, <1>5, <1>6, <1>7, LeadsFurther
<1>9. Leads(plan', Hearable', queue' \o outbox', seen', v)
  BY <1>5, <1>8
<1> QED
  BY <1>6, <1>7, <1>9

\* A step that emits an event.
LEMMA Speaks ==
    ASSUME HearInv, RunInv, RunInv', UNCHANGED <<plan, queue, receiving, seen>>,
           outbox = <<>>, pc \notin {"ok", "error"},
           NEW e \in Sendable', outbox' = <<e>>,
           ASSUME NEW u \in Hearable, NEW v, v = Handle(u, e), Told(u)
           PROVE  Fits(plan, u, e) /\ Told(v)'
    PROVE  HearInv'
<1>1. Sendable \subseteq Sendable' /\ Hearable \subseteq Hearable'
  BY Grows
<1>2. ChannelTypes'
  BY <1>1, TypesStay DEF HearInv
<1>3. CASE receiving
  <2>1. queue' \o outbox' = Append(queue, e)
    BY DEF HearInv, ChannelTypes
  <2>2. \E v \in Hearable' :
            Leads(plan', Hearable', queue' \o outbox', seen', v) /\ Told(v)'
    BY <1>3, <2>1, OneMore
  <2> QED
    BY <1>2, <1>3, <2>2 DEF HearInv, TellInv
<1>4. CASE ~receiving
  <2>1. queue = <<>> /\ seen.last = <<>>
    BY <1>4 DEF HearInv, TellInv, Told
  <2> QED
    BY <1>2, <1>4, <2>1 DEF HearInv, TellInv
<1> QED
  BY <1>3, <1>4

\* Until the run ends by an error, what failed is behind the loop.
LEMMA FailedBehind ==
    ASSUME RunInv, pc \notin {"abort", "error"}
    PROVE  Failed \ {index} = Failed /\ Failed \ {index + 1} = Failed /\ IsFiniteSet(Failed)
<1>1. Failed \subseteq Before /\ index \in Nat
  BY PlanFacts DEF RunInv, StateTypes, FailedInv
<1> QED
  BY <1>1, Finite DEF Before

LEMMA RemainingFacts ==
    ASSUME RunInv
    PROVE  RemainingCopies \in Nat /\ (index > Len(plan) => RemainingCopies = 0)
<1>1. {i \in Copies : i >= index} \subseteq Copies /\ IsFiniteSet(Copies)
  BY Finite
<1>2. index > Len(plan) => {i \in Copies : i >= index} = {}
  BY PlanFacts DEF RunInv, StateTypes, Copies
<1> QED
  BY <1>1, <1>2, FS_Subset, FS_CardinalityType, FS_EmptySet DEF RemainingCopies

\* A failed call: nothing to tell, or one more failed file.
LEMMA FailTells ==
    ASSUME HearInv, RunInv, RunInv', NEW error \in {"cancelled", "fatal", "plain"}, Fail(error),
           pc \in {"step"} \cup CopySteps, index <= Len(plan), outbox = <<>>,
           UNCHANGED <<plan, queue, receiving, seen>>
    PROVE  HearInv'
<1>0. index \in Paths /\ index \in Nat /\ report \in Reports /\ index \notin Failed
  BY ActionIsNext, TotalsFacts DEF RunInv, StateTypes
<1>1. CASE error = "cancelled"
  <2>1. ASSUME NEW u \in Hearable, Told(u) PROVE Told(u)'
    BY <1>1, <2>1 DEF Fail, Interrupting, Told, CopySteps, Failed
  <2> QED
    BY <1>1, <2>1, Silent DEF Fail, Interrupting, channel, CopySteps
<1>2. CASE error = "fatal"
  <2>1. /\ Failed' = Failed \cup {index} /\ index' = index /\ pc' = "abort"
        /\ UNCHANGED <<report.copied, report.bytes, outbox>>
    BY <1>0, <1>2, OneMoreFailed DEF Fail
  <2>2. Failed' \ {index'} = Failed \ {index}
    BY <2>1
  <2>3. ASSUME NEW u \in Hearable, Told(u) PROVE Told(u)'
    BY <2>1, <2>2, <2>3 DEF Told, CopySteps
  <2> QED
    BY <2>1, <2>3, Silent DEF channel, CopySteps
<1>3. CASE error = "plain"
  <2>1. /\ Failed' = Failed \cup {index} /\ index' = index + 1 /\ pc' = "step"
        /\ UNCHANGED <<report.copied, report.bytes>>
    BY <1>0, <1>3, OneMoreFailed DEF Fail, Advance
  <2>2. Cardinality(Failed' \ {index'}) = Cardinality(Failed \ {index}) + 1
    <3>1. Failed' \ {index'} = (Failed \ {index}) \cup {index}
      BY <1>0, <2>1, FailedBehind DEF CopySteps
    <3> QED
      BY <1>0, <3>1, FailedBehind, FS_AddElement DEF CopySteps
  <2>3. PICK e : e = Event("FileFailed", index, 0, <<>>)
    OBVIOUS
  <2>4. e \in Sendable' /\ e.type = "FileFailed" /\ outbox' = <<e>>
    <3>1. e \in Sendable
      BY <1>0, <2>3, TotalsFacts DEF Event, Sendable, EventsOf, EventTypes
    <3> QED
      BY <1>3, <2>3, <3>1, Grows DEF Fail, Emit, Event, CopySteps
  <2>5. ASSUME NEW u \in Hearable, NEW v, v = Handle(u, e), Told(u)
        PROVE  Fits(plan, u, e) /\ Told(v)'
    <3>1. v = [u EXCEPT !.failed = u.failed + 1, !.file = 0]
      BY <2>4, <2>5 DEF Handle
    <3>2. /\ v.failed = u.failed + 1 /\ v.file = 0
          /\ v.done = u.done /\ v.base = u.base /\ v.remaining = u.remaining /\ v.last = u.last
      BY <3>1 DEF Hearable, TalliesOf
    <3>3. Fits(plan, u, e)
      BY <2>4, <2>5 DEF Fits, Told, CopySteps
    <3>4. u.remaining = 0 /\ u.last = <<>>
      BY <2>5 DEF Told, CopySteps
    <3> QED
      BY <2>1, <2>2, <2>5, <3>2, <3>3, <3>4 DEF Told
  <2> QED
    BY <2>4, <2>5, Speaks DEF CopySteps
<1> QED
  BY <1>1, <1>2, <1>3

\* The events of the loop.
LEMMA LoopTells ==
    ASSUME HearInv, RunInv, RunInv',
           \/ StepInterrupted \/ Mkdir \/ Skip \/ BeginCopy \/ Finish \/ Interrupt
           \/ FinishInterrupted \/ Abort
    PROVE  HearInv'
<1> USE DEF At, Begins
<1>0. /\ index \in Nat /\ Len(plan) \in Nat /\ report \in Reports /\ report' \in Reports
      /\ UNCHANGED <<plan, queue, receiving, seen>> /\ outbox = <<>> /\ pc \notin {"ok", "error"}
  <2>1. index \in Nat /\ Len(plan) \in Nat /\ report \in Reports /\ report' \in Reports
    BY PlanFacts DEF RunInv, StateTypes
  <2>2. CASE StepInterrupted \/ Mkdir \/ Skip
    BY <2>1, <2>2 DEF StepInterrupted, Mkdir, Skip
  <2>3. CASE BeginCopy \/ Finish \/ Interrupt \/ FinishInterrupted \/ Abort
    BY <2>1, <2>3 DEF BeginCopy, Finish, Interrupt, FinishInterrupted, Abort, channel
  <2> QED
    BY <2>2, <2>3
<1>1. CASE StepInterrupted \/ BeginCopy
  <2>1. ASSUME NEW u \in Hearable, Told(u) PROVE Told(u)'
    BY <1>1, <2>1 DEF StepInterrupted, Interrupting, BeginCopy, Told, Failed
  <2> QED
    BY <1>0, <1>1, <2>1, Silent DEF StepInterrupted, Interrupting, BeginCopy, channel
<1>2. CASE Mkdir
  <2>1. CASE \E error \in Faults : Fail(error)
    BY <1>0, <1>2, <2>1, FailTells DEF Mkdir, Faults
  <2>2. CASE Advance /\ UNCHANGED <<report, outbox>>
    <3>1. Failed' = Failed
      BY <2>2 DEF Failed
    <3>2. Failed' \ {index'} = Failed \ {index}
      BY <1>2, <2>2, <3>1, FailedBehind DEF Mkdir, Advance
    <3>3. ASSUME NEW u \in Hearable, Told(u) PROVE Told(u)'
      BY <1>2, <2>2, <3>2, <3>3 DEF Mkdir, Advance, Told
    <3> QED
      BY <1>0, <2>2, <3>3, Silent DEF channel
  <2> QED
    BY <1>2, <2>1, <2>2 DEF Mkdir
<1>3. CASE Skip
  <2>1. /\ report'.failed = report.failed /\ report'.copied = report.copied
        /\ report'.bytes = report.bytes
    BY <1>0, <1>3 DEF Skip, Reports
  <2>2. Failed' = Failed
    BY <2>1 DEF Failed
  <2>3. Failed' \ {index'} = Failed \ {index}
    BY <1>3, <2>2, FailedBehind DEF Skip, Advance
  <2>4. PICK e : e = Event("Skipped", index, 0, <<>>)
    OBVIOUS
  <2>5. e \in Sendable' /\ e.type = "Skipped" /\ outbox' = <<e>>
    <3>1. e \in Sendable
      BY <1>3, <2>4, TotalsFacts DEF Skip, Event, Sendable, EventsOf, EventTypes
    <3> QED
      BY <1>0, <1>3, <2>4, <3>1, Grows DEF Skip, Emit, Event
  <2>6. ASSUME NEW u \in Hearable, NEW v, v = Handle(u, e), Told(u)
        PROVE  Fits(plan, u, e) /\ Told(v)'
    <3>1. v = u
      BY <2>5, <2>6 DEF Handle
    <3>2. Fits(plan, u, e)
      BY <1>3, <2>5, <2>6 DEF Skip, Fits, Told
    <3> QED
      BY <1>3, <2>1, <2>3, <2>6, <3>1, <3>2 DEF Skip, Advance, Told
  <2> QED
    BY <1>0, <2>5, <2>6, Speaks
<1>4. CASE Interrupt
  <2>1. /\ report'.failed = report.failed /\ report'.copied = report.copied
        /\ report'.bytes = report.bytes
    BY <1>0, <1>4 DEF Interrupt, Reports
  <2>2. Failed' \ {index'} = Failed \ {index} /\ RemainingCopies' = RemainingCopies
    BY <1>4, <2>1 DEF Interrupt, Failed, RemainingCopies, Copies
  <2>3. PICK e : e = Event("Interrupted", 0, RemainingCopies, <<>>)
    OBVIOUS
  <2>4. e \in Sendable' /\ e.type = "Interrupted" /\ e.n = RemainingCopies /\ outbox' = <<e>>
    <3>1. RemainingCopies \in Nat
      BY RemainingFacts
    <3>2. e \in Sendable
      BY <2>3, <3>1, TotalsFacts DEF Event, Sendable, EventsOf, EventTypes
    <3> QED
      BY <1>0, <1>4, <2>3, <3>2, Grows DEF Interrupt, Emit, Event
  <2>5. ASSUME NEW u \in Hearable, NEW v, v = Handle(u, e), Told(u)
        PROVE  Fits(plan, u, e) /\ Told(v)'
    <3>1. v = [u EXCEPT !.remaining = e.n]
      BY <2>4, <2>5 DEF Handle
    <3>2. /\ v.remaining = e.n /\ v.failed = u.failed /\ v.file = u.file
          /\ v.done = u.done /\ v.base = u.base /\ v.last = u.last
      BY <3>1 DEF Hearable, TalliesOf
    <3>3. Fits(plan, u, e)
      BY <1>4, <2>4, <2>5 DEF Interrupt, Fits, Told
    <3> QED
      BY <1>4, <2>1, <2>2, <2>4, <2>5, <3>2, <3>3 DEF Interrupt, Told
  <2> QED
    BY <1>0, <2>4, <2>5, Speaks
<1>5. CASE Finish \/ FinishInterrupted \/ Abort
  <2>1. /\ UNCHANGED <<index, report>> /\ pc' \in {"ok", "error"}
        /\ Failed' \ {index'} = Failed \ {index} /\ RemainingCopies' = RemainingCopies
    BY <1>5 DEF Finish, FinishInterrupted, Abort, Failed, RemainingCopies, Copies
  <2>2. PICK e : \/ Finish /\ e = Event("Finished", 0, 0, <<report>>)
                 \/ FinishInterrupted /\ e = Event("Finished", 0, 0, <<report>>)
                 \/ Abort /\ e = Event("Aborted", 0, RemainingCopies, <<report>>)
    BY <1>5
  <2>3. /\ e \in Sendable' /\ e.type \in {"Finished", "Aborted"} /\ outbox' = <<e>>
        /\ e.report = <<report>>
    <3>1. RemainingCopies \in Nat /\ 0 \in Paths'
      BY RemainingFacts, TotalsFacts, <1>0 DEF Paths
    <3>2. <<report>> \in Totals'
      BY <2>1 DEF Totals
    <3>3. e.report = <<report>> /\ outbox' = <<e>> /\ e.type \in {"Finished", "Aborted"}
      BY <2>2 DEF Finish, FinishInterrupted, Abort, Conclude, Event
    <3>4. e \in Sendable'
      BY <2>2, <3>1, <3>2 DEF Event, Sendable, EventsOf, EventTypes
    <3> QED
      BY <3>3, <3>4
  <2>4. ASSUME NEW u \in Hearable, NEW v, v = Handle(u, e), Told(u)
        PROVE  Fits(plan, u, e) /\ Told(v)'
    <3>1. v = [u EXCEPT !.last = u.last \o e.report, !.remaining = u.remaining + e.n]
      BY <2>3, <2>4 DEF Handle
    <3>2. /\ v.remaining = u.remaining + e.n /\ v.failed = u.failed /\ v.file = u.file
          /\ v.done = u.done /\ v.base = u.base /\ v.last = u.last \o e.report
      BY <3>1 DEF Hearable, TalliesOf
    <3>3. Fits(plan, u, e) /\ u.last = <<>>
      BY <1>0, <2>3, <2>4 DEF Fits, Told
    <3>4. v.last = <<report>>
      BY <2>3, <3>2, <3>3
    <3>5. v.remaining = RemainingCopies
      <4>1. RemainingCopies \in Nat /\ (index > Len(plan) => RemainingCopies = 0)
        BY RemainingFacts
      <4>2. CASE Finish
        <5>1. u.remaining = 0 /\ e.n = 0 /\ RemainingCopies = 0
          BY <2>2, <2>4, <4>1, <4>2 DEF Finish, Told, Event, FinishInterrupted, Abort
        <5> QED
          BY <3>2, <5>1
      <4>3. CASE FinishInterrupted
        <5>1. u.remaining = RemainingCopies /\ e.n = 0
          BY <2>2, <2>4, <4>3 DEF Finish, Told, Event, FinishInterrupted, Abort
        <5> QED
          BY <3>2, <4>1, <5>1
      <4>4. CASE Abort
        <5>1. u.remaining = 0 /\ e.n = RemainingCopies
          BY <2>2, <2>4, <4>4 DEF Finish, Told, Event, FinishInterrupted, Abort
        <5> QED
          BY <3>2, <4>1, <5>1
      <4> QED
        BY <1>5, <4>2, <4>3, <4>4
    <3> QED
      BY <2>1, <2>4, <3>2, <3>3, <3>4, <3>5 DEF Told
  <2> QED
    BY <1>0, <2>3, <2>4, Speaks
<1> QED
  BY <1>1, <1>2, <1>3, <1>4, <1>5

\* The events of a copy.
LEMMA CopyTells ==
    ASSUME HearInv, RunInv, RunInv',
           \/ Settle \/ ReadOpens \/ ReadStalls \/ ReadFails \/ BackOff \/ Retry
           \/ CopyLands \/ CopyFails
    PROVE  HearInv'
<1> USE DEF At
<1>1. /\ pc \in CopySteps /\ outbox = <<>> /\ UNCHANGED <<plan, queue, receiving, seen>>
      /\ pc \notin {"ok", "error"}
  BY DEF Settle, ReadOpens, ReadStalls, ReadFails, BackOff, Retry, CopyLands, CopyFails,
         CopySteps, channel
<1>0. /\ index \in 1..Len(plan) /\ index \in Nat /\ Action \in Actions /\ Action.kind = "copy"
      /\ Action.from <= Action.size /\ index \in Paths
      /\ report \in Reports /\ report' \in Reports /\ copy.offset \in Nat
  BY <1>1, PlanFacts, TotalsFacts DEF RunInv, StateTypes, ControlInv, CopySteps, Action
<1>2. ASSUME NEW error \in {"cancelled", "fatal", "plain"}, Fail(error)
      PROVE  HearInv'
  BY <1>0, <1>1, <1>2, FailTells
<1>3. CASE ReadOpens \/ Retry
  <2>1. ASSUME NEW u \in Hearable, Told(u) PROVE Told(u)'
    BY <1>3, <2>1 DEF ReadOpens, Retry, Told, Failed
  <2> QED
    BY <1>1, <1>3, <2>1, Silent DEF ReadOpens, Retry, channel
<1>4. CASE BackOff
  <2>1. CASE cancelled /\ Interrupting
    BY <1>2, <2>1 DEF Fail
  <2>2. CASE /\ copy' = [copy EXCEPT !.wait = @ - 1] /\ UNCHANGED <<index, pc, report, outbox>>
    <3>1. copy'.offset = copy.offset
      BY <2>2 DEF RunInv, StateTypes
    <3>2. ASSUME NEW u \in Hearable, Told(u) PROVE Told(u)'
      BY <2>2, <3>1, <3>2, <1>4 DEF BackOff, Told, Failed
    <3> QED
      BY <1>1, <2>2, <3>2, Silent DEF channel
  <2> QED
    BY <1>4, <2>1, <2>2 DEF BackOff
<1>5. CASE ReadFails \/ CopyFails
  BY <1>2, <1>5 DEF ReadFails, CopyFails, Errors, Faults
<1>6. CASE Settle
  <2>1. CASE \E error \in Faults : Fail(error)
    BY <1>2, <2>1 DEF Faults
  <2>2. CASE \E offset \in {0, Action.from} :
               /\ copy' = [copy EXCEPT !.offset = offset, !.position = offset]
               /\ Emit("FileStarted", index, offset) /\ pc' = "read"
               /\ UNCHANGED <<index, report>>
    <3>1. PICK offset \in {0, Action.from} :
              /\ copy' = [copy EXCEPT !.offset = offset, !.position = offset]
              /\ Emit("FileStarted", index, offset) /\ pc' = "read"
              /\ UNCHANGED <<index, report>>
      BY <2>2
    <3>2. offset \in Nat /\ copy'.offset = offset
      BY <1>0, <3>1 DEF RunInv, StateTypes, Actions
    <3>3. PICK e : e = Event("FileStarted", index, offset, <<>>)
      OBVIOUS
    <3>4. /\ e \in Sendable' /\ e.type = "FileStarted" /\ e.path = index /\ e.n = offset
          /\ outbox' = <<e>>
      <4>1. e \in Sendable
        BY <1>0, <3>2, <3>3, TotalsFacts DEF Event, Sendable, EventsOf, EventTypes
      <4> QED
        BY <1>1, <3>1, <3>3, <4>1, Grows DEF Emit, Event
    <3>5. ASSUME NEW u \in Hearable, NEW v, v = Handle(u, e), Told(u)
          PROVE  Fits(plan, u, e) /\ Told(v)'
      <4>1. v = [u EXCEPT !.file = e.path, !.from = e.n]
        BY <3>4, <3>5 DEF Handle
      <4>2. /\ v.file = index /\ v.from = offset /\ v.remaining = u.remaining
            /\ v.failed = u.failed /\ v.done = u.done /\ v.base = u.base /\ v.last = u.last
        BY <3>4, <4>1 DEF Hearable, TalliesOf
      <4>3. Fits(plan, u, e)
        BY <1>6, <3>4, <3>5 DEF Settle, Fits, Told
      <4> QED
        BY <1>6, <3>1, <3>2, <3>5, <4>2, <4>3 DEF Settle, Told, Failed
    <3> QED
      BY <1>1, <3>4, <3>5, Speaks
  <2> QED
    BY <1>6, <2>1, <2>2 DEF Settle
<1>7. CASE ReadStalls
  <2>1. CASE cancelled /\ Interrupting
    BY <1>2, <2>1 DEF Fail
  <2>2. CASE /\ Emit("FileRetried", index, 0)
             /\ copy' = [copy EXCEPT !.retries = @ + 1, !.wait = copy.backoff, !.backoff = 2 * @]
             /\ pc' = "backOff" /\ UNCHANGED <<index, report>>
    <3>1. copy'.offset = copy.offset
      BY <2>2 DEF RunInv, StateTypes
    <3>2. PICK e : e = Event("FileRetried", index, 0, <<>>)
      OBVIOUS
    <3>3. e \in Sendable' /\ e.type = "FileRetried" /\ e.path = index /\ outbox' = <<e>>
      <4>1. e \in Sendable
        BY <1>0, <3>2, TotalsFacts DEF Event, Sendable, EventsOf, EventTypes
      <4> QED
        BY <1>1, <2>2, <3>2, <4>1, Grows DEF Emit, Event
    <3>4. ASSUME NEW u \in Hearable, NEW v, v = Handle(u, e), Told(u)
          PROVE  Fits(plan, u, e) /\ Told(v)'
      <4>1. v = u
        BY <3>3, <3>4 DEF Handle
      <4>2. Fits(plan, u, e)
        BY <1>7, <3>3, <3>4 DEF ReadStalls, Fits, Told
      <4> QED
        BY <1>7, <2>2, <3>1, <3>4, <4>1, <4>2 DEF ReadStalls, Told, Failed
    <3> QED
      BY <1>1, <3>3, <3>4, Speaks
  <2> QED
    BY <1>7, <2>1, <2>2 DEF ReadStalls
<1>8. CASE CopyLands
  <2>1. Action.size - copy.offset \in Nat
    BY <1>0, <1>8 DEF CopyLands, RunInv, StateTypes, ControlInv, CopySteps, Actions
  <2>2. PICK n \in Nat : n = Action.size - copy.offset
    BY <2>1
  <2>3. report' = [report EXCEPT !.copied = @ + 1, !.bytes = @ + n]
    BY <1>8, <2>2 DEF CopyLands
  <2>4. /\ report'.failed = report.failed /\ report'.copied = report.copied + 1
        /\ report'.bytes = report.bytes + n
    BY <1>0, <2>3 DEF Reports
  <2>5. Failed' \ {index'} = Failed \ {index}
    <3>1. Failed' = Failed
      BY <2>4 DEF Failed
    <3> QED
      BY <1>1, <1>8, <3>1, FailedBehind DEF CopyLands, Advance, CopySteps
  <2>6. PICK e : e = Event("FileFinished", index, n, <<>>)
    OBVIOUS
  <2>7. /\ e \in Sendable' /\ e.type = "FileFinished" /\ e.path = index /\ e.n = n
        /\ outbox' = <<e>>
    <3>1. e \in Sendable
      BY <1>0, <2>6, TotalsFacts DEF Event, Sendable, EventsOf, EventTypes
    <3> QED
      BY <1>1, <1>8, <2>2, <2>6, <3>1, Grows DEF CopyLands, Emit, Event
  <2>8. ASSUME NEW u \in Hearable, NEW v, v = Handle(u, e), Told(u)
        PROVE  Fits(plan, u, e) /\ Told(v)'
    <3>1. v = [u EXCEPT !.base = u.base + e.n, !.overall = u.base + e.n,
                        !.done = u.done + 1, !.file = 0]
      BY <2>7, <2>8 DEF Handle
    <3>2. /\ v.base = u.base + n /\ v.done = u.done + 1 /\ v.file = 0
          /\ v.failed = u.failed /\ v.remaining = u.remaining /\ v.last = u.last
      BY <2>7, <3>1 DEF Hearable, TalliesOf
    <3>3. Fits(plan, u, e)
      BY <1>8, <2>2, <2>7, <2>8 DEF CopyLands, Fits, Told, Action
    <3> QED
      BY <1>8, <2>4, <2>5, <2>8, <3>2, <3>3 DEF CopyLands, Advance, Told
  <2> QED
    BY <1>1, <2>7, <2>8, Speaks
<1> QED
  BY <1>3, <1>4, <1>5, <1>6, <1>7, <1>8
-----------------------------------------------------------------------------
(* One step of the channel, the renderer or the user.                      *)

\* A step that leaves the run alone leaves what there is to tell alone.
LEMMA RunStays ==
    ASSUME RunInv, UNCHANGED <<plan, progress>>
    PROVE  /\ Sendable' = Sendable /\ Hearable' = Hearable
           /\ \A u \in Hearable : Told(u) => Told(u)'
<1>1. Totals' = Totals /\ Paths' = Paths
  BY DEF Totals, Paths, progress
<1>2. ASSUME NEW u \in Hearable, Told(u) PROVE Told(u)'
  <2>1. Failed' = Failed /\ RemainingCopies' = RemainingCopies
    BY DEF Failed, RemainingCopies, Copies, progress
  <2> QED
    BY <1>2, <2>1 DEF Told, progress
<1> QED
  BY <1>1, <1>2 DEF Sendable, Hearable

LEMMA ChunkTells == ASSUME HearInv, RunInv, RunInv', Chunk PROVE HearInv'
<1> USE DEF At
<1>1. /\ pc = "write" /\ outbox = <<>> /\ outbox' = <<>>
      /\ UNCHANGED <<plan, index, pc, report, outbox, receiving, seen>>
  BY DEF Chunk
<1>2. /\ index \in Paths /\ copy'.position \in Nat /\ copy'.offset = copy.offset
  BY <1>1, TotalsFacts DEF Chunk, RunInv, StateTypes, ControlInv
<1>3. ASSUME NEW u \in Hearable, Told(u) PROVE Told(u)'
  BY <1>1, <1>2, <1>3 DEF Told, Failed
<1>4. CASE UNCHANGED queue
  BY <1>1, <1>3, <1>4, Silent DEF channel
<1>5. CASE queue' # queue
  <2>1. PICK e : e = Event("FileProgress", index, copy'.position, <<>>)
    OBVIOUS
  <2>2. /\ receiving /\ Len(queue) < Capacity /\ queue' = Append(queue, e)
    BY <1>5, <2>1 DEF Chunk
  <2>3. Sendable \subseteq Sendable' /\ Hearable \subseteq Hearable'
    BY <1>1, Grows
  <2>4. e \in Sendable' /\ e.type = "FileProgress" /\ e.path = index
    <3>1. e \in Sendable
      BY <1>2, <2>1, TotalsFacts DEF Event, Sendable, EventsOf, EventTypes
    <3> QED
      BY <2>1, <2>3, <3>1 DEF Event
  <2>5. queue \in Seq(Sendable') /\ outbox \in Seq(Sendable')
    BY <2>3 DEF HearInv, ChannelTypes
  <2>6. ChannelTypes'
    <3>1. queue' \in Seq(Sendable') /\ Len(queue') = Len(queue) + 1 /\ Len(queue) \in Nat
      BY <2>2, <2>4, <2>5, AppendProperties, LenProperties
    <3>2. Len(queue') <= Capacity
      BY <2>2, <3>1, ConstantsAssumption
    <3> QED
      BY <1>1, <2>3, <2>5, <3>1, <3>2 DEF HearInv, ChannelTypes
  <2>7. queue' \o outbox' = Append(queue, e)
    BY <1>1, <2>2, <2>4, <2>5
  <2>8. ASSUME NEW u \in Hearable, NEW v, v = Handle(u, e), Told(u)
        PROVE  Fits(plan, u, e) /\ Told(v)'
    <3>1. v = [u EXCEPT !.overall = u.base + Difference(e.n, u.from)]
      BY <2>4, <2>8 DEF Handle
    <3>2. /\ v.base = u.base /\ v.done = u.done /\ v.file = u.file /\ v.from = u.from
          /\ v.failed = u.failed /\ v.remaining = u.remaining /\ v.last = u.last
      BY <3>1 DEF Hearable, TalliesOf
    <3>3. Fits(plan, u, e)
      BY <1>1, <2>4, <2>8 DEF Fits, Told
    <3> QED
      BY <1>1, <1>2, <2>8, <3>2, <3>3 DEF Told, Failed
  <2>9. \E v \in Hearable' :
            Leads(plan', Hearable', queue' \o outbox', seen', v) /\ Told(v)'
    BY <1>1, <2>2, <2>4, <2>7, <2>8, OneMore
  <2> QED
    BY <1>1, <2>2, <2>6, <2>9 DEF HearInv, TellInv
<1> QED
  BY <1>4, <1>5

LEMMA SendTells == ASSUME HearInv, RunInv, Send PROVE HearInv'
<1>1. /\ UNCHANGED <<plan, progress, receiving, seen>> /\ outbox' = <<>>
      /\ queue' = IF receiving THEN queue \o outbox ELSE queue
  BY DEF Send
<1>2. Sendable' = Sendable /\ Hearable' = Hearable /\ \A u \in Hearable : Told(u) => Told(u)'
  BY <1>1, RunStays
<1>3. queue \in Seq(Sendable) /\ outbox \in Seq(Sendable) /\ seen \in Hearable
  BY DEF HearInv, ChannelTypes
<1>4. ChannelTypes'
  <2>1. outbox' \in Seq(Sendable) /\ Len(outbox') <= 1
    BY <1>1, EmptySeq
  <2>2. queue' \in Seq(Sendable) /\ Len(queue') <= Capacity
    <3>1. CASE receiving
      <4>1. queue' = queue \o outbox /\ Len(queue) < Capacity
        BY <1>1, <3>1 DEF Send
      <4>2. queue' \in Seq(Sendable) /\ Len(queue') = Len(queue) + Len(outbox)
        BY <1>3, <4>1, ConcatProperties
      <4>3. Len(outbox) \in 0..1 /\ Len(queue) \in Nat
        <5>1. Len(outbox) \in Nat /\ Len(queue) \in Nat
          BY <1>3, LenProperties
        <5>2. Len(outbox) <= 1
          BY DEF HearInv, ChannelTypes
        <5> QED
          BY <5>1, <5>2
      <4> QED
        BY <4>1, <4>2, <4>3, ConstantsAssumption
    <3>2. CASE ~receiving
      BY <1>1, <3>2 DEF HearInv, ChannelTypes
    <3> QED
      BY <3>1, <3>2
  <2> QED
    BY <1>1, <1>2, <2>1, <2>2 DEF HearInv, ChannelTypes
<1>5. CASE receiving
  <2>1. PICK u \in Hearable : Leads(plan, Hearable, queue \o outbox, seen, u) /\ Told(u)
    BY <1>5 DEF HearInv, TellInv
  <2>2. queue' \o outbox' = queue \o outbox
    BY <1>1, <1>3, <1>5
  <2>3. Leads(plan', Hearable', queue' \o outbox', seen', u) /\ Told(u)'
    BY <1>1, <1>2, <2>1, <2>2
  <2> QED
    BY <1>1, <1>2, <1>4, <1>5, <2>3 DEF HearInv, TellInv
<1>6. CASE ~receiving
  <2>1. queue' = <<>> /\ ~receiving' /\ seen' = seen
    BY <1>1, <1>6 DEF HearInv, TellInv
  <2>2. seen.last # <<>> => Told(seen)'
    <3>1. PICK u \in Hearable : u = seen
      BY <1>3
    <3>2. seen.last # <<>> => Told(u)
      BY <1>6, <3>1 DEF HearInv, TellInv, Told
    <3>3. seen.last # <<>> => Told(u)'
      BY <1>2, <3>2
    <3> QED
      BY <1>1, <3>1, <3>3 DEF Told
  <2> QED
    BY <1>4, <2>1, <2>2 DEF HearInv, TellInv
<1> QED
  BY <1>5, <1>6

LEMMA ReceiveTells == ASSUME HearInv, RunInv, Receive PROVE HearInv'
<1>1. /\ UNCHANGED <<plan, progress, receiving, outbox>> /\ queue # <<>>
      /\ seen' = Handle(seen, Head(queue)) /\ queue' = Tail(queue)
  BY DEF Receive
<1>2. Sendable' = Sendable /\ Hearable' = Hearable /\ \A u \in Hearable : Told(u) => Told(u)'
  BY <1>1, RunStays
<1>3. queue \in Seq(Sendable) /\ outbox \in Seq(Sendable) /\ receiving
  BY <1>1 DEF HearInv, ChannelTypes, TellInv
<1>4. PICK u \in Hearable : Leads(plan, Hearable, queue \o outbox, seen, u) /\ Told(u)
  BY <1>3 DEF HearInv, TellInv
<1>5. /\ queue \o outbox \in Seq(Sendable) /\ queue \o outbox # <<>>
      /\ Head(queue \o outbox) = Head(queue) /\ Tail(queue \o outbox) = Tail(queue) \o outbox
      /\ Len(queue) \in Nat \ {0} /\ Len(outbox) \in Nat
  BY <1>1, <1>3
<1>6. /\ Handle(seen, Head(queue)) \in Hearable
      /\ Leads(plan, Hearable, Tail(queue) \o outbox, Handle(seen, Head(queue)), u)
  <2>1. PICK q \in Seq(Sendable) : q = queue \o outbox
    BY <1>5
  <2>2. /\ q # <<>> /\ Head(q) = Head(queue) /\ Tail(q) = Tail(queue) \o outbox
        /\ Leads(plan, Hearable, q, seen, u)
    BY <1>4, <1>5, <2>1
  <2>3. /\ Handle(seen, Head(q)) \in Hearable
        /\ Leads(plan, Hearable, Tail(q), Handle(seen, Head(q)), u)
    BY <2>2, LeadsOn
  <2> QED
    BY <2>2, <2>3
<1>7. ChannelTypes'
  <2>1. queue' \in Seq(Sendable) /\ Len(queue') = Len(queue) - 1
    BY <1>1, <1>3, HeadTailProperties
  <2>2. Len(queue') <= Capacity
    BY <1>5, <2>1, ConstantsAssumption DEF HearInv, ChannelTypes
  <2> QED
    BY <1>1, <1>2, <1>6, <2>1, <2>2 DEF HearInv, ChannelTypes
<1>8. Leads(plan', Hearable', queue' \o outbox', seen', u) /\ Told(u)'
  BY <1>1, <1>2, <1>4, <1>6
<1> QED
  BY <1>1, <1>2, <1>3, <1>7, <1>8 DEF HearInv, TellInv

LEMMA HangUpTells == ASSUME HearInv, RunInv, HangUp PROVE HearInv'
<1>1. /\ UNCHANGED <<plan, progress, outbox, seen>> /\ receiving /\ receiving' = FALSE
      /\ queue' = <<>>
  BY DEF HangUp
<1>2. Sendable' = Sendable /\ Hearable' = Hearable /\ \A u \in Hearable : Told(u) => Told(u)'
  BY <1>1, RunStays
<1>3. PICK u \in Hearable : Leads(plan, Hearable, queue \o outbox, seen, u) /\ Told(u)
  BY <1>1 DEF HearInv, TellInv
<1>4. queue \o outbox \in Seq(Sendable)
  BY ConcatProperties DEF HearInv, ChannelTypes
<1>5. seen.last # <<>> => Told(seen)'
  <2> SUFFICES ASSUME seen.last # <<>> PROVE Told(seen)'
    OBVIOUS
  <2>1. u = seen
    BY <1>3, <1>4, LeadsEnd
  <2>2. Told(u)'
    BY <1>2, <1>3
  <2> QED
    BY <1>1, <2>1, <2>2 DEF Told
<1>6. ChannelTypes'
  <2>1. queue' \in Seq(Sendable) /\ Len(queue') = 0
    BY <1>1, EmptySeq
  <2>2. Len(queue') <= Capacity
    BY <2>1, ConstantsAssumption
  <2>3. receiving' \in BOOLEAN
    BY <1>1
  <2> QED
    BY <1>1, <1>2, <2>1, <2>2, <2>3 DEF HearInv, ChannelTypes
<1> QED
  BY <1>1, <1>5, <1>6 DEF HearInv, TellInv

\* Cancel, and a step of nobody.
LEMMA OthersTell == ASSUME HearInv, RunInv, UNCHANGED <<plan, progress, channel>> PROVE HearInv'
<1>1. Sendable' = Sendable /\ Hearable' = Hearable /\ \A u \in Hearable : Told(u) => Told(u)'
  BY RunStays
<1>2. ChannelTypes'
  BY <1>1 DEF HearInv, ChannelTypes, channel
<1>3. CASE receiving
  <2>1. PICK u \in Hearable : Leads(plan, Hearable, queue \o outbox, seen, u) /\ Told(u)
    BY <1>3 DEF HearInv, TellInv
  <2>2. Leads(plan', Hearable', queue' \o outbox', seen', u) /\ Told(u)'
    BY <1>1, <2>1 DEF channel
  <2> QED
    BY <1>1, <1>2, <1>3, <2>2 DEF HearInv, TellInv, channel
<1>4. CASE ~receiving
  <2>1. PICK u \in Hearable : u = seen
    BY DEF HearInv, ChannelTypes
  <2>2. seen.last # <<>> => Told(u)'
    BY <1>1, <1>4, <2>1 DEF HearInv, TellInv, Told
  <2>3. seen'.last # <<>> => Told(seen)'
    BY <2>1, <2>2 DEF Told, channel
  <2> QED
    BY <1>2, <1>4, <2>3 DEF HearInv, TellInv, channel
<1> QED
  BY <1>3, <1>4

LEMMA HearStep == ASSUME HearInv, RunInv, RunInv', [Next]_vars PROVE HearInv'
<1>1. CASE Run
  BY <1>1, LoopTells, CopyTells, ChunkTells, SendTells DEF Run
<1>2. CASE Receive \/ HangUp
  BY <1>2, ReceiveTells, HangUpTells
<1>3. CASE Cancel \/ UNCHANGED vars
  <2>1. UNCHANGED <<plan, progress, channel>>
    BY <1>3 DEF Cancel, vars
  <2> QED
    BY <2>1, OthersTell
<1> QED
  BY <1>1, <1>2, <1>3 DEF Next

LEMMA HearAlways == Spec => []HearInv
<1>1. HearInv /\ RunInv /\ RunInv' /\ [Next]_vars => HearInv'
  BY HearStep
<1> QED
  BY InitHear, <1>1, RunAlways, PTL DEF Spec
-----------------------------------------------------------------------------
\* Every variable holds what the code's types allow, for every plan, number of
\* retries and capacity.
THEOREM TypesHold == Spec => []TypeOK
<1>1. RunInv /\ HearInv => TypeOK
  <2> SUFFICES ASSUME RunInv, HearInv PROVE TypeOK
    OBVIOUS
  <2>1. Totals \subseteq Seq({report})
    BY TotalsFacts
  <2>2. Sendable \subseteq Events
    BY <2>1 DEF Sendable, EventsOf, Events
  <2>3. Seq(Sendable) \subseteq Seq(Events)
    BY <2>2
  <2>4. Hearable \subseteq Tallies
    BY <2>1 DEF Hearable, TalliesOf, Tallies
  <2>5. /\ outbox \in Seq(Events) /\ Len(outbox) <= 1 /\ queue \in Seq(Events)
        /\ Len(queue) <= Capacity /\ receiving \in BOOLEAN /\ seen \in Tallies
    BY <2>3, <2>4 DEF HearInv, ChannelTypes
  <2> QED
    BY <2>5 DEF RunInv, StateTypes, ControlInv, Steps, TypeOK
<1> QED
  BY <1>1, RunAlways, HearAlways, PTL

\* What the next event says is about the file the renderer last saw start, and
\* nothing follows the last event.
THEOREM RendererIsFollowed == Spec => []RendererFollows
<1>1. HearInv => RendererFollows
  <2> SUFFICES ASSUME HearInv, queue # <<>> PROVE Fits(plan, seen, Head(queue))
    BY DEF RendererFollows, Fits
  <2>1. receiving /\ queue \in Seq(Sendable) /\ outbox \in Seq(Sendable)
    BY DEF HearInv, ChannelTypes, TellInv
  <2>2. PICK u \in Hearable : Leads(plan, Hearable, queue \o outbox, seen, u)
    BY <2>1 DEF HearInv, TellInv
  <2>3. /\ queue \o outbox \in Seq(Sendable) /\ queue \o outbox # <<>>
        /\ Head(queue \o outbox) = Head(queue)
    BY <2>1
  <2> QED
    BY <2>2, <2>3, LeadsOn
<1> QED
  BY <1>1, HearAlways, PTL

LEMMA TwoParts ==
    ASSUME NEW S, NEW T, IsFiniteSet(S), IsFiniteSet(T), S \cap T = {}
    PROVE  Cardinality(S \cup T) = Cardinality(S) + Cardinality(T)
<1>1. Cardinality(S \cup T) = Cardinality(S) + Cardinality(T) - Cardinality(S \cap T)
  BY FS_Union
<1>2. Cardinality(S \cap T) = 0
  BY FS_EmptySet
<1>3. Cardinality(S) \in Nat /\ Cardinality(T) \in Nat
  BY FS_CardinalityType
<1> QED
  BY <1>1, <1>2, <1>3

\* A renderer that has the last event gathered what the report says, and its
\* summary line adds up to the plan: what it calls remaining is every copy from the
\* action that ended the run on, the one that was under way included.
THEOREM TotalsAgree == Spec => []EventsMatchReport
<1>1. RunInv /\ CountInv /\ HearInv => EventsMatchReport
  <2> SUFFICES ASSUME RunInv, CountInv, HearInv, seen.last # <<>>
               PROVE  /\ seen.last = <<report>>
                      /\ seen.done = report.copied
                      /\ seen.base = report.bytes
                      /\ seen.failed = Cardinality(Failed \ {index})
                      /\ seen.done + Cardinality((Copies \cap Failed) \ {index}) + seen.remaining
                          = Cardinality(Copies)
                      /\ seen.remaining = RemainingCopies
                      /\ seen.file \in {0, index}
    BY DEF EventsMatchReport
  <2>1. Told(seen)
    <3>1. CASE receiving
      <4>1. PICK u \in Hearable : Leads(plan, Hearable, queue \o outbox, seen, u) /\ Told(u)
        BY <3>1 DEF HearInv, TellInv
      <4>2. queue \o outbox \in Seq(Sendable)
        BY ConcatProperties DEF HearInv, ChannelTypes
      <4>3. u = seen
        BY <4>1, <4>2, LeadsEnd
      <4> QED
        BY <4>1, <4>3
    <3>2. CASE ~receiving
      BY <3>2 DEF HearInv, TellInv
    <3> QED
      BY <3>1, <3>2
  <2>2. /\ pc \in {"ok", "error"} /\ seen.last = <<report>> /\ seen.done = report.copied
        /\ seen.base = report.bytes /\ seen.failed = Cardinality(Failed \ {index})
        /\ seen.remaining = RemainingCopies /\ seen.file \in {0, index}
    BY <2>1 DEF Told
  <2> DEFINE Lost == (Copies \cap Failed) \ {index}
             Left == {i \in Copies : i >= index}
  <2>3. index \in Nat /\ \A i \in Copies : i \in Nat \ {0}
    BY PlanFacts DEF RunInv, StateTypes, Copies
  <2>4. /\ Copies = (Landed \cup Lost) \cup Left
        /\ Landed \cap Lost = {} /\ (Landed \cup Lost) \cap Left = {}
    BY <2>3 DEF Landed, Before, RunInv, FailedInv
  <2>5. /\ IsFiniteSet(Landed) /\ IsFiniteSet(Lost) /\ IsFiniteSet(Left)
        /\ IsFiniteSet(Landed \cup Lost)
    <3>1. IsFiniteSet(Copies) /\ Landed \subseteq Copies /\ Lost \subseteq Copies
          /\ Left \subseteq Copies
      BY Finite DEF Landed
    <3> QED
      BY <3>1, FS_Subset
  <2> HIDE DEF Lost, Left
  <2>6. /\ Cardinality(Landed) \in Nat /\ Cardinality(Lost) \in Nat /\ Cardinality(Left) \in Nat
    BY <2>5, FS_CardinalityType
  <2>7. Cardinality(Landed \cup Lost) = Cardinality(Landed) + Cardinality(Lost)
    BY <2>4, <2>5, <2>6, TwoParts
  <2>8. Cardinality(Copies) = Cardinality(Landed) + Cardinality(Lost) + Cardinality(Left)
    BY <2>4, <2>5, <2>6, <2>7, TwoParts
  <2>9. report.copied = Cardinality(Landed) /\ RemainingCopies = Cardinality(Left)
    BY DEF CountInv, RemainingCopies, Left
  <2> QED
    BY <2>2, <2>8, <2>9, <2>6 DEF Lost
<1> QED
  BY <1>1, RunAlways, CountAlways, HearAlways, PTL
=============================================================================
