---------------------------- MODULE SessionProofs ----------------------------
(***************************************************************************)
(* Whatever the commands, phones, files and capacity: an observer sees the *)
(* events of a command in the order ProgressEvent promises.  The events in *)
(* the channel are as much part of the story as those already shown: each  *)
(* is allowed by all that went before it, in the channel or out of it.     *)
(* Progress is left out: it may be lost, and promises nothing.             *)
(***************************************************************************)
EXTENDS Session, SequenceTheorems, FiniteSetTheorems, TLAPS

Types == {"ScanStarted", "ScanProgress", "ScanFinished", "PlanReady", "File", "Finished", "Aborted"}
Terminal == {"Finished", "Aborted"}
Events == [type : Types, side : Sides]

Event(t, side) == [type |-> t, side |-> side]

\* What the first n events of s say, progress aside.
Loud(s, n) == {s[i] : i \in {j \in 1..n : s[j].type # "ScanProgress"}}

Told == Loud(shown, Len(shown))
Said == Told \cup Loud(queue, Len(queue))

\* Whether e may follow the events of E.
Allowed(E, e) ==
    /\ e.type # "ScanProgress" => \A x \in E : x.type \notin Terminal
    /\ e.type \in {"ScanStarted", "ScanFinished"} => e \notin E
    /\ e.type = "ScanFinished" => Event("ScanStarted", e.side) \in E
    /\ e.type = "PlanReady" => \A side \in Sides : Event("ScanFinished", side) \in E
    /\ e.type \in {"File"} \cup Terminal => Event("PlanReady", "dest") \in E

EventInv ==
    /\ shown \in Seq(Events) /\ queue \in Seq(Events)
    /\ \A i \in 1..Len(shown) :
        shown[i].type # "ScanProgress" /\ Allowed(Loud(shown, i - 1), shown[i])
    /\ \A i \in 1..Len(queue) : Allowed(Told \cup Loud(queue, i - 1), queue[i])

Early == {"open", "storage", "list"}

\* What was said tells how far each scan and the command are, until it exits.
SideInv(side) ==
    /\ scans[side] \in {"walk", "found"} => Event("ScanStarted", side) \in Said
    /\ scans[side] \in {"idle", "start"} => Event("ScanStarted", side) \notin Said
    /\ scans[side] \in {"idle", "start", "walk", "found"} => Event("ScanFinished", side) \notin Said
    /\ scans[side] = "done" => Event("ScanFinished", side) \in Said

SaidInv ==
    /\ scans \in [Sides -> {"idle", "start", "walk", "found", "done", "dropped"}]
    /\ step \in Early => \A side \in Sides : scans[side] = "idle"
    /\ step # "exit" => \A side \in Sides : SideInv(side)
    /\ step = "run" => Event("PlanReady", "dest") \in Said
    /\ step \in Early \cup {"scan", "run"} => \A x \in Said : x.type \notin Terminal

OrderInv == EventInv /\ SaidInv
-----------------------------------------------------------------------------
\* An event more, and an event less at the front.
LEMMA LoudAppend ==
    ASSUME NEW s \in Seq(Events), NEW e \in Events
    PROVE  /\ Append(s, e) \in Seq(Events) /\ Len(Append(s, e)) = Len(s) + 1
           /\ Append(s, e)[Len(s) + 1] = e
           /\ \A i \in 1..Len(s) : Append(s, e)[i] = s[i]
           /\ \A i \in 0..Len(s) : Loud(Append(s, e), i) = Loud(s, i)
           /\ Loud(Append(s, e), Len(s) + 1) =
                Loud(s, Len(s)) \cup IF e.type = "ScanProgress" THEN {} ELSE {e}
<1>1. /\ Append(s, e) \in Seq(Events) /\ Len(Append(s, e)) = Len(s) + 1 /\ Len(s) \in Nat
      /\ Append(s, e)[Len(s) + 1] = e /\ \A i \in 1..Len(s) : Append(s, e)[i] = s[i]
  BY AppendProperties, LenProperties
<1>2. \A i \in 0..Len(s) : Loud(Append(s, e), i) = Loud(s, i)
  <2> TAKE i \in 0..Len(s)
  <2>1. \A j \in 1..i : Append(s, e)[j] = s[j]
    BY <1>1
  <2> QED BY <2>1 DEF Loud
<1>3. 1..(Len(s) + 1) = 1..Len(s) \cup {Len(s) + 1}
  BY <1>1
<1>4. Loud(Append(s, e), Len(s) + 1) =
        Loud(s, Len(s)) \cup IF e.type = "ScanProgress" THEN {} ELSE {e}
  BY <1>1, <1>3 DEF Loud
<1> QED BY <1>1, <1>2, <1>4

LEMMA LoudTail ==
    ASSUME NEW s \in Seq(Events), s # <<>>
    PROVE  /\ Tail(s) \in Seq(Events) /\ Len(Tail(s)) = Len(s) - 1 /\ Len(s) \in Nat \ {0}
           /\ Head(s) = s[1] /\ s[1] \in Events
           /\ \A i \in 1..Len(Tail(s)) : Tail(s)[i] = s[i + 1]
           /\ \A i \in 0..Len(Tail(s)) :
                Loud(s, i + 1) =
                    Loud(Tail(s), i) \cup IF s[1].type = "ScanProgress" THEN {} ELSE {s[1]}
<1>1. /\ Tail(s) \in Seq(Events) /\ Len(Tail(s)) = Len(s) - 1 /\ Len(s) \in Nat \ {0}
      /\ Head(s) = s[1] /\ s[1] \in Events
      /\ \A i \in 1..Len(Tail(s)) : Tail(s)[i] = s[i + 1]
  BY HeadTailProperties, LenProperties, EmptySeq, ElementOfSeq
<1>2. ASSUME NEW i \in 0..Len(Tail(s))
      PROVE  Loud(s, i + 1) =
                Loud(Tail(s), i) \cup IF s[1].type = "ScanProgress" THEN {} ELSE {s[1]}
  <2>1. \A x : x \in Loud(s, i + 1) =>
            x \in Loud(Tail(s), i) \cup IF s[1].type = "ScanProgress" THEN {} ELSE {s[1]}
    <3> SUFFICES ASSUME NEW j \in 1..(i + 1), s[j].type # "ScanProgress", j # 1
                 PROVE  s[j] \in Loud(Tail(s), i)
      BY DEF Loud
    <3>1. j - 1 \in 1..i /\ Tail(s)[j - 1] = s[j]
      BY <1>1
    <3> QED BY <3>1 DEF Loud
  <2>2. \A x : x \in Loud(Tail(s), i) => x \in Loud(s, i + 1)
    <3> SUFFICES ASSUME NEW j \in 1..i, Tail(s)[j].type # "ScanProgress"
                 PROVE  Tail(s)[j] \in Loud(s, i + 1)
      BY DEF Loud
    <3>1. j + 1 \in 1..(i + 1) /\ s[j + 1] = Tail(s)[j]
      BY <1>1
    <3> QED BY <3>1 DEF Loud
  <2>3. s[1].type # "ScanProgress" => s[1] \in Loud(s, i + 1)
    BY DEF Loud
  <2> QED BY <2>1, <2>2, <2>3
<1> QED BY <1>1, <1>2

\* The command, or a scan, says e.
LEMMA Emitted ==
    ASSUME EventInv, NEW e \in Events, Allowed(Said, e),
           queue' = Append(queue, e), shown' = shown
    PROVE  EventInv' /\ Said' = Said \cup IF e.type = "ScanProgress" THEN {} ELSE {e}
<1>1. queue \in Seq(Events) /\ Len(queue) \in Nat /\ Told' = Told
  BY LenProperties DEF EventInv, Told
<1>2. Said' = Said \cup IF e.type = "ScanProgress" THEN {} ELSE {e}
  BY <1>1, LoudAppend DEF Said
<1>3. ASSUME NEW i \in 1..Len(queue')
      PROVE  Allowed(Told' \cup Loud(queue', i - 1), queue'[i])
  <2>1. CASE i \in 1..Len(queue)
    <3>1. i - 1 \in 0..Len(queue) /\ Loud(queue', i - 1) = Loud(queue, i - 1) /\ queue'[i] = queue[i]
      BY <1>1, <2>1, LoudAppend
    <3>2. Allowed(Told \cup Loud(queue, i - 1), queue[i])
      BY <2>1 DEF EventInv
    <3> QED BY <3>1, <3>2, <1>1
  <2>2. CASE i = Len(queue) + 1
    <3>1. i - 1 = Len(queue) /\ Loud(queue', i - 1) = Loud(queue, Len(queue)) /\ queue'[i] = e
      BY <1>1, <2>2, LoudAppend
    <3> QED BY <3>1, <1>1 DEF Said
  <2> QED BY <2>1, <2>2, <1>1, LoudAppend
<1>4. queue' \in Seq(Events)
  BY <1>1, LoudAppend
<1> QED BY <1>2, <1>3, <1>4 DEF EventInv

\* Nothing is said.
LEMMA Silent ==
    ASSUME EventInv, queue' = queue, shown' = shown
    PROVE  EventInv' /\ Said' = Said
BY DEF EventInv, Said, Told

\* Progress is said or dropped: the story stays as it is.
LEMMA Quiet ==
    ASSUME EventInv, NEW side \in Sides, TryEmit([type |-> "ScanProgress", side |-> side])
    PROVE  EventInv' /\ Said' = Said
<1> DEFINE e == Event("ScanProgress", side)
<1>1. e \in Events /\ e.type = "ScanProgress" /\ Allowed(Said, e)
  BY DEF Events, Types, Terminal, Event, Allowed
<1>2. shown' = shown /\ (queue' = Append(queue, e) \/ queue' = queue)
  BY DEF TryEmit, Event
<1> HIDE DEF e
<1>3. CASE queue' = Append(queue, e)
  BY <1>1, <1>2, <1>3, Emitted
<1>4. CASE queue' = queue
  BY <1>2, <1>4, Silent
<1> QED BY <1>2, <1>3, <1>4

\* An event leaves the channel, shown or, when it is progress, forgotten.
LEMMA Shown ==
    ASSUME EventInv, Render
    PROVE  /\ EventInv' /\ Said' = Said
           /\ Head(queue) \in Events
           /\ Told' = Told \cup IF Head(queue).type = "ScanProgress" THEN {} ELSE {Head(queue)}
<1> DEFINE h == queue[1]
<1>1. /\ queue \in Seq(Events) /\ queue # <<>> /\ queue' = Tail(queue) /\ Head(queue) = h
      /\ h \in Events /\ Len(queue) \in Nat \ {0} /\ Len(queue') = Len(queue) - 1
      /\ shown \in Seq(Events) /\ Len(shown) \in Nat /\ queue' \in Seq(Events)
  BY LoudTail, LenProperties DEF EventInv, Render
<1>2. shown' = IF h.type = "ScanProgress" THEN shown ELSE Append(shown, h)
  BY <1>1 DEF Render
<1>3. Told' = Told \cup IF h.type = "ScanProgress" THEN {} ELSE {h}
  <2>1. CASE h.type = "ScanProgress"
    BY <2>1, <1>2 DEF Told
  <2>2. CASE h.type # "ScanProgress"
    <3>1. /\ shown' = Append(shown, h) /\ Len(shown') = Len(shown) + 1
          /\ Loud(Append(shown, h), Len(shown) + 1) = Loud(shown, Len(shown)) \cup {h}
      BY <2>2, <1>1, <1>2, LoudAppend
    <3> QED BY <3>1, <2>2 DEF Told
  <2> QED BY <2>1, <2>2
<1>4. \A i \in 0..Len(queue') : Told' \cup Loud(queue', i) = Told \cup Loud(queue, i + 1)
  <2>1. \A i \in 0..Len(queue') :
            Loud(queue, i + 1) = Loud(queue', i) \cup IF h.type = "ScanProgress" THEN {} ELSE {h}
    BY <1>1, LoudTail
  <2> QED BY <2>1, <1>3
<1>5. Said' = Said
  <2>1. Len(queue') \in 0..Len(queue') /\ Len(queue') + 1 = Len(queue)
    BY <1>1
  <2> QED BY <2>1, <1>4 DEF Said
<1>6. ASSUME NEW i \in 1..Len(queue')
      PROVE  Allowed(Told' \cup Loud(queue', i - 1), queue'[i])
  <2>1. i - 1 \in 0..Len(queue') /\ i + 1 \in 1..Len(queue) /\ (i - 1) + 1 = (i + 1) - 1
        /\ queue'[i] = queue[i + 1]
    BY <1>1, LoudTail
  <2>2. Allowed(Told \cup Loud(queue, (i + 1) - 1), queue[i + 1])
    BY <2>1 DEF EventInv
  <2>3. Told' \cup Loud(queue', i - 1) = Told \cup Loud(queue, (i + 1) - 1)
    BY <2>1, <1>4
  <2> QED BY <2>1, <2>2, <2>3
<1>7. shown' \in Seq(Events)
      /\ \A i \in 1..Len(shown') :
            shown'[i].type # "ScanProgress" /\ Allowed(Loud(shown', i - 1), shown'[i])
  <2>1. CASE h.type = "ScanProgress"
    BY <2>1, <1>1, <1>2 DEF EventInv
  <2>2. CASE h.type # "ScanProgress"
    <3>1. shown' = Append(shown, h) /\ shown' \in Seq(Events) /\ Len(shown') = Len(shown) + 1
      BY <2>2, <1>1, <1>2, LoudAppend
    <3>2. Allowed(Told, h)
      <4>1. 1 \in 1..Len(queue) /\ Loud(queue, 1 - 1) = {}
        BY <1>1 DEF Loud
      <4>2. Allowed(Told \cup Loud(queue, 1 - 1), queue[1])
        BY <4>1 DEF EventInv
      <4> QED BY <4>1, <4>2
    <3>3. ASSUME NEW i \in 1..Len(shown')
          PROVE  shown'[i].type # "ScanProgress" /\ Allowed(Loud(shown', i - 1), shown'[i])
      <4>1. CASE i \in 1..Len(shown)
        <5>1. i - 1 \in 0..Len(shown) /\ shown'[i] = shown[i]
              /\ Loud(shown', i - 1) = Loud(shown, i - 1)
          BY <4>1, <3>1, <1>1, LoudAppend
        <5> QED BY <5>1, <4>1 DEF EventInv
      <4>2. CASE i = Len(shown) + 1
        <5>1. i - 1 = Len(shown) /\ shown'[i] = h /\ Loud(shown', i - 1) = Told
          BY <4>2, <3>1, <1>1, LoudAppend DEF Told
        <5> QED BY <5>1, <3>2, <2>2
      <4> QED BY <4>1, <4>2, <3>1, <1>1
    <3> QED BY <3>1, <3>3
  <2> QED BY <2>1, <2>2
<1> QED BY <1>1, <1>3, <1>5, <1>6, <1>7 DEF EventInv
-----------------------------------------------------------------------------
\* A step that says nothing and leaves the scans alone.
LEMMA SidesKept ==
    ASSUME OrderInv, Said' = Said, UNCHANGED scans,
           step' # "exit" => step # "exit",
           step' \in Early => step \in Early,
           step' = "run" => step = "run",
           step' \in Early \cup {"scan", "run"} => step \in Early \cup {"scan", "run"}
    PROVE  SaidInv'
BY DEF OrderInv, SaidInv, SideInv

\* The steps that touch neither the channel nor the scans.
LEMMA OtherSteps ==
    ASSUME OrderInv,
           \/ OpenDevice \/ OpenFails \/ NoSuchPath \/ AskStorage \/ NoStorage \/ ListFolder
           \/ Conflicts \/ DryRun \/ Drop \/ PrintFails \/ Close \/ Exit \/ RendererEnds \/ CtrlC
           \/ UNCHANGED vars
    PROVE  OrderInv' /\ Said' = Said /\ Told' = Told
<1>1. queue' = queue /\ shown' = shown /\ scans' = scans
  BY DEF OpenDevice, OpenFails, NoSuchPath, AskStorage, NoStorage, ListFolder, Conflicts, DryRun,
         Drop, PrintFails, Close, Exit, RendererEnds, CtrlC, vars, ownVars, display, work
<1>2. EventInv' /\ Said' = Said
  BY <1>1, Silent DEF OrderInv
<1>3. \/ step' = step
      \/ step \in {"open", "storage", "list", "scan", "run"} /\ step' = "drop"
      \/ step = "open" /\ step' = "storage"
      \/ step = "drop" /\ step' = "drain"
      \/ step = "drain" /\ step' = "exit"
  BY DEF OpenDevice, OpenFails, NoSuchPath, AskStorage, NoStorage, ListFolder, Conflicts, DryRun,
         Drop, PrintFails, Close, Exit, RendererEnds, CtrlC, Return, Goto, vars, ownVars, rest
<1>4. SaidInv'
  BY <1>1, <1>2, <1>3, SidesKept DEF Early
<1> QED BY <1>1, <1>2, <1>4 DEF OrderInv, Told

\* The scans are set up, or given up: nothing is said.
LEMMA ScanSetting ==
    ASSUME OrderInv, SelectStorage \/ \E side \in Sides : ScanFails(side)
    PROVE  OrderInv' /\ Said' = Said /\ Told' = Told
<1>1. queue' = queue /\ shown' = shown
  BY DEF SelectStorage, ScanFails, display
<1>2. EventInv' /\ Said' = Said /\ Told' = Told
  BY <1>1, Silent DEF OrderInv, Told
<1>3. CASE SelectStorage
  <2>1. /\ step = "storage" /\ step' \in {"list", "scan"}
        /\ scans' \in [Sides -> {"idle", "start"}]
        /\ step' = "list" => \A side \in Sides : scans'[side] = "idle"
    BY <1>3 DEF SelectStorage, Goto
  <2>2. \A side \in Sides : scans[side] = "idle" /\ SideInv(side)
    BY <2>1 DEF OrderInv, SaidInv, Early
  <2>3. \A x \in Said : x.type \notin Terminal
    BY <2>1 DEF OrderInv, SaidInv, Early
  <2> QED BY <1>2, <2>1, <2>2, <2>3 DEF OrderInv, SaidInv, SideInv, Early
<1>4. CASE \E side \in Sides : ScanFails(side)
  <2>1. step' = "drop" /\ scans' = [side \in Sides |-> "dropped"]
    BY <1>4 DEF ScanFails, EndScans, Return, Goto
  <2> QED BY <1>2, <2>1 DEF OrderInv, SaidInv, SideInv, Early
<1> QED BY <1>3, <1>4

\* A scan says where it is.
LEMMA ScanSays ==
    ASSUME OrderInv, NEW side \in Sides, ScanStarts(side) \/ ScanEnds(side)
    PROVE  /\ OrderInv' /\ Told' = Told
           /\ \E t \in {"ScanStarted", "ScanFinished"} : Said' = Said \cup {Event(t, side)}
<1>1. step = "scan" /\ step' = step /\ SideInv(side) /\ \A x \in Said : x.type \notin Terminal
  BY DEF ScanStarts, ScanEnds, OrderInv, SaidInv
<1>2. CASE ScanStarts(side)
  <2>1. PICK e \in Events : e = Event("ScanStarted", side)
    BY DEF Events, Types, Event
  <2>2. /\ queue' = Append(queue, e) /\ shown' = shown
        /\ scans[side] = "start" /\ scans' = [scans EXCEPT ![side] = "walk"]
    BY <1>2, <2>1 DEF ScanStarts, Emit, Event
  <2>3. e.type = "ScanStarted" /\ e.side = side /\ e \notin Said
    BY <1>1, <2>1, <2>2 DEF SideInv, Event
  <2>4. Allowed(Said, e)
    BY <1>1, <2>3 DEF Allowed, Terminal
  <2>5. EventInv' /\ Said' = Said \cup {e}
    BY <2>2, <2>3, <2>4, Emitted DEF OrderInv
  <2>6. SaidInv'
    BY <1>1, <2>1, <2>2, <2>5 DEF OrderInv, SaidInv, SideInv, Early, Terminal, Event
  <2> QED BY <2>1, <2>2, <2>3, <2>5, <2>6 DEF OrderInv, Told
<1>3. CASE ScanEnds(side)
  <2>1. PICK e \in Events : e = Event("ScanFinished", side)
    BY DEF Events, Types, Event
  <2>2. /\ queue' = Append(queue, e) /\ shown' = shown
        /\ scans[side] = "found" /\ scans' = [scans EXCEPT ![side] = "done"]
    BY <1>3, <2>1 DEF ScanEnds, Emit, Event
  <2>3. e.type = "ScanFinished" /\ e.side = side /\ e \notin Said
        /\ Event("ScanStarted", e.side) \in Said
    BY <1>1, <2>1, <2>2 DEF SideInv, Event
  <2>4. Allowed(Said, e)
    BY <1>1, <2>3 DEF Allowed, Terminal
  <2>5. EventInv' /\ Said' = Said \cup {e}
    BY <2>2, <2>3, <2>4, Emitted DEF OrderInv
  <2>6. SaidInv'
    BY <1>1, <2>1, <2>2, <2>5 DEF OrderInv, SaidInv, SideInv, Early, Terminal, Event
  <2> QED BY <2>1, <2>2, <2>3, <2>5, <2>6 DEF OrderInv, Told
<1> QED BY <1>2, <1>3

\* A scan has found what there is; its progress may be lost.
LEMMA ScanFinds ==
    ASSUME OrderInv, SourceFinds \/ WalkerEnds
    PROVE  OrderInv' /\ Said' = Said /\ Told' = Told
<1>1. EventInv' /\ Said' = Said /\ Told' = Told
  <2>1. \/ TryEmit([type |-> "ScanProgress", side |-> "source"])
        \/ TryEmit([type |-> "ScanProgress", side |-> "dest"])
        \/ queue' = queue /\ shown' = shown
    BY DEF SourceFinds, WalkerEnds, display
  <2>2. "source" \in Sides /\ "dest" \in Sides
    BY DEF Sides
  <2> QED BY <2>1, <2>2, Quiet, Silent DEF OrderInv, Told, TryEmit
<1>2. /\ step' = step
      /\ \/ scans' = scans
         \/ scans["source"] = "walk" /\ scans' = [scans EXCEPT !["source"] = "found"]
         \/ scans["dest"] = "walk" /\ scans' = [scans EXCEPT !["dest"] = "found"]
  BY DEF SourceFinds, WalkerEnds
<1>3. SaidInv'
  BY <1>1, <1>2 DEF OrderInv, SaidInv, SideInv, Early, Sides
<1> QED BY <1>1, <1>3 DEF OrderInv

\* The plan, a file, and the end of the run are said.
LEMMA RunSays ==
    ASSUME OrderInv, MakePlan \/ CopyFile \/ RunInterrupted \/ RunEnds \/ RunAborts
    PROVE  /\ OrderInv' /\ Told' = Told
           /\ Event("PlanReady", "dest") \in Said'
           /\ \/ MakePlan /\ Said' = Said \cup {Event("PlanReady", "dest")}
              \/ CopyFile /\ Said' = Said \cup {Event("File", "dest")}
              \/ /\ RunInterrupted \/ RunEnds \/ RunAborts
                 /\ \E t \in Terminal : Said' = Said \cup {Event(t, "dest")}
<1>1. /\ step \in {"scan", "run"} /\ scans' = scans
      /\ \A x \in Said : x.type \notin Terminal
      /\ \A side \in Sides : SideInv(side)
      /\ step = "run" => Event("PlanReady", "dest") \in Said
  BY DEF MakePlan, CopyFile, RunInterrupted, RunEnds, RunAborts, Runs, OrderInv, SaidInv, work
<1>2. CASE MakePlan
  <2>1. PICK e \in Events : e = Event("PlanReady", "dest")
    BY DEF Events, Types, Event, Sides
  <2>2. queue' = Append(queue, e) /\ shown' = shown /\ step' = "run" /\ BothScanned
    BY <1>2, <2>1 DEF MakePlan, Emit, Event, Goto
  <2>3. e.type = "PlanReady" /\ \A side \in Sides : Event("ScanFinished", side) \in Said
    BY <1>1, <2>1, <2>2 DEF SideInv, Event, BothScanned
  <2>4. Allowed(Said, e)
    BY <1>1, <2>3 DEF Allowed, Terminal
  <2>5. EventInv' /\ Said' = Said \cup {e}
    BY <2>2, <2>3, <2>4, Emitted DEF OrderInv
  <2>6. SaidInv'
    BY <1>1, <2>1, <2>2, <2>5 DEF OrderInv, SaidInv, SideInv, Early, Terminal, Event
  <2> QED BY <1>2, <2>1, <2>2, <2>3, <2>5, <2>6 DEF OrderInv, Told
<1>3. CASE CopyFile
  <2>1. PICK e \in Events : e = Event("File", "dest")
    BY DEF Events, Types, Event, Sides
  <2>2. queue' = Append(queue, e) /\ shown' = shown /\ step' = step /\ step = "run"
    BY <1>3, <2>1 DEF CopyFile, Emit, Event, Runs
  <2>3. e.type = "File" /\ Event("PlanReady", "dest") \in Said
    BY <1>1, <2>1, <2>2 DEF Event
  <2>4. Allowed(Said, e)
    BY <1>1, <2>3 DEF Allowed, Terminal
  <2>5. EventInv' /\ Said' = Said \cup {e}
    BY <2>2, <2>3, <2>4, Emitted DEF OrderInv
  <2>6. SaidInv'
    BY <1>1, <2>1, <2>2, <2>5 DEF OrderInv, SaidInv, SideInv, Early, Terminal, Event
  <2> QED BY <1>3, <2>1, <2>2, <2>3, <2>5, <2>6 DEF OrderInv, Told
<1>4. CASE RunInterrupted \/ RunEnds \/ RunAborts
  <2>1. PICK e \in Events : /\ e = Event("Finished", "dest") \/ e = Event("Aborted", "dest")
                            /\ queue' = Append(queue, e) /\ shown' = shown
    <3>1. Event("Finished", "dest") \in Events /\ Event("Aborted", "dest") \in Events
      BY DEF Events, Types, Event, Sides
    <3>2. /\ shown' = shown
          /\ \/ queue' = Append(queue, Event("Finished", "dest"))
             \/ queue' = Append(queue, Event("Aborted", "dest"))
      BY <1>4 DEF RunInterrupted, RunEnds, RunAborts, Emit, Event
    <3> QED BY <3>1, <3>2
  <2>2. step' = "drop" /\ step = "run"
    BY <1>4 DEF RunInterrupted, ReturnInterrupted, RunEnds, RunAborts, Return, Goto, Runs
  <2>3. e.type \in Terminal /\ Event("PlanReady", "dest") \in Said
    BY <1>1, <2>1, <2>2 DEF Event, Terminal
  <2>4. Allowed(Said, e)
    BY <1>1, <2>3 DEF Allowed, Terminal
  <2>5. EventInv' /\ Said' = Said \cup {e}
    BY <2>1, <2>3, <2>4, Emitted DEF OrderInv, Terminal
  <2>6. SaidInv'
    BY <1>1, <2>1, <2>2, <2>3, <2>5 DEF OrderInv, SaidInv, SideInv, Early, Terminal, Event
  <2> QED BY <1>4, <2>1, <2>2, <2>3, <2>5, <2>6 DEF OrderInv, Told, Terminal
<1> QED BY <1>2, <1>3, <1>4

\* A second Ctrl-C: the channel dies with the process, what was shown was shown.
LEMMA KilledInOrder ==
    ASSUME OrderInv, SecondCtrlC
    PROVE  OrderInv' /\ Told' = Told
<1>1. shown' = shown /\ queue' = <<>> /\ scans' = scans /\ step' = "exit"
  BY DEF SecondCtrlC, Goto, work
<1> QED BY <1>1, EmptySeq DEF OrderInv, EventInv, SaidInv, Told, Early

LEMMA OrderInvInit == Init => OrderInv
<1> SUFFICES ASSUME Init PROVE OrderInv
  OBVIOUS
<1>1. /\ shown = <<>> /\ queue = <<>> /\ step = "open"
      /\ scans = [side \in Sides |-> "idle"]
  BY DEF Init
<1>2. Said = {}
  BY <1>1, EmptySeq DEF Said, Told, Loud
<1> QED BY <1>1, <1>2, EmptySeq DEF OrderInv, EventInv, SaidInv, SideInv, Early

LEMMA OrderInvStep == OrderInv /\ [Next]_vars => OrderInv'
<1> SUFFICES ASSUME OrderInv, [Next]_vars PROVE OrderInv'
  OBVIOUS
<1>1. CASE Render
  <2>1. UNCHANGED <<scans, step>>
    BY <1>1 DEF Render, work
  <2>2. EventInv' /\ Said' = Said
    BY <1>1, Shown DEF OrderInv
  <2> QED BY <2>1, <2>2, SidesKept DEF OrderInv
<1> QED BY <1>1, OtherSteps, ScanSetting, ScanSays, ScanFinds, RunSays, KilledInOrder
        DEF Next, MainStep, RendererStep

\* What was shown is in order when each event is allowed by those before it.
LEMMA OrderInvOrders == OrderInv => EventsKeepTheirOrder
<1> SUFFICES ASSUME OrderInv PROVE EventsKeepTheirOrder
  OBVIOUS
<1> DEFINE n == Len(shown)
<1>1. /\ n \in Nat /\ DOMAIN shown = 1..n
      /\ \A i \in 1..n : /\ shown[i] \in Events /\ shown[i].type # "ScanProgress"
                         /\ Allowed(Loud(shown, i - 1), shown[i])
  BY LenProperties, ElementOfSeq DEF OrderInv, EventInv
<1> HIDE DEF n
<1>2. \A i \in 1..n : \A x \in Loud(shown, i - 1) : \E j \in 1..n : j < i /\ shown[j] = x
  BY <1>1 DEF Loud
<1>3. \A i, j \in 1..n : j < i => shown[j] \in Loud(shown, i - 1)
  <2> SUFFICES ASSUME NEW i \in 1..n, NEW j \in 1..n, j < i
               PROVE  shown[j] \in Loud(shown, i - 1)
    OBVIOUS
  <2>1. j \in 1..(i - 1) /\ shown[j].type # "ScanProgress"
    BY <1>1
  <2> QED BY <2>1 DEF Loud
<1>4. ASSUME NEW side \in Sides, NEW type \in {"ScanStarted", "ScanFinished"}
      PROVE  Cardinality(Handled(type, side)) <= 1
  <2>1. Handled(type, side) \subseteq 1..n
    BY <1>1 DEF Handled
  <2>2. ASSUME NEW i \in Handled(type, side), NEW j \in Handled(type, side), j < i
        PROVE  FALSE
    <3>1. shown[i] = Event(type, side) /\ shown[j] = Event(type, side) /\ i \in 1..n /\ j \in 1..n
      BY <2>1 DEF Handled, Event
    <3>2. shown[i] \in Loud(shown, i - 1) /\ shown[i].type = type
      BY <3>1, <2>2, <1>3 DEF Event
    <3> QED BY <3>1, <3>2, <1>1 DEF Allowed
  <2>3. \A i, j \in Handled(type, side) : i = j
    BY <2>1, <2>2, <1>1
  <2>4. CASE Handled(type, side) = {}
    BY <2>4, FS_EmptySet
  <2>5. CASE Handled(type, side) # {}
    <3>1. PICK i : Handled(type, side) = {i}
      BY <2>3, <2>5
    <3> QED BY <3>1, FS_Singleton
  <2> QED BY <2>4, <2>5
<1>5. ASSUME NEW side \in Sides, NEW i \in Handled("ScanFinished", side)
      PROVE  \E j \in Handled("ScanStarted", side) : j < i
  <2>1. i \in 1..n /\ shown[i] = Event("ScanFinished", side)
    BY <1>1 DEF Handled, Event
  <2>2. shown[i].type = "ScanFinished" /\ shown[i].side = side
    BY <2>1 DEF Event
  <2>3. Event("ScanStarted", side) \in Loud(shown, i - 1)
    BY <2>1, <2>2, <1>1 DEF Allowed
  <2> QED BY <2>1, <2>3, <1>1, <1>2 DEF Handled, Event
<1>6. ASSUME NEW i \in OfType("PlanReady"), NEW side \in Sides
      PROVE  \E j \in Handled("ScanFinished", side) : j < i
  <2>1. i \in 1..n /\ shown[i].type = "PlanReady"
    BY <1>1 DEF OfType
  <2>2. Event("ScanFinished", side) \in Loud(shown, i - 1)
    BY <2>1, <1>1 DEF Allowed
  <2> QED BY <2>1, <2>2, <1>1, <1>2 DEF Handled, Event
<1>7. ASSUME NEW i \in OfType("File") \cup OfType("Finished") \cup OfType("Aborted")
      PROVE  \E j \in OfType("PlanReady") : j < i
  <2>1. i \in 1..n /\ shown[i].type \in {"File"} \cup Terminal
    BY <1>1 DEF OfType, Terminal
  <2>2. Event("PlanReady", "dest") \in Loud(shown, i - 1)
    BY <2>1, <1>1 DEF Allowed
  <2> QED BY <2>1, <2>2, <1>1, <1>2 DEF OfType, Event
<1>8. ASSUME NEW i \in OfType("Finished") \cup OfType("Aborted")
      PROVE  i = Len(shown)
  <2>1. i \in 1..n /\ shown[i].type \in Terminal
    BY <1>1 DEF OfType, Terminal
  <2>2. ASSUME i < n PROVE FALSE
    <3>1. n \in 1..n /\ shown[i] \in Loud(shown, n - 1)
      BY <2>1, <2>2, <1>1, <1>3
    <3> QED BY <3>1, <2>1, <1>1 DEF Allowed
  <2> QED BY <2>1, <2>2, <1>1 DEF n
<1> QED BY <1>4, <1>5, <1>6, <1>7, <1>8 DEF EventsKeepTheirOrder

\* Each side's scan starts and ends once, the plan comes after both and before
\* every file, the terminal event last: what ProgressEvent promises an
\* observer, for all commands, phones and capacities of the channel.
THEOREM ObserversSeeTheOrder == Spec => []EventsKeepTheirOrder
<1>1. OrderInv => EventsKeepTheirOrder
  BY OrderInvOrders
<1> QED BY <1>1, OrderInvInit, OrderInvStep, PTL DEF Spec
-----------------------------------------------------------------------------
(* What the command did, how it ended, and what was said of it.            *)

BeforePlan == Early \cup {"scan"}

Verdict ==
    IF outcome \in {"Done", "DryRun"} THEN 0
    ELSE IF Succeeded THEN CodeForReport ELSE CodeForError(outcome)

Killed == lines = {"killed"}

\* The files it moved, what it came to, and the code it left.
WorkInv ==
    /\ copied \in Nat /\ failedFiles \in Nat /\ toDo \in Nat
    /\ copied + failedFiles + toDo \in Files \cup {0}
    /\ step \in BeforePlan => copied = 0 /\ failedFiles = 0 /\ toDo = 0
    /\ command.dry => copied + failedFiles = 0
    /\ copied + failedFiles > 0 =>
        outcome \in {"none", "Transferred", "Interrupted"} \cup AbortErrors
    /\ outcome = "Transferred" => toDo = 0
    /\ outcome = "Done" => command.does = "ls"
    /\ outcome = "DryRun" => command.dry
    /\ step = "list" => command.does = "ls"
    /\ step \in BeforePlan \cup {"run"} => outcome = "none"

\* An interrupt is the user's, by Ctrl-C or at a prompt.
UserInv ==
    /\ outcome = "Interrupted" \/ Killed => cancelled
    /\ outcome = "Cancelled" => cancelled \/ mayAsk
    /\ opening = "prompt" => mayAsk

CommandInv ==
    command = [does |-> command.does, dry |-> command.dry, storage |-> command.storage]

\* Where it is, and who holds the channel.
PlaceInv ==
    /\ step \in BeforePlan \cup {"run", "drop", "drain", "exit"}
    /\ ~sender => step \in {"drain", "exit"}
    /\ ~drawing => queue = <<>> /\ (step = "exit" \/ (~sender /\ walker # "busy"))
    /\ step = "exit" => ~drawing
    /\ code = NoCode => "killed" \notin lines
    /\ code # NoCode => step = "exit" /\ code = IF Killed THEN 130 ELSE Verdict

Kinds(E) == {x.type : x \in E}

\* What was printed is what was said, and the error of a command that failed.
LineInv ==
    /\ code = NoCode => lines \subseteq Terminal
    /\ ~Killed =>
        /\ lines \cap Terminal = Kinds(Told) \cap Terminal
        /\ lines \subseteq Terminal \cup IF Succeeded THEN {} ELSE {FailureText}
        /\ code # NoCode /\ ~Succeeded => FailureText \in lines

\* What was said tells how the command went, unless it was killed.
StoryInv ==
    /\ step \in BeforePlan => "PlanReady" \notin Kinds(Said)
    /\ ~Killed =>
        /\ step \notin BeforePlan \cup {"run"} /\ "PlanReady" \in Kinds(Said) /\ ~command.dry =>
            Kinds(Said) \cap Terminal # {}
        /\ Kinds(Said) \cap Terminal # {} => "PlanReady" \in Kinds(Said) /\ ~command.dry
        /\ outcome \in {"Done", "DryRun", "Cancelled"} => Kinds(Said) \cap Terminal = {}
        /\ outcome = "Cancelled" => "PlanReady" \notin Kinds(Said)
        /\ outcome \in {"Transferred", "Interrupted"} => Kinds(Said) \cap Terminal # {}

\* A run that moved files was announced, and only one that went its way, or was
\* stopped by the user, was said to have finished.
MovedInv ==
    ~Killed =>
        /\ copied + failedFiles > 0 => "PlanReady" \in Kinds(Said)
        /\ outcome \notin {"Transferred", "Interrupted"} => "Finished" \notin Kinds(Said)

EndInv ==
    OrderInv /\ WorkInv /\ UserInv /\ CommandInv /\ PlaceInv /\ LineInv /\ StoryInv /\ MovedInv
-----------------------------------------------------------------------------
\* Counting the files: a copy moves one of those to do to one side or the other.
LEMMA WorkInvStep == WorkInv /\ CommandInv /\ [Next]_vars => WorkInv' /\ CommandInv'
<1> SUFFICES ASSUME WorkInv, CommandInv, [Next]_vars PROVE WorkInv' /\ CommandInv'
  OBVIOUS
<1> USE DEF BeforePlan, Early
<1>1. CASE AskStorage
  <2>1. PICK v : command' = [command EXCEPT !.storage = v]
    BY <1>1 DEF AskStorage
  <2>2. command'.does = command.does /\ command'.dry = command.dry /\ CommandInv'
    BY <2>1 DEF CommandInv
  <2> QED BY <1>1, <2>2 DEF AskStorage, WorkInv, work, rest, display
<1>2. CASE \/ OpenDevice \/ OpenFails \/ SelectStorage \/ NoSuchPath \/ NoStorage \/ ListFolder
  BY <1>2 DEF OpenDevice, OpenFails, SelectStorage, NoSuchPath, NoStorage, ListFolder,
     Refused, Refusal, StorageError, PhoneErrors, IfCancelled, Return, Goto, WorkInv, CommandInv,
     work, rest, display
<1>3. CASE \/ SourceFinds \/ WalkerEnds \/ Conflicts \/ DryRun
           \/ \E side \in Sides : ScanStarts(side) \/ ScanEnds(side) \/ ScanFails(side)
  <2>1. UNCHANGED <<command, copied, failedFiles, toDo>>
    BY <1>3 DEF SourceFinds, WalkerEnds, Conflicts, DryRun, ScanStarts, ScanEnds, ScanFails, work
  <2>2. \/ UNCHANGED <<step, outcome>>
        \/ step = "scan" /\ step' = "drop" /\ outcome' \notin {"Transferred", "Done", "DryRun"}
        \/ step = "run" /\ step' = "drop" /\ outcome' = "DryRun" /\ command.dry
    BY <1>3 DEF SourceFinds, WalkerEnds, Conflicts, DryRun, ScanStarts, ScanEnds, ScanFails,
       ScanErrors, PhoneErrors, IfCancelled, EndScans, Return, Goto
  <2> QED BY <2>1, <2>2 DEF WorkInv, CommandInv
<1>4. CASE MakePlan
  <2>1. toDo' \in Files /\ toDo' \in Nat
    BY <1>4, SessionAssumption DEF MakePlan
  <2> QED BY <1>4, <2>1 DEF MakePlan, Goto, WorkInv, CommandInv, rest
<1>5. CASE CopyFile
  <2>1. /\ outcome' = outcome /\ outcome = "none" /\ step' = step /\ step = "run"
        /\ command' = command /\ ~command.dry
    BY <1>5 DEF CopyFile, Runs, WorkInv
  <2>2. /\ copied' \in Nat /\ failedFiles' \in Nat /\ toDo' \in Nat
        /\ copied' + failedFiles' + toDo' = copied + failedFiles + toDo
    BY <1>5 DEF CopyFile, WorkInv
  <2> QED BY <2>1, <2>2 DEF WorkInv, CommandInv
<1>6. CASE RunInterrupted \/ RunEnds \/ RunAborts
  <2>1. /\ UNCHANGED <<command, copied, failedFiles, toDo>>
        /\ step = "run" /\ ~command.dry /\ step' = "drop"
        /\ outcome' \in {"Transferred", "Interrupted"} \cup AbortErrors
        /\ outcome' = "Transferred" => toDo = 0
    BY <1>6 DEF RunInterrupted, ReturnInterrupted, RunEnds, RunAborts, Runs, Return, Goto,
       AbortErrors, PhoneErrors, work
  <2> QED BY <2>1 DEF WorkInv, CommandInv, AbortErrors, PhoneErrors
<1>7. CASE PrintFails
  <2>1. step = "drain" /\ outcome = "DryRun" /\ outcome' = "Io" /\ UNCHANGED <<step, command, copied, failedFiles, toDo>>
    BY <1>7 DEF PrintFails, work
  <2> QED BY <2>1 DEF WorkInv, CommandInv, AbortErrors
<1>8. CASE Drop \/ Close \/ Exit \/ Render \/ RendererEnds \/ CtrlC \/ SecondCtrlC \/ UNCHANGED vars
  BY <1>8 DEF Drop, Close, Exit, Render, RendererEnds, CtrlC, SecondCtrlC, Goto,
     WorkInv, CommandInv, vars, ownVars, work, rest, display
<1> QED BY <1>1, <1>2, <1>3, <1>4, <1>5, <1>6, <1>7, <1>8 DEF Next, MainStep, RendererStep

\* Nobody speaks once the renderer is gone, and the code is given once.
LEMMA PlaceInvStep == PlaceInv /\ [Next]_vars => PlaceInv'
<1> SUFFICES ASSUME PlaceInv, [Next]_vars PROVE PlaceInv'
  OBVIOUS
<1> USE DEF PlaceInv, BeforePlan, Early
<1>1. CASE \/ OpenDevice \/ OpenFails \/ SelectStorage \/ NoSuchPath \/ AskStorage
           \/ NoStorage \/ ListFolder
  BY <1>1 DEF OpenDevice, OpenFails, SelectStorage, NoSuchPath, AskStorage, NoStorage,
     ListFolder, Return, Goto, work, rest, display
<1>2. CASE \/ SourceFinds \/ Conflicts \/ DryRun
           \/ \E side \in Sides : ScanStarts(side) \/ ScanEnds(side) \/ ScanFails(side)
  BY <1>2 DEF SourceFinds, Conflicts, DryRun, ScanStarts, ScanEnds, ScanFails, Emit, TryEmit,
     EndScans, Return, Goto, work, rest, display
<1>3. CASE WalkerEnds
  BY <1>3 DEF WalkerEnds, TryEmit, rest, display
<1>4. CASE MakePlan \/ CopyFile \/ RunInterrupted \/ RunEnds \/ RunAborts
  BY <1>4 DEF MakePlan, CopyFile, RunInterrupted, ReturnInterrupted, RunEnds, RunAborts, Runs,
     Emit, Return, Goto, work, rest
<1>5. CASE Drop \/ PrintFails \/ Close
  BY <1>5 DEF Drop, DropEvents, PrintFails, Close, Goto, work, rest, display
<1>6. CASE Exit
  <2>1. step = "exit" /\ step' = step /\ code' = Verdict /\ Verdict' = Verdict
    BY <1>6 DEF Exit, Verdict, Succeeded, CodeForReport, CodeForError, work
  <2>2. "killed" \notin lines'
    BY <1>6 DEF Exit, FailureText
  <2>3. UNCHANGED <<sender, drawing, queue, walker>>
    BY <1>6 DEF Exit, work, display
  <2> QED BY <2>1, <2>2, <2>3 DEF Killed
<1>7. CASE Render \/ RendererEnds
  BY <1>7 DEF Render, RendererEnds, SummaryOf, work, rest
<1>8. CASE CtrlC \/ UNCHANGED vars
  BY <1>8 DEF CtrlC, vars, ownVars, work, rest, display, Verdict, Succeeded, CodeForReport,
     CodeForError, Killed
<1>9. CASE SecondCtrlC
  BY <1>9 DEF SecondCtrlC, Goto, Killed, NoCode, work
<1> QED BY <1>1, <1>2, <1>3, <1>4, <1>5, <1>6, <1>7, <1>8, <1>9 DEF Next, MainStep, RendererStep

\* Nobody but the user interrupts, and the token stays set.
LEMMA UserInvStep == UserInv /\ PlaceInv /\ [Next]_vars => UserInv'
<1> SUFFICES ASSUME UserInv, PlaceInv, [Next]_vars PROVE UserInv'
  OBVIOUS
<1>1. mayAsk' = mayAsk /\ (cancelled => cancelled')
  <2>1. CASE OpenDevice
    BY <2>1 DEF OpenDevice, OpeningStep, List, Select, AskWhich, PickDevice, OpenSession, Load,
       Hotplug
  <2>2. CASE OpenFails
    BY <2>2 DEF OpenFails, FailOpening
  <2>3. CASE CtrlC
    BY <2>3 DEF CtrlC, Interrupt, openingVars
  <2>4. CASE UNCHANGED <<openingVars, cancelled>>
    BY <2>4 DEF openingVars
  <2> QED BY <2>1, <2>2, <2>3, <2>4 DEF Next, MainStep, RendererStep, SelectStorage, NoSuchPath,
     AskStorage, NoStorage, ListFolder, SourceFinds, ScanStarts, ScanEnds, ScanFails, Conflicts,
     MakePlan, DryRun, CopyFile, RunInterrupted, RunEnds, RunAborts, Drop, PrintFails, Close, Exit,
     Render, RendererEnds, WalkerEnds, SecondCtrlC, vars
<1>2. ASSUME Killed' PROVE Killed \/ cancelled
  <2>1. CASE Exit
    BY <1>2, <2>1 DEF Exit, Killed, PlaceInv, FailureText
  <2>2. CASE Render
    BY <1>2, <2>2 DEF Render, Killed, SummaryOf
  <2>3. CASE SecondCtrlC
    BY <2>3 DEF SecondCtrlC
  <2>4. CASE ~(Exit \/ Render \/ SecondCtrlC)
    <3>1. lines' = lines
      BY <2>4 DEF Next, MainStep, RendererStep, OpenDevice, OpenFails, SelectStorage, NoSuchPath,
         AskStorage, NoStorage, ListFolder, SourceFinds, ScanStarts, ScanEnds, ScanFails, Conflicts,
         MakePlan, DryRun, CopyFile, RunInterrupted, RunEnds, RunAborts, Drop, PrintFails, Close,
         RendererEnds, WalkerEnds, CtrlC, vars, ownVars, rest
    <3> QED BY <1>2, <3>1 DEF Killed
  <2> QED BY <2>1, <2>2, <2>3, <2>4
<1>3. /\ outcome' = "Interrupted" => outcome = "Interrupted" \/ cancelled
      /\ outcome' = "Cancelled" => outcome = "Cancelled" \/ cancelled \/ mayAsk
  <2>1. CASE OpenFails
    <3>1. /\ "Cancelled" \in Refused => opening = "prompt"
          /\ "Interrupted" \notin Refused
      BY DEF Refused, Refusal
    <3> QED BY <2>1, <3>1 DEF OpenFails, Return, UserInv
  <2>2. CASE NoSuchPath \/ NoStorage \/ ListFolder
    BY <2>2 DEF NoSuchPath, NoStorage, ListFolder, StorageError, PhoneErrors, IfCancelled, Return
  <2>3. CASE Conflicts \/ DryRun \/ PrintFails \/ \E side \in Sides : ScanFails(side)
    BY <2>3 DEF Conflicts, DryRun, PrintFails, ScanFails, ScanErrors, PhoneErrors, IfCancelled,
       EndScans, Return
  <2>4. CASE RunInterrupted \/ RunEnds \/ RunAborts
    BY <2>4 DEF RunInterrupted, ReturnInterrupted, RunEnds, RunAborts, AbortErrors, PhoneErrors,
       Return
  <2>5. CASE outcome' = outcome
    BY <2>5
  <2> QED BY <2>1, <2>2, <2>3, <2>4, <2>5 DEF Next, MainStep, RendererStep, OpenDevice,
     SelectStorage, AskStorage, SourceFinds, ScanStarts, ScanEnds, MakePlan, CopyFile, Drop, Close,
     Exit, Render, RendererEnds, WalkerEnds, CtrlC, SecondCtrlC, vars, ownVars
<1>4. opening' = "prompt" => mayAsk'
  <2>1. CASE OpenDevice
    BY <2>1, <1>1 DEF OpenDevice, OpeningStep, List, Select, AskWhich, PickDevice, OpenSession,
       Load, Hotplug, UserInv
  <2>2. CASE OpenFails
    BY <2>2 DEF OpenFails, FailOpening
  <2>3. CASE opening' = opening
    BY <2>3, <1>1 DEF UserInv
  <2> QED BY <2>1, <2>2, <2>3 DEF Next, MainStep, RendererStep, SelectStorage, NoSuchPath, AskStorage,
     NoStorage, ListFolder, SourceFinds, ScanStarts, ScanEnds, ScanFails, Conflicts, MakePlan,
     DryRun, CopyFile, RunInterrupted, RunEnds, RunAborts, Drop, PrintFails, Close, Exit, Render,
     RendererEnds, WalkerEnds, CtrlC, SecondCtrlC, vars, openingVars
<1> QED BY <1>1, <1>2, <1>3, <1>4 DEF UserInv
-----------------------------------------------------------------------------
\* Every step but the renderer's leaves what was shown, and most leave the
\* whole story.
LEMMA StorySteps ==
    ASSUME OrderInv, [Next]_vars
    PROVE  /\ Render \/ Told' = Told
           /\ \/ Said' = Said
              \/ \E side \in Sides, t \in {"ScanStarted", "ScanFinished"} :
                    /\ ScanStarts(side) \/ ScanEnds(side)
                    /\ Said' = Said \cup {Event(t, side)}
              \/ /\ Event("PlanReady", "dest") \in Said'
                 /\ \/ MakePlan /\ Said' = Said \cup {Event("PlanReady", "dest")}
                    \/ CopyFile /\ Said' = Said \cup {Event("File", "dest")}
                    \/ /\ RunInterrupted \/ RunEnds \/ RunAborts
                       /\ \E t \in Terminal : Said' = Said \cup {Event(t, "dest")}
              \/ SecondCtrlC
<1>1. CASE Render
  BY <1>1, Shown DEF OrderInv
<1>2. CASE \E side \in Sides : ScanStarts(side) \/ ScanEnds(side)
  <2>1. PICK side \in Sides : ScanStarts(side) \/ ScanEnds(side)
    BY <1>2
  <2>2. Told' = Told /\ \E t \in {"ScanStarted", "ScanFinished"} : Said' = Said \cup {Event(t, side)}
    BY <2>1, ScanSays
  <2> QED BY <2>1, <2>2
<1>3. CASE MakePlan \/ CopyFile \/ RunInterrupted \/ RunEnds \/ RunAborts
  BY <1>3, RunSays
<1>4. CASE SecondCtrlC
  BY <1>4, KilledInOrder
<1>5. CASE \/ OpenDevice \/ OpenFails \/ NoSuchPath \/ AskStorage \/ NoStorage \/ ListFolder
           \/ Conflicts \/ DryRun \/ Drop \/ PrintFails \/ Close \/ Exit \/ RendererEnds \/ CtrlC
           \/ UNCHANGED vars
  BY <1>5, OtherSteps
<1>6. CASE SelectStorage \/ \E side \in Sides : ScanFails(side)
  BY <1>6, ScanSetting
<1>7. CASE SourceFinds \/ WalkerEnds
  BY <1>7, ScanFinds
<1> QED BY <1>1, <1>2, <1>3, <1>4, <1>5, <1>6, <1>7 DEF Next, MainStep, RendererStep

\* How a step may move the command along.
LEMMA PlaceSteps ==
    ASSUME PlaceInv, CommandInv, [Next]_vars
    PROVE  \/ SecondCtrlC
           \/ Exit
           \/ Render /\ code = NoCode /\ UNCHANGED <<step, outcome, command, code>>
           \/ /\ UNCHANGED <<lines, code>> /\ command'.dry = command.dry
              /\ \/ UNCHANGED <<step, outcome, command>>
                 \/ code = NoCode
              /\ \/ UNCHANGED <<step, outcome>>
                 \/ /\ step \in BeforePlan /\ UNCHANGED outcome
                    /\ step' \in BeforePlan \/ MakePlan
                 \/ step \in BeforePlan /\ step' = "drop" /\ outcome' \notin {"DryRun", "Transferred", "Interrupted"}
                 \/ DryRun \/ PrintFails
                 \/ RunInterrupted \/ RunEnds \/ RunAborts
                 \/ step \notin BeforePlan \cup {"run"} /\ step' \notin BeforePlan \cup {"run"}
                    /\ UNCHANGED outcome
<1> USE DEF PlaceInv, BeforePlan, Early
<1>1. CASE \/ OpenDevice \/ OpenFails \/ SelectStorage \/ NoSuchPath
           \/ NoStorage \/ ListFolder
  BY <1>1 DEF OpenDevice, OpenFails, SelectStorage, NoSuchPath, NoStorage, ListFolder,
     Refused, Refusal, StorageError, PhoneErrors, IfCancelled, Return, Goto, rest
<1>2. CASE AskStorage
  <2>1. PICK v : command' = [command EXCEPT !.storage = v]
    BY <1>2 DEF AskStorage
  <2>2. command'.dry = command.dry
    BY <2>1 DEF CommandInv
  <2> QED BY <1>2, <2>2 DEF AskStorage, rest
<1>3. CASE \/ SourceFinds \/ Conflicts \/ DryRun \/ WalkerEnds
           \/ \E side \in Sides : ScanStarts(side) \/ ScanEnds(side) \/ ScanFails(side)
  BY <1>3 DEF SourceFinds, Conflicts, DryRun, WalkerEnds, ScanStarts, ScanEnds, ScanFails,
     ScanErrors, PhoneErrors, IfCancelled, EndScans, Return, Goto, rest
<1>4. CASE MakePlan \/ CopyFile \/ RunInterrupted \/ RunEnds \/ RunAborts
  BY <1>4 DEF MakePlan, CopyFile, RunInterrupted, RunEnds, RunAborts, Runs, Goto, rest
<1>5. CASE Drop \/ PrintFails \/ Close \/ RendererEnds
  BY <1>5 DEF Drop, PrintFails, Close, RendererEnds, Goto, rest
<1>6. CASE Render
  BY <1>6 DEF Render
<1>7. CASE CtrlC \/ UNCHANGED vars
  BY <1>7 DEF CtrlC, vars, ownVars, rest
<1>8. CASE Exit \/ SecondCtrlC
  BY <1>8
<1> QED BY <1>1, <1>2, <1>3, <1>4, <1>5, <1>6, <1>7, <1>8 DEF Next, MainStep, RendererStep

LEMMA LineInvStep == EndInv /\ [Next]_vars => LineInv'
<1> SUFFICES ASSUME EndInv, [Next]_vars PROVE LineInv'
  OBVIOUS
<1>1. FailureText \notin Terminal /\ FailureText # "killed"
  BY DEF FailureText, Terminal
<1>2. code = NoCode => ~Killed
  BY DEF EndInv, LineInv, Killed, Terminal
<1>3. CASE SecondCtrlC
  <2>1. Killed' /\ code' # NoCode
    BY <1>3 DEF SecondCtrlC, Killed, NoCode
  <2> QED BY <2>1 DEF LineInv
<1>4. CASE Exit
  <2>1. /\ code = NoCode /\ outcome' = outcome /\ command' = command
        /\ lines' = lines \cup IF Succeeded THEN {} ELSE {FailureText}
    BY <1>4 DEF Exit
  <2>2. code' # NoCode
    BY <1>4 DEF Exit, CodeForReport, CodeForError, NoCode
  <2>3. Told' = Told
    BY <1>4, OtherSteps DEF EndInv
  <2>4. FailureText' = FailureText /\ Succeeded' = Succeeded
    BY <2>1 DEF FailureText, Succeeded
  <2>5. lines \subseteq Terminal /\ lines \cap Terminal = Kinds(Told) \cap Terminal
    BY <2>1, <1>2 DEF EndInv, LineInv
  <2> QED BY <1>1, <2>1, <2>2, <2>3, <2>4, <2>5 DEF LineInv, Kinds
<1>5. CASE Render /\ code = NoCode /\ UNCHANGED <<step, outcome, command, code>>
  <2> DEFINE h == Head(queue)
  <2>1. /\ h \in Events /\ lines' = lines \cup SummaryOf(h)
        /\ Told' = Told \cup IF h.type = "ScanProgress" THEN {} ELSE {h}
    BY <1>5, Shown DEF Render, EndInv, OrderInv
  <2> HIDE DEF h
  <2>2. SummaryOf(h) = {h.type} \cap Terminal
    BY DEF SummaryOf, Terminal
  <2>3. Kinds(Told') \cap Terminal = (Kinds(Told) \cap Terminal) \cup SummaryOf(h)
    BY <2>1, <2>2 DEF Kinds, Terminal
  <2>4. lines \subseteq Terminal /\ lines \cap Terminal = Kinds(Told) \cap Terminal
    BY <1>5, <1>2 DEF EndInv, LineInv
  <2> QED BY <1>5, <2>1, <2>2, <2>3, <2>4 DEF LineInv, Kinds
<1>6. ASSUME Told' = Told, UNCHANGED <<lines, code>>, UNCHANGED <<outcome, command>> \/ code = NoCode
      PROVE  LineInv'
  <2>1. CASE UNCHANGED <<outcome, command>>
    BY <1>6, <2>1 DEF EndInv, LineInv, Kinds, Killed, Succeeded, FailureText
  <2>2. CASE code = NoCode
    BY <1>6, <2>2 DEF EndInv, LineInv, Kinds, Killed
  <2> QED BY <1>6, <2>1, <2>2
<1>7. CASE /\ UNCHANGED <<lines, code>>
           /\ UNCHANGED <<outcome, command>> \/ code = NoCode
           /\ ~Render
  BY <1>6, <1>7, StorySteps DEF EndInv
<1>8. CASE Render /\ code # NoCode
  BY <1>8 DEF Render, EndInv, PlaceInv
<1> QED BY <1>3, <1>4, <1>5, <1>7, <1>8, PlaceSteps DEF EndInv, Render

LEMMA KindsMore ==
    ASSUME NEW E, NEW t, NEW side
    PROVE  Kinds(E \cup {Event(t, side)}) = Kinds(E) \cup {t}
<1>1. Event(t, side).type = t
  BY DEF Event
<1>2. ASSUME NEW e PROVE Kinds(E \cup {e}) = Kinds(E) \cup {e.type}
  BY DEF Kinds
<1> QED BY <1>1, <1>2

LEMMA StoryInvStep == EndInv /\ [Next]_vars => StoryInv'
<1> SUFFICES ASSUME EndInv, [Next]_vars PROVE StoryInv'
  OBVIOUS
<1> USE DEF EndInv
<1>1. CASE SecondCtrlC
  <2>1. Killed' /\ step' = "exit"
    BY <1>1 DEF SecondCtrlC, Killed, Goto
  <2> QED BY <2>1 DEF StoryInv, BeforePlan, Early
<1>2. code = NoCode => ~Killed
  BY DEF LineInv, Killed, Terminal
<1>3. code # NoCode => step = "exit"
  BY DEF PlaceInv
<1>4. CASE \E side \in Sides : ScanStarts(side) \/ ScanEnds(side)
  <2>1. PICK side \in Sides : ScanStarts(side) \/ ScanEnds(side)
    BY <1>4
  <2>2. \E t \in {"ScanStarted", "ScanFinished"} : Said' = Said \cup {Event(t, side)}
    BY <2>1, ScanSays
  <2>3. Kinds(Said') \cap (Terminal \cup {"PlanReady"}) = Kinds(Said) \cap (Terminal \cup {"PlanReady"})
    BY <2>2 DEF Kinds, Terminal, Event
  <2>4. UNCHANGED <<step, outcome, command, lines>> /\ step \in BeforePlan
    BY <2>1 DEF ScanStarts, ScanEnds, rest, BeforePlan
  <2> QED BY <2>3, <2>4 DEF StoryInv, Kinds, Killed, Terminal
<1>5. CASE MakePlan
  <2>1. Said' = Said \cup {Event("PlanReady", "dest")} /\ step' = "run" /\ step = "scan"
        /\ UNCHANGED <<outcome, command, lines>> /\ outcome = "none"
    BY <1>5, RunSays DEF MakePlan, Goto, rest, WorkInv, BeforePlan, CopyFile, RunInterrupted,
       RunEnds, RunAborts, Runs
  <2>2. Kinds(Said') = Kinds(Said) \cup {"PlanReady"}
    <3> DEFINE S == Said'
    <3>1. S = Said \cup {Event("PlanReady", "dest")}
      BY <2>1
    <3>2. Kinds(S) = Kinds(Said) \cup {"PlanReady"}
      BY <3>1, KindsMore
    <3> QED BY <3>2
  <2> QED BY <2>1, <2>2 DEF StoryInv, Killed, BeforePlan, Early, Terminal
<1>6. CASE CopyFile
  <2>1. Said' = Said \cup {Event("File", "dest")} /\ step' = step /\ step = "run"
        /\ UNCHANGED <<outcome, command, lines>> /\ outcome = "none"
    <3>1. step = "run" /\ step' = step /\ UNCHANGED <<outcome, command, lines>> /\ outcome = "none"
      BY <1>6 DEF CopyFile, Runs, rest, WorkInv
    <3>2. ~MakePlan /\ ~(RunInterrupted \/ RunEnds \/ RunAborts)
      BY <3>1 DEF MakePlan, RunInterrupted, ReturnInterrupted, RunEnds, RunAborts, Return, Goto
    <3> QED BY <1>6, <3>1, <3>2, RunSays
  <2>2. Kinds(Said') \cap Terminal = Kinds(Said) \cap Terminal
        /\ ("PlanReady" \in Kinds(Said') <=> "PlanReady" \in Kinds(Said))
    BY <2>1 DEF Kinds, Terminal, Event
  <2> QED BY <2>1, <2>2 DEF StoryInv, Killed, BeforePlan, Early
<1>7. CASE RunInterrupted \/ RunEnds \/ RunAborts
  <2>1. /\ Event("PlanReady", "dest") \in Said'
        /\ \E t \in Terminal : Event(t, "dest") \in Said'
    BY <1>7, RunSays DEF MakePlan, CopyFile, RunInterrupted, ReturnInterrupted,
       RunEnds, RunAborts, Runs, Goto, Return
  <2>2. Kinds(Said') \cap Terminal # {} /\ "PlanReady" \in Kinds(Said')
    BY <2>1 DEF Kinds, Event
  <2>3. step' = "drop" /\ ~command'.dry /\ outcome' \notin {"Done", "DryRun", "Cancelled"}
    BY <1>7 DEF RunInterrupted, ReturnInterrupted, RunEnds, RunAborts, Runs,
       AbortErrors, PhoneErrors, Goto, Return
  <2> QED BY <2>2, <2>3 DEF StoryInv, BeforePlan, Early
<1>8. ASSUME Said' = Said PROVE StoryInv'
  <2>1. CASE Exit
    <3>1. /\ UNCHANGED <<step, outcome, command>> /\ ~Killed /\ step = "exit"
      BY <2>1, <1>2 DEF Exit
    <3> QED BY <1>8, <3>1 DEF StoryInv
  <2>2. CASE Render
    <3>1. UNCHANGED <<step, outcome, command>> /\ ~Killed
      BY <2>2, <1>2, <1>3 DEF Render, PlaceInv
    <3> QED BY <1>8, <3>1 DEF StoryInv
  <2>3. ASSUME UNCHANGED lines, command'.dry = command.dry,
               UNCHANGED <<step, outcome>>
        PROVE  StoryInv'
    BY <1>8, <2>3 DEF StoryInv, Killed
  <2>4. ASSUME UNCHANGED lines, step \in BeforePlan, UNCHANGED outcome, step' \in BeforePlan
        PROVE  StoryInv'
    <3>1. "PlanReady" \notin Kinds(Said) /\ Kinds(Said) \cap Terminal = {} /\ outcome = "none"
      BY <2>4 DEF StoryInv, WorkInv, SaidInv, OrderInv, BeforePlan, Kinds
    <3> QED BY <1>8, <2>4, <3>1 DEF StoryInv
  <2>5. ASSUME step \in BeforePlan, step' = "drop",
               outcome' \notin {"DryRun", "Transferred", "Interrupted"}
        PROVE  StoryInv'
    <3>1. "PlanReady" \notin Kinds(Said) /\ Kinds(Said) \cap Terminal = {}
      BY <2>5 DEF StoryInv, SaidInv, OrderInv, BeforePlan, Kinds
    <3> QED BY <1>8, <2>5, <3>1 DEF StoryInv, BeforePlan, Early
  <2>6. CASE DryRun
    <3>1. step = "run" /\ step' = "drop" /\ outcome' = "DryRun" /\ command'.dry
      BY <2>6 DEF DryRun, Return, Goto
    <3>2. Kinds(Said) \cap Terminal = {}
      BY <3>1 DEF SaidInv, OrderInv, Kinds
    <3> QED BY <1>8, <3>1, <3>2 DEF StoryInv, BeforePlan, Early
  <2>7. ASSUME UNCHANGED lines, command'.dry = command.dry, UNCHANGED outcome,
               step \notin BeforePlan \cup {"run"}, step' \notin BeforePlan \cup {"run"}
        PROVE  StoryInv'
    BY <1>8, <2>7 DEF StoryInv, Killed
  <2>8. CASE PrintFails
    <3>1. /\ step = "drain" /\ outcome = "DryRun" /\ outcome' = "Io"
          /\ UNCHANGED <<step, command, lines>>
      BY <2>8 DEF PrintFails, rest
    <3> QED BY <1>8, <3>1 DEF StoryInv, Killed
  <2> QED BY <1>1, <1>5, <1>7, <2>1, <2>2, <2>3, <2>4, <2>5, <2>6, <2>7, <2>8, PlaceSteps
<1> QED BY <1>1, <1>4, <1>5, <1>6, <1>7, <1>8, StorySteps

\* An aborted run is said to be that.
LEMMA AbortSays ==
    ASSUME OrderInv, RunAborts
    PROVE  Said' = Said \cup {Event("Aborted", "dest")}
<1>1. PICK e \in Events : e = Event("Aborted", "dest")
  BY DEF Events, Types, Event, Sides
<1>2. queue' = Append(queue, e) /\ shown' = shown /\ queue \in Seq(Events) /\ e.type = "Aborted"
  BY <1>1 DEF RunAborts, Emit, Event, OrderInv, EventInv
<1>3. /\ Len(queue') = Len(queue) + 1
      /\ Loud(queue', Len(queue) + 1) = Loud(queue, Len(queue)) \cup {e}
  BY <1>2, LoudAppend
<1>4. Told' = Told
  BY <1>2 DEF Told
<1>5. Said' = Told' \cup Loud(queue', Len(queue'))
  BY DEF Said
<1>6. Said = Told \cup Loud(queue, Len(queue))
  BY DEF Said
<1> HIDE DEF Said, Told
<1> QED BY <1>1, <1>3, <1>4, <1>5, <1>6

LEMMA MovedInvStep == EndInv /\ [Next]_vars => MovedInv'
<1> SUFFICES ASSUME EndInv, [Next]_vars, ~Killed' PROVE MovedInv'
  BY DEF MovedInv
<1> USE DEF EndInv
<1>1. ~SecondCtrlC /\ ~Killed
  <2>1. ~SecondCtrlC
    BY DEF SecondCtrlC, Killed
  <2>2. Killed => code # NoCode
    BY DEF PlaceInv, Killed
  <2>3. lines' = lines \/ code = NoCode
    BY <2>1, PlaceSteps DEF Exit
  <2> QED BY <2>1, <2>2, <2>3 DEF Killed
<1>2. OrderInv' /\ WorkInv'
  BY OrderInvStep, WorkInvStep
<1>3. CASE step' \in BeforePlan \cup {"run"}
  <2>1. Kinds(Said)' \cap Terminal = {} /\ (step' = "run" => "PlanReady" \in Kinds(Said)')
    BY <1>2, <1>3 DEF OrderInv, SaidInv, Kinds, BeforePlan, Event
  <2>2. step' \in BeforePlan => ~(copied' + failedFiles' > 0)
    BY <1>2 DEF WorkInv
  <2> QED BY <1>3, <2>1, <2>2 DEF MovedInv, Terminal
<1>4. CASE RunInterrupted \/ RunEnds \/ RunAborts
  <2>1. Event("PlanReady", "dest") \in Said'
    BY <1>4, RunSays
  <2>2. "PlanReady" \in Kinds(Said)'
    BY <2>1 DEF Kinds, Event
  <2>3. CASE RunInterrupted \/ RunEnds
    <3>1. outcome' \in {"Transferred", "Interrupted"}
      BY <2>3 DEF RunInterrupted, ReturnInterrupted, RunEnds, Return
    <3> QED BY <2>2, <3>1 DEF MovedInv
  <2>4. CASE RunAborts
    <3>1. "Finished" \notin Kinds(Said)
      BY <2>4 DEF RunAborts, Runs, OrderInv, SaidInv, Kinds, Terminal
    <3>2. "Finished" \notin Kinds(Said)'
      BY <2>4, <3>1, AbortSays DEF Kinds, Event
    <3> QED BY <2>2, <3>2 DEF MovedInv
  <2> QED BY <1>4, <2>3, <2>4
<1>5. CASE step' \notin BeforePlan \cup {"run"} /\ ~(RunInterrupted \/ RunEnds \/ RunAborts)
  <2>1. ~(MakePlan \/ CopyFile \/ \E side \in Sides : ScanStarts(side) \/ ScanEnds(side))
    BY <1>5 DEF MakePlan, CopyFile, Runs, ScanStarts, ScanEnds, Goto, BeforePlan, Early
  <2>2. Said' = Said
    BY <1>1, <1>5, <2>1, StorySteps
  <2>3. UNCHANGED <<copied, failedFiles>>
    BY <1>1, <1>5, <2>1 DEF Next, MainStep, RendererStep, OpenDevice, OpenFails, SelectStorage,
       NoSuchPath, AskStorage, NoStorage, ListFolder, SourceFinds, ScanFails, Conflicts, DryRun,
       Drop, PrintFails, Close, Exit, Render, RendererEnds, WalkerEnds, CtrlC, vars, ownVars, work
  <2>4. outcome \in {"Transferred", "Interrupted"} => outcome' = outcome
    BY <1>1, <1>5, PlaceSteps DEF PrintFails, DryRun, Exit, WorkInv
  <2> QED BY <1>1, <2>2, <2>3, <2>4 DEF MovedInv, Kinds
<1> QED BY <1>3, <1>4, <1>5

LEMMA EndInvInit == Init => EndInv
<1> SUFFICES ASSUME Init PROVE EndInv
  OBVIOUS
<1>1. OrderInv
  BY OrderInvInit
<1>2. shown = <<>> /\ queue = <<>>
  BY DEF Init
<1>3. Said = {} /\ Told = {}
  BY <1>2, EmptySeq DEF Said, Told, Loud
<1>4. CommandInv
  <2>1. command \in [does : {"ls", "transfer"}, dry : BOOLEAN,
                     storage : {c.storage : c \in Commands}]
    BY SessionAssumption DEF Init
  <2> QED BY <2>1 DEF CommandInv
<1>5. WorkInv /\ UserInv /\ PlaceInv
  BY DEF Init, OpeningInit, WorkInv, UserInv, PlaceInv, BeforePlan, Early, Killed
<1>6. LineInv /\ StoryInv /\ MovedInv
  BY <1>3 DEF Init, LineInv, StoryInv, MovedInv, Kinds, Killed, BeforePlan, Early, NoCode, Terminal
<1> QED BY <1>1, <1>4, <1>5, <1>6 DEF EndInv

LEMMA EndInvStep == EndInv /\ [Next]_vars => EndInv'
BY OrderInvStep, WorkInvStep, UserInvStep, PlaceInvStep, LineInvStep, StoryInvStep, MovedInvStep
   DEF EndInv

\* The exit code tells the truth: 0 only when every file asked for was copied,
\* 6 only when the run went to its end; 2, 5 and 7 only when nothing was touched,
\* 3 and 4 unless the run says it was aborted; 130 for an interrupt of the user's
\* and for nothing else.
THEOREM CodesAreTrue == Spec => []ExitCodeTellsTheTruth
<1>1. EndInv => ExitCodeTellsTheTruth
  <2> SUFFICES ASSUME EndInv, code # NoCode PROVE ExitCodeTellsTheTruth
    BY DEF ExitCodeTellsTheTruth, NoCode
  <2>1. WorkInv /\ UserInv /\ step = "exit" /\ code = IF Killed THEN 130 ELSE Verdict
    BY DEF EndInv, PlaceInv
  <2>2. CASE Killed
    <3>1. code = 130 /\ cancelled
      BY <2>1, <2>2 DEF UserInv
    <3> QED BY <3>1 DEF ExitCodeTellsTheTruth
  <2>3. CASE ~Killed
    <3>1. /\ Verdict = 0 => \/ outcome = "Done" \/ outcome = "DryRun"
                            \/ outcome = "Transferred" /\ ~(failedFiles > 0)
          /\ Verdict = 6 => outcome = "Transferred" /\ failedFiles > 0
          /\ Verdict \in {2, 5, 7} =>
              outcome \notin {"none", "Transferred", "Interrupted"} \cup AbortErrors
          /\ Verdict \in {3, 4} => outcome \notin {"none", "Transferred", "Interrupted"}
          /\ Verdict = 130 => outcome \in {"Interrupted", "Cancelled"}
          /\ outcome \in {"Interrupted", "Cancelled"} => Verdict = 130
      BY DEF Verdict, Succeeded, CodeForReport, CodeForError, AbortErrors, PhoneErrors
    <3>2. code = Verdict
      BY <2>1, <2>3
    <3>3. Said = Told /\ {"Finished", "Aborted"} \cap lines = Kinds(Told) \cap Terminal
      <4>1. queue = <<>>
        BY <2>1 DEF EndInv, PlaceInv
      <4>2. Said = Told
        BY <4>1, EmptySeq DEF Said, Loud
      <4> QED BY <2>3, <4>2 DEF EndInv, LineInv, Terminal
    <3>4. code \in {3, 4} /\ "Aborted" \notin lines => copied + failedFiles = 0
      <4> SUFFICES ASSUME code \in {3, 4}, copied + failedFiles > 0 PROVE "Aborted" \in lines
        BY <2>1 DEF WorkInv
      <4>1. "PlanReady" \in Kinds(Said) /\ "Finished" \notin Kinds(Said)
        BY <2>3, <3>1, <3>2 DEF EndInv, MovedInv
      <4>2. ~command.dry
        BY <2>1 DEF WorkInv
      <4>3. Kinds(Said) \cap Terminal # {}
        BY <2>1, <2>3, <4>1, <4>2 DEF EndInv, StoryInv, BeforePlan, Early
      <4> QED BY <3>3, <4>1, <4>3 DEF Terminal
    <3>5. code = 130 => cancelled \/ (mayAsk /\ OfType("PlanReady") = {})
      <4> SUFFICES ASSUME code = 130, ~cancelled PROVE mayAsk /\ OfType("PlanReady") = {}
        OBVIOUS
      <4>1. outcome = "Cancelled" /\ mayAsk
        BY <2>1, <3>1, <3>2 DEF UserInv
      <4>2. "PlanReady" \notin Kinds(Told)
        BY <2>3, <3>3, <4>1 DEF EndInv, StoryInv
      <4>3. shown \in Seq(Events) /\ DOMAIN shown = 1..Len(shown)
        BY LenProperties DEF EndInv, OrderInv, EventInv
      <4> QED BY <4>1, <4>2, <4>3 DEF OfType, Kinds, Told, Loud
    <3>6. code \in {2, 5, 7} => copied + failedFiles = 0
      BY <2>1, <3>1, <3>2 DEF WorkInv
    <3>7. /\ code = 0 /\ command.does = "transfer" /\ ~command.dry => toDo = 0 /\ failedFiles = 0
          /\ code = 6 => toDo = 0 /\ failedFiles > 0
      BY <2>1, <3>1, <3>2 DEF WorkInv
    <3>8. outcome \in {"Interrupted", "Cancelled"} \/ lines = {"killed"} => code = 130
      BY <2>3, <3>1, <3>2 DEF Killed
    <3> QED BY <3>4, <3>5, <3>6, <3>7, <3>8 DEF ExitCodeTellsTheTruth
  <2> QED BY <2>2, <2>3
<1> QED BY <1>1, EndInvInit, EndInvStep, PTL DEF Spec

\* Every way out short of a second Ctrl-C says how it ended: an error of
\* main's, the renderer's summary, or both when a run is aborted; and "before the transfer
\* started" only of a command that announced no plan and moved no file.
THEOREM UsersAreTold == Spec => []ToldHowItEnded
<1>1. EndInv => ToldHowItEnded
  <2> SUFFICES ASSUME EndInv, code # NoCode, ~Killed PROVE ToldHowItEnded
    BY DEF ToldHowItEnded, Killed
  <2>1. step = "exit" /\ queue = <<>>
    BY DEF EndInv, PlaceInv
  <2>2. Said = Told
    BY <2>1, EmptySeq DEF Said, Loud
  <2>3. OfType("PlanReady") # {} <=> "PlanReady" \in Kinds(Told)
    <3>1. shown \in Seq(Events) /\ DOMAIN shown = 1..Len(shown)
      BY LenProperties DEF EndInv, OrderInv, EventInv
    <3> QED BY <3>1 DEF OfType, Kinds, Told, Loud
  <2>4. {"Finished", "Aborted"} \cap lines = Kinds(Told) \cap Terminal
    BY DEF EndInv, LineInv, Terminal
  <2>5. FailureText \in {"diagnostic", "Interrupted", "Interrupted before the transfer started"}
        /\ (FailureText = "Interrupted before the transfer started" => outcome = "Cancelled")
    BY DEF FailureText
  <2>6. lines = {} <=> outcome \in {"Done", "DryRun"}
    <3>1. CASE outcome \in {"Done", "DryRun"}
      BY <3>1, <2>2, <2>4 DEF EndInv, LineInv, StoryInv, Succeeded, Terminal
    <3>2. CASE outcome \in {"Transferred", "Interrupted"}
      BY <3>2, <2>2, <2>4 DEF EndInv, StoryInv
    <3>3. CASE ~Succeeded
      BY <3>3 DEF EndInv, LineInv, Succeeded
    <3> QED BY <3>1, <3>2, <3>3 DEF Succeeded
  <2>7. {"Finished", "Aborted"} \cap lines # {} <=> OfType("PlanReady") # {} /\ ~command.dry
    BY <2>1, <2>2, <2>3, <2>4 DEF EndInv, StoryInv, BeforePlan, Early
  <2>8. ASSUME "Interrupted before the transfer started" \in lines
        PROVE  OfType("PlanReady") = {} /\ copied + failedFiles = 0
    <3>1. outcome = "Cancelled"
      BY <2>8, <2>5 DEF EndInv, LineInv, Terminal
    <3> QED BY <3>1, <2>2, <2>3 DEF EndInv, StoryInv, WorkInv, AbortErrors, PhoneErrors
  <2> QED BY <2>6, <2>7, <2>8 DEF ToldHowItEnded
<1> QED BY <1>1, EndInvInit, EndInvStep, PTL DEF Spec
-----------------------------------------------------------------------------
BoundInv ==
    /\ opening \in {"list", "select", "prompt", "open", "load", "opened", "failed"}
    /\ step \in {"storage", "scan", "run"} => opening = "opened"
    /\ Len(queue) <= Capacity

LEMMA QueueStep ==
    ASSUME queue \in Seq(Events), Len(queue) <= Capacity, [Next]_vars
    PROVE  Len(queue') <= Capacity
<1>1. Capacity \in Nat \ {0} /\ Len(queue) \in Nat
  BY SessionAssumption, LenProperties
<1>2. \/ queue' = queue
      \/ queue' = <<>>
      \/ queue # <<>> /\ queue' = Tail(queue)
      \/ Room /\ \E e \in Events : queue' = Append(queue, e)
  <2>1. \A t \in Types, side \in Sides : [type |-> t, side |-> side] \in Events
    BY DEF Events
  <2>2. CASE \/ OpenDevice \/ OpenFails \/ SelectStorage \/ NoSuchPath \/ AskStorage \/ NoStorage
             \/ ListFolder \/ Conflicts \/ DryRun \/ Drop \/ PrintFails \/ Close \/ Exit
             \/ RendererEnds \/ CtrlC \/ UNCHANGED vars \/ \E side \in Sides : ScanFails(side)
    BY <2>2 DEF OpenDevice, OpenFails, SelectStorage, NoSuchPath, AskStorage, NoStorage,
       ListFolder, Conflicts, DryRun, Drop, PrintFails, Close, Exit, RendererEnds, CtrlC, ScanFails,
       vars, ownVars, display
  <2>3. CASE Render \/ SecondCtrlC
    BY <2>3 DEF Render, SecondCtrlC
  <2>4. CASE SourceFinds \/ WalkerEnds
    BY <2>1, <2>4 DEF SourceFinds, WalkerEnds, TryEmit, display, Types, Sides
  <2>5. CASE MakePlan \/ CopyFile \/ RunInterrupted \/ RunEnds \/ RunAborts
    BY <2>1, <2>5 DEF MakePlan, CopyFile, RunInterrupted, RunEnds, RunAborts, Emit, Types, Sides
  <2>6. CASE \E side \in Sides : ScanStarts(side) \/ ScanEnds(side)
    BY <2>1, <2>6 DEF ScanStarts, ScanEnds, Emit, Types
  <2> QED BY <2>2, <2>3, <2>4, <2>5, <2>6 DEF Next, MainStep, RendererStep
<1>3. CASE Room /\ \E e \in Events : queue' = Append(queue, e)
  BY <1>1, <1>3, LoudAppend DEF Room
<1>4. CASE queue # <<>> /\ queue' = Tail(queue)
  BY <1>1, <1>4, LoudTail
<1>5. CASE queue' = queue \/ queue' = <<>>
  BY <1>1, <1>5, EmptySeq
<1> QED BY <1>2, <1>3, <1>4, <1>5

\* The channel holds no more than its capacity, the files are those of a plan,
\* no transfer runs without an open device, no exit leaves the bars drawn.
THEOREM SessionTyped == Spec => []TypeOK
<1>1. Init => BoundInv
  <2> SUFFICES ASSUME Init PROVE BoundInv
    OBVIOUS
  <2> QED BY SessionAssumption, EmptySeq DEF Init, OpeningInit, BoundInv
<1>2. EndInv /\ BoundInv /\ [Next]_vars => BoundInv'
  <2> SUFFICES ASSUME EndInv, BoundInv, [Next]_vars PROVE BoundInv'
    OBVIOUS
  <2>1. Len(queue') <= Capacity
    BY QueueStep DEF EndInv, OrderInv, EventInv, BoundInv
  <2>2. \/ opening' = opening /\ (step' \in {"storage", "scan", "run"} => step \in {"storage", "scan", "run"})
        \/ OpenDevice \/ OpenFails
    BY DEF Next, MainStep, RendererStep, SelectStorage, NoSuchPath, AskStorage, NoStorage,
       ListFolder, SourceFinds, ScanStarts, ScanEnds, ScanFails, EndScans, Conflicts, MakePlan,
       DryRun, CopyFile, RunInterrupted, ReturnInterrupted, RunEnds, RunAborts, Drop, PrintFails,
       Close, Exit, Render, RendererEnds, WalkerEnds, CtrlC, SecondCtrlC, Return, Goto, vars, ownVars, openingVars
  <2>3. CASE OpenDevice
    BY <2>1, <2>3 DEF OpenDevice, OpeningStep, List, Select, AskWhich, PickDevice, OpenSession, Load,
       Hotplug, Goto, BoundInv
  <2>4. CASE OpenFails
    BY <2>1, <2>4 DEF OpenFails, FailOpening, Return, Goto, BoundInv
  <2> QED BY <2>1, <2>2, <2>3, <2>4 DEF BoundInv
<1>3. EndInv /\ BoundInv => TypeOK
  <2> SUFFICES ASSUME EndInv, BoundInv PROVE TypeOK
    OBVIOUS
  <2>1. copied + failedFiles + toDo \in Files \cup {0}
    BY DEF EndInv, WorkInv
  <2>2. step \in {"open", "storage", "list", "scan", "run", "drop", "drain", "exit"}
        /\ (step = "exit" => ~drawing)
    BY DEF EndInv, PlaceInv, BeforePlan, Early
  <2> QED BY <2>1, <2>2 DEF BoundInv, TypeOK
<1> QED BY <1>1, <1>2, <1>3, EndInvInit, EndInvStep, PTL DEF Spec
-----------------------------------------------------------------------------
\* While nothing is plugged in or out, the listing is the bus.
OpeningInv ==
    /\ hotplugs \in Nat
    /\ hotplugs = 0 /\ opening \in {"list", "select", "prompt", "open"} => bus \in Buses
    /\ hotplugs = 0 /\ opening \in {"select", "prompt", "open"} => listed = bus
    /\ opening \in {"list", "select", "prompt", "open"} => opened = {}
    /\ selector.by \in {"only", "index", "serial"}
    /\ hotplugs = 0 /\ opening = "open" => \E i \in DOMAIN listed : chosen = {listed[i]}
    /\ OpensTheSelected

\* A serial that one listed device has, or a port, is that device's.
LEMMA ReachesIt ==
    ASSUME bus \in Buses, listed = bus, NEW i \in DOMAIN listed
    PROVE  Reached(listed[i]) \subseteq {listed[i]}
<1> DEFINE d == listed[i]
<1>1. /\ Len(bus) \in Nat /\ DOMAIN bus = 1..Len(bus)
      /\ \A j \in DOMAIN bus : Port[bus[j]] = Port[d] => j = i
  BY OpeningAssumption, LenProperties
<1>2. CASE HasUniqueSerial(d)
  <2>1. SharingSerial(d) \subseteq 1..Len(bus) /\ IsFiniteSet(SharingSerial(d))
    <3>1. IsFiniteSet(1..Len(bus))
      BY <1>1, FS_Interval
    <3>2. SharingSerial(d) \subseteq 1..Len(bus)
      BY <1>1 DEF SharingSerial
    <3> QED BY <3>1, <3>2, FS_Subset
  <2>2. PICK x : SharingSerial(d) = {x}
    BY <1>2, <2>1, FS_Singleton DEF HasUniqueSerial
  <2>3. \A j \in DOMAIN bus : Serial[bus[j]] = Serial[d] => j = i
    BY <2>2 DEF SharingSerial
  <2> QED BY <1>2, <2>3 DEF Reached
<1>3. CASE ~HasUniqueSerial(d)
  BY <1>1, <1>3 DEF Reached, Elements
<1> QED BY <1>2, <1>3

LEMMA OpeningSteps ==
    ASSUME OpeningInv, OpeningStep \/ Hotplug \/ FailOpening \/ UNCHANGED openingVars
    PROVE  OpeningInv'
<1> USE DEF OpeningInv, OpensTheSelected
<1>1. CASE List
  BY <1>1 DEF List
<1>2. CASE Select
  <2>1. PICK i \in Positions : chosen' = {listed[i]}
    BY <1>2 DEF Select
  <2>2. hotplugs = 0 => i \in DOMAIN listed
    <3> SUFFICES ASSUME hotplugs = 0 PROVE i \in DOMAIN listed
      OBVIOUS
    <3>1. listed \in Seq(Devices) /\ DOMAIN listed = 1..Len(listed)
      BY <1>2, OpeningAssumption, LenProperties DEF Select
    <3>2. selector.by \in {"only", "index", "serial"} /\ i \in Positions
      BY <2>1
    <3>3. CASE selector.by = "only"
      BY <3>1, <3>2, <3>3 DEF Positions
    <3>4. CASE selector.by = "index"
      BY <3>1, <3>2, <3>4 DEF Positions
    <3>5. CASE selector.by = "serial"
      <4>1. Positions \subseteq DOMAIN listed
        BY <3>5 DEF Positions
      <4> QED BY <3>2, <4>1
    <3> QED BY <3>2, <3>3, <3>4, <3>5
  <2> QED BY <1>2, <2>1, <2>2 DEF Select
<1>3. CASE AskWhich \/ PickDevice
  BY <1>3 DEF AskWhich, PickDevice, ByIndex
<1>4. CASE OpenSession
  <2>1. hotplugs = 0 => opened' \subseteq chosen'
    <3> SUFFICES ASSUME hotplugs = 0 PROVE opened' \subseteq chosen'
      OBVIOUS
    <3>1. PICK i \in DOMAIN listed : chosen = {listed[i]}
      BY <1>4 DEF OpenSession
    <3>2. opened' = Reached(listed[i]) /\ chosen' = chosen
      BY <1>4, <3>1 DEF OpenSession
    <3> QED BY <1>4, <3>1, <3>2, ReachesIt DEF OpenSession
  <2> QED BY <1>4, <2>1 DEF OpenSession
<1>5. CASE Load \/ FailOpening
  BY <1>5 DEF Load, FailOpening, Only
<1>6. CASE Hotplug
  BY <1>6 DEF Hotplug
<1>7. CASE UNCHANGED openingVars
  BY <1>7 DEF openingVars
<1> QED BY <1>1, <1>2, <1>3, <1>4, <1>5, <1>6, <1>7 DEF OpeningStep

\* With nothing plugged in or out, the session is with the device selected,
\* whatever the serials of the units, for any bus and selector.
THEOREM SelectedIsOpened == Spec => []OpensTheSelected
<1>1. Init => OpeningInv
  BY OpeningAssumption DEF Init, OpeningInit, OpeningInv, OpensTheSelected
<1>2. OpeningInv /\ [Next]_vars => OpeningInv'
  <2>1. [Next]_vars => OpeningStep \/ Hotplug \/ FailOpening \/ UNCHANGED openingVars
    BY DEF Next, MainStep, RendererStep, OpenDevice, OpenFails, SelectStorage, NoSuchPath,
       AskStorage, NoStorage, ListFolder, SourceFinds, ScanStarts, ScanEnds, ScanFails, Conflicts,
       MakePlan, DryRun, CopyFile, RunInterrupted, RunEnds, RunAborts, Drop, PrintFails, Close,
       Exit, Render, RendererEnds, WalkerEnds, CtrlC, SecondCtrlC, vars
  <2> QED BY <2>1, OpeningSteps
<1>3. OpeningInv => OpensTheSelected
  BY DEF OpeningInv
<1> QED BY <1>1, <1>2, <1>3, PTL DEF Spec
=============================================================================
