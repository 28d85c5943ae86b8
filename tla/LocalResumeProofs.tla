------------------------- MODULE LocalResumeProofs -------------------------
(***************************************************************************)
(* What LocalResume guarantees for every set of phones and objects, every  *)
(* size, chunk and checkpoint interval, and any number of runs, kills and  *)
(* file-system failures, as long as the world is orderly.                  *)
(***************************************************************************)
EXTENDS LocalResume, SequenceTheorems, TLAPS

Describes(r, o) ==
    /\ Identity[o] \notin Serialless
    /\ r.identity = Identity[o]
    /\ r.fingerprint = Fingerprint[o]

Opening == {"settle", "read", "open", "staleTmp", "staleRecord", "openPart"}
Pumping == {"pump", "checkpoint", "checkpointRename"}
Writing == Pumping \cup {"stop", "keep", "keepRename", "sync", "rename"}
Cleaning == {"cleanTmp", "cleanRecord"}

\* The object the plan is about: the one a run now starting would plan for.
Planned == IF pc = "idle" THEN source ELSE job.object

JobInv ==
    /\ pc = "idle" <=> job.object = NoObject
    /\ pc # "idle" => /\ job.object = source \/ <<job.object, source>> \in EditsInRun
                      /\ job.offset <= Size(job.object)

StreamInv ==
    /\ pc \notin {"idle", "settle", "read"} => stream.object = source
    /\ pc \notin {"pump", "checkpoint"} => inFlight = <<>>

\* A record is about the planned object or one that came before it.
RecordPast ==
    \A r \in sidecar : \A p \in Objects :
        Describes(r, p) => p = Planned \/ <<p, Planned>> \in Becomes

\* What a record counts of the planned object is there, until another object's
\* cells are being written, and then no record will be read for it again.
RecordHonest ==
    pc \in {"idle"} \cup Opening \/ job.object = source =>
        \A r \in sidecar : Describes(r, Planned) =>
            \A i \in 1..Len(part) : i <= r.bytes => part[i] = CellOf(Planned, i)

\* The offset of a copy being opened is what the record of its object says.
OffsetBacked ==
    /\ pc \in Opening
    /\ pc \in {"settle", "read", "open"} \/ writer.resumable
    /\ job.offset > 0
    => \E r \in sidecar : Describes(r, job.object) /\ r.bytes = job.offset

OpenInv ==
    /\ pc \in {"settle", "read", "open"} => writer.resumable
    /\ pc \in Opening /\ ~Shrinks => job.offset <= Len(part)
    /\ pc \in {"staleTmp", "staleRecord"} => ~writer.resumable
    /\ pc \in {"open", "staleTmp", "staleRecord", "openPart"} =>
           stream.next = job.offset
    /\ pc \in {"staleTmp", "staleRecord", "openPart"} =>
           writer.bytes = IF writer.resumable THEN job.offset ELSE 0

\* A stale tail is never vouched for, never counted as whole and never kept.
StaleInv ==
    ~writer.resumable =>
        /\ Shrinks
        /\ job.offset > 0
        /\ pc \in {"staleTmp", "staleRecord", "openPart", "pump", "stop",
                   "discard", "discardTmp", "discardRecord"}
        /\ pc \notin {"staleTmp", "staleRecord"} => sidecar = {}
        /\ pc = "pump" => writer.bytes + job.offset = stream.next

\* While the writer may vouch for it, the part is the prefix it resumed from
\* followed by what the stream delivered.
PartInv ==
    pc \in Writing /\ writer.resumable =>
        /\ job.offset <= Len(part)
        /\ \A i \in 1..Len(part) :
               part[i] = CellOf(IF i <= job.offset THEN job.object
                                                   ELSE stream.object, i)

PumpInv ==
    pc \in Pumping =>
        /\ stream.next = job.offset \/ stream.next <= Size(stream.object)
        /\ writer.resumable =>
               /\ writer.bytes = stream.next
               /\ Len(part) + Len(inFlight) = writer.bytes
               /\ \A i \in 1..Len(inFlight) :
                      inFlight[i] = CellOf(stream.object, Len(part) + i)

WholeInv ==
    /\ pc \in {"sync", "rename"} => part = Whole(job.object)
    /\ pc \in Cleaning => part = <<>>

IInv ==
    /\ TypeOK
    /\ JobInv
    /\ StreamInv
    /\ RecordPast
    /\ RecordHonest
    /\ OffsetBacked
    /\ OpenInv
    /\ StaleInv
    /\ PartInv
    /\ PumpInv
    /\ WholeInv
    /\ NeverSplices
-----------------------------------------------------------------------------
(* Facts about the operators.                                              *)

LEMMA CellsAre ==
    ASSUME NEW o \in Objects, NEW from \in Nat, NEW to \in Nat, from <= to
    PROVE  /\ Cells(o, from, to) \in Seq(Cell)
           /\ Len(Cells(o, from, to)) = to - from
           /\ \A i \in 1..(to - from) : Cells(o, from, to)[i] = CellOf(o, from + i)
BY DEF Cells, CellOf, Cell

LEMMA PlannedOffsetIs ==
    ASSUME TypeOK, NEW o \in Objects
    PROVE  /\ PlannedOffset(o) \in Nat
           /\ PlannedOffset(o) <= Size(o)
           /\ PlannedOffset(o) <= Len(part)
           /\ PlannedOffset(o) > 0 =>
                  \E r \in sidecar : Describes(r, o) /\ r.bytes = PlannedOffset(o)
<1>1. CASE Resumable(o) = {}
  BY <1>1, ConstantsAssumption DEF PlannedOffset, TypeOK
<1>2. CASE Resumable(o) # {}
  <2> DEFINE r == CHOOSE r \in Resumable(o) : TRUE
  <2>1. r \in Resumable(o)
    BY <1>2
  <2>2. PlannedOffset(o) = r.bytes
    BY <1>2 DEF PlannedOffset
  <2>3. r \in sidecar /\ r \in Sidecars
    BY <2>1 DEF Resumable, TypeOK
  <2> QED
    BY <2>1, <2>2, <2>3 DEF Resumable, IsValidFor, Matches, Describes, Sidecars
<1> QED
  BY <1>1, <1>2

LEMMA ResumeIs ==
    ASSUME TypeOK, NEW n \in Nat
    PROVE  /\ EffectiveResume(n) \in {0, n}
           /\ EffectiveResume(n) <= Len(part)
           /\ n <= Len(part) => EffectiveResume(n) = n
BY DEF EffectiveResume, TypeOK

\* A record the writer makes is about the one object it was made for.
LEMMA RecordIs ==
    ASSUME OrderlyWorld, NEW o \in Objects, NEW n \in Nat
    PROVE  /\ Record(o, n) \in Sidecars
           /\ Record(o, n).bytes = n
           /\ \A p \in Objects : Describes(Record(o, n), p) => p = o
BY DEF Record, Sidecars, Describes, OrderlyWorld, FingerprintsIdentify

LEMMA WholeIs ==
    ASSUME NEW o \in Objects, NEW s \in Seq(Cell), Len(s) = Size(o),
           \A i \in 1..Len(s) : s[i] = CellOf(o, i)
    PROVE  s = Whole(o)
<1>1. Size(o) \in Nat
  BY ConstantsAssumption
<1>2. /\ Whole(o) \in Seq(Cell)
      /\ Len(Whole(o)) = Size(o)
      /\ \A i \in 1..Size(o) : Whole(o)[i] = CellOf(o, i)
  <2>1. /\ Cells(o, 0, Size(o)) \in Seq(Cell)
        /\ Len(Cells(o, 0, Size(o))) = Size(o) - 0
        /\ \A i \in 1..(Size(o) - 0) : Cells(o, 0, Size(o))[i] = CellOf(o, 0 + i)
    BY <1>1, 0 \in Nat, 0 <= Size(o), CellsAre
  <2>2. Size(o) - 0 = Size(o) /\ \A i \in 1..Size(o) : 0 + i = i
    BY <1>1
  <2> QED
    BY <2>1, <2>2 DEF Whole
<1> QED
  BY <1>1, <1>2, SeqEqual
-----------------------------------------------------------------------------
(* Type correctness.                                                       *)

LEMMA TypeStep ==
    ASSUME TypeOK, pc # "idle" => job.object \in Objects,
           pc \in Pumping => stream.object \in Objects, Next
    PROVE  TypeOK'
<1> DEFINE Steps == {"idle", "settle", "read", "open", "staleTmp", "staleRecord",
                     "openPart", "pump", "checkpoint", "checkpointRename", "stop",
                     "keep", "keepRename", "discard", "discardTmp",
                     "discardRecord", "sync", "rename", "cleanTmp", "cleanRecord"}
<1> DEFINE RunOK == /\ pc \in Steps
                    /\ job \in [object : Objects \cup {NoObject}, offset : Nat]
                    /\ stream \in [object : Objects \cup {NoObject}, next : Nat]
                    /\ writer \in [bytes : Nat, checkpointed : Nat,
                                   resumable : BOOLEAN]
                    /\ inFlight \in Seq(Cell)
<1>e. EndRun => RunOK'
  BY DEF EndRun, NoJob, NoStream, NoWriter
<1>u. RunOK /\ UNCHANGED run /\ pc' \in Steps => RunOK'
  BY DEF run
<1> USE DEF TypeOK, disk
<1>1. ASSUME NEW o \in Objects, Replace(o) PROVE TypeOK'
  BY <1>1 DEF Replace, run
<1>2. ASSUME NEW o \in Objects, EditInRun(o) PROVE TypeOK'
  BY <1>2 DEF EditInRun, run
<1>3. ASSUME DeleteFinal PROVE TypeOK'
  BY <1>3 DEF DeleteFinal, run
<1>4. ASSUME NEW n \in 0..Len(part), ShrinkPart(n) PROVE TypeOK'
  BY <1>4 DEF ShrinkPart, run
<1>5. ASSUME PlanCopy PROVE TypeOK'
  BY <1>5, PlannedOffsetIs DEF PlanCopy
<1>6. ASSUME Settle PROVE TypeOK'
  BY <1>6, ResumeIs DEF Settle
<1>7. ASSUME OpenStream PROVE TypeOK'
  BY <1>7 DEF OpenStream
<1>8. ASSUME OpenWriter PROVE TypeOK'
  BY <1>8, ResumeIs DEF OpenWriter
<1>9. ASSUME OpenPart PROVE TypeOK'
  <2>1. CASE Len(part) >= writer.bytes
    <3>1. SubSeq(part, 1, writer.bytes) \in Seq(Cell)
      BY <2>1
    <3> QED
      BY <1>u, <1>9, <2>1, <3>1 DEF OpenPart
  <2>2. CASE ~(Len(part) >= writer.bytes)
    BY <1>e, <1>9, <2>2 DEF OpenPart
  <2> QED
    BY <2>1, <2>2
<1>10. ASSUME NEW n \in 1..ChunkCells, WriteChunk(n) PROVE TypeOK'
  <2>1. /\ stream.next \in Nat
        /\ stream.next + n \in Nat
        /\ n \in Nat
        /\ stream.object \in Objects
    BY <1>10, ConstantsAssumption DEF WriteChunk, Pumping
  <2>2. inFlight' \in Seq(Cell)
    BY <1>10, <2>1, CellsAre DEF WriteChunk
  <2>3. pc' \in {"checkpoint", "pump"}
    BY <1>10 DEF WriteChunk
  <2>4. /\ writer' = [writer EXCEPT !.bytes = @ + n]
        /\ stream' = [stream EXCEPT !.next = @ + n]
        /\ UNCHANGED <<source, final, part, sidecar, tmp, job>>
    BY <1>10 DEF WriteChunk
  <2>5. /\ writer' \in [bytes : Nat, checkpointed : Nat, resumable : BOOLEAN]
        /\ stream' \in [object : Objects \cup {NoObject}, next : Nat]
    BY <2>1, <2>4
  <2>6. RunOK'
    BY <2>2, <2>3, <2>4, <2>5
  <2> QED
    BY <2>4, <2>6
<1>11. ASSUME Land PROVE TypeOK'
  BY <1>11 DEF Land
<1>12. Smaller(writer.bytes, Len(part)) \in Nat
  BY DEF Smaller
<1>13. ASSUME StreamEnds PROVE TypeOK'
  BY <1>12, <1>13 DEF StreamEnds
<1>14. ASSUME WriteTmp PROVE TypeOK'
  BY <1>u, <1>14 DEF WriteTmp
<1>15. ASSUME Checkpoint \/ KeepPartial
       PROVE  {Record(job.object, writer.bytes)} \subseteq Sidecars
  BY <1>15 DEF Checkpoint, KeepPartial, Record, Sidecars
<1>16. ASSUME Checkpoint PROVE TypeOK'
  BY <1>15, <1>16 DEF Checkpoint
<1>17. ASSUME Stop PROVE TypeOK'
  BY <1>u, <1>17 DEF Stop
<1>18. ASSUME KeepPartial PROVE TypeOK'
  <2>1. sidecar' \subseteq Sidecars /\ \A r, s \in sidecar' : r = s
    BY <1>15, <1>18 DEF KeepPartial
  <2> QED
    BY <1>e, <1>18, <2>1 DEF KeepPartial
<1>19. ASSUME DiscardPart PROVE TypeOK'
  BY <1>u, <1>19 DEF DiscardPart
<1>20. ASSUME Sync PROVE TypeOK'
  BY <1>u, <1>20 DEF Sync
<1>21. ASSUME Publish PROVE TypeOK'
  BY <1>u, <1>21 DEF Publish
<1>22. ASSUME RemoveTmp PROVE TypeOK'
  BY <1>u, <1>22 DEF RemoveTmp
<1>23. ASSUME RemoveRecord PROVE TypeOK'
  <2>1. CASE pc = "staleRecord"
    BY <1>u, <1>23, <2>1 DEF RemoveRecord
  <2>2. CASE pc # "staleRecord"
    BY <1>e, <1>23, <2>2 DEF RemoveRecord
  <2> QED
    BY <2>1, <2>2
<1>24. ASSUME StreamRefused PROVE TypeOK'
  BY <1>e, <1>24 DEF StreamRefused
<1>25. ASSUME StreamFails PROVE TypeOK'
  BY <1>12, <1>25 DEF StreamFails
<1>26. ASSUME WriteFails PROVE TypeOK'
  BY <1>12, <1>26 DEF WriteFails
<1>27. ASSUME LocalFault PROVE TypeOK'
  <2>1. /\ tmp' \in BOOLEAN
        /\ UNCHANGED <<source, final, part, sidecar>>
    BY <1>27 DEF LocalFault
  <2>2. CASE EndRun
    BY <1>e, <2>1, <2>2
  <2>3. CASE pc' \in {"stop", "keep"} /\ UNCHANGED run
    BY <1>u, <2>1, <2>3
  <2> QED
    BY <1>27, <2>2, <2>3 DEF LocalFault
<1>28. ASSUME Kill PROVE TypeOK'
  BY <1>e, <1>28 DEF Kill
<1> QED
  BY <1>1, <1>2, <1>3, <1>4, <1>5, <1>6, <1>7, <1>8, <1>9, <1>10, <1>11, <1>13,
     <1>14, <1>16, <1>17, <1>18, <1>19, <1>20, <1>21, <1>22, <1>23, <1>24,
     <1>25, <1>26, <1>27, <1>28 DEF Next, World, Progress, Failure

\* A run that is under way has an object planned, then one being read, and
\* writes only while it pumps.
Named ==
    /\ pc # "idle" => job.object \in Objects
    /\ pc \notin {"idle", "settle", "read"} => stream.object \in Objects
    /\ pc \notin {"pump", "checkpoint"} => inFlight = <<>>

LEMMA NamedStep ==
    ASSUME TypeOK, Named, Next
    PROVE  Named'
<1> USE DEF Named, run
<1>1. ASSUME EndRun PROVE Named'
  BY <1>1 DEF EndRun
<1>2. ASSUME \/ \E o \in Objects : Replace(o) \/ EditInRun(o)
             \/ DeleteFinal
             \/ \E n \in 0..Len(part) : ShrinkPart(n)
      PROVE  Named'
  BY <1>2 DEF Replace, EditInRun, DeleteFinal, ShrinkPart
<1>3. ASSUME PlanCopy \/ Settle \/ OpenStream \/ OpenWriter PROVE Named'
  BY <1>3 DEF PlanCopy, Settle, OpenStream, OpenWriter, TypeOK
<1>4. ASSUME NEW n \in 1..ChunkCells, WriteChunk(n) PROVE Named'
  BY <1>4 DEF WriteChunk, TypeOK
<1>5. ASSUME StreamEnds \/ StreamFails PROVE Named'
  BY <1>5 DEF StreamEnds, StreamFails
<1>6. ASSUME Land \/ WriteFails PROVE Named'
  BY <1>6 DEF Land, WriteFails
<1>7. ASSUME \/ WriteTmp \/ Checkpoint \/ Stop \/ DiscardPart \/ Sync
             \/ Publish \/ RemoveTmp
      PROVE  Named'
  BY <1>7 DEF WriteTmp, Checkpoint, Stop, DiscardPart, Sync, Publish, RemoveTmp
<1>8. ASSUME OpenPart \/ RemoveRecord \/ LocalFault PROVE Named'
  BY <1>1, <1>8 DEF OpenPart, RemoveRecord, LocalFault
<1>9. ASSUME StreamRefused \/ KeepPartial \/ Kill PROVE Named'
  BY <1>1, <1>9 DEF StreamRefused, KeepPartial, Kill
<1> QED
  BY <1>2, <1>3, <1>4, <1>5, <1>6, <1>7, <1>8, <1>9
  DEF Next, World, Progress, Failure

LEMMA TypeStart == Init => TypeOK
<1>1. ASSUME Init, NEW f \in final PROVE f \in Seq(Cell)
  <2>1. PICK o \in Objects : f = Whole(o)
    BY <1>1 DEF Init
  <2>2. Size(o) \in Nat
    BY <2>1, ConstantsAssumption
  <2> QED
    BY <2>1, <2>2, 0 \in Nat, 0 <= Size(o), CellsAre DEF Whole
<1>2. ASSUME Init
      PROVE  /\ \A f, g \in final : f = g
             /\ job \in [object : Objects \cup {NoObject}, offset : Nat]
             /\ stream \in [object : Objects \cup {NoObject}, next : Nat]
             /\ writer \in [bytes : Nat, checkpointed : Nat, resumable : BOOLEAN]
  BY <1>2 DEF Init, NoJob, NoStream, NoWriter
<1>3. ASSUME Init PROVE part \in Seq(Cell) /\ inFlight \in Seq(Cell)
  BY <1>3 DEF Init
<1>4. ASSUME Init
      PROVE  source \in Objects /\ pc = "idle" /\ tmp = FALSE /\ sidecar = {}
  BY <1>4 DEF Init
<1> QED
  BY <1>1, <1>2, <1>3, <1>4 DEF TypeOK

\* Whatever the world does, every variable keeps its type: part, record and
\* final file stay ones the program can write (PartWriter, write_sidecar, commit).
THEOREM TypeCorrect == Spec => []TypeOK
<1>1. Init => TypeOK /\ Named
  BY TypeStart DEF Init, Named
<1>2. TypeOK /\ Named /\ [Next]_vars => (TypeOK /\ Named)'
  <2>1. ASSUME TypeOK, Named, Next PROVE TypeOK' /\ Named'
    BY <2>1, TypeStep, NamedStep DEF Named, Pumping
  <2>2. ASSUME TypeOK, Named, UNCHANGED vars PROVE TypeOK' /\ Named'
    BY <2>2 DEF TypeOK, Named, vars, disk, run
  <2> QED
    BY <2>1, <2>2
<1> QED
  BY <1>1, <1>2, PTL DEF Spec
-----------------------------------------------------------------------------
(* The invariant is inductive.                                             *)

LEMMA IInvTypeStep ==
    ASSUME IInv, Next
    PROVE  TypeOK'
<1>1. /\ TypeOK
      /\ pc # "idle" => job.object \in Objects
      /\ pc \in Pumping => stream.object \in Objects
  BY DEF IInv, TypeOK, JobInv, StreamInv, Pumping
<1> QED
  BY <1>1, TypeStep

\* What a record could still be read for after the run is what the run planned.
LEMMA RecordsAfterRun ==
    ASSUME OrderlyWorld, IInv, pc # "idle"
    PROVE  /\ source = job.object \/ <<job.object, source>> \in Becomes
           /\ \A r \in sidecar, p \in Objects :
                  Describes(r, p) => p = source \/ <<p, source>> \in Becomes
           /\ \A r \in sidecar : Describes(r, source) => job.object = source
<1>1. /\ source \in Objects
      /\ job.object \in Objects
      /\ job.object = source \/ <<job.object, source>> \in Becomes
  BY ConstantsAssumption DEF IInv, TypeOK, JobInv
<1>2. \A r \in sidecar, p \in Objects :
          Describes(r, p) => p = job.object \/ <<p, job.object>> \in Becomes
  BY DEF IInv, RecordPast, Planned
<1> QED
  BY <1>1, <1>2 DEF OrderlyWorld, NeverReturns

\* However a run ends, what it leaves behind is in order.
LEMMA EndedRun ==
    ASSUME OrderlyWorld, IInv, TypeOK', pc # "idle", EndRun,
           source' = source, final' = final, part' = part,
           sidecar' \in {sidecar, {}}
    PROVE  IInv'
<1> USE DEF EndRun, NoJob, NoStream, NoWriter
<1>1. JobInv' /\ StreamInv' /\ OpenInv' /\ StaleInv'
  BY DEF JobInv, StreamInv, OpenInv, StaleInv, Opening
<1>2. RecordPast'
  BY RecordsAfterRun DEF RecordPast, Planned, Describes
<1>3. RecordHonest'
  BY RecordsAfterRun DEF IInv, RecordHonest, Planned, Describes
<1>4. OffsetBacked' /\ PartInv' /\ PumpInv' /\ WholeInv'
  BY DEF OffsetBacked, PartInv, PumpInv, WholeInv, Opening, Writing, Pumping, Cleaning
<1>5. NeverSplices'
  BY DEF IInv, NeverSplices
<1> QED
  BY <1>1, <1>2, <1>3, <1>4, <1>5 DEF IInv

LEMMA Step ==
    ASSUME OrderlyWorld, IInv, Next
    PROVE  IInv'
<1>t. TypeOK'
  BY IInvTypeStep
<1> USE <1>t, ConstantsAssumption
    DEF IInv, disk, run, Opening, Pumping, Writing, Cleaning, Planned
<1>1. ASSUME NEW o \in Objects, Replace(o) PROVE IInv'
  <2>1. JobInv' /\ StreamInv' /\ OpenInv' /\ StaleInv'
    BY <1>1 DEF Replace, JobInv, StreamInv, OpenInv, StaleInv
  <2>2. RecordPast' /\ RecordHonest' /\ OffsetBacked'
    <3>1. /\ pc = "idle" /\ pc' = "idle"
          /\ source \in Objects /\ source' = o
          /\ <<source, o>> \in Becomes
          /\ UNCHANGED <<part, sidecar>>
      BY <1>1 DEF Replace, TypeOK
    <3>2. \A r \in sidecar, p \in Objects :
              Describes(r, p) => p # o /\ <<p, o>> \in Becomes
      BY <3>1 DEF RecordPast, OrderlyWorld, NeverReturns
    <3>3. RecordPast' /\ RecordHonest'
      BY <3>1, <3>2 DEF RecordPast, RecordHonest, Describes
    <3>4. OffsetBacked'
      BY <3>1 DEF OffsetBacked
    <3> QED
      BY <3>3, <3>4
  <2>3. PartInv' /\ PumpInv'
    BY <1>1 DEF Replace, PartInv, PumpInv
  <2>4. WholeInv' /\ NeverSplices'
    BY <1>1 DEF Replace, WholeInv, NeverSplices
  <2> QED
    BY <2>1, <2>2, <2>3, <2>4
<1>2. ASSUME NEW o \in Objects, EditInRun(o) PROVE IInv'
  <2>1. JobInv' /\ StreamInv' /\ OpenInv' /\ StaleInv'
    BY <1>2 DEF EditInRun, JobInv, StreamInv, OpenInv, StaleInv, OrderlyWorld,
           EditsShow
  <2>2. RecordPast' /\ RecordHonest' /\ OffsetBacked'
    BY <1>2 DEF EditInRun, RecordPast, RecordHonest, OffsetBacked, Describes
  <2>3. PartInv' /\ PumpInv'
    BY <1>2 DEF EditInRun, PartInv, PumpInv
  <2>4. WholeInv' /\ NeverSplices'
    BY <1>2 DEF EditInRun, WholeInv, NeverSplices
  <2> QED
    BY <2>1, <2>2, <2>3, <2>4
<1>3. ASSUME DeleteFinal PROVE IInv'
  <2>1. JobInv' /\ StreamInv' /\ OpenInv' /\ StaleInv'
    BY <1>3 DEF DeleteFinal, JobInv, StreamInv, OpenInv, StaleInv
  <2>2. RecordPast' /\ RecordHonest' /\ OffsetBacked'
    BY <1>3 DEF DeleteFinal, RecordPast, RecordHonest, OffsetBacked, Describes
  <2>3. PartInv' /\ PumpInv'
    BY <1>3 DEF DeleteFinal, PartInv, PumpInv
  <2>4. WholeInv' /\ NeverSplices'
    BY <1>3 DEF DeleteFinal, WholeInv, NeverSplices
  <2> QED
    BY <2>1, <2>2, <2>3, <2>4
<1>4. ASSUME NEW n \in 0..Len(part), ShrinkPart(n) PROVE IInv'
  <2>1. JobInv' /\ StreamInv' /\ OpenInv' /\ StaleInv'
    BY <1>4 DEF ShrinkPart, JobInv, StreamInv, OpenInv, StaleInv
  <2>2. RecordPast' /\ RecordHonest' /\ OffsetBacked'
    <3>1. /\ Len(part') = n
          /\ n <= Len(part)
          /\ \A i \in 1..n : part'[i] = part[i]
      BY <1>4 DEF ShrinkPart, TypeOK
    <3>2. RecordPast' /\ OffsetBacked'
      BY <1>4 DEF ShrinkPart, RecordPast, OffsetBacked, Describes
    <3>3. RecordHonest'
      BY <1>4, <3>1 DEF ShrinkPart, TypeOK, RecordHonest, Describes
    <3> QED
      BY <3>2, <3>3
  <2>3. PartInv' /\ PumpInv'
    BY <1>4 DEF ShrinkPart, PartInv, PumpInv
  <2>4. WholeInv' /\ NeverSplices'
    BY <1>4 DEF ShrinkPart, WholeInv, NeverSplices
  <2> QED
    BY <2>1, <2>2, <2>3, <2>4
<1>5. ASSUME PlanCopy PROVE IInv'
  <2>p. /\ source \in Objects
        /\ job'.object = source
        /\ job'.offset = PlannedOffset(source)
    BY <1>5 DEF PlanCopy, TypeOK
  <2>o. /\ job'.offset <= Size(source)
        /\ job'.offset <= Len(part)
        /\ job'.offset > 0 =>
               \E r \in sidecar : Describes(r, source) /\ r.bytes = job'.offset
    BY <2>p, PlannedOffsetIs
  <2>1. JobInv' /\ StreamInv' /\ OpenInv' /\ StaleInv'
    BY <1>5, <2>p, <2>o DEF PlanCopy, TypeOK, JobInv, StreamInv, OpenInv,
           StaleInv, OrderlyWorld, EditsShow
  <2>2. RecordPast' /\ RecordHonest' /\ OffsetBacked'
    <3>1. RecordPast' /\ RecordHonest'
      BY <1>5, <2>p DEF PlanCopy, RecordPast, RecordHonest, Describes
    <3>2. OffsetBacked'
      BY <1>5, <2>p, <2>o DEF PlanCopy, OffsetBacked, Describes
    <3> QED
      BY <3>1, <3>2
  <2>3. PartInv' /\ PumpInv'
    BY <1>5 DEF PlanCopy, PartInv, PumpInv
  <2>4. WholeInv' /\ NeverSplices'
    BY <1>5 DEF PlanCopy, WholeInv, NeverSplices
  <2> QED
    BY <2>1, <2>2, <2>3, <2>4
<1>6. ASSUME Settle PROVE IInv'
  <2>o. /\ job'.object = job.object
        /\ job'.offset \in {0, job.offset}
        /\ job'.offset <= Len(part)
        /\ ~Shrinks => job'.offset = job.offset
    BY <1>6, ResumeIs DEF Settle, TypeOK, OpenInv
  <2>1. JobInv' /\ StreamInv' /\ OpenInv' /\ StaleInv'
    BY <1>6, <2>o DEF Settle, TypeOK, JobInv, StreamInv, OpenInv, StaleInv,
           OrderlyWorld, EditsShow
  <2>2. RecordPast' /\ RecordHonest' /\ OffsetBacked'
    <3>1. RecordPast' /\ RecordHonest'
      BY <1>6, <2>o DEF Settle, RecordPast, RecordHonest, Describes
    <3>2. OffsetBacked'
      BY <1>6, <2>o DEF Settle, OffsetBacked, Describes, TypeOK
    <3> QED
      BY <3>1, <3>2
  <2>3. PartInv' /\ PumpInv'
    BY <1>6 DEF Settle, PartInv, PumpInv
  <2>4. WholeInv' /\ NeverSplices'
    BY <1>6 DEF Settle, WholeInv, NeverSplices
  <2> QED
    BY <2>1, <2>2, <2>3, <2>4
<1>7. ASSUME OpenStream PROVE IInv'
  <2>1. JobInv' /\ StreamInv' /\ OpenInv' /\ StaleInv'
    BY <1>7 DEF OpenStream, JobInv, StreamInv, OpenInv, StaleInv
  <2>2. RecordPast' /\ RecordHonest' /\ OffsetBacked'
    BY <1>7 DEF OpenStream, RecordPast, RecordHonest, OffsetBacked, Describes
  <2>3. PartInv' /\ PumpInv'
    BY <1>7 DEF OpenStream, PartInv, PumpInv
  <2>4. WholeInv' /\ NeverSplices'
    BY <1>7 DEF OpenStream, WholeInv, NeverSplices
  <2> QED
    BY <2>1, <2>2, <2>3, <2>4
<1>8. ASSUME OpenWriter PROVE IInv'
  <2>o. /\ writer'.bytes \in {0, job.offset}
        /\ writer'.bytes <= Len(part)
        /\ ~Shrinks => writer'.bytes = job.offset
        /\ writer'.resumable <=> writer'.bytes = job.offset
        /\ pc' = IF writer'.resumable THEN "openPart" ELSE "staleTmp"
    BY <1>8, ResumeIs DEF OpenWriter, TypeOK, OpenInv
  <2>1. JobInv' /\ StreamInv' /\ OpenInv' /\ StaleInv'
    <3>1. JobInv' /\ StreamInv'
      BY <1>8, <2>o DEF OpenWriter, JobInv, StreamInv
    <3>2. CASE writer'.resumable
      BY <1>8, <2>o, <3>1, <3>2 DEF OpenWriter, TypeOK, OpenInv, StaleInv
    <3>3. CASE ~writer'.resumable
      <4>1. OpenInv'
        BY <1>8, <2>o, <3>3 DEF OpenWriter, TypeOK, OpenInv
      <4>2. StaleInv'
        BY <1>8, <2>o, <3>3 DEF OpenWriter, TypeOK, StaleInv, JobInv
      <4> QED
        BY <3>1, <4>1, <4>2
    <3> QED
      BY <3>2, <3>3 DEF TypeOK
  <2>2. RecordPast' /\ RecordHonest' /\ OffsetBacked'
    BY <1>8 DEF OpenWriter, RecordPast, RecordHonest, OffsetBacked, Describes
  <2>3. PartInv' /\ PumpInv'
    BY <1>8 DEF OpenWriter, PartInv, PumpInv
  <2>4. WholeInv' /\ NeverSplices'
    BY <1>8 DEF OpenWriter, WholeInv, NeverSplices
  <2> QED
    BY <2>1, <2>2, <2>3, <2>4
<1>9. ASSUME OpenPart PROVE IInv'
  <2>1. CASE Len(part) >= writer.bytes
    <3>1. /\ part' = SubSeq(part, 1, writer.bytes)
          /\ pc' = "pump"
          /\ UNCHANGED <<source, final, sidecar, tmp, job, stream, writer, inFlight>>
      BY <1>9, <2>1 DEF OpenPart
    <3>2. /\ Len(part') = writer.bytes
          /\ \A i \in 1..writer.bytes : part'[i] = part[i]
      BY <2>1, <3>1 DEF TypeOK
    <3>3. JobInv' /\ StreamInv' /\ OpenInv' /\ StaleInv'
      BY <1>9, <3>1 DEF OpenPart, TypeOK, JobInv, StreamInv, OpenInv, StaleInv
    <3>4. RecordPast' /\ OffsetBacked'
      BY <1>9, <3>1 DEF OpenPart, RecordPast, OffsetBacked, Describes
    <3>5. RecordHonest'
      BY <1>9, <2>1, <3>1, <3>2 DEF OpenPart, TypeOK, RecordHonest, Describes
    <3>6. PartInv'
      <4>1. ASSUME writer.resumable, NEW i \in 1..Len(part')
            PROVE  part'[i] = CellOf(job.object, i) /\ i <= job.offset
        BY <1>9, <2>1, <3>1, <3>2, <4>1
        DEF OpenPart, TypeOK, OpenInv, OffsetBacked, RecordHonest
      <4> QED
        BY <1>9, <3>1, <3>2, <4>1 DEF OpenPart, PartInv, OpenInv, TypeOK
    <3>7. PumpInv'
      BY <1>9, <3>1, <3>2 DEF OpenPart, PumpInv, OpenInv, StreamInv, TypeOK
    <3>8. WholeInv' /\ NeverSplices'
      BY <3>1 DEF WholeInv, NeverSplices
    <3> QED
      BY <3>3, <3>4, <3>5, <3>6, <3>7, <3>8
  <2>2. CASE ~(Len(part) >= writer.bytes)
    BY <1>9, <2>2, EndedRun DEF OpenPart
  <2> QED
    BY <2>1, <2>2
<1>10. ASSUME NEW n \in 1..ChunkCells, WriteChunk(n) PROVE IInv'
  <2>c. /\ pc = "pump" /\ pc' \in {"pump", "checkpoint"}
        /\ ~writer.resumable => pc' = "pump"
        /\ inFlight = <<>>
        /\ stream.next + n <= Size(stream.object)
        /\ inFlight' = Cells(stream.object, stream.next, stream.next + n)
        /\ stream' = [stream EXCEPT !.next = @ + n]
        /\ writer' = [writer EXCEPT !.bytes = @ + n]
        /\ UNCHANGED <<source, final, part, sidecar, tmp, job>>
    BY <1>10 DEF WriteChunk
  <2>1. JobInv' /\ StreamInv' /\ OpenInv' /\ StaleInv'
    <3>1. JobInv' /\ StreamInv'
      BY <2>c DEF JobInv, StreamInv, TypeOK
    <3>2. OpenInv'
      BY <2>c DEF OpenInv
    <3>3. /\ writer.bytes \in Nat /\ stream.next \in Nat /\ job.offset \in Nat
          /\ writer'.resumable = writer.resumable
          /\ writer'.bytes = writer.bytes + n
          /\ stream'.next = stream.next + n
      BY <2>c DEF TypeOK
    <3>4. StaleInv'
      BY <2>c, <3>3 DEF StaleInv
    <3> QED
      BY <3>1, <3>2, <3>4
  <2>2. RecordPast' /\ RecordHonest' /\ OffsetBacked'
    <3>1. RecordPast'
      BY <2>c DEF RecordPast, Describes
    <3>2. RecordHonest'
      BY <2>c DEF RecordHonest, Describes
    <3>3. OffsetBacked'
      BY <2>c DEF OffsetBacked
    <3> QED
      BY <3>1, <3>2, <3>3
  <2>3. PartInv' /\ PumpInv'
    <3>1. PartInv'
      BY <2>c DEF PartInv, TypeOK
    <3>2. /\ stream.next \in Nat /\ n \in Nat
          /\ stream.object \in Objects
          /\ stream.next + n - stream.next = n
      BY <2>c DEF TypeOK, StreamInv
    <3>3. /\ Len(inFlight') = n
          /\ \A i \in 1..n : inFlight'[i] = CellOf(stream.object, stream.next + i)
      <4> DEFINE from == stream.next
      <4> DEFINE to == stream.next + n
      <4>1. /\ from \in Nat /\ to \in Nat /\ from <= to
            /\ to - from = n
        BY <3>2
      <4>2. /\ Len(Cells(stream.object, from, to)) = to - from
            /\ \A i \in 1..(to - from) :
                  Cells(stream.object, from, to)[i] = CellOf(stream.object, from + i)
        <5> HIDE DEF from, to
        <5>1. PICK q \in Objects : q = stream.object
          BY <3>2
        <5>2. /\ Len(Cells(q, from, to)) = to - from
              /\ \A i \in 1..(to - from) : Cells(q, from, to)[i] = CellOf(q, from + i)
          BY <4>1, CellsAre
        <5> QED
          BY <5>1, <5>2
      <4> QED
        BY <2>c, <4>1, <4>2
    <3>4. PumpInv'
      BY <2>c, <3>2, <3>3 DEF PumpInv, TypeOK
    <3> QED
      BY <3>1, <3>4
  <2>4. WholeInv' /\ NeverSplices'
    BY <1>10 DEF WriteChunk, WholeInv, NeverSplices
  <2> QED
    BY <2>1, <2>2, <2>3, <2>4
<1>11. ASSUME Land PROVE IInv'
  <2>l. /\ pc \in {"pump", "checkpoint"}
        /\ inFlight # <<>>
        /\ part' = Append(part, Head(inFlight))
        /\ inFlight' = Tail(inFlight)
        /\ UNCHANGED <<source, final, sidecar, tmp, pc, job, stream, writer>>
    BY <1>11 DEF Land, StreamInv
  <2>m. /\ Len(part') = Len(part) + 1
        /\ \A i \in 1..Len(part) : part'[i] = part[i]
        /\ part'[Len(part) + 1] = inFlight[1]
        /\ Len(inFlight) >= 1
    BY <2>l DEF TypeOK
  <2>1. JobInv' /\ StreamInv' /\ OpenInv' /\ StaleInv'
    BY <1>11 DEF Land, JobInv, StreamInv, OpenInv, StaleInv
  <2>2. RecordPast' /\ RecordHonest' /\ OffsetBacked'
    <3>1. RecordPast' /\ OffsetBacked'
      BY <2>l DEF RecordPast, OffsetBacked, Describes
    <3>2. ASSUME sidecar # {} PROVE writer.resumable
      BY <2>l, <3>2 DEF StaleInv
    <3>3. CASE writer.resumable
      <4>1. inFlight[1] = CellOf(stream.object, Len(part) + 1)
        BY <2>l, <2>m, <3>3 DEF PumpInv, TypeOK
      <4> QED
        BY <2>l, <2>m, <3>1, <3>3, <4>1
        DEF TypeOK, RecordHonest, PartInv, StreamInv, Describes
    <3> QED
      BY <2>l, <3>1, <3>2, <3>3 DEF RecordHonest
  <2>3. PartInv' /\ PumpInv'
    BY <2>l, <2>m DEF TypeOK, StreamInv, PartInv, PumpInv
  <2>4. WholeInv' /\ NeverSplices'
    BY <2>l DEF WholeInv, NeverSplices
  <2> QED
    BY <2>1, <2>2, <2>3, <2>4
<1>12. ASSUME StreamEnds PROVE IInv'
  <2>e. /\ pc = "pump" /\ pc' \in {"sync", "stop"}
        /\ inFlight = <<>>
        /\ stream.next >= Size(stream.object)
        /\ writer' = [writer EXCEPT !.bytes = Smaller(@, Len(part))]
        /\ pc' = "sync" => Smaller(writer.bytes, Len(part)) = Size(job.object)
        /\ UNCHANGED <<source, disk, job, stream, inFlight>>
    BY <1>12 DEF StreamEnds, TypeOK
  <2>w. ASSUME pc' = "sync"
        PROVE  writer.resumable /\ part = Whole(job.object)
    <3>1. /\ source \in Objects /\ job.object \in Objects
          /\ Size(source) \in Nat /\ Size(job.object) \in Nat
          /\ stream.object = source
          /\ job.object # source => ~Shrinks /\ Size(job.object) # Size(source)
      BY <2>e DEF TypeOK, JobInv, StreamInv, OrderlyWorld, EditsShow
    <3>2. /\ writer.bytes >= Size(job.object)
          /\ writer.bytes <= Len(part) => writer.bytes = Size(job.object)
      BY <2>e, <2>w, <3>1 DEF Smaller, TypeOK
    <3>3. writer.resumable
      BY <2>e, <3>1, <3>2 DEF TypeOK, JobInv, StaleInv, PumpInv
    <3>4. /\ Len(part) = Size(job.object)
          /\ stream.next = Len(part)
      BY <2>e, <3>1, <3>2, <3>3 DEF TypeOK, PumpInv
    <3>5. job.object = stream.object \/ job.offset = Len(part)
      BY <2>e, <3>1, <3>4 DEF TypeOK, PumpInv
    <3>6. \A i \in 1..Len(part) : part[i] = CellOf(job.object, i)
      BY <2>e, <3>3, <3>5 DEF PartInv, TypeOK
    <3> QED
      BY <3>1, <3>3, <3>4, <3>6, WholeIs DEF TypeOK
  <2>1. JobInv' /\ StreamInv' /\ OpenInv' /\ StaleInv'
    BY <2>e, <2>w DEF TypeOK, JobInv, StreamInv, OpenInv, StaleInv,
           OrderlyWorld, EditsShow
  <2>2. RecordPast' /\ RecordHonest' /\ OffsetBacked'
    <3>1. RecordPast'
      BY <2>e DEF RecordPast, Describes
    <3>2. RecordHonest'
      BY <2>e DEF RecordHonest, Describes
    <3>3. OffsetBacked'
      BY <2>e DEF OffsetBacked
    <3> QED
      BY <3>1, <3>2, <3>3
  <2>3. PartInv' /\ PumpInv'
    BY <2>e DEF TypeOK, PartInv, PumpInv
  <2>4. WholeInv' /\ NeverSplices'
    BY <2>e, <2>w DEF WholeInv, NeverSplices
  <2> QED
    BY <2>1, <2>2, <2>3, <2>4
<1>13. ASSUME WriteTmp PROVE IInv'
  <2>1. JobInv' /\ StreamInv' /\ OpenInv' /\ StaleInv'
    BY <1>13 DEF WriteTmp, JobInv, StreamInv, OpenInv, StaleInv
  <2>2. RecordPast' /\ RecordHonest' /\ OffsetBacked'
    BY <1>13 DEF WriteTmp, RecordPast, RecordHonest, OffsetBacked, Describes
  <2>3. PartInv' /\ PumpInv'
    BY <1>13 DEF WriteTmp, PartInv, PumpInv
  <2>4. WholeInv' /\ NeverSplices'
    BY <1>13 DEF WriteTmp, WholeInv, NeverSplices
  <2> QED
    BY <2>1, <2>2, <2>3, <2>4
<1>14. ASSUME Checkpoint PROVE IInv'
  <2>c. /\ pc = "checkpointRename" /\ pc' = "pump"
        /\ sidecar' = {Record(job.object, writer.bytes)}
        /\ writer' = [writer EXCEPT !.checkpointed = writer.bytes]
        /\ UNCHANGED <<source, final, part, job, stream, inFlight>>
        /\ writer.resumable
        /\ job.object \in Objects /\ writer.bytes \in Nat
    BY <1>14 DEF Checkpoint, TypeOK, JobInv, StaleInv
  <2>1. JobInv' /\ StreamInv' /\ OpenInv' /\ StaleInv'
    BY <2>c DEF TypeOK, JobInv, StreamInv, OpenInv, StaleInv, OrderlyWorld,
           EditsShow
  <2>2. RecordPast' /\ RecordHonest' /\ OffsetBacked'
    <3>1. RecordPast' /\ OffsetBacked'
      BY <2>c, RecordIs DEF RecordPast, OffsetBacked
    <3>2. RecordHonest'
      BY <2>c DEF RecordHonest, PartInv, StreamInv, TypeOK
    <3> QED
      BY <3>1, <3>2
  <2>3. PartInv' /\ PumpInv'
    BY <2>c DEF TypeOK, JobInv, StreamInv, StaleInv, OpenInv, OffsetBacked,
           PartInv, PumpInv, RecordHonest
  <2>4. WholeInv' /\ NeverSplices'
    BY <2>c DEF TypeOK, WholeInv, NeverSplices
  <2> QED
    BY <2>1, <2>2, <2>3, <2>4
<1>15. ASSUME Stop PROVE IInv'
  <2>1. JobInv' /\ StreamInv' /\ OpenInv' /\ StaleInv'
    BY <1>15 DEF Stop, JobInv, StreamInv, OpenInv, StaleInv
  <2>2. RecordPast' /\ RecordHonest' /\ OffsetBacked'
    BY <1>15 DEF Stop, RecordPast, RecordHonest, OffsetBacked, Describes
  <2>3. PartInv' /\ PumpInv'
    BY <1>15 DEF Stop, PartInv, PumpInv
  <2>4. WholeInv' /\ NeverSplices'
    BY <1>15 DEF Stop, WholeInv, NeverSplices
  <2> QED
    BY <2>1, <2>2, <2>3, <2>4
<1>16. ASSUME KeepPartial PROVE IInv'
  <2>1. /\ pc = "keepRename"
        /\ sidecar' = {Record(job.object, writer.bytes)}
        /\ UNCHANGED <<source, final, part>>
        /\ writer.resumable
        /\ source \in Objects /\ job.object \in Objects /\ writer.bytes \in Nat
        /\ pc' = "idle"
        /\ job' = NoJob /\ stream' = NoStream
        /\ writer' = NoWriter /\ inFlight' = <<>>
    BY <1>16 DEF KeepPartial, EndRun, TypeOK, JobInv, StaleInv
  <2>2. JobInv' /\ StreamInv' /\ OpenInv' /\ StaleInv'
    BY <2>1 DEF JobInv, StreamInv, OpenInv, StaleInv, NoJob, NoStream, NoWriter
  <2>3. source = job.object \/ <<job.object, source>> \in Becomes
    BY <2>1, RecordsAfterRun
  <2>4. RecordPast'
    BY <2>1, <2>3, RecordIs DEF RecordPast
  <2>5. RecordHonest'
    <3>1. ASSUME NEW r \in sidecar', Describes(r, source)
          PROVE  job.object = source
      BY <2>1, <3>1, RecordIs
    <3>2. ASSUME job.object = source, NEW i \in 1..Len(part)
          PROVE  part[i] = CellOf(source, i)
      BY <2>1, <3>2 DEF PartInv, StreamInv
    <3> QED
      BY <2>1, <3>1, <3>2 DEF RecordHonest
  <2>6. OffsetBacked' /\ PartInv' /\ PumpInv' /\ WholeInv' /\ NeverSplices'
    BY <2>1 DEF OffsetBacked, PartInv, PumpInv, WholeInv, NeverSplices, NoJob
  <2> QED
    BY <2>2, <2>4, <2>5, <2>6
<1>17. ASSUME DiscardPart PROVE IInv'
  <2>1. JobInv' /\ StreamInv' /\ OpenInv' /\ StaleInv'
    BY <1>17 DEF DiscardPart, JobInv, StreamInv, OpenInv, StaleInv
  <2>2. RecordPast' /\ RecordHonest' /\ OffsetBacked'
    BY <1>17 DEF DiscardPart, RecordPast, RecordHonest, OffsetBacked, Describes
  <2>3. PartInv' /\ PumpInv'
    BY <1>17 DEF DiscardPart, PartInv, PumpInv
  <2>4. WholeInv' /\ NeverSplices'
    BY <1>17 DEF DiscardPart, WholeInv, NeverSplices
  <2> QED
    BY <2>1, <2>2, <2>3, <2>4
<1>18. ASSUME Sync PROVE IInv'
  <2>1. JobInv' /\ StreamInv' /\ OpenInv' /\ StaleInv'
    BY <1>18 DEF Sync, JobInv, StreamInv, OpenInv, StaleInv
  <2>2. RecordPast' /\ RecordHonest' /\ OffsetBacked'
    BY <1>18 DEF Sync, RecordPast, RecordHonest, OffsetBacked, Describes
  <2>3. PartInv' /\ PumpInv'
    BY <1>18 DEF Sync, PartInv, PumpInv
  <2>4. WholeInv' /\ NeverSplices'
    BY <1>18 DEF Sync, WholeInv, NeverSplices
  <2> QED
    BY <2>1, <2>2, <2>3, <2>4
<1>19. ASSUME Publish PROVE IInv'
  <2>1. JobInv' /\ StreamInv' /\ OpenInv' /\ StaleInv'
    BY <1>19 DEF Publish, JobInv, StreamInv, OpenInv, StaleInv
  <2>2. RecordPast' /\ RecordHonest' /\ OffsetBacked'
    BY <1>19 DEF Publish, RecordPast, RecordHonest, OffsetBacked, Describes
  <2>3. PartInv' /\ PumpInv'
    BY <1>19 DEF Publish, PartInv, PumpInv
  <2>4. WholeInv' /\ NeverSplices'
    <3>1. /\ final' = {Whole(job.object)}
          /\ part' = <<>>
          /\ job.object \in Objects
          /\ pc' = "cleanTmp"
      BY <1>19 DEF Publish, WholeInv, TypeOK, JobInv
    <3> QED
      BY <3>1 DEF WholeInv, NeverSplices
  <2> QED
    BY <2>1, <2>2, <2>3, <2>4
<1>20. ASSUME RemoveTmp PROVE IInv'
  <2>1. JobInv' /\ StreamInv' /\ OpenInv' /\ StaleInv'
    BY <1>20 DEF RemoveTmp, JobInv, StreamInv, OpenInv, StaleInv
  <2>2. RecordPast' /\ RecordHonest' /\ OffsetBacked'
    BY <1>20 DEF RemoveTmp, RecordPast, RecordHonest, OffsetBacked, Describes
  <2>3. PartInv' /\ PumpInv'
    BY <1>20 DEF RemoveTmp, PartInv, PumpInv
  <2>4. WholeInv' /\ NeverSplices'
    BY <1>20 DEF RemoveTmp, WholeInv, NeverSplices
  <2> QED
    BY <2>1, <2>2, <2>3, <2>4
<1>21. ASSUME RemoveRecord PROVE IInv'
  <2>1. CASE pc = "staleRecord"
    <3>1. /\ sidecar' = {}
          /\ pc' = "openPart"
          /\ UNCHANGED <<source, final, part, tmp, job, stream, writer, inFlight>>
      BY <1>21, <2>1 DEF RemoveRecord
    <3>2. JobInv' /\ StreamInv' /\ OpenInv' /\ StaleInv'
      BY <2>1, <3>1 DEF TypeOK, JobInv, StreamInv, OpenInv, StaleInv
    <3>3. RecordPast' /\ RecordHonest' /\ OffsetBacked'
      BY <2>1, <3>1 DEF RecordPast, RecordHonest, OffsetBacked, OpenInv
    <3>4. PartInv' /\ PumpInv' /\ WholeInv' /\ NeverSplices'
      BY <2>1, <3>1 DEF PartInv, PumpInv, WholeInv, NeverSplices
    <3> QED
      BY <3>2, <3>3, <3>4
  <2>2. CASE pc # "staleRecord"
    BY <1>21, <2>2, EndedRun DEF RemoveRecord
  <2> QED
    BY <2>1, <2>2
<1>22. ASSUME StreamRefused PROVE IInv'
  BY <1>22, EndedRun DEF StreamRefused
<1>23. ASSUME StreamFails PROVE IInv'
  <2>1. JobInv' /\ StreamInv' /\ OpenInv' /\ StaleInv'
    BY <1>23 DEF StreamFails, JobInv, StreamInv, OpenInv, StaleInv
  <2>2. RecordPast' /\ RecordHonest' /\ OffsetBacked'
    BY <1>23 DEF StreamFails, RecordPast, RecordHonest, OffsetBacked, Describes
  <2>3. PartInv' /\ PumpInv'
    BY <1>23 DEF StreamFails, PartInv, PumpInv
  <2>4. WholeInv' /\ NeverSplices'
    BY <1>23 DEF StreamFails, WholeInv, NeverSplices
  <2> QED
    BY <2>1, <2>2, <2>3, <2>4
<1>24. ASSUME WriteFails PROVE IInv'
  <2>f. /\ inFlight # <<>> /\ inFlight' = <<>>
        /\ pc \in {"pump", "checkpoint"} /\ pc' = "stop"
        /\ writer' = [writer EXCEPT !.bytes = Smaller(@, Len(part))]
        /\ UNCHANGED <<source, final, part, sidecar, tmp, job, stream>>
    BY <1>24 DEF WriteFails, StreamInv
  <2>1. JobInv' /\ StreamInv' /\ OpenInv' /\ StaleInv'
    BY <2>f DEF TypeOK, JobInv, StreamInv, OpenInv, StaleInv
  <2>2. RecordPast' /\ RecordHonest' /\ OffsetBacked'
    BY <2>f DEF RecordPast, RecordHonest, OffsetBacked, Describes
  <2>3. PartInv' /\ PumpInv'
    BY <2>f DEF TypeOK, PartInv, PumpInv
  <2>4. WholeInv' /\ NeverSplices'
    BY <2>f DEF WholeInv, NeverSplices
  <2> QED
    BY <2>1, <2>2, <2>3, <2>4
<1>25. ASSUME LocalFault PROVE IInv'
  <2>1. UNCHANGED <<source, final, part, sidecar>> /\ inFlight = <<>>
    BY <1>25 DEF LocalFault
  <2>2. CASE EndRun /\ pc # "idle"
    BY <2>1, <2>2, EndedRun
  <2>3. CASE /\ pc \in {"checkpoint", "checkpointRename"}
             /\ pc' = "stop"
             /\ UNCHANGED run
    <3>1. JobInv' /\ StreamInv' /\ OpenInv' /\ StaleInv'
      BY <2>1, <2>3 DEF TypeOK, JobInv, StreamInv, OpenInv, StaleInv
    <3>2. RecordPast' /\ RecordHonest' /\ OffsetBacked'
      BY <2>1, <2>3 DEF RecordPast, RecordHonest, OffsetBacked, StreamInv
    <3>3. PartInv' /\ PumpInv' /\ WholeInv' /\ NeverSplices'
      BY <2>1, <2>3 DEF PartInv, PumpInv, WholeInv, NeverSplices
    <3> QED
      BY <3>1, <3>2, <3>3
  <2>4. CASE /\ pc \in {"sync", "rename"}
             /\ pc' = "keep"
             /\ UNCHANGED run
    <3>1. JobInv' /\ StreamInv' /\ OpenInv' /\ StaleInv'
      BY <2>1, <2>4 DEF TypeOK, JobInv, StreamInv, OpenInv, StaleInv
    <3>2. RecordPast' /\ RecordHonest' /\ OffsetBacked'
      BY <2>1, <2>4 DEF RecordPast, RecordHonest, OffsetBacked, StreamInv
    <3>3. PartInv' /\ PumpInv' /\ WholeInv' /\ NeverSplices'
      BY <2>1, <2>4 DEF PartInv, PumpInv, WholeInv, NeverSplices
    <3> QED
      BY <3>1, <3>2, <3>3
  <2> QED
    BY <1>25, <2>2, <2>3, <2>4 DEF LocalFault
<1>26. ASSUME Kill PROVE IInv'
  BY <1>26, EndedRun DEF Kill
<1> QED
  BY <1>1, <1>2, <1>3, <1>4, <1>5, <1>6, <1>7, <1>8, <1>9, <1>10, <1>11, <1>12,
     <1>13, <1>14, <1>15, <1>16, <1>17, <1>18, <1>19, <1>20, <1>21, <1>22,
     <1>23, <1>24, <1>25, <1>26
     DEF Next, World, Progress, Failure
-----------------------------------------------------------------------------
(* What follows.                                                           *)

LEMMA Start ==
    ASSUME OrderlyWorld, Init
    PROVE  IInv
<1> USE ConstantsAssumption
    DEF Init, NoJob, NoStream, NoWriter, Opening, Pumping, Writing, Cleaning
<1>2. TypeOK
  BY TypeStart
<1>3. NeverSplices
  BY DEF NeverSplices
<1>4. JobInv /\ StreamInv /\ OpenInv /\ StaleInv
  BY DEF JobInv, StreamInv, OpenInv, StaleInv
<1>5. RecordPast /\ RecordHonest /\ OffsetBacked
  BY DEF RecordPast, RecordHonest, OffsetBacked
<1>6. PartInv /\ PumpInv /\ WholeInv
  BY DEF PartInv, PumpInv, WholeInv
<1> QED
  BY <1>2, <1>3, <1>4, <1>5, <1>6 DEF IInv

LEMMA Stutter ==
    ASSUME IInv, UNCHANGED vars
    PROVE  IInv'
BY DEF vars, disk, run, IInv, TypeOK, JobInv, StreamInv, RecordPast, RecordHonest,
       Describes, OffsetBacked, OpenInv, StaleInv, PartInv, PumpInv, WholeInv,
       NeverSplices, Planned

LEMMA Always ==
    ASSUME OrderlyWorld
    PROVE  Spec => []IInv
<1>1. Init => IInv
  BY Start
<1>2. IInv /\ [Next]_vars => IInv'
  BY Step, Stutter
<1> QED
  BY <1>1, <1>2, PTL DEF Spec

\* In an orderly world nothing but one whole object ever has a final name,
\* whatever was killed, failed, cancelled or cut short, in however many runs.
THEOREM SplicesNever ==
    ASSUME OrderlyWorld
    PROVE  Spec => []NeverSplices
<1>1. IInv => NeverSplices
  BY DEF IInv
<1> QED
  BY <1>1, Always, PTL

\* In an orderly world the prefix a next run would skip is a prefix of the
\* object it would skip it for (resume_offset, is_valid_for).
THEOREM ResumesHonestly ==
    ASSUME OrderlyWorld
    PROVE  Spec => []HonestResume
<1>1. ASSUME IInv, pc = "idle", NEW i \in 1..PlannedOffset(source)
      PROVE  part[i] = CellOf(source, i)
  <2>1. /\ source \in Objects
        /\ PlannedOffset(source) \in Nat
        /\ PlannedOffset(source) <= Len(part)
        /\ i > 0 /\ i <= PlannedOffset(source)
    BY <1>1, PlannedOffsetIs DEF IInv, TypeOK
  <2>2. PICK r \in sidecar : Describes(r, source) /\ r.bytes = PlannedOffset(source)
    BY <1>1, <2>1, PlannedOffsetIs DEF IInv
  <2> QED
    BY <1>1, <2>1, <2>2 DEF IInv, TypeOK, RecordHonest, Planned
<1>2. IInv => HonestResume
  BY <1>1 DEF HonestResume
<1> QED
  BY <1>2, Always, PTL
-----------------------------------------------------------------------------
(* The protocol implements the one-step download.                          *)

LEMMA AtomicStep ==
    ASSUME OrderlyWorld, IInv, Next
    PROVE  Atomic!Next \/ UNCHANGED <<source, job.object, final>>
<1> USE DEF disk, run
<1>t. TypeOK'
  BY IInvTypeStep
<1>e. ASSUME EndRun, UNCHANGED <<source, final>>
      PROVE  Atomic!Next
  BY <1>e DEF EndRun, NoJob, Atomic!Next, Atomic!End
<1>1. ASSUME NEW o \in Objects, Replace(o) \/ EditInRun(o)
      PROVE  Atomic!Next
  BY <1>1 DEF Replace, EditInRun, Atomic!Next, Atomic!Change
<1>2. ASSUME DeleteFinal PROVE Atomic!Next
  BY <1>2 DEF DeleteFinal, Atomic!Next, Atomic!Clear
<1>3. ASSUME PlanCopy PROVE Atomic!Next
  BY <1>3 DEF PlanCopy, Atomic!Next, Atomic!Plan
<1>4. ASSUME Publish PROVE Atomic!Next
  <2>1. /\ final' = {Whole(job.object)}
        /\ job.object \in Objects
        /\ job.object # NoObject
        /\ UNCHANGED <<source, job>>
    BY <1>4, ConstantsAssumption DEF Publish, IInv, WholeInv, TypeOK, JobInv
  <2>2. [o \in Objects |-> Whole(o)][job.object] = Whole(job.object)
    BY <2>1
  <2> QED
    BY <2>1, <2>2 DEF Atomic!Next, Atomic!Download
<1>5. ASSUME StreamRefused \/ KeepPartial \/ Kill PROVE Atomic!Next
  BY <1>e, <1>5 DEF StreamRefused, KeepPartial, Kill
<1>6. ASSUME OpenPart \/ RemoveRecord \/ LocalFault
      PROVE  Atomic!Next \/ UNCHANGED <<source, job.object, final>>
  BY <1>e, <1>6 DEF OpenPart, RemoveRecord, LocalFault
<1>7. ASSUME \/ \E n \in 0..Len(part) : ShrinkPart(n)
             \/ Settle \/ OpenStream \/ OpenWriter
             \/ \E n \in 1..ChunkCells : WriteChunk(n)
             \/ Land \/ StreamEnds
      PROVE  UNCHANGED <<source, job.object, final>>
  BY <1>7 DEF ShrinkPart, Settle, OpenStream, OpenWriter, WriteChunk, Land,
              StreamEnds, IInv, TypeOK
<1>8. ASSUME \/ WriteTmp \/ Checkpoint \/ Stop \/ DiscardPart \/ Sync
             \/ RemoveTmp \/ StreamFails \/ WriteFails
      PROVE  UNCHANGED <<source, job.object, final>>
  BY <1>8 DEF WriteTmp, Checkpoint, Stop, DiscardPart, Sync, RemoveTmp,
              StreamFails, WriteFails
<1> QED
  BY <1>1, <1>2, <1>3, <1>4, <1>5, <1>6, <1>7, <1>8
  DEF Next, World, Progress, Failure

\* In an orderly world the file-system steps of all runs together look, under
\* the final name, like downloads that happen at once (commit's rename).
THEOREM Implements ==
    ASSUME OrderlyWorld
    PROVE  Spec => ImplementsAtomicFile
<1>1. Init => Atomic!Init
  BY DEF Init, NoJob, Atomic!Init
<1>2. IInv /\ [Next]_vars => [Atomic!Next]_<<source, job.object, final>>
  BY AtomicStep DEF vars, disk, run
<1> QED
  BY <1>1, <1>2, Always, PTL DEF Spec, ImplementsAtomicFile, Atomic!Spec
-----------------------------------------------------------------------------
(* In any world: what a copy knows of the part and of its record.          *)

\* A part is thrown away for a stale tail alone, and nothing vouches for one.
StaleRun == pc \notin {"idle", "settle", "read", "open", "checkpoint", "checkpointRename"}
Discarding == {"discard", "discardTmp", "discardRecord"}

JobFits ==
    /\ pc # "idle" => job.offset <= Size(job.object)
    /\ ~writer.resumable => Shrinks /\ StaleRun
    /\ pc \in Discarding => ~writer.resumable

\* The last checkpoint of a writing run, or the offset it began at, is on record, and
\* little was read since: less than an interval between two checkpoints and while the
\* whole part is committed, at most a chunk more while a checkpoint is due.
VouchInv ==
    /\ pc \in {"staleTmp", "staleRecord", "openPart"} => writer.checkpointed = writer.bytes
    /\ pc \in Writing /\ writer.resumable =>
        /\ writer.checkpointed <= Len(part)
        /\ writer.checkpointed > 0 /\ Identity[job.object] \notin Serialless =>
               \E r \in sidecar : Describes(r, job.object) /\ r.bytes = writer.checkpointed
        /\ stream.next - writer.checkpointed < CheckpointCells + ChunkCells
        /\ pc \in {"pump", "sync", "rename"} =>
               stream.next - writer.checkpointed < CheckpointCells

\* A copy that stopped, or is about to commit, counts what is on disk.
StopInv ==
    pc \in {"stop", "keep", "keepRename", "sync", "rename"} /\ writer.resumable =>
        /\ writer.bytes = Len(part)
        /\ Len(part) <= job.offset \/ Len(part) <= Size(stream.object)

CopyInv == JobFits /\ OffsetBacked /\ OpenInv /\ PumpInv /\ VouchInv /\ StopInv

LEMMA CopyEnds ==
    ASSUME EndRun
    PROVE  CopyInv'
<1> USE DEF EndRun, NoJob, NoWriter, Opening, Pumping, Writing, Discarding
<1>1. JobFits' /\ OffsetBacked' /\ OpenInv'
  BY DEF JobFits, StaleRun, OffsetBacked, OpenInv
<1>2. PumpInv' /\ VouchInv' /\ StopInv'
  BY DEF PumpInv, VouchInv, StopInv
<1> QED
  BY <1>1, <1>2 DEF CopyInv

LEMMA WorldKeepsCopy ==
    ASSUME TypeOK, Named, CopyInv, World
    PROVE  CopyInv'
<1> USE DEF disk, run, Opening, Pumping, Writing, Discarding, CopyInv
<1>1. ASSUME UNCHANGED <<part, sidecar, pc, run>> PROVE CopyInv'
  BY <1>1 DEF JobFits, StaleRun, OffsetBacked, OpenInv, PumpInv, VouchInv, StopInv, Describes
<1>2. ASSUME NEW n \in 0..Len(part), ShrinkPart(n) PROVE CopyInv'
  BY <1>2 DEF ShrinkPart, JobFits, StaleRun, OffsetBacked, OpenInv, PumpInv, VouchInv, StopInv,
              Describes
<1>3. ASSUME (\E o \in Objects : Replace(o) \/ EditInRun(o)) \/ DeleteFinal
      PROVE  UNCHANGED <<part, sidecar, pc, run>>
  BY <1>3 DEF Replace, EditInRun, DeleteFinal
<1> QED
  BY <1>1, <1>2, <1>3 DEF World

LEMMA OpeningKeepsCopy ==
    ASSUME TypeOK, Named, CopyInv, PlanCopy \/ Settle \/ OpenStream \/ OpenWriter \/ OpenPart
    PROVE  CopyInv'
<1> USE DEF disk, run, Opening, Pumping, Writing, Discarding, CopyInv
<1>1. ASSUME PlanCopy PROVE CopyInv'
  <2>1. /\ source \in Objects /\ job'.object = source
        /\ job'.offset = PlannedOffset(source) /\ pc' = "settle"
        /\ UNCHANGED <<source, disk, stream, writer, inFlight>>
    BY <1>1 DEF PlanCopy, TypeOK
  <2>2. /\ job'.offset <= Size(source) /\ job'.offset <= Len(part)
        /\ job'.offset > 0 => \E r \in sidecar : Describes(r, source) /\ r.bytes = job'.offset
    BY <2>1, PlannedOffsetIs
  <2>3. writer.resumable
    BY <1>1 DEF PlanCopy, JobFits, StaleRun
  <2>4. JobFits' /\ OffsetBacked' /\ OpenInv'
    BY <2>1, <2>2, <2>3 DEF JobFits, OffsetBacked, OpenInv, Describes
  <2> QED
    BY <2>1, <2>4 DEF PumpInv, VouchInv, StopInv
<1>2. ASSUME Settle PROVE CopyInv'
  <2>1. /\ job'.object = job.object /\ job'.offset \in {0, job.offset}
        /\ job'.offset <= Len(part) /\ ~Shrinks => job'.offset = job.offset
        /\ pc = "settle" /\ pc' = "read" /\ UNCHANGED <<source, disk, stream, writer, inFlight>>
    BY <1>2, ResumeIs DEF Settle, TypeOK, OpenInv
  <2>2. job.object \in Objects /\ Size(job.object) \in Nat /\ job.offset \in Nat
    BY <2>1, ConstantsAssumption DEF Named, TypeOK
  <2>3. JobFits' /\ OffsetBacked' /\ OpenInv'
    BY <2>1, <2>2 DEF JobFits, StaleRun, OffsetBacked, OpenInv, Describes
  <2> QED
    BY <2>1, <2>3 DEF PumpInv, VouchInv, StopInv
<1>3. ASSUME OpenStream PROVE CopyInv'
  BY <1>3 DEF OpenStream, JobFits, StaleRun, OffsetBacked, OpenInv, PumpInv, VouchInv, StopInv,
              Describes
<1>4. ASSUME OpenWriter PROVE CopyInv'
  <2>1. /\ writer'.bytes \in {0, job.offset} /\ writer'.bytes <= Len(part)
        /\ ~Shrinks => writer'.bytes = job.offset
        /\ writer'.resumable <=> writer'.bytes = job.offset
        /\ writer'.checkpointed = writer'.bytes
        /\ pc = "open" /\ pc' = IF writer'.resumable THEN "openPart" ELSE "staleTmp"
        /\ UNCHANGED <<source, disk, job, stream, inFlight>>
    BY <1>4, ResumeIs DEF OpenWriter, TypeOK, OpenInv
  <2>2. JobFits' /\ OffsetBacked'
    BY <2>1 DEF JobFits, StaleRun, OffsetBacked, OpenInv, Describes
  <2>3. OpenInv'
    BY <1>4, <2>1 DEF OpenWriter, TypeOK, OpenInv
  <2> QED
    BY <2>1, <2>2, <2>3 DEF PumpInv, VouchInv, StopInv
<1>5. ASSUME OpenPart PROVE CopyInv'
  <2>1. CASE Len(part) >= writer.bytes
    <3>1. /\ part' = SubSeq(part, 1, writer.bytes) /\ pc = "openPart" /\ pc' = "pump"
          /\ UNCHANGED <<source, final, sidecar, tmp, job, stream, writer, inFlight>>
      BY <1>5, <2>1 DEF OpenPart
    <3>2. Len(part') = writer.bytes
      BY <2>1, <3>1 DEF TypeOK
    <3>3. JobFits' /\ OffsetBacked' /\ OpenInv' /\ StopInv'
      BY <3>1 DEF JobFits, StaleRun, OffsetBacked, OpenInv, StopInv
    <3>4. PumpInv'
      BY <3>1, <3>2 DEF PumpInv, OpenInv, Named, TypeOK
    <3>5. VouchInv'
      BY <3>1, <3>2, ConstantsAssumption
      DEF VouchInv, OpenInv, OffsetBacked, Describes, TypeOK
    <3> QED
      BY <3>3, <3>4, <3>5
  <2>2. CASE ~(Len(part) >= writer.bytes)
    BY <1>5, <2>2, CopyEnds DEF OpenPart
  <2> QED
    BY <2>1, <2>2
<1> QED
  BY <1>1, <1>2, <1>3, <1>4, <1>5

LEMMA PumpKeepsCopy ==
    ASSUME TypeOK, Named, CopyInv,
           \/ \E n \in 1..ChunkCells : WriteChunk(n)
           \/ Land \/ WriteFails \/ StreamFails \/ StreamEnds \/ WriteTmp \/ Checkpoint
    PROVE  CopyInv'
<1> USE DEF disk, run, Opening, Pumping, Writing, Discarding, CopyInv
<1>1. ASSUME NEW n \in 1..ChunkCells, WriteChunk(n) PROVE CopyInv'
  <2>1. /\ pc = "pump" /\ inFlight = <<>>
        /\ pc' = IF writer.resumable /\ writer.bytes + n - writer.checkpointed >= CheckpointCells
                 THEN "checkpoint" ELSE "pump"
        /\ stream.next + n <= Size(stream.object)
        /\ inFlight' = Cells(stream.object, stream.next, stream.next + n)
        /\ stream' = [stream EXCEPT !.next = @ + n]
        /\ writer' = [writer EXCEPT !.bytes = @ + n]
        /\ UNCHANGED <<source, final, part, sidecar, tmp, job>>
    BY <1>1 DEF WriteChunk
  <2>2. /\ stream.next \in Nat /\ n \in Nat /\ stream.object \in Objects
        /\ stream.next + n \in Nat /\ stream.next <= stream.next + n
        /\ (stream.next + n) - stream.next = n
    BY <2>1, ConstantsAssumption DEF TypeOK, Named
  <2>3. /\ Len(inFlight') = n
        /\ \A i \in 1..n : inFlight'[i] = CellOf(stream.object, stream.next + i)
    <3> DEFINE from == stream.next
    <3> DEFINE to == stream.next + n
    <3>1. from \in Nat /\ to \in Nat /\ from <= to /\ to - from = n
      BY <2>2
    <3>2. /\ Len(Cells(stream.object, from, to)) = to - from
          /\ \A i \in 1..(to - from) :
                Cells(stream.object, from, to)[i] = CellOf(stream.object, from + i)
      <4> HIDE DEF from, to
      <4> QED
        BY <2>2, <3>1, CellsAre
    <3> QED
      BY <2>1, <3>1, <3>2
  <2>4. /\ writer'.bytes = writer.bytes + n /\ writer'.resumable = writer.resumable
        /\ writer'.checkpointed = writer.checkpointed
        /\ stream'.next = stream.next + n /\ stream'.object = stream.object
        /\ writer.bytes \in Nat /\ writer.checkpointed \in Nat
    BY <2>1 DEF TypeOK
  <2>5. JobFits' /\ OffsetBacked' /\ OpenInv' /\ StopInv'
    BY <2>1, <2>4 DEF JobFits, StaleRun, OffsetBacked, OpenInv, StopInv
  <2>6. PumpInv'
    <3>1. ASSUME writer.resumable
          PROVE  /\ Len(part) = stream.next /\ writer.bytes = stream.next
                 /\ Len(part) + Len(inFlight') = writer'.bytes
                 /\ \A i \in 1..Len(inFlight') :
                        inFlight'[i] = CellOf(stream.object, Len(part) + i)
      <4>1. writer.bytes = stream.next /\ Len(part) + Len(inFlight) = writer.bytes
        BY <2>1, <3>1 DEF PumpInv
      <4>2. Len(inFlight) = 0 /\ Len(part) \in Nat
        BY <2>1 DEF TypeOK
      <4>3. Len(part) = stream.next
        BY <4>1, <4>2, <2>2
      <4> QED
        BY <2>2, <2>3, <2>4, <4>1, <4>3
    <3>2. pc' \in {"pump", "checkpoint"} /\ stream'.next <= Size(stream'.object)
      BY <2>1, <2>4
    <3> QED
      BY <2>1, <2>4, <3>1, <3>2 DEF PumpInv
  <2>7. VouchInv'
    <3>1. ASSUME writer.resumable
          PROVE  /\ writer.bytes = stream.next
                 /\ stream.next - writer.checkpointed < CheckpointCells
                 /\ stream'.next = writer.bytes + n
      BY <2>1, <2>4, <3>1 DEF PumpInv, VouchInv
    <3>2. ASSUME writer.resumable
          PROVE  /\ stream'.next - writer'.checkpointed < CheckpointCells + ChunkCells
                 /\ pc' = "pump" => stream'.next - writer'.checkpointed < CheckpointCells
      <4>1. /\ CheckpointCells \in Nat /\ ChunkCells \in Nat /\ n <= ChunkCells
            /\ writer'.checkpointed = writer.checkpointed
            /\ stream'.next = writer.bytes + n
        BY <2>4, <3>1, <3>2, ConstantsAssumption
      <4>2. stream'.next - writer'.checkpointed < CheckpointCells + ChunkCells
        BY <2>2, <2>4, <3>1, <3>2, <4>1
      <4>3. ASSUME pc' = "pump" PROVE stream'.next - writer'.checkpointed < CheckpointCells
        <5>1. ~(writer.bytes + n - writer.checkpointed >= CheckpointCells)
          BY <2>1, <3>2, <4>3
        <5>2. stream'.next - writer'.checkpointed = writer.bytes + n - writer.checkpointed
          BY <2>2, <2>4, <4>1
        <5> QED
          BY <2>2, <2>4, <4>1, <5>1, <5>2
      <4> QED
        BY <4>2, <4>3
    <3> QED
      BY <2>1, <2>4, <3>2 DEF VouchInv, Describes
  <2> QED
    BY <2>5, <2>6, <2>7
<1>2. ASSUME Land PROVE CopyInv'
  <2>1. /\ pc \in {"pump", "checkpoint"} /\ inFlight # <<>>
        /\ part' = Append(part, Head(inFlight)) /\ inFlight' = Tail(inFlight)
        /\ UNCHANGED <<source, final, sidecar, tmp, pc, job, stream, writer>>
    BY <1>2 DEF Land, Named
  <2>2. /\ Len(part') = Len(part) + 1 /\ Len(inFlight') = Len(inFlight) - 1
        /\ Len(inFlight) >= 1
        /\ \A i \in 1..Len(inFlight') : inFlight'[i] = inFlight[i + 1]
    BY <2>1 DEF TypeOK
  <2>3. JobFits' /\ OffsetBacked' /\ OpenInv' /\ StopInv'
    BY <2>1 DEF JobFits, StaleRun, OffsetBacked, OpenInv, StopInv
  <2>4. PumpInv'
    BY <2>1, <2>2 DEF PumpInv, TypeOK
  <2>5. VouchInv'
    BY <2>1, <2>2 DEF VouchInv, Describes, TypeOK
  <2> QED
    BY <2>3, <2>4, <2>5
<1>3. ASSUME WriteFails \/ StreamFails \/ StreamEnds PROVE CopyInv'
  <2>1. /\ pc \in {"pump", "checkpoint"} /\ pc' \in {"stop", "sync"}
        /\ pc' = "sync" => writer'.bytes = Size(job.object)
        /\ pc = "checkpoint" => pc' = "stop"
        /\ inFlight' = <<>>
        /\ writer' = [writer EXCEPT !.bytes = Smaller(@, Len(part))]
        /\ UNCHANGED <<source, final, part, sidecar, tmp, job, stream>>
    BY <1>3 DEF WriteFails, StreamFails, StreamEnds, Named
  <2>2. /\ writer.bytes \in Nat /\ Len(part) \in Nat /\ Len(inFlight) \in Nat
        /\ writer'.bytes = Smaller(writer.bytes, Len(part))
        /\ writer'.resumable = writer.resumable /\ writer.resumable \in BOOLEAN
    BY <2>1 DEF TypeOK
  <2>3. writer.resumable => writer'.bytes = Len(part)
    BY <2>1, <2>2 DEF PumpInv, Smaller
  <2>4. JobFits'
    BY <2>1, <2>2 DEF JobFits, StaleRun
  <2>5. OffsetBacked' /\ OpenInv'
    BY <2>1 DEF OffsetBacked, OpenInv
  <2>6. PumpInv'
    BY <2>1 DEF PumpInv
  <2>8. VouchInv'
    <3>1. writer'.checkpointed = writer.checkpointed
      BY <2>1 DEF TypeOK
    <3>2. pc' = "sync" => pc = "pump"
      BY <2>1
    <3> QED
      BY <2>1, <2>2, <3>1, <3>2 DEF VouchInv, Describes
  <2>7. StopInv'
    BY <2>1, <2>2, <2>3, ConstantsAssumption DEF StopInv, PumpInv, Named, TypeOK
  <2> QED
    BY <2>4, <2>5, <2>6, <2>7, <2>8
<1>4. ASSUME WriteTmp PROVE CopyInv'
  BY <1>4 DEF WriteTmp, JobFits, StaleRun, OffsetBacked, OpenInv, PumpInv, VouchInv, StopInv,
              Describes
<1>5. ASSUME Checkpoint PROVE CopyInv'
  <2>1. /\ pc = "checkpointRename" /\ pc' = "pump"
        /\ sidecar' = {Record(job.object, writer.bytes)}
        /\ writer' = [writer EXCEPT !.checkpointed = writer.bytes]
        /\ UNCHANGED <<source, final, part, job, stream, inFlight>>
        /\ writer.resumable /\ inFlight = <<>>
        /\ job.object \in Objects /\ writer.bytes \in Nat
    BY <1>5 DEF Checkpoint, TypeOK, Named, JobFits, StaleRun
  <2>2. /\ writer'.bytes = writer.bytes /\ writer'.checkpointed = writer.bytes
        /\ writer'.resumable = writer.resumable
    BY <2>1 DEF TypeOK
  <2>3. JobFits' /\ OffsetBacked' /\ OpenInv' /\ StopInv'
    BY <2>1, <2>2 DEF JobFits, StaleRun, OffsetBacked, OpenInv, StopInv
  <2>4. PumpInv'
    BY <2>1, <2>2 DEF PumpInv
  <2>5. Len(part) = writer.bytes
    BY <2>1 DEF PumpInv, TypeOK
  <2>6. VouchInv'
    <3>1. stream'.next - writer'.checkpointed = 0
      BY <2>1, <2>2 DEF PumpInv, TypeOK
    <3> QED
      BY <2>1, <2>2, <2>5, <3>1, ConstantsAssumption DEF VouchInv, Describes, Record
  <2> QED
    BY <2>3, <2>4, <2>6
<1> QED
  BY <1>1, <1>2, <1>3, <1>4, <1>5

LEMMA EndingKeepsCopy ==
    ASSUME TypeOK, Named, CopyInv,
           \/ Stop \/ KeepPartial \/ DiscardPart \/ Sync \/ Publish \/ RemoveTmp \/ RemoveRecord
           \/ StreamRefused \/ LocalFault \/ Kill
    PROVE  CopyInv'
<1> USE DEF disk, run, Opening, Pumping, Writing, Discarding, CopyInv
<1>1. ASSUME \/ Stop \/ DiscardPart \/ Sync \/ Publish \/ RemoveTmp
      PROVE  CopyInv'
  BY <1>1 DEF Stop, DiscardPart, Sync, Publish, RemoveTmp, JobFits, StaleRun, OffsetBacked,
              OpenInv, PumpInv, VouchInv, StopInv, Describes, TypeOK
<1>2. ASSUME KeepPartial \/ StreamRefused \/ Kill PROVE CopyInv'
  BY <1>2, CopyEnds DEF KeepPartial, StreamRefused, Kill
<1>3. ASSUME RemoveRecord PROVE CopyInv'
  <2>1. CASE pc = "staleRecord"
    BY <1>3, <2>1 DEF RemoveRecord, JobFits, StaleRun, OffsetBacked, OpenInv, PumpInv, VouchInv,
                      StopInv
  <2>2. CASE pc # "staleRecord"
    BY <1>3, <2>2, CopyEnds DEF RemoveRecord
  <2> QED
    BY <2>1, <2>2
<1>4. ASSUME LocalFault PROVE CopyInv'
  <2>1. CASE EndRun
    BY <2>1, CopyEnds
  <2>2. CASE /\ pc \in {"checkpoint", "checkpointRename"} /\ pc' = "stop"
             /\ UNCHANGED <<part, sidecar, run>>
    BY <1>4, <2>2 DEF LocalFault, JobFits, StaleRun, OffsetBacked, OpenInv, PumpInv, VouchInv,
                      StopInv, TypeOK
  <2>3. CASE /\ pc \in {"sync", "rename"} /\ pc' = "keep" /\ UNCHANGED <<part, sidecar, run>>
    BY <2>3 DEF JobFits, StaleRun, OffsetBacked, OpenInv, PumpInv, VouchInv, StopInv, TypeOK
  <2> QED
    BY <1>4, <2>1, <2>2, <2>3 DEF LocalFault
<1> QED
  BY <1>1, <1>2, <1>3, <1>4

LEMMA CopyStep ==
    ASSUME TypeOK, Named, CopyInv, [Next]_vars
    PROVE  CopyInv'
<1>1. CASE UNCHANGED vars
  BY <1>1 DEF vars, disk, run, CopyInv, JobFits, StaleRun, OffsetBacked, OpenInv, PumpInv,
              VouchInv, StopInv, Describes
<1> QED
  BY <1>1, WorldKeepsCopy, OpeningKeepsCopy, PumpKeepsCopy, EndingKeepsCopy
  DEF Next, Progress, Failure

LEMMA CopyHolds == Spec => [](TypeOK /\ Named /\ CopyInv)
<1>1. Init => TypeOK /\ Named /\ CopyInv
  <2>1. ASSUME Init PROVE CopyInv
    BY <2>1 DEF Init, NoJob, NoWriter, CopyInv, JobFits, StaleRun, OffsetBacked, OpenInv, PumpInv,
                VouchInv, StopInv, Opening, Pumping, Writing, Discarding
  <2> QED
    BY <2>1, TypeStart DEF Init, Named
<1>2. TypeOK /\ Named /\ CopyInv /\ [Next]_vars => (TypeOK /\ Named /\ CopyInv)'
  <2>1. ASSUME TypeOK, Named, Next PROVE TypeOK' /\ Named'
    BY <2>1, TypeStep, NamedStep DEF Named, Pumping
  <2>2. ASSUME TypeOK, Named, UNCHANGED vars PROVE TypeOK' /\ Named'
    BY <2>2 DEF TypeOK, Named, vars, disk, run
  <2> QED
    BY <2>1, <2>2, CopyStep
<1> QED
  BY <1>1, <1>2, PTL DEF Spec

\* What the scan finds of a record is all that a planned object can resume from.
LEMMA OffsetOf ==
    ASSUME TypeOK, NEW o \in Objects, NEW r \in sidecar,
           Describes(r, o), r.bytes <= Len(part), r.bytes <= Size(o)
    PROVE  PlannedOffset(o) = r.bytes
<1>1. r \in Resumable(o)
  BY DEF Resumable, IsValidFor, Matches, Describes
<1>2. \A s \in Resumable(o) : s = r
  BY DEF TypeOK, Resumable
<1>3. (CHOOSE s \in Resumable(o) : TRUE) = r
  BY <1>1, <1>2
<1> QED
  BY <1>1, <1>3 DEF PlannedOffset

\* In any world, a kill at any step of a writing run costs less than one interval of
\* what was read, or, from the chunk that makes a checkpoint due until its record is
\* renamed, that chunk more (copy_chunks, checkpoint): the last checkpoint, or the
\* offset the copy began at, is on record, and the part holds what it counts.
THEOREM KillsCostLittle == Spec => []LossBounded
<1>1. ASSUME TypeOK, Named, CopyInv, pc \in Writing, stream.object = job.object,
             writer.resumable, Identity[job.object] \notin Serialless
      PROVE  /\ PlannedOffset(job.object) \in Nat
             /\ PlannedOffset(job.object) >= writer.checkpointed
  <2>1. /\ job.object \in Objects /\ Size(job.object) \in Nat
        /\ PlannedOffset(job.object) \in Nat /\ Len(part) \in Nat
        /\ writer.bytes \in Nat /\ writer.checkpointed \in Nat
        /\ job.offset \in Nat /\ stream.next \in Nat /\ Len(inFlight) \in Nat
    BY <1>1, PlannedOffsetIs, ConstantsAssumption DEF Named, TypeOK, Writing, Pumping
  <2>2. Len(part) <= Size(job.object)
    <3>1. job.offset <= Size(job.object)
      BY <1>1 DEF CopyInv, JobFits, Writing, Pumping
    <3>2. CASE pc \in Pumping
      <4>1. Len(part) <= stream.next /\ stream.next <= Size(job.object)
        BY <1>1, <2>1, <3>1, <3>2 DEF CopyInv, PumpInv
      <4> QED
        BY <2>1, <4>1
    <3>3. CASE pc \notin Pumping
      <4>1. Len(part) <= job.offset \/ Len(part) <= Size(job.object)
        BY <1>1, <3>3 DEF CopyInv, StopInv, Writing, Pumping
      <4> QED
        BY <2>1, <3>1, <4>1
    <3> QED
      BY <3>2, <3>3
  <2>3. /\ writer.checkpointed <= Len(part)
        /\ writer.checkpointed > 0 =>
              \E r \in sidecar : Describes(r, job.object) /\ r.bytes = writer.checkpointed
    BY <1>1 DEF CopyInv, VouchInv
  <2>4. CASE writer.checkpointed > 0
    <3>1. PICK r \in sidecar : Describes(r, job.object) /\ r.bytes = writer.checkpointed
      BY <2>3, <2>4
    <3>2. r.bytes <= Len(part) /\ r.bytes <= Size(job.object)
      BY <2>1, <2>2, <2>3, <3>1
    <3> QED
      BY <1>1, <2>1, <3>1, <3>2, OffsetOf
  <2> QED
    BY <2>1, <2>4
<1>2. ASSUME TypeOK, Named, CopyInv, pc \in Writing, stream.object = job.object,
             writer.resumable, Identity[job.object] \notin Serialless
      PROVE  LossBounded
  <2>1. /\ writer.checkpointed \in Nat /\ stream.next \in Nat
        /\ CheckpointCells \in Nat /\ ChunkCells \in Nat
    BY <1>2, ConstantsAssumption DEF TypeOK
  <2>2. /\ stream.next - writer.checkpointed < CheckpointCells + ChunkCells
        /\ pc \in {"pump", "sync", "rename"} =>
               stream.next - writer.checkpointed < CheckpointCells
    BY <1>2 DEF CopyInv, VouchInv
  <2>3. /\ PlannedOffset(job.object) \in Nat
        /\ PlannedOffset(job.object) >= writer.checkpointed
    BY <1>1, <1>2
  <2> QED
    BY <2>1, <2>2, <2>3 DEF LossBounded
<1>3. TypeOK /\ Named /\ CopyInv => LossBounded
  <2> SUFFICES ASSUME TypeOK, Named, CopyInv, ~LossBounded
               PROVE  FALSE
    OBVIOUS
  <2>1. /\ pc \in Writing /\ stream.object = job.object
        /\ writer.resumable /\ Identity[job.object] \notin Serialless
    BY DEF LossBounded, Writing, Pumping
  <2> QED
    BY <1>2, <2>1
<1> QED
  BY <1>3, CopyHolds, PTL
-----------------------------------------------------------------------------
(* Where nothing is killed, fails or is cut short.                         *)

TidyInv ==
    /\ tmp => pc \in {"checkpointRename", "keepRename"}
    /\ pc \in {"idle"} \cup Opening =>
        /\ sidecar = {} => part = <<>>
        /\ \A r \in sidecar : r.bytes <= Len(part)
    /\ pc \in Cleaning => part = <<>>

\* Nobody cuts a part short: what a copy was to resume from is still there.
LEMMA NeverStale ==
    ASSUME ~Shrinks, TypeOK, CopyInv
    PROVE  /\ writer.resumable
           /\ pc \notin {"staleTmp", "staleRecord"} \cup Discarding
           /\ pc = "openPart" => writer.bytes = job.offset /\ Len(part) >= writer.bytes
<1>1. writer.resumable
  BY DEF CopyInv, JobFits
<1> QED
  BY <1>1 DEF CopyInv, JobFits, OpenInv, Opening

LEMMA TidyStep ==
    ASSUME ~Kills, ~Faults, ~Shrinks, TypeOK, Named, CopyInv, TidyInv, [Next]_vars
    PROVE  TidyInv'
<1> USE DEF disk, run, Opening, Cleaning
<1>1. ASSUME UNCHANGED <<part, sidecar, tmp, pc>> PROVE TidyInv'
  BY <1>1 DEF TidyInv
<1>2. ASSUME World \/ UNCHANGED vars PROVE UNCHANGED <<part, sidecar, tmp, pc>>
  BY <1>2 DEF World, Replace, EditInRun, DeleteFinal, ShrinkPart, vars
<1>3. ASSUME \/ PlanCopy \/ Settle \/ OpenStream \/ OpenWriter \/ Stop \/ Sync \/ StreamRefused
             \/ StreamFails \/ StreamEnds
      PROVE  TidyInv'
  BY <1>3 DEF PlanCopy, Settle, OpenStream, OpenWriter, Stop, Sync, StreamRefused, StreamFails,
              StreamEnds, EndRun, TidyInv, TypeOK
<1>4. ASSUME OpenPart PROVE TidyInv'
  BY <1>4, NeverStale DEF OpenPart, TidyInv
<1>5. ASSUME \E n \in 1..ChunkCells : WriteChunk(n) PROVE TidyInv'
  BY <1>5 DEF WriteChunk, TidyInv, TypeOK
<1>6. ASSUME Land PROVE TidyInv'
  BY <1>6 DEF Land, TidyInv, Named
<1>7. ASSUME WriteTmp \/ Checkpoint PROVE TidyInv'
  BY <1>7 DEF WriteTmp, Checkpoint, TidyInv
<1>8. ASSUME KeepPartial PROVE TidyInv'
  <2>1. pc = "keepRename" /\ writer.bytes = Len(part)
    BY <1>8, NeverStale DEF KeepPartial, CopyInv, StopInv
  <2>2. /\ pc' = "idle" /\ tmp' = FALSE /\ part' = part
        /\ sidecar' = {Record(job.object, writer.bytes)}
    BY <1>8 DEF KeepPartial, EndRun
  <2>3. \A r \in sidecar' : r.bytes <= Len(part)
    <3>1. Record(job.object, writer.bytes).bytes = Len(part) /\ Len(part) \in Nat
      BY <2>1 DEF Record, TypeOK
    <3> QED
      BY <2>2, <3>1
  <2> QED
    BY <2>2, <2>3 DEF TidyInv
<1>9. ASSUME Publish PROVE TidyInv'
  BY <1>9 DEF Publish, TidyInv
<1>10. ASSUME RemoveTmp \/ RemoveRecord \/ DiscardPart PROVE TidyInv'
  <2>1. pc \in Cleaning
    BY <1>10, NeverStale DEF RemoveTmp, RemoveRecord, DiscardPart, Discarding
  <2> QED
    BY <1>10, <2>1 DEF RemoveTmp, RemoveRecord, DiscardPart, EndRun, TidyInv
<1>11. ~(WriteFails \/ LocalFault \/ Kill)
  BY DEF WriteFails, LocalFault, Kill
<1> QED
  BY <1>1, <1>2, <1>3, <1>4, <1>5, <1>6, <1>7, <1>8, <1>9, <1>10, <1>11
  DEF Next, Progress, Failure

\* Wherever nothing is killed, no file-system call fails and nobody cuts the part,
\* a run that is over, however it ended and whatever phones took turns, leaves
\* either nothing beside the final file or a part that holds all its record counts.
THEOREM RunsAreTidy ==
    ASSUME ~Kills, ~Faults, ~Shrinks
    PROVE  Spec => []Tidy
<1>1. Init => TidyInv
  BY DEF Init, TidyInv, Opening, Cleaning
<1>2. TidyInv => Tidy
  BY DEF TidyInv, Tidy
<1>3. TypeOK /\ Named /\ CopyInv /\ TidyInv /\ [Next]_vars => TidyInv'
  BY TidyStep
<1> QED
  BY <1>1, <1>2, <1>3, CopyHolds, PTL DEF Spec
-----------------------------------------------------------------------------
(* What could be resumed from is not taken back.                           *)

OffsetFrom(records, length, o) ==
    LET fit == {r \in records : /\ Describes(r, o)
                                /\ r.bytes <= length /\ r.bytes <= Size(o)}
    IN  IF fit = {} THEN 0 ELSE (CHOOSE r \in fit : TRUE).bytes

LEMMA OffsetFromIs ==
    ASSUME NEW records \in SUBSET Sidecars, \A r, s \in records : r = s,
           NEW length \in Nat, NEW o \in Objects
    PROVE  /\ OffsetFrom(records, length, o) \in Nat
           /\ OffsetFrom(records, length, o) <= length
           /\ OffsetFrom(records, length, o) > 0 =>
                  \E r \in records : Describes(r, o) /\ r.bytes = OffsetFrom(records, length, o)
           /\ \A r \in records : Describes(r, o) /\ r.bytes <= length /\ r.bytes <= Size(o)
                  => OffsetFrom(records, length, o) = r.bytes
<1> DEFINE fit == {r \in records : Describes(r, o) /\ r.bytes <= length /\ r.bytes <= Size(o)}
<1>1. CASE fit = {}
  BY <1>1 DEF OffsetFrom
<1>2. CASE fit # {}
  <2>1. PICK r \in fit : TRUE
    BY <1>2
  <2>2. \A s \in fit : s = r
    BY <2>1
  <2>3. OffsetFrom(records, length, o) = r.bytes
    BY <1>2, <2>2 DEF OffsetFrom
  <2>4. r.bytes \in Nat
    BY <2>1 DEF Sidecars
  <2> QED
    BY <2>1, <2>2, <2>3, <2>4
<1> QED
  BY <1>1, <1>2

LEMMA OffsetFromOne ==
    ASSUME NEW rec \in Sidecars, NEW length \in Nat, NEW o \in Objects,
           Describes(rec, o), rec.bytes <= length, rec.bytes <= Size(o)
    PROVE  OffsetFrom({rec}, length, o) = rec.bytes
<1>1. {rec} \in SUBSET Sidecars /\ \A r, s \in {rec} : r = s
  OBVIOUS
<1>2. \A r \in {rec} : Describes(r, o) /\ r.bytes <= length /\ r.bytes <= Size(o)
          => OffsetFrom({rec}, length, o) = r.bytes
  BY <1>1, OffsetFromIs
<1> QED
  BY <1>2

LEMMA OffsetGrows ==
    ASSUME NEW records \in SUBSET Sidecars, \A r, s \in records : r = s, NEW o \in Objects,
           NEW m \in Nat, NEW n \in Nat, m <= n
    PROVE  OffsetFrom(records, m, o) <= OffsetFrom(records, n, o)
<1>1. CASE OffsetFrom(records, m, o) = 0
  BY <1>1, OffsetFromIs
<1>2. CASE OffsetFrom(records, m, o) # 0
  <2> DEFINE fit == {r \in records : Describes(r, o) /\ r.bytes <= m /\ r.bytes <= Size(o)}
  <2>1. fit # {}
    BY <1>2 DEF OffsetFrom
  <2>2. PICK r \in fit : TRUE
    BY <2>1
  <2>3. r.bytes \in Nat /\ r.bytes <= n
    BY <2>2 DEF Sidecars
  <2> QED
    BY <2>2, <2>3, OffsetFromIs
<1> QED
  BY <1>1, <1>2

LEMMA PlannedOffsetFrom ==
    ASSUME NEW o
    PROVE  PlannedOffset(o) = OffsetFrom(sidecar, Len(part), o)
<1>1. Resumable(o) = {r \in sidecar : /\ Describes(r, o)
                                      /\ r.bytes <= Len(part) /\ r.bytes <= Size(o)}
  BY DEF Resumable, IsValidFor, Matches, Describes
<1> QED
  BY <1>1 DEF PlannedOffset, OffsetFrom

\* The final file is not the one under way, and a copy being opened takes over
\* all it could.
TakenInv ==
    /\ pc \notin {"idle"} \cup Cleaning \cup Discarding =>
           \A f \in final : Len(f) # Size(job.object)
    /\ pc \in Opening => PlannedOffset(job.object) = job.offset

LEMMA TakenStep ==
    ASSUME ~Shrinks, TypeOK, Named, CopyInv, TakenInv, [Next]_vars
    PROVE  TakenInv'
<1> USE DEF disk, run, Opening, Cleaning, Discarding
<1>1. ASSUME UNCHANGED <<final, part, sidecar, job>>, pc' \in Opening => pc \in Opening,
             pc = "idle" \/ pc \in Cleaning \cup Discarding => pc' = pc
      PROVE  TakenInv'
  BY <1>1 DEF TakenInv, PlannedOffset, Resumable, IsValidFor
<1>2. ASSUME pc' \in {"idle"} \cup Cleaning \cup Discarding PROVE TakenInv'
  BY <1>2 DEF TakenInv
<1>3. ASSUME UNCHANGED <<final, job>>, pc' \notin Opening,
             pc \notin {"idle"} \cup Cleaning \cup Discarding
      PROVE  TakenInv'
  BY <1>3 DEF TakenInv
<1>4. ASSUME World \/ UNCHANGED vars PROVE TakenInv'
  BY <1>1, <1>2, <1>4 DEF World, Replace, EditInRun, DeleteFinal, ShrinkPart, vars
<1>5. ASSUME PlanCopy PROVE TakenInv'
  <2>1. /\ job'.object = source /\ job'.offset = PlannedOffset(source)
        /\ UNCHANGED <<source, final, part, sidecar>>
        /\ \A f \in final : Len(f) # Size(source)
    BY <1>5 DEF PlanCopy
  <2> QED
    BY <2>1 DEF TakenInv, PlannedOffset, Resumable, IsValidFor
<1>6. ASSUME Settle PROVE TakenInv'
  <2>1. EffectiveResume(job.offset) = job.offset
    BY <1>6, ResumeIs DEF Settle, CopyInv, OpenInv, TypeOK
  <2>2. job' = job
    BY <1>6, <2>1 DEF Settle, TypeOK
  <2> QED
    BY <1>1, <1>6, <2>2 DEF Settle
<1>7. ASSUME OpenStream \/ OpenWriter PROVE TakenInv'
  BY <1>1, <1>7 DEF OpenStream, OpenWriter
<1>8. ASSUME OpenPart PROVE TakenInv'
  BY <1>3, <1>8, NeverStale DEF OpenPart
<1>9. ASSUME \/ \E n \in 1..ChunkCells : WriteChunk(n)
             \/ StreamFails \/ StreamEnds \/ WriteTmp \/ Checkpoint \/ Sync
      PROVE  TakenInv'
  BY <1>3, <1>9 DEF WriteChunk, StreamFails, StreamEnds, WriteTmp, Checkpoint, Sync
<1>10. ASSUME Land \/ WriteFails PROVE TakenInv'
  BY <1>3, <1>10 DEF Land, WriteFails, Named
<1>11. ASSUME Stop PROVE TakenInv'
  BY <1>3, <1>11, NeverStale DEF Stop
<1>12. ASSUME Publish \/ RemoveTmp \/ RemoveRecord \/ DiscardPart PROVE TakenInv'
  BY <1>2, <1>12, NeverStale DEF Publish, RemoveTmp, RemoveRecord, DiscardPart, EndRun
<1>13. ASSUME KeepPartial \/ StreamRefused \/ Kill PROVE TakenInv'
  BY <1>2, <1>13 DEF KeepPartial, StreamRefused, Kill, EndRun
<1>14. ASSUME LocalFault PROVE TakenInv'
  BY <1>2, <1>3, <1>14 DEF LocalFault, EndRun
<1> QED
  BY <1>4, <1>5, <1>6, <1>7, <1>8, <1>9, <1>10, <1>11, <1>12, <1>13, <1>14
  DEF Next, Progress, Failure

\* A record made for the source counts at least as much as the one before it.
LEMMA RecordKeepsOffset ==
    ASSUME OrderlyWorld, IInv, CopyInv, ~Shrinks, pc \in {"checkpointRename", "keepRename"},
           NEW o \in Objects, o = source
    PROVE  OffsetFrom({Record(job.object, writer.bytes)}, Len(part), o)
               >= OffsetFrom(sidecar, Len(part), o)
<1> USE DEF Opening, Pumping, Writing, Cleaning
<1>1. /\ TypeOK /\ job.object \in Objects /\ writer.bytes \in Nat /\ Len(part) \in Nat
      /\ sidecar \in SUBSET Sidecars /\ \A r, s \in sidecar : r = s
      /\ Size(o) \in Nat /\ job.offset \in Nat /\ stream.next \in Nat
  BY ConstantsAssumption DEF IInv, TypeOK, JobInv
<1>2. writer.resumable
  BY <1>1, NeverStale
<1>3. writer.bytes = Len(part)
  BY <1>1, <1>2 DEF CopyInv, PumpInv, StopInv, IInv, StreamInv
<1>4. stream.object = o
  BY DEF IInv, StreamInv
<1>5. job.object = o => writer.bytes <= Size(o)
  BY <1>1, <1>2, <1>3, <1>4 DEF CopyInv, PumpInv, StopInv, JobFits, IInv, StreamInv
<1> DEFINE old == OffsetFrom(sidecar, Len(part), o)
           rec == Record(job.object, writer.bytes)
<1>6. /\ old \in Nat /\ old <= Len(part)
      /\ old > 0 => \E r \in sidecar : Describes(r, o) /\ r.bytes = old
  BY <1>1, OffsetFromIs
<1>7. /\ {rec} \in SUBSET Sidecars /\ \A r, s \in {rec} : r = s
      /\ rec.bytes = writer.bytes
  BY <1>1, RecordIs
<1>8. OffsetFrom({rec}, Len(part), o) \in Nat
  BY <1>1, <1>7, OffsetFromIs
<1>9. CASE old = 0
  BY <1>8, <1>9
<1>10. CASE old > 0
  <2>1. PICK r \in sidecar : Describes(r, o)
    BY <1>6, <1>10
  <2>2. job.object = o
    BY <2>1, RecordsAfterRun
  <2>3. Describes(rec, o)
    BY <2>1, <2>2 DEF Describes, Record
  <2>4. rec.bytes <= Len(part) /\ rec.bytes <= Size(o)
    BY <1>1, <1>3, <1>5, <1>7, <2>2
  <2>5. OffsetFrom({rec}, Len(part), o) = Len(part)
    <3>1. rec \in Sidecars
      BY <1>7
    <3>2. OffsetFrom({rec}, Len(part), o) = rec.bytes
      <4> HIDE DEF rec
      <4> QED
        BY <1>1, <2>3, <2>4, <3>1, OffsetFromOne
    <3> QED
      BY <1>3, <1>7, <3>2
  <2> QED
    BY <1>1, <1>6, <2>5
<1> HIDE DEF old
<1> QED
  BY <1>6, <1>9, <1>10 DEF old

LEMMA OffsetKept ==
    ASSUME OrderlyWorld, ~Shrinks, IInv, Named, CopyInv, TakenInv, [Next]_vars,
           final' = final, NEW o \in Objects, o = source
    PROVE  OffsetFrom(sidecar', Len(part'), o) >= OffsetFrom(sidecar, Len(part), o)
<1> USE DEF disk, run, Opening, Cleaning
<1>0. /\ TypeOK /\ sidecar \in SUBSET Sidecars /\ \A r, s \in sidecar : r = s
      /\ Len(part) \in Nat
  BY DEF IInv, TypeOK
<1> DEFINE old == OffsetFrom(sidecar, Len(part), o)
<1>1. ASSUME sidecar' = sidecar, Len(part') \in Nat, Len(part') >= Len(part)
      PROVE  OffsetFrom(sidecar', Len(part'), o) >= old
  BY <1>0, <1>1, OffsetGrows, OffsetFromIs
<1>2. old \in Nat /\ old <= Len(part)
  BY <1>0, OffsetFromIs
<1>3. old > 0 => \E r \in sidecar : Describes(r, o) /\ r.bytes = old
  BY <1>0, OffsetFromIs
<1> HIDE DEF old
<1>4. ASSUME sidecar' = sidecar, part' = part PROVE OffsetFrom(sidecar', Len(part'), o) >= old
  BY <1>0, <1>1, <1>4
<1>5. ASSUME World \/ UNCHANGED vars PROVE sidecar' = sidecar /\ part' = part
  BY <1>5 DEF World, Replace, EditInRun, DeleteFinal, ShrinkPart, vars
<1>6. ASSUME \/ PlanCopy \/ Settle \/ OpenStream \/ OpenWriter
             \/ \E n \in 1..ChunkCells : WriteChunk(n)
             \/ StreamFails \/ StreamEnds \/ WriteFails \/ WriteTmp \/ Stop \/ Sync \/ RemoveTmp
             \/ StreamRefused \/ LocalFault \/ Kill
      PROVE  sidecar' = sidecar /\ part' = part
  BY <1>6 DEF PlanCopy, Settle, OpenStream, OpenWriter, WriteChunk, StreamFails, StreamEnds,
              WriteFails, WriteTmp, Stop, Sync, RemoveTmp, StreamRefused, LocalFault, Kill
<1>7. ASSUME OpenPart PROVE OffsetFrom(sidecar', Len(part'), o) >= old
  <2>1. /\ pc = "openPart" /\ writer.bytes = job.offset /\ Len(part) >= writer.bytes
        /\ part' = SubSeq(part, 1, writer.bytes) /\ sidecar' = sidecar
        /\ job.offset \in Nat
    BY <1>0, <1>7, NeverStale DEF OpenPart, TypeOK
  <2>2. Len(part') = job.offset
    BY <1>0, <2>1 DEF TypeOK
  <2>3. CASE old = 0
    <3>1. Len(part') \in Nat
      BY <2>1, <2>2
    <3>2. OffsetFrom(sidecar, Len(part'), o) \in Nat
      BY <1>0, <3>1, OffsetFromIs
    <3> QED
      BY <2>1, <2>3, <3>2
  <2>4. CASE old > 0
    <3>1. PICK r \in sidecar : Describes(r, o) /\ r.bytes = old
      BY <1>3, <2>4
    <3>2. job.object = o
      BY <2>1, <3>1, RecordsAfterRun
    <3>3. PlannedOffset(job.object) = job.offset
      BY <2>1 DEF TakenInv
    <3>4. PlannedOffset(o) = old
      BY PlannedOffsetFrom DEF old
    <3>5. r.bytes = Len(part') /\ r.bytes <= Size(o)
      <4>1. old <= Size(o)
        BY <1>0, <3>4, PlannedOffsetIs
      <4> QED
        BY <2>2, <3>1, <3>2, <3>3, <3>4, <4>1
    <3>6. OffsetFrom(sidecar, Len(part'), o) = r.bytes
      BY <1>0, <2>1, <2>2, <3>1, <3>5, OffsetFromIs
    <3> QED
      BY <1>2, <2>1, <3>1, <3>6
  <2> QED
    BY <1>2, <2>3, <2>4
<1>8. ASSUME Land PROVE OffsetFrom(sidecar', Len(part'), o) >= old
  <2>1. sidecar' = sidecar /\ Len(part') = Len(part) + 1
    BY <1>0, <1>8 DEF Land, TypeOK
  <2> QED
    BY <1>0, <1>1, <2>1
<1>9. ASSUME Checkpoint \/ KeepPartial PROVE OffsetFrom(sidecar', Len(part'), o) >= old
  <2>1. /\ sidecar' = {Record(job.object, writer.bytes)} /\ part' = part
        /\ pc \in {"checkpointRename", "keepRename"}
    BY <1>9 DEF Checkpoint, KeepPartial
  <2> QED
    BY <2>1, RecordKeepsOffset DEF old
<1>10. ~DiscardPart
  BY <1>0, NeverStale DEF DiscardPart, Discarding
<1>11. ASSUME RemoveRecord PROVE OffsetFrom(sidecar', Len(part'), o) >= old
  <2>1. pc \in Cleaning /\ sidecar' = {} /\ part' = part
    BY <1>0, <1>11, NeverStale DEF RemoveRecord, Discarding
  <2>2. Len(part) = 0
    BY <1>0, <2>1 DEF IInv, WholeInv
  <2>3. OffsetFrom({}, Len(part), o) \in Nat
    BY <1>0, OffsetFromIs
  <2> QED
    BY <1>2, <2>1, <2>2, <2>3
<1>12. ~Publish
  <2> SUFFICES ASSUME Publish PROVE FALSE
    OBVIOUS
  <2>1. /\ part \in final /\ pc = "rename" /\ part = Whole(job.object) /\ job.object \in Objects
    BY DEF Publish, IInv, WholeInv, Named
  <2>2. Size(job.object) \in Nat
    BY <2>1, ConstantsAssumption
  <2>3. Len(Whole(job.object)) = Size(job.object)
    <3>1. PICK q \in Objects : q = job.object
      BY <2>1
    <3>2. Size(q) \in Nat
      BY <2>2, <3>1
    <3>3. Len(Cells(q, 0, Size(q))) = Size(q) - 0
      BY <3>2, 0 \in Nat, 0 <= Size(q), CellsAre
    <3>4. Len(Whole(q)) = Size(q)
      BY <3>2, <3>3 DEF Whole
    <3> QED
      BY <3>1, <3>4
  <2> QED
    BY <2>1, <2>3 DEF TakenInv, Discarding
<1> QED
  BY <1>4, <1>5, <1>6, <1>7, <1>8, <1>9, <1>10, <1>11, <1>12 DEF Next, Progress, Failure, old

\* In an orderly world where nobody cuts the part, no step of a run and no way of
\* ending it, a kill or a failed call included, takes back what a next run of the
\* same source could resume from, short of publishing the file (PartWriter).
THEOREM ProgressIsKept ==
    ASSUME OrderlyWorld, ~Shrinks
    PROVE  Spec => ProgressKept
<1>1. ASSUME IInv, Named, CopyInv, TakenInv, [Next]_vars, source' = source, final' = final
      PROVE  PlannedOffset(source)' >= PlannedOffset(source)
  <2>1. PICK o \in Objects : o = source
    BY <1>1 DEF IInv, TypeOK
  <2>2. PlannedOffset(source) = OffsetFrom(sidecar, Len(part), o)
    BY <2>1, PlannedOffsetFrom
  <2>3. PlannedOffset(source)' = OffsetFrom(sidecar', Len(part'), o)
    <3>1. PlannedOffset(o)' = OffsetFrom(sidecar', Len(part'), o)
      BY DEF PlannedOffset, Resumable, IsValidFor, Matches, Describes, OffsetFrom
    <3> QED
      BY <1>1, <2>1, <3>1 DEF PlannedOffset, Resumable
  <2> QED
    BY <1>1, <2>1, <2>2, <2>3, OffsetKept
<1>2. Init => TakenInv
  BY DEF Init, TakenInv, Opening
<1>3. TypeOK /\ Named /\ CopyInv /\ TakenInv /\ [Next]_vars => TakenInv'
  BY TakenStep
<1>4. IInv /\ Named /\ CopyInv /\ TakenInv /\ [Next]_vars
      => [source' = source /\ final' = final
              => PlannedOffset(source)' >= PlannedOffset(source)]_vars
  BY <1>1
<1> QED
  BY <1>2, <1>3, <1>4, CopyHolds, Always, PTL DEF Spec, ProgressKept
=============================================================================
