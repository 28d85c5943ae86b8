---------------------------- MODULE LocalResume ----------------------------
(***************************************************************************)
(* One destination file of the local endpoint across every run of the      *)
(* program: the part file, the sidecar that vouches for a prefix of it,    *)
(* the final file, and the process that resumes, writes, checkpoints,      *)
(* commits or gives up.  Every file-system call is a step of its own, so   *)
(* a kill (the second Ctrl-C, or a crash) may come between any two.        *)
(*                                                                         *)
(* A file is a sequence of cells, each naming the source object and the    *)
(* position it was read from; a cell stands for a run of bytes.  A part    *)
(* that does not exist and an empty part are both <<>>: the code treats    *)
(* the two alike (effective_resume, open_part).                            *)
(***************************************************************************)
EXTENDS Integers, Sequences

CONSTANTS
    Objects,          \* objects that may lie at the source path
    NoObject,         \* the planned object while no copy is in progress
    Identity,         \* Identity[o]: the phone and storage o is read from, its path below the root
    Fingerprint,      \* Fingerprint[o]: the size and modified time it reports
    Serialless,       \* identities of phones that report no serial
    Becomes,          \* <<o, p>>: p may take o's place at the source path
    CheckpointCells,  \* CHECKPOINT_BYTES, in cells
    ChunkCells,       \* the longest chunk of a stream, in cells
    Kills,            \* whether the process may be killed
    Faults,           \* whether a local file-system call may fail
    Shrinks,          \* whether someone else may shorten the part
    EditsInRun        \* <<o, p>>: p may take o's place once o was planned

Size(o) == Fingerprint[o].size

ASSUME ConstantsAssumption ==
    /\ NoObject \notin Objects
    /\ \A o \in Objects : Size(o) \in Nat
    /\ Becomes \subseteq Objects \X Objects
    /\ EditsInRun \subseteq {e \in Becomes : Identity[e[1]] = Identity[e[2]]}
    /\ CheckpointCells \in Nat \ {0}
    /\ ChunkCells \in Nat \ {0}
    /\ {Kills, Faults, Shrinks} \subseteq BOOLEAN
-----------------------------------------------------------------------------
(* When a size and a time are enough to tell objects apart.                *)

\* A phone with a serial never shows two objects with one size and time here.
FingerprintsIdentify ==
    \A o, p \in Objects :
        /\ Identity[o] \notin Serialless
        /\ Identity[o] = Identity[p]
        /\ Fingerprint[o] = Fingerprint[p]
        => o = p

\* What was replaced at the source path never lies there again.
NeverReturns ==
    \A o, p, q \in Objects :
        <<o, p>> \in Becomes =>
            /\ o # p
            /\ <<p, q>> \in Becomes => <<o, q>> \in Becomes

\* Edits that meet a run change the size, and do not meet a shrinking part too.
EditsShow ==
    /\ \A o, p, q \in Objects :
           <<o, p>> \in EditsInRun =>
               /\ Size(o) # Size(p)
               /\ <<p, q>> \in EditsInRun => <<o, q>> \in EditsInRun
    /\ Shrinks => EditsInRun = {}

OrderlyWorld == FingerprintsIdentify /\ NeverReturns /\ EditsShow
-----------------------------------------------------------------------------
VARIABLES
    source,    \* the object at the source path of the phone now connected
    final,     \* the file at its final name: {} or {its cells}
    part,      \* the cells of the .mtpx-part file
    sidecar,   \* the .mtpx-part.json file: {} or {the record it holds}
    tmp,       \* whether a replacement sidecar lies beside it
    pc,        \* the next step of the running copy, "idle" between copies
    job,       \* the planned object and the offset its copy starts from
    stream,    \* the object the open source stream reads and how far it got
    writer,    \* PartWriter: sidecar.bytes, checkpointed, resumable
    inFlight   \* cells counted by the writer that are not on disk yet

disk == <<final, part, sidecar, tmp>>
run  == <<job, stream, writer, inFlight>>
vars == <<source, disk, pc, run>>
-----------------------------------------------------------------------------
Cell == [object : Objects, at : Nat]
CellOf(o, i) == [object |-> o, at |-> i]
Cells(o, from, to) == [i \in 1..(to - from) |-> CellOf(o, from + i)]
Whole(o) == Cells(o, 0, Size(o))

Sidecars ==
    [identity : {Identity[o] : o \in Objects},
     fingerprint : {Fingerprint[o] : o \in Objects},
     bytes : Nat]

Record(o, bytes) ==
    [identity |-> Identity[o], fingerprint |-> Fingerprint[o], bytes |-> bytes]

Matches(r, o) == r.fingerprint = Fingerprint[o]

\* Slip: phones without a serial are taken for one.
IsValidForSerialless(r, o) ==
    /\ r.identity = Identity[o]
    /\ Len(part) >= r.bytes

IsValidFor(r, o) ==
    /\ Identity[o] \notin Serialless
    /\ r.identity = Identity[o]
    /\ Len(part) >= r.bytes

\* What the planner lets a copy of o skip: the scan's partial, if it matches.
Resumable(o) ==
    {r \in sidecar : IsValidFor(r, o) /\ Matches(r, o) /\ r.bytes <= Size(o)}
PlannedOffset(o) ==
    IF Resumable(o) = {} THEN 0 ELSE (CHOOSE r \in Resumable(o) : TRUE).bytes

EffectiveResume(requested) == IF Len(part) >= requested THEN requested ELSE 0

Smaller(m, n) == IF m <= n THEN m ELSE n
-----------------------------------------------------------------------------
NoJob    == [object |-> NoObject, offset |-> 0]
NoStream == [object |-> NoObject, next |-> 0]
NoWriter == [bytes |-> 0, checkpointed |-> 0, resumable |-> TRUE]

EndRun ==
    /\ pc' = "idle"
    /\ job' = NoJob
    /\ stream' = NoStream
    /\ writer' = NoWriter
    /\ inFlight' = <<>>

Init ==
    /\ source \in Objects
    /\ final \in {{}} \cup {{Whole(o)} : o \in Objects}
    /\ part = <<>>
    /\ sidecar = {}
    /\ tmp = FALSE
    /\ pc = "idle"
    /\ job = NoJob
    /\ stream = NoStream
    /\ writer = NoWriter
    /\ inFlight = <<>>
-----------------------------------------------------------------------------
(* The world around the program.                                           *)

\* Between runs the file is edited on the phone, or another phone is plugged in.
Replace(o) ==
    /\ pc = "idle"
    /\ <<source, o>> \in Becomes
    /\ source' = o
    /\ UNCHANGED <<disk, pc, run>>

\* The same phone's file is edited after the plan, before its stream is opened.
EditInRun(o) ==
    /\ pc \in {"settle", "read"}
    /\ <<source, o>> \in EditsInRun
    /\ source' = o
    /\ UNCHANGED <<disk, pc, run>>

\* The user clears the downloaded file away.
DeleteFinal ==
    /\ pc = "idle"
    /\ final # {}
    /\ final' = {}
    /\ UNCHANGED <<source, part, sidecar, tmp, pc, run>>

\* Someone else cuts the part short (or deletes it) while no writer has it open.
ShrinkPart(n) ==
    /\ Shrinks
    /\ pc \in {"idle", "settle", "read", "open", "staleTmp", "staleRecord", "openPart"}
    /\ n < Len(part)
    /\ part' = SubSeq(part, 1, n)
    /\ UNCHANGED <<source, final, sidecar, tmp, pc, run>>
-----------------------------------------------------------------------------
(* From the plan to an open part.                                          *)

\* Both scans and the plan, for a run that may overwrite: a missing final file
\* or one of another size is copied.  An identical one is skipped, and so is
\* every difference under the other conflict policies: nothing changes then.
PlanCopy ==
    /\ pc = "idle"
    /\ \A f \in final : Len(f) # Size(source)
    /\ job' = [object |-> source, offset |-> PlannedOffset(source)]
    /\ pc' = "settle"
    /\ UNCHANGED <<source, disk, stream, writer, inFlight>>

Settle ==
    /\ pc = "settle"
    /\ job' = [job EXCEPT !.offset = EffectiveResume(@)]
    /\ pc' = "read"
    /\ UNCHANGED <<source, disk, stream, writer, inFlight>>

OpenStream ==
    /\ pc = "read"
    /\ stream' = [object |-> source, next |-> job.offset]
    /\ pc' = "open"
    /\ UNCHANGED <<source, disk, job, writer, inFlight>>

\* The source vanished, the device failed, or the run was cancelled.
StreamRefused ==
    /\ pc = "read"
    /\ EndRun
    /\ UNCHANGED <<source, disk>>

\* Slip: the old record is left to vouch for the stale tail.
OpenWriterKeepsRecord ==
    /\ pc = "open"
    /\ LET bytes == EffectiveResume(job.offset) IN
         writer' = [bytes |-> bytes, checkpointed |-> bytes,
                    resumable |-> bytes = job.offset]
    /\ pc' = "openPart"
    /\ UNCHANGED <<source, disk, job, stream, inFlight>>

\* PartWriter::open up to its decision: a part that shrank since Settle makes
\* the write restart from zero under a stream already open at the offset.
OpenWriter ==
    /\ pc = "open"
    /\ LET bytes == EffectiveResume(job.offset) IN
         /\ writer' = [bytes |-> bytes, checkpointed |-> bytes,
                       resumable |-> bytes = job.offset]
         /\ pc' = IF bytes = job.offset THEN "openPart" ELSE "staleTmp"
    /\ UNCHANGED <<source, disk, job, stream, inFlight>>

\* Slips: the part is opened for appending, uncut; or always created anew.
OpenPartUncut ==
    /\ pc = "openPart"
    /\ pc' = "pump"
    /\ UNCHANGED <<source, disk, run>>
OpenPartAnew ==
    /\ pc = "openPart"
    /\ part' = <<>>
    /\ pc' = "pump"
    /\ UNCHANGED <<source, final, sidecar, tmp, run>>

\* open_part: create (truncating) at zero, otherwise re-check through the
\* handle, cut the unverified tail and append.
OpenPart ==
    /\ pc = "openPart"
    /\ IF Len(part) >= writer.bytes
       THEN /\ part' = SubSeq(part, 1, writer.bytes)
            /\ pc' = "pump"
            /\ UNCHANGED run
       ELSE /\ EndRun
            /\ UNCHANGED part
    /\ UNCHANGED <<source, final, sidecar, tmp>>
-----------------------------------------------------------------------------
(* PartWriter::pump.                                                       *)

\* Slip: a checkpoint is due only past the interval.
WriteChunkLate(n) ==
    /\ pc = "pump"
    /\ inFlight = <<>>
    /\ stream.next + n <= Size(stream.object)
    /\ inFlight' = Cells(stream.object, stream.next, stream.next + n)
    /\ stream' = [stream EXCEPT !.next = @ + n]
    /\ writer' = [writer EXCEPT !.bytes = @ + n]
    /\ pc' = IF writer.resumable
                /\ writer.bytes + n - writer.checkpointed > CheckpointCells
             THEN "checkpoint" ELSE "pump"
    /\ UNCHANGED <<source, disk, job>>

\* Every write is awaited until the previous one landed, so at most one chunk
\* is in flight; the count runs ahead of the disk by that chunk.
WriteChunk(n) ==
    /\ pc = "pump"
    /\ inFlight = <<>>
    /\ stream.next + n <= Size(stream.object)
    /\ inFlight' = Cells(stream.object, stream.next, stream.next + n)
    /\ stream' = [stream EXCEPT !.next = @ + n]
    /\ writer' = [writer EXCEPT !.bytes = @ + n]
    /\ pc' = IF writer.resumable
                /\ writer.bytes + n - writer.checkpointed >= CheckpointCells
             THEN "checkpoint" ELSE "pump"
    /\ UNCHANGED <<source, disk, job>>

\* The background write reaches the disk.
Land ==
    /\ inFlight # <<>>
    /\ part' = Append(part, Head(inFlight))
    /\ inFlight' = Tail(inFlight)
    /\ UNCHANGED <<source, final, sidecar, tmp, pc, job, stream, writer>>

\* It fails instead; the next write or flush reports it and the count falls
\* back to what landed.
WriteFails ==
    /\ Faults
    /\ inFlight # <<>>
    /\ inFlight' = <<>>
    /\ writer' = [writer EXCEPT !.bytes = Smaller(@, Len(part))]
    /\ pc' = "stop"
    /\ UNCHANGED <<source, disk, job, stream>>

\* The stream yields an error: the device failed or the run was cancelled, both
\* only while there is more to read (the pump looks at neither after the last).
StreamFails ==
    /\ pc = "pump"
    /\ inFlight = <<>>
    /\ stream.next < Size(stream.object)
    /\ writer' = [writer EXCEPT !.bytes = Smaller(@, Len(part))]
    /\ pc' = "stop"
    /\ UNCHANGED <<source, disk, job, stream, inFlight>>

\* Slips: the end of the stream is taken for the end of the file; or only what
\* was streamed is counted.
StreamEndsUnchecked ==
    /\ pc = "pump"
    /\ inFlight = <<>>
    /\ stream.next >= Size(stream.object)
    /\ writer' = [writer EXCEPT !.bytes = Smaller(@, Len(part))]
    /\ pc' = "sync"
    /\ UNCHANGED <<source, disk, job, stream, inFlight>>
StreamEndsUnresumed ==
    /\ pc = "pump"
    /\ inFlight = <<>>
    /\ stream.next >= Size(stream.object)
    /\ writer' = [writer EXCEPT !.bytes = Smaller(@, Len(part))]
    /\ pc' = IF writer'.bytes - job.offset = Size(job.object)
             THEN "sync" ELSE "stop"
    /\ UNCHANGED <<source, disk, job, stream, inFlight>>

\* The stream ends; any length but the planned size is a LengthMismatch.
StreamEnds ==
    /\ pc = "pump"
    /\ inFlight = <<>>
    /\ stream.next >= Size(stream.object)
    /\ writer' = [writer EXCEPT !.bytes = Smaller(@, Len(part))]
    /\ pc' = IF writer'.bytes = Size(job.object) THEN "sync" ELSE "stop"
    /\ UNCHANGED <<source, disk, job, stream, inFlight>>

\* write_sidecar, first half: after a flush, the replacement is written beside.
WriteTmp ==
    /\ pc \in {"checkpoint", "keep"}
    /\ inFlight = <<>>
    /\ tmp' = TRUE
    /\ pc' = IF pc = "checkpoint" THEN "checkpointRename" ELSE "keepRename"
    /\ UNCHANGED <<source, final, part, sidecar, run>>

\* write_sidecar, second half, at a checkpoint: the pump goes on.
Checkpoint ==
    /\ pc = "checkpointRename"
    /\ sidecar' = {Record(job.object, writer.bytes)}
    /\ tmp' = FALSE
    /\ writer' = [writer EXCEPT !.checkpointed = writer.bytes]
    /\ pc' = "pump"
    /\ UNCHANGED <<source, final, part, job, stream, inFlight>>
-----------------------------------------------------------------------------
(* PartWriter::stop and PartWriter::finish.                                *)

\* Slip: whatever stopped the copy, the part is dropped.
StopDiscards ==
    /\ pc = "stop"
    /\ pc' = "discard"
    /\ UNCHANGED <<source, disk, run>>

Stop ==
    /\ pc = "stop"
    /\ pc' = IF writer.resumable THEN "keep" ELSE "discard"
    /\ UNCHANGED <<source, disk, run>>

\* Slip: the new record is written beside the old one.
KeepPartialBeside ==
    /\ pc = "keepRename"
    /\ sidecar' = sidecar \cup {Record(job.object, writer.bytes)}
    /\ tmp' = FALSE
    /\ EndRun
    /\ UNCHANGED <<source, final, part>>

\* keep_partial: write_sidecar, then the error that stopped the copy.
KeepPartial ==
    /\ pc = "keepRename"
    /\ sidecar' = {Record(job.object, writer.bytes)}
    /\ tmp' = FALSE
    /\ EndRun
    /\ UNCHANGED <<source, final, part>>

\* remove_partial: the part, then the replacement, then the record.
DiscardPart ==
    /\ pc = "discard"
    /\ part' = <<>>
    /\ pc' = "discardTmp"
    /\ UNCHANGED <<source, final, sidecar, tmp, run>>

Sync ==
    /\ pc = "sync"
    /\ pc' = "rename"
    /\ UNCHANGED <<source, disk, run>>

\* Slip: the record outlives the part it describes.
PublishLeavesRecord ==
    /\ pc = "rename"
    /\ final' = {part}
    /\ part' = <<>>
    /\ EndRun
    /\ UNCHANGED <<source, sidecar, tmp>>

Publish ==
    /\ pc = "rename"
    /\ final' = {part}
    /\ part' = <<>>
    /\ pc' = "cleanTmp"
    /\ UNCHANGED <<source, sidecar, tmp, run>>

\* remove_sidecar, first half, wherever it is called.
RemoveTmp ==
    /\ pc \in {"staleTmp", "discardTmp", "cleanTmp"}
    /\ tmp' = FALSE
    /\ pc' = CASE pc = "staleTmp"   -> "staleRecord"
               [] pc = "discardTmp" -> "discardRecord"
               [] pc = "cleanTmp"   -> "cleanRecord"
    /\ UNCHANGED <<source, final, part, sidecar, run>>

\* remove_sidecar, second half; only a stale restart has more to do.
RemoveRecord ==
    /\ pc \in {"staleRecord", "discardRecord", "cleanRecord"}
    /\ sidecar' = {}
    /\ IF pc = "staleRecord"
       THEN pc' = "openPart" /\ UNCHANGED run
       ELSE EndRun
    /\ UNCHANGED <<source, final, part, tmp>>
-----------------------------------------------------------------------------
(* What may go wrong at any step.                                          *)

\* A file-system call fails: before the writer exists the copy just ends; at a
\* checkpoint it stops; while committing the full part is kept; and failures
\* of keep_partial, remove_partial and the last remove_sidecar are only logged.
LocalFault ==
    /\ Faults
    /\ inFlight = <<>>
    /\ \/ /\ pc \in {"settle", "open", "staleTmp", "staleRecord", "openPart",
                     "keep", "keepRename", "discard", "discardTmp",
                     "discardRecord", "cleanTmp", "cleanRecord"}
          /\ EndRun
       \/ /\ pc \in {"checkpoint", "checkpointRename"}
          /\ pc' = "stop"
          /\ UNCHANGED run
       \/ /\ pc \in {"sync", "rename"}
          /\ pc' = "keep"
          /\ UNCHANGED run
    \* a replacement that could not be written may be there in part
    /\ tmp' \in {tmp, tmp \/ pc \in {"checkpoint", "keep"}}
    /\ UNCHANGED <<source, final, part, sidecar>>

\* The process dies; only the files remain.
Kill ==
    /\ Kills
    /\ pc # "idle"
    /\ EndRun
    /\ UNCHANGED <<source, disk>>
-----------------------------------------------------------------------------
World ==
    \/ \E o \in Objects : Replace(o) \/ EditInRun(o)
    \/ DeleteFinal
    \/ \E n \in 0..Len(part) : ShrinkPart(n)

Progress ==
    \/ Settle
    \/ OpenStream
    \/ OpenWriter
    \/ OpenPart
    \/ \E n \in 1..ChunkCells : WriteChunk(n)
    \/ Land
    \/ StreamEnds
    \/ WriteTmp
    \/ Checkpoint
    \/ Stop
    \/ KeepPartial
    \/ DiscardPart
    \/ Sync
    \/ Publish
    \/ RemoveTmp
    \/ RemoveRecord

Failure ==
    \/ StreamRefused
    \/ StreamFails
    \/ WriteFails
    \/ LocalFault
    \/ Kill

Next == World \/ PlanCopy \/ Progress \/ Failure

Spec == Init /\ [][Next]_vars

\* A copy that was started goes on, and the user runs the program again.
FairSpec == Spec /\ WF_vars(Progress) /\ WF_vars(PlanCopy)
-----------------------------------------------------------------------------
(* Properties.                                                             *)

\* The disk and the process hold what the code's types allow, and there is never
\* more than one final file, part and record.
TypeOK ==
    /\ source \in Objects
    /\ \A f \in final : f \in Seq(Cell)
    /\ \A f, g \in final : f = g
    /\ part \in Seq(Cell)
    /\ sidecar \subseteq Sidecars
    /\ \A r, s \in sidecar : r = s
    /\ tmp \in BOOLEAN
    /\ pc \in {"idle", "settle", "read", "open", "staleTmp", "staleRecord",
               "openPart", "pump", "checkpoint", "checkpointRename", "stop",
               "keep", "keepRename", "discard", "discardTmp", "discardRecord",
               "sync", "rename", "cleanTmp", "cleanRecord"}
    /\ job \in [object : Objects \cup {NoObject}, offset : Nat]
    /\ stream \in [object : Objects \cup {NoObject}, next : Nat]
    /\ writer \in [bytes : Nat, checkpointed : Nat, resumable : BOOLEAN]
    /\ inFlight \in Seq(Cell)

\* A file under its final name is one object, whole: no run, however the ones
\* before it ended, joins the bytes of two objects or a hole (PartWriter, commit).
NeverSplices == \A f \in final : \E o \in Objects : f = Whole(o)

\* Between runs, what the next run would take over from the part is a prefix of
\* the object it would then continue (collect_partial and resume_offset trust it).
HonestResume ==
    pc = "idle" =>
        \A i \in 1..PlannedOffset(source) : part[i] = CellOf(source, i)

\* What a kill at any step of a writing run costs, on disk or on its way there: what
\* was read off the phone and the next run would not resume from.  A checkpoint is
\* due at the first chunk that reaches the interval, so while the pump takes chunks,
\* and while the whole part is committed, it is less than one interval; until the
\* replacement record is renamed (copy_chunks, checkpoint), and where a copy stops
\* before it was, it is that chunk more.  The object on its way must still be the
\* planned one, and the phone must report a serial.
LossBounded ==
    /\ pc \in {"pump", "checkpoint", "checkpointRename", "stop", "keep",
               "keepRename", "sync", "rename"}
    /\ stream.object = job.object
    /\ writer.resumable
    /\ Identity[job.object] \notin Serialless
    => LET lost == stream.next - PlannedOffset(job.object) IN
         /\ lost < CheckpointCells + ChunkCells
         /\ pc \in {"pump", "sync", "rename"} => lost < CheckpointCells

\* While the source stays the same, no step of a run, and no way of ending it,
\* short of publishing the file, takes back what a next run could resume from.
ProgressKept ==
    [][source' = source /\ final' = final
       => PlannedOffset(source)' >= PlannedOffset(source)]_vars

\* Where nothing was killed and no file-system call failed, a run leaves either
\* nothing beside the final file or a part that holds all its record counts.
Tidy ==
    pc = "idle" =>
        /\ ~tmp
        /\ sidecar = {} => part = <<>>
        /\ \A r \in sidecar : r.bytes <= Len(part)

\* The file-system protocol implements the one-step download of AtomicFile.
Atomic == INSTANCE AtomicFile WITH
              Content <- [o \in Objects |-> Whole(o)], planned <- job.object
ImplementsAtomicFile == Atomic!Spec

\* Once the world and the failures stop, a repeated run completes: the final
\* file has the size of the source, whatever was left behind before.  (A failure
\* that does just what the run was about to do anyway is none.)
CompletesWhenCalm ==
    <>[][~(World \/ (Failure /\ ~Progress))]_vars
    => <>[](\E f \in final : Len(f) = Size(source))

\* Cancelling or losing the stream again and again cannot make the program read
\* for ever: an orderly stop keeps every cell, so only finitely many are read.
\* (Of a phone without a serial nothing is resumed: there it can.)
Broken == (WriteFails \/ LocalFault \/ Kill) /\ ~(Progress \/ StreamRefused)
StopsAddUp ==
    /\ <>[][~(World \/ Broken)]_vars
    /\ <>[](Identity[source] \notin Serialless)
    => <>[][\A n \in 1..ChunkCells : ~WriteChunk(n)]_vars
=============================================================================
