# A verification project for mtpx

mtpx copies files from an Android phone (MTP) to a local directory: `mtpx-core`
scans both sides, plans, and runs the plan; the `mtpx` command draws what
happens and turns Ctrl-C into a cancel. This directory holds TLA+ modules that
model it, the TLC configurations that check them on small instances, and
theorems about them that TLAPS checks for every instance.

Paths below are relative to `src/`; `core` stands for `crates/mtpx-core/src`,
`cli` for `crates/mtpx/src`.

## The system

| Component | Where | State it keeps | What is hard about it | Modules |
|---|---|---|---|---|
| Local destination file | `core/internal/local/mod.rs`, `core/internal/partial.rs` | the `.mtpx-part`, its record `.mtpx-part.json`, a replacement record, the final file; `PartWriter` in memory | a kill between any two file-system calls; background writes; files that change between a check and its use; records older than the part | `LocalResume` |
| Executor | `core/internal/executor.rs`, `core/event.rs` | position in the plan, retry count and backoff, the `Report` | cancel at any await; retries; errors that end one file or the batch; what the events promise | `Executor` |
| Download pump | `core/internal/mtp/mod.rs` | two spawned tasks, a channel of four windows, the cancel token | cancel racing the last window; dropped consumer; panic | `Pump` |
| Handle cache | `core/internal/mtp/resolver.rs` | path to handle | the device re-keys or loses objects at any time | `Resolver` |
| Device walk | `core/internal/mtp/scan.rs`, `open.rs` | a stack of folders | listings that fail, repeat names, contain themselves, or change | `DeviceWalk` |
| Planner | `core/planner.rs`, `plan.rs`, `options.rs` | the claims and the blocked folder, while it decides | names a destination folds together; blocked subtrees; conflict policies; two passes that must agree | `Planner` |
| Local scan | `core/internal/local/scan.rs`, `folding.rs` | none on disk | links, unreadable entries, records that do not line up, a guess at how the volume compares names | `LocalScan` |
| Device, storage | `core/device/mod.rs`, `core/discovery.rs`, `cli/commands/open.rs` | an open device | shared or missing serials; a bus that changes between the listing and its use | `Opening` |
| Pull session | `core/device/pull.rs` | a planned job | two scans at once; one failing while the other runs | `Session` |
| Command line | `cli/main.rs`, `commands/`, `exit.rs` | cancel token, interrupt flag, event channel | first and second Ctrl-C; prompts; exit codes; a blocking thread that outlives its caller | `Session` |
| Renderer | `cli/ui/progress.rs` | tallies | it is told of files by events alone, some of which are dropped | `Executor`, `Session` |
| Paths | `core/path/` | none | an order on which the planner relies | `RelPath` |

How they interact. The command opens a device, selects a storage and calls
`plan_pull`, which scans both sides at once and hands both snapshots, and the
partial downloads the local scan found, to the planner. `PullJob::run` gives
the plan to the executor, which calls the two endpoints: `resume_offset` on the
local one, `read` on the phone's (through the handle cache; the pump runs in
tasks of its own), then `write` on the local one, which pulls the stream. Every
component awaits the event channel the renderer drains. Cancellation is one
token that the executor, the pump and the scans poll.

The models follow these seams. Four groups compose modules that share state or
calls, and meet at contracts: what one group proves or checks of a component is
what the next one assumes of it.

| Group | Composes | Stands for the others |
|---|---|---|
| `LocalResume` | one destination file over many runs | the source is a stream that delivers, ends or fails anywhere (what `ByteStream` allows) |
| `Executor` | the executor, the channel, the renderer | `write` answers `Ok` only for the planned length (`LocalResume`) |
| `MtpEndpoint` | `Phone`, `DeviceWalk`, `Resolver`, `Pump` | the executor reads one path after the other |
| `Planning` | `LocalScan`, `Planner`, two runs | carrying out one action is one step (`Executor`, `LocalResume`) |
| `Session` | `Opening`, both scans, the run, the renderer, the user | a run copies, fails, is interrupted or aborts (`Batch`) |

What makes each correct:

* destination file: a final name never holds anything but one whole object; a
  resumed prefix belongs to the object it is resumed for; a kill costs less
  than a checkpoint interval, or that and a chunk while the checkpoint is made;
  leftovers never block a later run;
* executor: every action is accounted for exactly once; events agree with the
  report; a cancel ends the run at the action under way;
* pump: the consumer sees a prefix of the file in order, and a clean end only
  after the last window; a cancel or a dropped consumer ends the tasks;
* walk and handle cache: a scan yields a tree and hides nothing; a read reaches
  the object at the path, or fails; re-keying recovers;
* local scan and planner: every source entry has one fate; no two actions write
  one name; nothing lands below a folder that will not exist; a second run has
  nothing to do;
* session and command: the selected device is the one opened; no one waits for
  ever; events come in order; the exit code tells what happened.

The list of everything that is hard to test, at its line, is `hazards` in
`PROJECT.json`.

## Modules

| Module | What it is |
|---|---|
| `LocalResume` | one destination file across every run of the program |
| `AtomicFile` | what a destination file promises: downloads in one step |
| `MCLocalResume`, `MCLocalResumeOrderly` | objects, phones and edits for TLC; the second for instances on which the theorems' assumption holds (TLC evaluates it) |
| `LocalResumeProofs` | its inductive invariant and theorems |
| `Executor` | one run of a plan, its events, their channel and the renderer's tally |
| `Batch` | what a run promises: actions settled in order, once each |
| `MCExecutor` | small plans for TLC |
| `ExecutorProofs` | its inductive invariant, the refinement of `Batch`, the counts |
| `RendererProofs` | what the renderer is told: its invariant and theorems |
| `CancelToken` | the token the pump, the scans and the command share |
| `Phone` | what mtpx relies on of a phone: objects, handles, listings, changes (external) |
| `DeviceWalk` | opening a remote path and listing what lies beneath it |
| `Resolver` | the handle cache and a read through it |
| `Pump` | the download tasks, their channel and the consumer |
| `ByteStream` | what a stream promises its consumer |
| `MtpEndpoint` | the four of them together: a storage as the source of a transfer |
| `MCMtp` | a phone for TLC |
| `PumpProofs`, `MtpProofs` | theorems about the pump alone, and inside the endpoint |
| `EndpointProofs` | what the walk, the handle cache and a read promise on any phone: invariants and theorems |
| `RelPath` | paths, their order, and the two ways a volume compares them |
| `LocalScan` | the listing of the destination folder |
| `Planner` | the decision procedure, one step per source entry |
| `Planning` | a transfer seen from the destination: scan, plan, carry out, scan and plan again |
| `MCPlanning` | sources and volumes for TLC |
| `PlanningProofs` | what a listing and a plan promise on any two sides: invariants and theorems |
| `Opening` | listing the bus, choosing a device, opening it |
| `Session` | a whole command, from its first call to its exit code |
| `MCSession` | devices, commands and storages for TLC |
| `SessionProofs` | what an observer, a script and a user may rely on: invariants and theorems |

### LocalResume

State. The disk: `final`, `part`, `sidecar`, `tmp` (the replacement record of
`write_sidecar`). The process: `pc` names the file-system call the copy makes
next, `job` the object and offset of `Action::Copy`, `stream` the open source
stream, `writer` the fields of `PartWriter` (`sidecar.bytes`, `checkpointed`,
`resumable`), `inFlight` what tokio still writes in the background. The world:
`source`, the object at the source path of the phone that is plugged in.

A file is a sequence of cells, and a cell knows the object and position it was
read from. A cell stands for a run of bytes; `CheckpointCells` and `ChunkCells`
for 64 MiB and 4 MiB. An object is one version of one file on one phone.
`Identity` is what a record keeps of phone, storage and relative path,
`Fingerprint` of size and modified time: two objects may share either.

| Actions | Code |
|---|---|
| `PlanCopy` | both scans and `decide_file`: `collect_partial`, `is_valid_for`, `matches`, `resume_offset` |
| `Settle`, `OpenStream`, `StreamRefused` | `Executor::settle`, `read_with_retry` |
| `OpenWriter`, `RemoveTmp`, `RemoveRecord`, `OpenPart` | `PartWriter::open`, `remove_sidecar`, `open_part` |
| `WriteChunk`, `Land`, `WriteFails`, `StreamFails`, `StreamEnds` | `pump`, `copy_chunks`, `flush`, `landed`, `expect_length` |
| `WriteTmp`, `Checkpoint` | `checkpoint`, the two halves of `write_sidecar` |
| `Stop`, `KeepPartial`, `DiscardPart` | `stop`, `keep_partial`, `remove_partial` |
| `Sync`, `Publish` | `finish`, `commit` |
| `LocalFault`, `Kill` | every `?` on a file-system call; the second Ctrl-C or a crash |
| `Replace`, `EditInRun`, `DeleteFinal`, `ShrinkPart` | the world (external) |

What is abstracted. A part that is missing and one that is empty are the same
(`effective_resume` treats them alike). A retry inside `read_with_retry` is
not seen by the destination. A directory at the final path or a parent that
cannot be made is a `LocalFault` before the part is touched. A metadata call on
an open handle is taken to succeed in `landed`. The disk loses nothing when a
process dies: `docs/design.md:467` promises nothing for power loss, so neither
does the model.

### Executor

State. `plan`, `index`: the loop of `run`. `pc`: the call made next. `copy`: the
locals of one copy (retries done, the next backoff, slices to wait, the confirmed
offset, what has passed the stream). `report`: `Report`, a failed file being
named by its place in the plan. `cancelled`: the token. `outbox`: the event an
`emit` waits to send, if any; nothing else happens in the executor meanwhile.
`queue`, `receiving`: the channel. `seen`: the renderer's `Tally`, where the
overall bar stands and the numbers of the last line, with the history the
properties need.

| Actions | Code |
|---|---|
| `StepInterrupted`, `Mkdir`, `Skip`, `BeginCopy` | `run`, `step`, `mkdir`, `skip` |
| `Settle`, `ReadOpens`, `ReadFails`, `CopyLands`, `CopyFails`; `Fail` in them | `copy`, `settle`, `copy_one`, `fail` |
| `ReadStalls`, `BackOff`, `Retry` | `read_with_retry`, `report_and_back_off`, `back_off` |
| `Chunk` | `progress_stream`, as the destination pulls it |
| `Finish`, `Interrupt`, `FinishInterrupted`, `Abort` | `finish`, `interrupt`, `abort` |
| `Send` | `event::emit` |
| `Receive` | `Renderer::run`, `handle` and what it calls |
| `HangUp`, `Cancel` | a receiver that is dropped; the first Ctrl-C |

What is abstracted. An endpoint call answers with any outcome its contract
allows: an error of a class `aborts_batch` recognises, another, or `Cancelled`
if the call has the token (`read` and the stream) and the token is set; a `write`
answers `Ok` only when the planned length has passed, which is what
`LocalResume` models in full. Sizes are in chunks, the backoff in slices of
`CANCEL_POLL`. Time, error texts and what is printed for one file are left out.

### MtpEndpoint: Phone, DeviceWalk, Resolver, Pump

`Phone` is external: what mtpx relies on of mtp-rs, USB and Android. An object
has a name and lies in a folder; it is reached by a handle, which the phone may
replace at any time (`key` counts how often). A listing is the children of a
folder in any order, less those the phone refuses to describe.

| Module | State | Actions | Code |
|---|---|---|---|
| `Phone` | `alive`, `key` | `Rekey`, `Lose`, `Appear` | external |
| `DeviceWalk` | `scan` (the call the scan is in), `root`, `file`, `pending` (`walk`'s stack), `visited`, `entries`, `skipped` | `LocateSegment`, `Located` | `locate_root`, `find_child` |
| | | `BeginScan`, `WalkFolder`, `WalkDone` | `scan`, `walk`, `list_folder`, `classify` |
| | | `Revalidate`, `FindFile` | `pick_file`, `revalidate`, `find_file` |
| `Resolver` | `cache` (`HandleCache`), `reader` (the call the read is in), `attempt`, `level`, `target`, `failure` | `BeginRead`, `Resolve`, `DescendCached`, `DescendListed` | `resolve`, `listing_parent`, `child` |
| | | `Operate`, `Probe`, `ReadFailed` | `with_handle`, `recover`, `parent_is_stale` |
| `Pump` | `start`, `length`, `offset` (`WindowedDownload`); `pump`, `item`, `reporter` (the two tasks); `channel`; `consumer`, `reached` | `FetchWindow`, `FetchCancelled`, `FetchNothing`, `SendItem`, `SendRefused` | `pump` |
| | | `FetchPanics`, `Join`, `SendReport` | `report_pump_failure` |
| | | `Pull`, `PullEnd`, `DropStream`, `CloseStream` | the stream of `read` and who pulls it |
| `CancelToken` | `cancelled` | `Interrupt` | the token |

`since`, `known` and `snapshot` are histories: what happened since a scan or a
read began, what the cache knew then, and what the planner was told.

`MtpEndpoint` composes them. A finished walk primes the cache; a read resolves
its path, opens a download and hands it to the pump. A window is a unit, and a
call of the phone one step: between any two the phone may change.

### Planning: RelPath, LocalScan, Planner

A path is a sequence of names and a name a model value with a rank (the byte
order `RelPath` sorts by) and a folded form. A volume is a set of items; an
item is a file, a folder, a folder that cannot be listed (`"locked"`: no leave to
read it, or a `read_dir` that fails), something else, or a broken link; a name may
be unusable. The root is a folder, a locked one, a file, absent, or cannot be
looked at. A locked folder may hold anything and can be written to: the scan
reports it and goes on, and the plan takes what is in it for new (`Hidden`).

| Module | State | Actions | Code |
|---|---|---|---|
| `LocalScan` | `rootIs`, `volume`, `folds` (external: the disk); `walk`, `toVisit`, `found` | `StatRoot` | `scan`, `Walker::run` |
| | | `VisitUnlistable`, `VisitUnwanted`, `VisitEntry`, `VisitTransferFile`, `VisitUnreadable`, `WalkCancelled` | `walk`, `visit`, `record`, `skip`, `collect_partial` |
| | | `FinishWalk`, `HandOver`; `Probe`, `Twins` in the first | `folding::detect`, `probe`; the snapshot `plan_pull` takes |
| `Planner` | `phase`, `at`, `claims`, `blocked`, `mkdirs`, `files`, `conflicts`: the locals of `plan` | `BeginPlan`, `CollectConflict`, `EndCollect` | `plan`, `collect_conflicts` |
| | | `DecideBlocked`, `DecideCollision`, `DecideMkdir`, `DecideExists`, `DecideInTheWay`, `DecideOneFile`, `EndDecide` | `Decider`, `Claims`, `DestIndex`, `decide_dir`, `decide_file`, `resume_offset` |
| `Planning` | `round`, `ran`, `failed` | `Scan`, `Cancel`, `Begin`, `Plan` | `plan_pull` from the destination's side |
| | | `RunAction`, `RunAgain` | one action of a run, as `Executor::step` ends; the next run |

`RunAction` does to the volume what the next action of the plan does: it makes the
folders that are missing, those that are there keep the spelling they have, a
file lands in its own, and its sidecar and part are gone with it; a folder or
file that meets one of another kind fails, and so may any other action, for want
of space or of leave to write. What failed changes nothing: the folders and resume
files it may have made are left out. Once the plan is carried out the volume is
scanned and planned for again. `probe` asks whether two spellings are one file,
which links make true on a volume that tells them apart: of two such items
(`Twins`) it may answer either way.

### Session: Opening

| State | Actions | Code |
|---|---|---|
| `bus`, `hotplugs`; `selector`, `mayAsk`, `opening`, `listed`, `picked`, `chosen`, `opened` | `Hotplug` (external), `List`, `Select`, `AskWhich`, `PickDevice`, `OpenSession`, `Load`, `Refused` | `discovery`, `select_device`, `unique_serial`, `load`, `open_device` |
| `storages`, `asked` | `SelectStorage`, `NoSuchPath`, `AskStorage`, `NoStorage` | `select_storage`, `with_storage`, `pick_storage` |
| `scans`, `walker` | `ScanStarts`, `SourceFinds`, `WalkerEnds`, `ScanEnds`, `ScanErrors`, `ScanFails` | `plan_pull`, `try_join` of both scans, `spawn_blocking` |
| `toDo`, `copied`, `failedFiles`, `outcome` | `MakePlan`, `DryRun`, `CopyFile`, `RunInterrupted`, `RunEnds`, `RunAborts` | `announce`, `PullJob::run` |
| `sender`, `queue`, `shown`, `drawing` | `Render`, `RendererEnds`, `Drop` | `event::emit`, `Renderer::run` |
| `closed`, `lines`, `code` | `PrintFails`, `Close`, `Exit`, `CtrlC`, `SecondCtrlC` | `transfer::run`, `commands::run`, `exit.rs`, `main.rs` |

The scan of the phone is a future of the command's own task, so an error of the
other scan drops it. The local walk is a blocking thread (`walker`): nobody
stops it, and it holds a sender of the event channel until it is over.

Any call on an open phone may fail with any of `PhoneErrors`: those `From<MtpError>`
gives a variant of their own, and the rest (`"Mtp"`). A run aborts on `AbortErrors`,
after any number of files: a phone that is unplugged, claimed by somebody else or
that revokes its leave half-way through ends it with code 3 or 4, a device reset or
a full volume with code 1. So only 2, 5 and 7 say that nothing was touched; 3 and 4
say it of a run that printed no `Aborted` line. Such a run prints two lines, the
renderer's and the error. A dry run prints its plan after the renderer is done, and
an output that refuses it ends in code 1 (a closed pipe is no failure).

Definitions commented as slips are mistakes one could plausibly make in the
code next to them. Each property of each passing run is refuted when one of
them takes the place of the definition it follows (`mutants` in
`PROJECT.json`).

## Assumptions about the world

The code trusts size and modified time. Whether that is enough depends on the
world, and `OrderlyWorld` names what it takes of `LocalResume`:

* `FingerprintsIdentify`: two objects with one identity, of a phone that reports
  a serial, have different sizes or times;
* `NeverReturns`: what was replaced at the source path does not lie there again;
* `EditsShow`: an edit between the plan and the stream changes the size, and does
  not meet a part that somebody else shortens in the same world.

The other groups assume:

* `Phone`: a handle is never given to another object, objects are not renamed or
  moved, and while a stream runs the phone's changes show only as a window that
  fails (a window may fail at any time, so nothing is lost by letting the phone
  change only between streams). One scan or read meets one refusal or failed
  call at most: every path of the code that handles one is taken, and a read
  that fails at every attempt would say nothing. `RootStays` keeps the handle of
  the folder the user asked for; the run `rekeyedroot` drops it.
* `MtpEndpoint`: the tasks of a stream are over before the next read begins.
  The executor reads one path after the other, and drops a stream before it.
* `Planning`: nobody else changes the folder between its scan and the end of the
  run, nor what it lets us list. A volume holds one item of a name in a folder, and
  nothing below what is no folder (`IsVolume`); links to folders and items that come
  or go meanwhile are left out. What a locked folder holds is on record as an
  omission, and what the plan says of places beneath one is not asked for
  (`Hidden`). What two names a volume merges do is stated for a plan that knew how the
  volume compares names (`FoldingKnown`): without a single letter to flip in
  what it finds, the probe cannot know, and says exact. `SinglesFold` leaves a
  single-file pull to a folding volume out of `planning`; the run `othercase` has it.
* `Session`: the executor ends in one of the ways `Batch` allows.

## Runs

| Run | World | Shows |
|---|---|---|
| `forward` | `LocalResume`: six objects on four phones, in an order; kills, faults, shrinking parts; fairness | `TypeOK`, `HonestResume`, `ImplementsAtomicFile`, `CompletesWhenCalm`, `StopsAddUp` |
| `resized` | four objects; edits during a run that change the size; kills, faults | `LossBounded`, `ImplementsAtomicFile`, `ProgressKept` |
| `attended` | six objects in any order; nothing killed, disk works | `NeverSplices`, `Tidy` |
| `twophones` | two phones in turn, kills | `NeverSplices` fails |
| `batch` | `Executor`: four plans, any answers, one cancel at any moment, a receiver that may go away, fairness | `TypeOK`, `Accounted`, `EventsMatchReport`, `RendererFollows`, `CancelHonoured`, `ImplementsBatch`, `Ends` |
| `reads` | `MtpEndpoint`: a folder listed in itself, a name listed twice, two changes, one fault per scan or read, a cancel; fairness | `MtpTypeOK`, `FindsATree`, `NothingLost`, `OpensWhatWasAsked`, `RecoversFromRekey`, `PrefetchBounded`, `LandedIsNotCancelled`, `OneLossKeepsCache`, `ImplementsByteStream`, `EveryCallAnswers` |
| `rekeyedroot` | the same, one change, which may be to the root's handle | `RecoversFromRekey` fails |
| `planning` | `Planning`: 30 sources and 80 volumes, folding or not; resume files; odd items; folders and roots that cannot be listed; any action failing; every policy; two rounds | `TypeOK`, `ListingIsWhole`, `EveryEntryHasOneFate`, `EverythingHasAPlace`, `FailTouchesNothing`, `ResumesWhatWasVouched`, `SecondRunHasNothingToDo` |
| `othercase` | one file, by name, to a folding volume | `FailTouchesNothing` fails |
| `mountpoint` | two files, to a folding card mounted in a folder that does not fold | `NeverMergesSilently` fails |
| `session` | `Session`: five buses, four selectors, four commands, three lists of storages, any failure, up to two Ctrl-C; fairness | `TypeOK`, `OpensTheSelected`, `EventsKeepTheirOrder`, `ExitCodeTellsTheTruth`, `ToldHowItEnded`, `CommandEnds` |
| `picked` | the same, one command | `OpensThePicked` fails |

Bounds of the `LocalResume` runs. Files have 2, 4 or 6 cells, checkpoints fall
every 2 and chunks are up to 2 cells: a copy passes up to two checkpoints and
resumes at, between and past them. The number of runs, kills and faults is not
bounded: the state space is finite as it is. Objects are not symmetric (they
differ in fingerprint), so no symmetry is used.

Bounds of `batch`. Plans have up to three actions and between them every kind,
in several orders, with fresh, resumed and empty files: a failure, a retry, a
cancel and an abort can each fall before, in and after each. Two retries (the
code allows three) and backoffs of one and two slices pass through every branch
of the loop; a channel of two events (1024 in the command) is full most of the
time. What is proved holds for every plan, number of retries and capacity.

Bounds of `reads`. `MaxChanges` = 2: a path may go stale and its parent after
it, which takes all three attempts of a read. The phone has a folder, a folder
in it that also lists itself, and two files of one name, one listed twice:
paths of up to three names and every case of `classify` and `walk`. Three
windows and a channel of one (four in the code) let the producer block, finish
ahead of its consumer, and be cancelled before, between and after windows; the
bound of the channel is a constant of the proofs.

Bounds of `planning`. Sources have two names that differ by case, each absent, a
file of either size or a folder of up to two such files, or one name that has
resume files; volumes the same, and clutter: blocked folders, collisions of
files with files, files with folders and folders with folders, conflicts,
matches and partials all occur, and each in the spelling of the phone or the
other. Trees have two levels, which is where a blocked folder first has
something below it. Two rounds: the second scans what the first left.

Bounds of `session`. `MaxHotplugs` = 1: one change of the bus, between any two
calls. `Files` is 0 or 2 and the channel holds two events (1024 in the command),
so that every event but the first may have to wait, and a `try_send` finds no room.

Most configurations do not check for deadlock, because the system may stop: a
run returns, a plan is carried out, the program ends, a user stops asking.
`Ends`, `EveryCallAnswers` and `CommandEnds` say that nothing stops earlier.

Fairness. `forward`: `WF(Progress)`, as the copy runs on tokio, whose calls
return or fail, and one weak fairness suffices because the copy is sequential,
apart from the background write, during which only `Land` can go on;
`WF(PlanCopy)`, as the user runs the program again until there is nothing to
copy. Both properties are of the form "if failures stop for good". `batch`:
`WF(Run)`, as endpoint calls return; `WF(Receive)`, as the renderer only drains
the channel. `reads`: `WF` of the scan, of a read under way, of opening it, of
the pump's tasks, of a consumer that pulls; none for a panic, a dropped stream,
the phone or a new read. `session`: `WF` of the command's task, of the
renderer, of the walk's thread; a prompt is answered. Nobody has to press
Ctrl-C, cancel, hang up or replug in any of them.

## Findings

1. `twophones`. `PartWriter::open` removes an old record only if the offset
   shrank since planning (`core/internal/local/mod.rs:194`). A copy that starts
   at zero because the record is another phone's leaves it in place; until the
   first checkpoint it vouches, for the other phone, for bytes that are not its
   own. `CHANGELOG.md:27` and `docs/design.md:398` promise otherwise.
2. `rekeyedroot`. The handle of the folder the user asked for is taken at open
   and never looked up again (`core/internal/mtp/resolver.rs:93`): a rescan that
   re-keys that folder too makes every later read fail. `README.md:155`.
3. `othercase`. A single-file pull looks for its one name byte for byte
   (`core/internal/local/scan.rs:122`): on a volume that folds names it does not
   see the file of the other spelling and overwrites it, under the policy that
   refuses conflicts (`core/options.rs:31`).
4. `mountpoint`. The probe flips the case of the root's own name first
   (`core/internal/local/folding.rs:19`), which lies on the volume around a mount
   point: two files of the phone become one, in silence. `README.md:99`.
5. `picked`. The picker returns a position and the bus is listed again
   (`cli/commands/open.rs:21`): a device plugged in meanwhile shifts it.
   `core/discovery.rs:75` calls the index stable.

Smaller disagreements met while modelling, which no run is spent on:

* an edit of the same size between plan and stream is appended to the old prefix
  (`core/internal/executor.rs:175`; constant `SameSize` of `MCLocalResume`), and a
  restart from zero under a stream opened at an offset is caught by the length
  alone (`core/internal/local/mod.rs:112`): `EditsShow` excludes both;
* a folder that cannot be listed passes for an empty one (`core/internal/local/scan.rs:93`).
  What lies in it is new to the plan and the copy is renamed over it, where the
  folder can be written to, under the refusing policy too: `core/options.rs:6` says
  that it refuses "before anything is touched, listing every conflict", and line 31
  that "conflicts abort before any byte moves". `FailTouchesNothing` fails of it
  without its `~Hidden`. The same goes for the root, where the comment above
  `root_is_present` (line 75) says that an unreadable root is an error;
* `core/event.rs:157` says of an interrupted run that "the `remaining_files` copies
  were not attempted" and "never started"; the code (`core/internal/executor.rs:67`)
  and its tests count the copy in flight among them. `EventsMatchReport` states what
  the code does;
* a retry is announced before its backoff (`core/internal/executor.rs:226`) and a
  cancel during it stops it, where the comment at line 215 says that "the observer
  never sees a retry that cannot happen" and `core/event.rs:147` that another attempt
  follows;
* a copy that is cancelled or ends the batch is never followed by `FileFinished`
  or `FileFailed` (`core/event.rs:116` says one follows);
* the overall bar drops back after a file that failed part of the way
  (`cli/ui/progress.rs:45`);
* an object the phone refuses to describe gives one skipped entry each
  (`core/internal/mtp/scan.rs:44`), where `core/event.rs:44` speaks of one per
  incomplete folder;
* the notice of a Ctrl-C is not drawn while `PlanReady` waits in the channel.

## Proofs

Thirty-seven theorems, for every choice of the constants that meets the named
assumptions of the modules (`ConstantsAssumption` of `LocalResume` and of
`Executor`, `PumpAssumption`, `PhoneAssumption`, `DeviceWalkAssumption`,
`LocalScanAssumption`, `PlanningAssumption`, `OpeningAssumption`,
`SessionAssumption`), which TLC evaluates on every run. Six hypotheses stand in
the theorems that need them: an orderly world, `RootStays`, `FoldersStandOut`,
`PlainRoots`, `~SinglesFold` and `CaseKeepsOddNames`; two theorems also say which
of the disturbances that the constants switch (`Kills`, `Faults`, `Shrinks`) stay
away. All below. Every invariant a passing run checks is stated by a theorem.

`LocalResumeProofs`. `TypeCorrect`: `Spec => []TypeOK`, in any world. In an
orderly world, `SplicesNever`: `[]NeverSplices`; `ResumesHonestly`:
`[]HonestResume`; `Implements`: `ImplementsAtomicFile`. `NeverSplices` is not
inductive: that the file about to be renamed is whole follows from what its
prefix was when it was resumed, hence from what its record promised runs ago.
`IInv` says it in parts. `RecordPast` and `RecordHonest`: a record is about the
planned object or one that came before, and what it counts of the planned
object is in the part, until cells of another object are written, after which
(`NeverReturns`) no one will read it. `OffsetBacked`: an offset on its way to
the writer is that of such a record. `PartInv`, `PumpInv`: while the writer may
vouch for it, the part is that prefix followed by what the stream delivered.
`StaleInv`: a writer that may not vouch has no record beside it and is shorter
than the file by its offset, so the length check stops it. `WholeInv`: what
passes the length check is one object (`EditsShow` excludes the rest). The lemma
`Step` takes the actions one by one, and `EndedRun` covers every way a run ends.

`KillsCostLittle`: `[]LossBounded`, in any world: its invariant `CopyInv` is about
one copy, whatever changed on the phone or was killed before it. Its heart is
`VouchInv`: the last checkpoint of a copy, or the offset it began at, is what the
record on disk says. While the pump takes chunks less than an interval lies behind
it; the chunk that makes a checkpoint due is behind it too until the replacement
record is renamed, and stays so where the copy stops before that. Neither bound
can be lowered by a cell.
`OpenInv` carries the offset from the plan to the writer, which a part that
shrank in between must not reach (`JobFits`: such a writer vouches for nothing).
`RunsAreTidy`: `[]Tidy`, where nothing is killed, no file-system call fails and
nobody cuts a part, which are the constants of the run. `ProgressIsKept`:
`ProgressKept`, in an orderly world where nobody cuts a part, as in the run. A
record is replaced by one that counts more only because `TakenInv` holds: a copy
took over all that could be resumed from. It also says that the final file is
not the one under way, so publishing it never leaves `final` as it was.

`ExecutorProofs`. `BatchKept`: the executor implements `Batch`; `CancelStops`:
`CancelHonoured`; `CountsEveryAction`: `[]Counted`, the half of `Accounted` that
counts files; `ReportsAddUp`: `[]Accounted`. `RunInv` is types, `ControlInv`
(where the loop may be, and that only an interrupted run may return short of the
last action) and `FailedInv` (a failed action lies behind the loop, or is the one
that ended the run). Under it every step is a step of `Batch` or a stutter:
`FailBatch` and `AdvanceSettles` carry the argument. `CancelHonoured` needs that a
cancelled run, once past an action, cannot begin another
(`CancelledStaysStopping`). The bytes of a report lie between the sizes of two
sets of chunks, all of the landed files and those past what the files resumed
from. A sum would be a recursion the provers cannot unfold; a set grows by the
chunks of one file, whose number `ChunksOfOne` gives. `BytesInv` is that bound,
and `OffsetInv` what it rests on: a copy goes on from the plan's offset or from
the beginning, so a file that lands adds no less than its fresh chunks and no more
than all of them.

`RendererProofs`. `TypesHold`: `[]TypeOK`; `RendererIsFollowed`:
`[]RendererFollows`; `TotalsAgree`: `[]EventsMatchReport`. What the renderer
knows lags behind what the executor did by the events under way, so neither
side's state alone gives an invariant. `TellInv` bridges them: handled in
order, the queue and the outbox lead from the renderer's tally to one that is
`Told` everything, and each event fits the tally before it. A step of the
executor extends the bridge by one event or leaves it (`Speaks`, `Silent`), a
dropped progress event changes no part of a tally the executor relies on, and
the renderer takes the bridge's first piece (`LeadsOn`).

`PumpProofs`. `PrefetchIsBounded`: `[]PrefetchBounded`; `PumpImplements`:
`ImplementsByteStream`. `PumpInv` is types, what the two tasks may be in
together (`ReporterInv`), what is in the channel (`ChannelInv`: windows in order
up to `offset`, then at most one error, which is last), the order of
`start`, `reached` and `offset`, and that a cancel is never sent once every window was
fetched (`CancelInv`). `MtpProofs` shows that a step of the endpoint is a step of
the pump or leaves it alone, which lifts these to `MtpSpec`: `EndpointPrefetch`,
`EndpointLands`, `EndpointStreams`.

`SessionProofs`. `ObserversSeeTheOrder`: `[]EventsKeepTheirOrder`;
`CodesAreTrue`: `[]ExitCodeTellsTheTruth`; `UsersAreTold`: `[]ToldHowItEnded`;
`SessionTyped`: `[]TypeOK`; `SelectedIsOpened`: `[]OpensTheSelected`. What was
shown says too little about what may still come, so the invariant is about what
was `Said`: the events shown and those still in the channel, progress apart,
each allowed by all before it (`EventInv`). The state of the two scans and of
the command says which events are among them (`SaidInv`), which is why the next
one is allowed; the renderer moves an event from one half to the other and
changes nothing that was said (`Shown`). `WorkInv` ties the files to the
outcome, `PlaceInv` the code to both and the end of the renderer to an empty
channel, `StoryInv` the events to the outcome, and `LineInv` what was printed to
the events. `MovedInv` says that files move only once a plan was
announced, so that an error of a run that moved some can only be its abort; `UserInv`
that nothing ends as interrupted but by the user. A dry run moves no file: without that conjunct `WorkInv` is not
inductive. `SelectedIsOpened` rests on one assumption beyond those of the
instances, that two attached devices are never in one port
(`OpeningAssumption`); with it a listing that is still the bus leads back to the
one device, by its serial if that is unique, else by its port (`ReachesIt`).

`EndpointProofs`. The first five hold for any phone: any objects, names and listings,
an index that lists a thing twice or a folder in itself, any number of changes.
`EndpointTyped`: `[]MtpTypeOK`, with what the scan and the reader may be in
together (`TypedInv`). `WalkFindsATree`: `[]FindsATree`. A tree alone is not
inductive: `TreeInv` adds that a folder among the entries was visited, that no
two pending folders have one path, and that nothing below a pending folder is
known yet. `WalkLosesNothing`: `[]NothingLost`, under `RootStays` (a phone that
re-keys the root between opening and scanning it is finding 2). What is on
record is stated of finished folders alone, so `CoverInv` says that every folder
found is finished or pending, and that the handles of pending ones still name
them while the phone keeps still. `ReadsWhatWasAsked`: `[]OpensWhatWasAsked`.
`LiesInv` says of each handle that anything holds, in the stack, the entries, the
cache or the reader's hand, that its object lies at the path it is held for:
objects do not move and handles are not reused, so this is kept by every change
of the phone, while whether a handle still names its object is not.
`LossIsContained`: `OneLossKeepsCache`. `TargetInv` and `KnownInv` count: how many
changes of the phone it takes to be at each attempt of a read whose handle was
good when it began. A listing is turned into folders to visit in the order of
the listing; `NthIs` is the lemma that the n-th of a set of places exists, and
is alone.

The sixth, `ReadsRecover`: `[]RecoversFromRekey`, is about what a re-keying does to
a read, and needs more of the phone than the others. `RootStays`, as above: below a
root that is gone nothing is found again. `FoldersStandOut`: a folder shares its
name with nothing beside it. Were there two of one name, a listing in another
order would put the other one first, and a path that leads through the one the
walk saw would be looked for in the other; Android's file systems have no such
folders, though MTP allows them. `PlainRoots`: the root asked for does not have
the name of a file of a transfer in progress, which no listing the program makes
would show again. TLC evaluates the last two for the run's phone. Three invariants
lead there, on top of the five. `PlainInv`: no path the walk found has such a
name. `AboveInv`: no file lies beneath another, and while one is cached so are the
folders above it, so a read that descends always has the folder's handle to list.
`RecoverInv` is about a read since which nothing came but a re-keying, one if it
began with a good handle and none otherwise. What its second attempt finds for the
path is good, since the first one forgot the path; where the folder above it is
probed, that one is stale or the path is not there; by the third attempt, which
forgot everything, every handle in the cache is good. So only a path that is not
there is given up.

`PlanningProofs`. `PlanningTyped`: `[]TypeOK`; `ListingsAreWhole`:
`[]ListingIsWhole`; `OneFateEach`: `[]EveryEntryHasOneFate`;
`ResumesOnVouchedBytes`: `[]ResumesWhatWasVouched`; `PlansHavePlaces`:
`[]EverythingHasAPlace`; `FailOverwritesNothing`: `[]FailTouchesNothing`;
`SecondRunRests`: `[]SecondRunHasNothingToDo`. They hold for all sources that are
trees (which `WalkFindsATree` proves of the scan) and all volumes that `IsVolume`
allows, with folders that cannot be listed and hold anything. `ListInv` says that everything on the volume is listed, reported, below
something that was, or still to be visited. `PartialsInv` leads from a resumed
copy back to a record on the volume. `FatesInv` divides the source at `at`: what
lies behind has one fate, what lies ahead has none. `PlaceInv` has three parts.
`ClaimInv`: the claims are the folded names of what the plan makes, so that two of
them can meet only as folders; `HouseInv`: what is made has a folder that is made
before or exists; `BlockInv`: a folder that is neither is blocked until its last
entry, which is where the order of `RelPath` (a folder's entries follow it without
a gap) is needed, and proved (`RelPath` is compared by rank, segment by segment).
`FailInv` says that the two passes see the same conflicts. Two hypotheses:
`~SinglesFold`, as one name looked up byte for byte on a folding volume is finding
3; and `CaseKeepsOddNames`: whether a name is one the transfer reserves does not
depend on its case. The code compares the suffix byte for byte, so to a folding
volume the phone's `A.MTPX-PART`, an ordinary name, would land on a part file
`a.mtpx-part` that no listing shows; the theorems leave such names out, and
`MCPlanning` states the hypothesis for TLC to evaluate.

`SecondRunRests` relates two plans and the volume between them. Neither plan is
kept, so `AgainInv` keeps two sets of entries instead: `G`, those that got their
name, and `R`, the folders that were refused. `Fates` says what they are of the
source and the volume alone, entry by entry (`Fair`: an entry is in `G` unless it
lies beneath a refused folder or its name is taken by one of `G` before it), and
`Fit` that the planner's claims and its blocked folder say the same. While the
first plan is made (`Deciding`) each entry of `G` but not of `R` has its place on
the volume (`Placed`) or an action to give it one; while it is carried out
(`Running`) it has the place or the action is still to come; afterwards
(`Settled`) all are placed. What makes this hold step by step are lemmas about the
operators: a file that is put removes nothing but its own part and record
(`FileLands`), these are in the place of no other entry (`Undisturbed`), and two
entries of one name are both folders (`OneOfAName`), so no action undoes what
another did, and the refused folders still have a file in the way. Then the
second plan decides from the same two sets (`SettledStep`): what is placed is
skipped or exists, what is not in `G` collides or is blocked again, and where
conflicts are looked for first there are none (`CollectsNone`). The last needs that
folders are listed with size 0 by both sides (`entry_from` on the phone's), for
the code compares the sizes of folders too; `IsSource` says so.

Only model-checked: what is liveness under fairness (`CompletesWhenCalm`,
`StopsAddUp`, `Ends`, `EveryCallAnswers`, `CommandEnds`), which is out of the
provers' reach.

## Plan

Modelled and checked: everything the table of components lists. Proved: every
invariant, action property and refinement of the passing runs. Left: the liveness
properties beyond the bounds of the runs, which needs another prover, and the three
hazards of `PROJECT.json` no property covers.

## Not modelled

* Text: formatting, tables, bars and their theme, diagnostics, `display.rs`
  (sanitising names), the three hints after a run, the wording of errors.
* Parsing without state: flags, which text is a valid path segment, storage
  prefixes, dates (`ModifiedTime`'s conversions).
* `mtpx devices`, which prints a listing; the virtual device of the test
  feature.
* The byte totals of `PlanSummary`: sums that are only printed.
* The inside of mtp-rs, USB and Android: `Phone` is what mtpx relies on of them.

Of about 12,500 lines of Rust, some 5,400 are not tests. The map names some 2,400
of them: the ones with state, a decision or an order to them. The others are
the text above, declarations of types and their derived or `Display`
implementations, command-line declarations and re-exports, which have no
behaviour a model could get wrong.
