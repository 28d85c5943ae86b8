------------------------------- MODULE Session -------------------------------
(***************************************************************************)
(* One command from its first call to its exit code: the device is opened  *)
(* (Opening), a storage chosen, both sides are scanned at once, a plan is  *)
(* announced and run, the renderer drains the events, the device is        *)
(* closed.  What the endpoints and the executor do in detail is in the     *)
(* modules named after them; here each ends in any way it may.             *)
(*                                                                         *)
(* The scan of the phone is part of the command's own task and ends with   *)
(* it.  The scan of the local folder is a blocking thread, which nobody    *)
(* stops and which holds a sender of the event channel until it is over.   *)
(***************************************************************************)
EXTENDS Opening, CancelToken

CONSTANTS
    Commands,      \* the commands the user may type: [does, dry, storage]
    StorageLists,  \* what the phone may expose: sequences of sets of names
    Files,         \* how many files a plan may copy
    Capacity       \* EVENTS_CAPACITY

ASSUME SessionAssumption ==
    /\ Commands \subseteq
        [does : {"ls", "transfer"}, dry : BOOLEAN, storage : {c.storage : c \in Commands}]
    /\ Files \subseteq Nat /\ Capacity \in Nat \ {0}

VARIABLES
    command,    \* the command line
    storages,   \* the storages of the open device
    asked,      \* whether the user was asked for one
    step,       \* the call the command is in
    scans,      \* scans[side]: "idle", "start", "walk", "found", "done", "dropped"
    walker,     \* the thread of the local scan: "idle", "busy", "over"
    toDo,       \* the files the plan is still to copy
    copied, failedFiles,  \* of those copied, and those that failed
    outcome,    \* what the command came to: an error, "Done", "DryRun", or a report
    sender,     \* whether the command still holds its end of the channel
    queue,      \* the channel
    shown,      \* the events the renderer handled, progress aside
    drawing,    \* whether the renderer runs
    lines,      \* what was printed on the way out
    closed,     \* whether the device was closed
    code        \* the exit code, once there is one

Sides == {"source", "dest"}
work == <<scans, walker, toDo, copied, failedFiles>>
display == <<queue, shown, drawing>>
rest == <<sender, lines, closed, code>>
ownVars == <<command, storages, asked, step, work, outcome, rest, display>>
vars == <<openingVars, cancelled, ownVars>>

NoCode == 256

Init ==
    /\ OpeningInit /\ NotCancelled
    /\ command \in Commands
    /\ storages = <<>> /\ asked = FALSE
    /\ step = "open"
    /\ scans = [side \in Sides |-> "idle"] /\ walker = "idle"
    /\ toDo = 0 /\ copied = 0 /\ failedFiles = 0
    /\ outcome = "none" /\ sender = TRUE /\ queue = <<>> /\ shown = <<>> /\ drawing = TRUE
    /\ lines = {} /\ closed = TRUE /\ code = NoCode

Goto(s) == step' = s

\* The command returns to its caller, an error or not.  A command that has no
\* channel passes the two steps that wait for its end at once.
Return(o) == outcome' = o /\ Goto("drop")

Room == Len(queue) < Capacity

\* Slip: an event does not wait for room.
EmitAtOnce(event) == queue' = Append(queue, event) /\ UNCHANGED <<shown, drawing>>

\* send: waits for room.
Emit(event) == Room /\ queue' = Append(queue, event) /\ UNCHANGED <<shown, drawing>>

\* try_send: dropped when the channel is full.
TryEmit(event) ==
    /\ queue' = IF Room THEN Append(queue, event) ELSE queue
    /\ UNCHANGED <<shown, drawing>>
-----------------------------------------------------------------------------
(* The device and its storages.                                            *)

OpenDevice ==
    /\ step = "open" /\ (OpeningStep \/ Hotplug)
    /\ IF opening' = "opened"
       THEN /\ storages' \in StorageLists /\ closed' = FALSE /\ Goto("storage")
       ELSE UNCHANGED <<storages, closed, step>>
    /\ UNCHANGED <<cancelled, command, asked, work, outcome, sender, lines, code, display>>

OpenFails ==
    /\ step = "open" /\ \E e \in Refused : FailOpening /\ Return(e)
    /\ UNCHANGED <<cancelled, command, storages, asked, work, rest, display>>

\* select_storage: the storages a selector names; none, one, or too many.
Selected(storage) ==
    CASE storage.by = "default" -> DOMAIN storages
      [] storage.by = "index" -> {storage.value} \cap DOMAIN storages
      [] storage.by = "named" ->
            {i \in DOMAIN storages :
                /\ storage.value \in storages[i]
                /\ \A j \in 1..(i - 1) : storage.value \notin storages[j]}

StorageError(storage) ==
    IF storage.by # "default" THEN "StorageNotFound"
    ELSE IF storages = <<>> THEN "NoStorage" ELSE "StorageRequired"

NeedsChoice == command.storage.by = "default" /\ Len(storages) > 1

\* Device::endpoint: the storage, then the path on it.
SelectStorage ==
    /\ step = "storage" /\ Cardinality(Selected(command.storage)) = 1
    /\ Goto(IF command.does = "ls" THEN "list" ELSE "scan")
    /\ scans' = [side \in Sides |-> IF command.does = "ls" THEN "idle" ELSE "start"]
    /\ UNCHANGED <<openingVars, cancelled, command, storages, asked, walker, toDo, copied,
                   failedFiles, outcome, rest, display>>

\* What any call on an open phone may fail with, each with a variant of its own
\* or none ("Mtp"); and with the token's error, once it is set.
PhoneErrors == {"Disconnected", "NoDevice", "PermissionDenied", "ExclusiveAccess", "Mtp"}
IfCancelled == IF cancelled THEN {"Cancelled"} ELSE {}

NoSuchPath ==
    /\ step = "storage" /\ Cardinality(Selected(command.storage)) = 1
    /\ \E e \in {"RemotePathNotFound", "RemotePathUndescribed", "NotADirectory"}
                    \cup PhoneErrors \cup IfCancelled : Return(e)
    /\ UNCHANGED <<openingVars, cancelled, command, storages, asked, work, rest, display>>

\* with_storage: asked once, when the phone has several and a prompt is possible.
AskStorage ==
    /\ step = "storage" /\ NeedsChoice /\ mayAsk /\ ~asked
    /\ asked' = TRUE
    /\ \E i \in DOMAIN storages :
        command' = [command EXCEPT !.storage = [by |-> "index", value |-> i]]
    /\ UNCHANGED <<openingVars, cancelled, storages, step, work, outcome, rest, display>>

NoStorage ==
    /\ step = "storage" /\ Cardinality(Selected(command.storage)) # 1
    /\ \/ Return(StorageError(command.storage))
       \/ NeedsChoice /\ mayAsk /\ ~asked /\ Return("Cancelled")
    /\ UNCHANGED <<openingVars, cancelled, command, storages, asked, work, rest, display>>

\* ls: the listing or the scan of a folder, printed; stdout may refuse it.
ListFolder ==
    /\ step = "list"
    /\ \/ ~cancelled /\ Return("Done")
       \/ \E e \in PhoneErrors \cup {"Io"} \cup IfCancelled : Return(e)
    /\ UNCHANGED <<openingVars, cancelled, command, storages, asked, work, rest, display>>
-----------------------------------------------------------------------------
(* Both scans, polled by one task.                                         *)

EndScans(e) ==
    /\ scans' = [side \in Sides |-> "dropped"]
    /\ Return(e)

ScanStarts(side) ==
    /\ step = "scan" /\ scans[side] = "start"
    /\ Emit([type |-> "ScanStarted", side |-> side])
    /\ scans' = [scans EXCEPT ![side] = "walk"]
    /\ walker' = IF side = "dest" THEN "busy" ELSE walker
    /\ UNCHANGED <<openingVars, cancelled, command, storages, asked, step, toDo, copied,
                   failedFiles, outcome, rest>>

SourceFinds ==
    /\ step = "scan" /\ scans["source"] = "walk"
    /\ TryEmit([type |-> "ScanProgress", side |-> "source"])
    /\ scans' = [scans EXCEPT !["source"] = "found"]
    /\ UNCHANGED <<openingVars, cancelled, command, storages, asked, step, walker, toDo, copied,
                   failedFiles, outcome, rest>>

\* The thread reports whether or not anyone waits for it, and is over.
WalkerEnds ==
    /\ walker = "busy" /\ step # "exit"
    /\ walker' = "over"
    /\ scans' = IF scans["dest"] = "walk" THEN [scans EXCEPT !["dest"] = "found"] ELSE scans
    /\ \/ TryEmit([type |-> "ScanProgress", side |-> "dest"])
       \/ cancelled /\ UNCHANGED display
    /\ UNCHANGED <<openingVars, cancelled, command, storages, asked, step, toDo, copied,
                   failedFiles, outcome, rest>>

ScanEnds(side) ==
    /\ step = "scan" /\ scans[side] = "found"
    /\ Emit([type |-> "ScanFinished", side |-> side])
    /\ scans' = [scans EXCEPT ![side] = "done"]
    /\ UNCHANGED <<openingVars, cancelled, command, storages, asked, step, walker, toDo, copied,
                   failedFiles, outcome, rest>>

ScanErrors(side) ==
    (IF side = "source" THEN PhoneErrors ELSE {"LocalNotADirectory", "LocalIo"})
        \cup IfCancelled

\* try_join: the first error drops the other scan where it is.
ScanFails(side) ==
    /\ step = "scan" /\ scans[side] \in {"walk", "found"}
    /\ side = "source" \/ walker = "over"
    /\ \E e \in ScanErrors(side) : EndScans(e)
    /\ UNCHANGED <<openingVars, cancelled, command, storages, asked, walker, toDo, copied,
                   failedFiles, rest, display>>

\* Slip: the plan is made when the first of the two scans is in.
OneScanned == \E side \in Sides : scans[side] = "done"

BothScanned == \A side \in Sides : scans[side] = "done"

Conflicts ==
    /\ step = "scan" /\ BothScanned
    /\ Return("Conflicts")
    /\ UNCHANGED <<openingVars, cancelled, command, storages, asked, work, rest, display>>

\* planner::plan and announce, whatever the token says by now.
MakePlan ==
    /\ step = "scan" /\ BothScanned
    /\ toDo' \in Files
    /\ Emit([type |-> "PlanReady", side |-> "dest"])
    /\ Goto("run")
    /\ UNCHANGED <<openingVars, cancelled, command, storages, asked, scans, walker, copied,
                   failedFiles, outcome, rest>>

DryRun ==
    /\ step = "run" /\ command.dry
    /\ Return("DryRun")
    /\ UNCHANGED <<openingVars, cancelled, command, storages, asked, work, rest, display>>
-----------------------------------------------------------------------------
(* The run of the plan.                                                    *)

Runs == step = "run" /\ ~command.dry

CopyFile ==
    /\ Runs /\ toDo > 0 /\ ~cancelled
    /\ toDo' = toDo - 1
    /\ \/ copied' = copied + 1 /\ UNCHANGED failedFiles
       \/ failedFiles' = failedFiles + 1 /\ UNCHANGED copied
    /\ Emit([type |-> "File", side |-> "dest"])
    /\ UNCHANGED <<openingVars, cancelled, command, storages, asked, step, scans, walker,
                   outcome, rest>>

\* Slip: an interrupted run returns the token's error.
InterruptedAsError == Return("Cancelled")
ReturnInterrupted == Return("Interrupted")

\* Before an action, be it a copy or a skip, the token is looked at; a file in
\* flight stays to do.
RunInterrupted ==
    /\ Runs /\ cancelled
    /\ Emit([type |-> "Finished", side |-> "dest"])
    /\ ReturnInterrupted
    /\ UNCHANGED <<openingVars, cancelled, command, storages, asked, work, rest>>

RunEnds ==
    /\ Runs /\ toDo = 0
    /\ Emit([type |-> "Finished", side |-> "dest"])
    /\ Return("Transferred")
    /\ UNCHANGED <<openingVars, cancelled, command, storages, asked, work, rest>>

\* aborts_batch: the phone is gone, refuses us or was reset ("Mtp"), or the
\* local volume takes no more.  The first file may meet it as well as the last.
AbortErrors == PhoneErrors \cup {"LocalIo", "Io"}

RunAborts ==
    /\ Runs
    /\ Emit([type |-> "Aborted", side |-> "dest"])
    /\ \E e \in AbortErrors : Return(e)
    /\ UNCHANGED <<openingVars, cancelled, command, storages, asked, work, rest>>
-----------------------------------------------------------------------------
(* The way out.                                                            *)

\* Slip: the command waits for the renderer with its sender still in hand.
DropNothing == UNCHANGED sender

DropEvents == sender' = FALSE

Drop ==
    /\ step = "drop"
    /\ DropEvents
    /\ Goto("drain")
    /\ UNCHANGED <<openingVars, cancelled, command, storages, asked, work, outcome, lines,
                   closed, code, display>>

\* The plan of a dry run goes to stdout once the renderer is done; stdout may
\* refuse it.
PrintFails ==
    /\ step = "drain" /\ ~drawing /\ outcome = "DryRun"
    /\ outcome' = "Io"
    /\ UNCHANGED <<openingVars, cancelled, command, storages, asked, step, work, rest, display>>

CloseDevice == closed' = TRUE

Close ==
    /\ step = "drain" /\ ~drawing
    /\ CloseDevice
    /\ Goto("exit")
    /\ UNCHANGED <<openingVars, cancelled, command, storages, asked, work, outcome, sender,
                   lines, code, display>>

\* "InvalidPath" has a code, and nothing fails with it once the command line is
\* parsed, whose own errors end the program before all this.
CodeForError(e) ==
    CASE e \in {"NoDevice", "DeviceNotFound", "AmbiguousDevice", "DeviceUnresponsive",
                "Disconnected", "NoStorage"} -> 3
      [] e \in {"ExclusiveAccess", "PermissionDenied"} -> 4
      [] e \in {"RemotePathNotFound", "RemotePathUndescribed", "NotADirectory",
                "LocalNotADirectory", "StorageRequired", "StorageNotFound"} -> 5
      [] e = "Conflicts" -> 7
      [] e = "Cancelled" -> 130
      [] e = "InvalidPath" -> 2
      [] OTHER -> 1

\* Slip: failed files win over an interrupt.
CodeForFailures ==
    IF failedFiles > 0 THEN 6 ELSE IF outcome = "Interrupted" THEN 130 ELSE 0

\* An interrupt wins over failed files.
CodeForReport ==
    IF outcome = "Interrupted" THEN 130 ELSE IF failedFiles > 0 THEN 6 ELSE 0

\* What main prints of an error; an interrupt before the transfer is one plain line.
FailureText ==
    IF outcome # "Cancelled" THEN "diagnostic"
    ELSE IF command.does = "ls" THEN "Interrupted" ELSE "Interrupted before the transfer started"

Succeeded == outcome \in {"Done", "DryRun", "Transferred", "Interrupted"}

Exit ==
    /\ step = "exit" /\ code = NoCode
    /\ code' = IF outcome \in {"Done", "DryRun"} THEN 0
               ELSE IF Succeeded THEN CodeForReport ELSE CodeForError(outcome)
    /\ lines' = lines \cup IF Succeeded THEN {} ELSE {FailureText}
    /\ UNCHANGED <<openingVars, cancelled, command, storages, asked, step, work, outcome,
                   sender, closed, display>>
-----------------------------------------------------------------------------
(* The renderer and the user.                                              *)

\* The last line of a run, summary_line or aborted_line.
SummaryOf(event) ==
    IF event.type \in {"Finished", "Aborted"} THEN {event.type} ELSE {}

Render ==
    /\ drawing /\ queue # <<>>
    /\ queue' = Tail(queue)
    /\ shown' = IF Head(queue).type = "ScanProgress" THEN shown ELSE Append(shown, Head(queue))
    /\ lines' = lines \cup SummaryOf(Head(queue))
    /\ UNCHANGED <<openingVars, cancelled, command, storages, asked, step, work, outcome,
                   sender, closed, code, drawing>>

\* The channel is closed once nobody holds a sender: not the command, not a walk.
RendererEnds ==
    /\ drawing /\ queue = <<>> /\ ~sender /\ walker # "busy"
    /\ drawing' = FALSE
    /\ UNCHANGED <<openingVars, cancelled, command, storages, asked, step, work, outcome, rest,
                   queue, shown>>

CtrlC ==
    /\ step # "exit" /\ Interrupt
    /\ UNCHANGED <<openingVars, ownVars>>

\* The second one ends the process at once.
SecondCtrlC ==
    /\ cancelled /\ step # "exit"
    /\ code' = 130 /\ Goto("exit")
    /\ drawing' = FALSE /\ queue' = <<>>
    /\ lines' = {"killed"}
    /\ UNCHANGED <<openingVars, cancelled, command, storages, asked, work, outcome, sender,
                   closed, shown>>

MainStep ==
    \/ OpenDevice \/ OpenFails
    \/ SelectStorage \/ NoSuchPath \/ AskStorage \/ NoStorage \/ ListFolder
    \/ SourceFinds \/ \E side \in Sides : ScanStarts(side) \/ ScanEnds(side) \/ ScanFails(side)
    \/ Conflicts \/ MakePlan \/ DryRun
    \/ CopyFile \/ RunInterrupted \/ RunEnds \/ RunAborts
    \/ Drop \/ PrintFails \/ Close \/ Exit

RendererStep == Render \/ RendererEnds

Next == MainStep \/ WalkerEnds \/ RendererStep \/ CtrlC \/ SecondCtrlC

\* The command's task, the renderer's task and the walk's thread each go on
\* whenever they can, a prompt is answered; nobody has to press Ctrl-C.
Fairness == WF_vars(MainStep) /\ WF_vars(RendererStep) /\ WF_vars(WalkerEnds)

Spec == Init /\ [][Next]_vars /\ Fairness
-----------------------------------------------------------------------------
\* The command, its scans, the channel and the renderer hold what the code's types
\* allow, and the channel never more than its capacity.
TypeOK ==
    /\ opening \in {"list", "select", "prompt", "open", "load", "opened", "failed"}
    /\ step \in {"open", "storage", "list", "scan", "run", "drop", "drain", "exit"}
    /\ Len(queue) <= Capacity
    /\ copied + failedFiles + toDo \in Files \cup {0}
    /\ (step = "exit" => ~drawing) /\ (step \in {"storage", "scan", "run"} => opening = "opened")

Handled(type, side) == {i \in DOMAIN shown : shown[i] = [type |-> type, side |-> side]}
OfType(type) == {i \in DOMAIN shown : shown[i].type = type}

\* What an observer may rely on: each side's scan starts and ends once, also
\* when a storage was asked for in between; the plan is announced after both
\* ends and before any file; the terminal event comes last (ProgressEvent).
EventsKeepTheirOrder ==
    /\ \A side \in Sides : \A type \in {"ScanStarted", "ScanFinished"} :
        Cardinality(Handled(type, side)) <= 1
    /\ \A side \in Sides : \A i \in Handled("ScanFinished", side) :
        \E j \in Handled("ScanStarted", side) : j < i
    /\ \A i \in OfType("PlanReady") :
        \A side \in Sides : \E j \in Handled("ScanFinished", side) : j < i
    /\ \A i \in OfType("File") \cup OfType("Finished") \cup OfType("Aborted") :
        \E j \in OfType("PlanReady") : j < i
    /\ \A i \in OfType("Finished") \cup OfType("Aborted") : i = Len(shown)

\* A script can trust the exit code: 0 says that everything asked for was done,
\* 6 that the run went to its end, 2, 5 and 7 that nothing was touched.  3 and 4
\* say so of a run that did not print that it was aborted: a phone may leave, or
\* turn us away, after any file.  130 is the user's, and the user's interrupt is
\* never passed off as anything else (code_for_outcome, code_for_error).
ExitCodeTellsTheTruth ==
    /\ code = 0 /\ command.does = "transfer" /\ ~command.dry => toDo = 0 /\ failedFiles = 0
    /\ code = 6 => toDo = 0 /\ failedFiles > 0
    /\ code \in {2, 5, 7} => copied + failedFiles = 0
    /\ code \in {3, 4} /\ "Aborted" \notin lines => copied + failedFiles = 0
    /\ code = 130 => cancelled \/ (mayAsk /\ OfType("PlanReady") = {})
    /\ code # NoCode /\ (outcome \in {"Interrupted", "Cancelled"} \/ lines = {"killed"}) =>
        code = 130

\* Every way out says how it ended: main prints an error, the renderer printed
\* the summary, or, of an aborted run, both; "before the transfer started" is
\* never said of a run that moved files (failure_text, Renderer::finished).
ToldHowItEnded ==
    code # NoCode /\ lines # {"killed"} =>
        /\ lines = {} <=> outcome \in {"Done", "DryRun"}
        /\ {"Finished", "Aborted"} \cap lines # {} <=> OfType("PlanReady") # {} /\ ~command.dry
        /\ "Interrupted before the transfer started" \in lines =>
            OfType("PlanReady") = {} /\ copied + failedFiles = 0

\* The command ends, also when the error of one scan left the thread of the
\* other behind, with the channel full or the renderer slow; and a device that
\* was opened is closed by then, short of a second Ctrl-C (commands::run).  One
\* whose storages cannot be read is dropped without that, and counts as closed.
CommandEnds == <>(code # NoCode /\ (closed \/ lines = {"killed"}))
=============================================================================
