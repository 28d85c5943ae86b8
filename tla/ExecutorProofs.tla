--------------------------- MODULE ExecutorProofs ---------------------------
(***************************************************************************)
(* What a run guarantees for every plan, every number of retries, every    *)
(* capacity of the channel and whatever the endpoints answer: where the    *)
(* loop may be, that the executor implements Batch, what a cancel stops    *)
(* and how actions are counted.  RendererProofs builds on it.              *)
(***************************************************************************)
EXTENDS Executor, SequenceTheorems, FiniteSetTheorems, TLAPS

Steps == {"step", "settle", "read", "backOff", "write", "interrupt", "finish", "abort",
          "ok", "error"}
CopySteps == {"settle", "read", "backOff", "write"}

\* What the executor alone keeps, without its events.
StateTypes ==
    /\ plan \in Plans
    /\ index \in 1..Len(plan) + 1
    /\ pc \in Steps
    /\ copy \in [retries : 0..MaxReadRetries, backoff : Nat, wait : Nat, offset : Nat,
                 position : Nat]
    /\ report \in Reports
    /\ cancelled \in BOOLEAN

\* Where the loop may be, and what it is in the middle of.
ControlInv ==
    /\ pc \notin {"step", "ok"} => index <= Len(plan)
    /\ pc \in CopySteps => Action.kind = "copy"
    /\ pc \in CopySteps \ {"settle"} => copy.offset <= Action.size
    /\ pc = "ok" /\ ~report.interrupted => index = Len(plan) + 1
    /\ report.interrupted => pc \in {"finish", "ok"}
    /\ pc = "finish" => report.interrupted

\* A failed action is behind the loop, or it is the one that ended the run.
FailedInv ==
    /\ Failed \subseteq Before \cup IF pc \in {"abort", "error"} THEN {index} ELSE {}
    /\ pc \in {"abort", "error"} => index \in Failed
    /\ \A i \in Failed : plan[i].kind # "skip"

RunInv == StateTypes /\ ControlInv /\ FailedInv

\* A plan is a sequence of actions whose offsets lie in their files.
LEMMA PlanFacts ==
    ASSUME plan \in Plans
    PROVE  /\ plan \in Seq(Actions) /\ Len(plan) \in Nat
           /\ \A i \in 1..Len(plan) : plan[i] \in Actions /\ plan[i].from <= plan[i].size
<1>1. plan \in Seq(Actions) /\ \A i \in 1..Len(plan) : plan[i].from <= plan[i].size
  BY ConstantsAssumption
<1>2. Len(plan) \in Nat /\ \A i \in 1..Len(plan) : plan[i] \in Actions
  BY <1>1, ElementOfSeq, LenProperties
<1> QED
  BY <1>1, <1>2

\* One more failed file.
LEMMA OneMoreFailed ==
    ASSUME report \in Reports, index \in Nat,
           report' = [report EXCEPT !.failed = Append(@, index)]
    PROVE  /\ report' \in Reports
           /\ Failed' = Failed \cup {index}
           /\ Len(report'.failed) = Len(report.failed) + 1
           /\ UNCHANGED <<report.copied, report.bytes, report.skipped, report.interrupted>>
<1>1. /\ report.failed \in Seq(Nat) /\ report'.failed = Append(report.failed, index)
      /\ report' = [report EXCEPT !.failed = Append(report.failed, index)]
  BY DEF Reports
<1>2. /\ report'.failed \in Seq(Nat) /\ Len(report'.failed) = Len(report.failed) + 1
      /\ \A k \in 1..Len(report.failed) : report'.failed[k] = report.failed[k]
      /\ report'.failed[Len(report.failed) + 1] = index
  BY <1>1, AppendProperties
<1>3. Len(report.failed) \in Nat
  BY <1>1, LenProperties
<1>4. Failed' = Failed \cup {index}
  BY <1>2, <1>3 DEF Failed
<1>5. report' \in Reports
  BY <1>1, <1>2 DEF Reports
<1> QED
  BY <1>1, <1>2, <1>4, <1>5 DEF Reports

\* One more action skipped, one more file copied.
LEMMA OneMoreCounted ==
    ASSUME report \in Reports, NEW n \in Nat,
           \/ report' = [report EXCEPT !.skipped = @ + 1]
           \/ report' = [report EXCEPT !.copied = @ + 1, !.bytes = @ + n]
    PROVE  /\ report' \in Reports
           /\ report'.failed = report.failed /\ report'.interrupted = report.interrupted
<1>1. CASE report' = [report EXCEPT !.skipped = @ + 1]
  <2>1. report.skipped + 1 \in Nat
    BY DEF Reports
  <2> QED
    BY <1>1, <2>1 DEF Reports
<1>2. CASE report' = [report EXCEPT !.copied = @ + 1, !.bytes = @ + n]
  <2>1. report.copied + 1 \in Nat /\ report.bytes + n \in Nat
    BY DEF Reports
  <2> QED
    BY <1>2, <2>1 DEF Reports
<1> QED
  BY <1>1, <1>2

LEMMA InitRun == Init => RunInv
<1> SUFFICES ASSUME Init PROVE RunInv
  OBVIOUS
<1> USE DEF Init, EmptyReport, NoCopy
<1>1. Len(plan) \in Nat
  BY PlanFacts
<1>2. StateTypes
  <2>1. <<>> \in Seq(Nat)
    BY EmptySeq
  <2>2. report \in Reports
    BY <2>1 DEF Reports
  <2>3. cancelled \in BOOLEAN
    BY Zenon
  <2>4. copy \in [retries : 0..MaxReadRetries, backoff : Nat, wait : Nat, offset : Nat,
                 position : Nat]
    BY ConstantsAssumption
  <2> QED
    BY <1>1, <2>2, <2>3, <2>4 DEF StateTypes, Steps
<1>3. ControlInv
  BY DEF ControlInv, CopySteps
<1>4. Failed = {}
  <2>1. Len(report.failed) = 0
    BY EmptySeq
  <2> QED
    BY <2>1 DEF Failed
<1>5. FailedInv
  BY <1>4 DEF FailedInv
<1> QED
  BY <1>2, <1>3, <1>5 DEF RunInv

\* Fail: an interrupt, an abort, or a failed file and on to the next action.
LEMMA FailKeepsRun ==
    ASSUME RunInv, NEW error \in {"cancelled", "fatal", "plain"}, Fail(error),
           pc \in {"step"} \cup CopySteps, index <= Len(plan), Action.kind # "skip",
           UNCHANGED <<plan, cancelled>>
    PROVE  RunInv'
<1> USE DEF RunInv, StateTypes, Steps
<1>0. Len(plan) \in Nat /\ index \in Nat
  BY PlanFacts
<1>1. CASE Interrupting
  <2> USE <1>1 DEF Interrupting
  <2>1. StateTypes' /\ Failed' = Failed /\ Before' = Before
    BY DEF Failed, Before
  <2>2. ControlInv'
    BY DEF ControlInv, CopySteps
  <2>3. FailedInv'
    BY <2>1 DEF FailedInv, CopySteps
  <2> QED
    BY <2>1, <2>2, <2>3
<1>2. ASSUME report' = [report EXCEPT !.failed = Append(@, index)],
             pc' = "abort", UNCHANGED <<index, copy>>
      PROVE  RunInv'
  <2>1. report' \in Reports /\ Failed' = Failed \cup {index}
        /\ report'.interrupted = report.interrupted
    BY <1>0, <1>2, OneMoreFailed
  <2>2. StateTypes'
    BY <1>2, <2>1
  <2>3. ControlInv'
    BY <1>2, <2>1 DEF ControlInv, CopySteps
  <2>4. FailedInv'
    BY <1>0, <1>2, <2>1 DEF FailedInv, Before, CopySteps, Action
  <2> QED
    BY <2>2, <2>3, <2>4
<1>3. ASSUME report' = [report EXCEPT !.failed = Append(@, index)], Advance
      PROVE  RunInv'
  <2> USE <1>3 DEF Advance, NoCopy
  <2>1. report' \in Reports /\ Failed' = Failed \cup {index}
        /\ report'.interrupted = report.interrupted
    BY <1>0, OneMoreFailed
  <2>2. StateTypes'
    BY <1>0, <2>1, ConstantsAssumption
  <2>3. ControlInv'
    BY <2>1 DEF ControlInv, CopySteps
  <2>4. FailedInv'
    BY <1>0, <2>1 DEF FailedInv, Before, CopySteps, Action
  <2> QED
    BY <2>2, <2>3, <2>4
<1> QED
  BY <1>1, <1>2, <1>3 DEF Fail

\* The steps of the loop.
LEMMA LoopStep ==
    ASSUME RunInv, \/ StepInterrupted \/ Mkdir \/ Skip \/ BeginCopy \/ Finish
                   \/ Interrupt \/ FinishInterrupted \/ Abort
    PROVE  RunInv'
<1> USE DEF At, Begins
<1>0. Len(plan) \in Nat /\ index \in Nat
  BY PlanFacts DEF RunInv, StateTypes
<1>1. CASE Mkdir
  <2>1. CASE \E error \in Faults : Fail(error)
    BY <1>1, <2>1, FailKeepsRun DEF Mkdir, Faults
  <2>2. CASE Advance /\ UNCHANGED <<report, outbox>>
    <3> USE <1>1, <2>2 DEF Mkdir, Advance, NoCopy
    <3>1. StateTypes'
      BY <1>0, ConstantsAssumption DEF RunInv, StateTypes, Steps
    <3>2. Failed' = Failed
      BY DEF Failed
    <3>3. ControlInv'
      BY <1>0 DEF RunInv, StateTypes, ControlInv, CopySteps
    <3>4. FailedInv'
      BY <1>0, <3>2 DEF RunInv, FailedInv, Before
    <3> QED
      BY <3>1, <3>3, <3>4 DEF RunInv
  <2> QED
    BY <1>1, <2>1, <2>2 DEF Mkdir
<1>2. CASE Skip
  <2> USE <1>2 DEF Skip, Advance, NoCopy
  <2>1. report' \in Reports /\ UNCHANGED <<report.failed, report.interrupted>>
    BY OneMoreCounted DEF RunInv, StateTypes
  <2>2. StateTypes'
    BY <1>0, <2>1, ConstantsAssumption DEF RunInv, StateTypes, Steps
  <2>3. Failed' = Failed
    BY <2>1 DEF Failed
  <2>4. ControlInv' /\ FailedInv'
    BY <1>0, <2>1, <2>3 DEF RunInv, ControlInv, FailedInv, Before, CopySteps
  <2> QED
    BY <2>2, <2>4 DEF RunInv
<1>3. CASE StepInterrupted \/ BeginCopy \/ Finish \/ FinishInterrupted \/ Abort
  <2> USE <1>3 DEF StepInterrupted, Interrupting, BeginCopy, Finish, FinishInterrupted, Abort
  <2>1. StateTypes'
    BY DEF RunInv, StateTypes, Steps
  <2>2. Failed' = Failed
    BY DEF Failed
  <2>3. ControlInv'
    BY <1>0 DEF RunInv, StateTypes, ControlInv, CopySteps, Action
  <2>4. FailedInv'
    BY <1>0, <2>2 DEF RunInv, FailedInv, Before
  <2> QED
    BY <2>1, <2>3, <2>4 DEF RunInv
<1>4. CASE Interrupt
  <2> USE <1>4 DEF Interrupt
  <2>1. report' \in Reports /\ report'.failed = report.failed /\ report'.interrupted = TRUE
    BY DEF RunInv, StateTypes, Reports
  <2>2. StateTypes' /\ Failed' = Failed
    BY <2>1 DEF RunInv, StateTypes, Steps, Failed
  <2>3. ControlInv' /\ FailedInv'
    BY <2>1, <2>2 DEF RunInv, ControlInv, FailedInv, Before, CopySteps
  <2> QED
    BY <2>2, <2>3 DEF RunInv
<1> QED
  BY <1>1, <1>2, <1>3, <1>4

\* The steps of one copy.
LEMMA CopyStep ==
    ASSUME RunInv, \/ Settle \/ ReadOpens \/ ReadStalls \/ ReadFails \/ BackOff \/ Retry
                   \/ Chunk \/ CopyLands \/ CopyFails
    PROVE  RunInv'
<1> USE DEF At
<1>0. /\ Len(plan) \in Nat /\ index \in Nat
      /\ pc \in CopySteps => /\ index \in 1..Len(plan) /\ Action \in Actions
                            /\ Action.kind = "copy" /\ Action.from <= Action.size
  BY PlanFacts DEF RunInv, StateTypes, ControlInv, CopySteps, Action
<1>1. ASSUME NEW error \in {"cancelled", "fatal", "plain"}, Fail(error), pc \in CopySteps,
             UNCHANGED <<plan, cancelled>>
      PROVE  RunInv'
  BY <1>0, <1>1, FailKeepsRun
<1>2. ASSUME pc \in CopySteps, pc' \in CopySteps, UNCHANGED <<plan, index, report, cancelled>>,
             copy' \in [retries : 0..MaxReadRetries, backoff : Nat, wait : Nat, offset : Nat,
                       position : Nat],
             pc' # "settle" => copy'.offset <= Action.size
      PROVE  RunInv'
  <2>1. StateTypes' /\ Failed' = Failed
    BY <1>2 DEF RunInv, StateTypes, Steps, CopySteps, Failed
  <2>2. ControlInv'
    BY <1>0, <1>2 DEF RunInv, ControlInv, CopySteps, Action
  <2>3. FailedInv'
    BY <1>2, <2>1 DEF RunInv, FailedInv, Before, CopySteps
  <2> QED
    BY <2>1, <2>2, <2>3 DEF RunInv
<1>3. CASE Settle
  <2>1. CASE \E error \in Faults : Fail(error)
    BY <1>1, <1>3, <2>1 DEF Settle, Faults, CopySteps
  <2>2. CASE \E offset \in {0, Action.from} :
               /\ copy' = [copy EXCEPT !.offset = offset, !.position = offset]
               /\ pc' = "read" /\ UNCHANGED <<index, report>>
    <3>1. PICK offset \in {0, Action.from} :
              copy' = [copy EXCEPT !.offset = offset, !.position = offset]
      BY <2>2
    <3>2. offset \in Nat /\ offset <= Action.size
      BY <1>0, <1>3 DEF Settle, CopySteps, Actions
    <3>3. /\ copy' \in [retries : 0..MaxReadRetries, backoff : Nat, wait : Nat, offset : Nat,
                        position : Nat]
          /\ copy'.offset = offset
      BY <3>1, <3>2 DEF RunInv, StateTypes
    <3> QED
      BY <1>2, <1>3, <2>2, <3>2, <3>3 DEF Settle, CopySteps
  <2> QED
    BY <1>3, <2>1, <2>2 DEF Settle
<1>4. CASE ReadOpens \/ Retry
  BY <1>2, <1>4 DEF ReadOpens, Retry, CopySteps, RunInv, StateTypes, ControlInv
<1>5. CASE ReadStalls
  <2>1. CASE Interrupting
    BY <1>1, <1>5, <2>1 DEF ReadStalls, Fail, CopySteps
  <2>2. CASE /\ copy' = [copy EXCEPT !.retries = @ + 1, !.wait = copy.backoff, !.backoff = 2 * @]
             /\ pc' = "backOff" /\ UNCHANGED <<index, report>>
    <3>1. /\ copy' \in [retries : 0..MaxReadRetries, backoff : Nat, wait : Nat, offset : Nat,
                        position : Nat]
          /\ copy'.offset = copy.offset
      <4>1. /\ copy.retries + 1 \in 0..MaxReadRetries /\ 2 * copy.backoff \in Nat
            /\ copy.backoff \in Nat
        BY <1>5, ConstantsAssumption DEF ReadStalls, RunInv, StateTypes
      <4> QED
        BY <2>2, <4>1 DEF RunInv, StateTypes
    <3> QED
      BY <1>2, <1>5, <2>2, <3>1 DEF ReadStalls, CopySteps, RunInv, ControlInv
  <2> QED
    BY <1>5, <2>1, <2>2 DEF ReadStalls
<1>6. CASE ReadFails \/ CopyFails
  BY <1>1, <1>6 DEF ReadFails, CopyFails, Errors, Faults, CopySteps
<1>7. CASE BackOff
  <2>1. CASE Interrupting
    BY <1>1, <1>7, <2>1 DEF BackOff, Fail, CopySteps
  <2>2. CASE copy' = [copy EXCEPT !.wait = @ - 1] /\ UNCHANGED <<index, pc, report>>
    <3>1. /\ copy' \in [retries : 0..MaxReadRetries, backoff : Nat, wait : Nat, offset : Nat,
                        position : Nat]
          /\ copy'.offset = copy.offset
      BY <1>7, <2>2 DEF BackOff, RunInv, StateTypes
    <3> QED
      BY <1>2, <1>7, <2>2, <3>1 DEF BackOff, CopySteps, RunInv, ControlInv
  <2> QED
    BY <1>7, <2>1, <2>2 DEF BackOff
<1>8. CASE Chunk
  <2>1. /\ copy' \in [retries : 0..MaxReadRetries, backoff : Nat, wait : Nat, offset : Nat,
                      position : Nat]
        /\ copy'.offset = copy.offset
    BY <1>8 DEF Chunk, RunInv, StateTypes
  <2> QED
    BY <1>2, <1>8, <2>1 DEF Chunk, CopySteps, RunInv, ControlInv
<1>9. CASE CopyLands
  <2> USE <1>9 DEF CopyLands, Advance, NoCopy
  <2>1. /\ pc \in CopySteps /\ Action.size - copy.offset \in Nat
    BY <1>0 DEF RunInv, StateTypes, ControlInv, CopySteps, Actions
  <2>2. report' = [report EXCEPT !.copied = @ + 1, !.bytes = @ + (Action.size - copy.offset)]
    BY DEF Emit
  <2>3. report' \in Reports /\ UNCHANGED <<report.failed, report.interrupted>>
    BY <2>1, <2>2, OneMoreCounted DEF RunInv, StateTypes
  <2>4. StateTypes'
    BY <1>0, <2>1, <2>3, ConstantsAssumption DEF RunInv, StateTypes, Steps
  <2>5. Failed' = Failed
    BY <2>3 DEF Failed
  <2>6. ControlInv'
    BY <1>0, <2>1, <2>3 DEF RunInv, ControlInv, CopySteps
  <2>7. FailedInv'
    BY <1>0, <2>5 DEF RunInv, FailedInv, Before
  <2> QED
    BY <2>4, <2>6, <2>7 DEF RunInv
<1> QED
  BY <1>3, <1>4, <1>5, <1>6, <1>7, <1>8, <1>9

LEMMA RunInvariant == ASSUME RunInv, [Next]_vars PROVE RunInv'
<1>1. ASSUME UNCHANGED <<plan, index, pc, copy, report>>, cancelled' \in BOOLEAN PROVE RunInv'
  BY <1>1 DEF RunInv, StateTypes, ControlInv, FailedInv, Failed, Before, Action
<1>2. CASE Run
  <2>1. CASE Send
    BY <1>1, <2>1 DEF Send, progress, RunInv, StateTypes
  <2> QED
    BY <1>2, <2>1, LoopStep, CopyStep DEF Run
<1>3. CASE Receive \/ HangUp \/ UNCHANGED vars
  BY <1>1, <1>3 DEF Receive, HangUp, vars, progress, RunInv, StateTypes
<1>4. CASE Cancel
  <2>1. cancelled' \in BOOLEAN
    BY <1>4, Zenon DEF Cancel
  <2> QED
    BY <1>1, <1>4, <2>1 DEF Cancel, progress
<1> QED
  BY <1>2, <1>3, <1>4 DEF Next

LEMMA RunAlways == Spec => []RunInv
<1>1. RunInv /\ [Next]_vars => RunInv'
  BY RunInvariant
<1> QED
  BY InitRun, <1>1, PTL DEF Spec

(***************************************************************************)
(* The refinement: the executor implements Batch.                          *)
(***************************************************************************)
Kinds == [i \in 1..Len(plan) |-> plan[i].kind]
Fate == [i \in 1..Len(plan) |->
            CASE i \in Failed -> "failed"
              [] i \in Before \ Failed -> IF plan[i].kind = "skip" THEN "skipped" ELSE "done"
              [] OTHER -> "planned"]
Outcome == CASE pc \in {"abort", "error"} -> "aborted"
             [] pc \in {"interrupt", "finish"} \/ report.interrupted -> "interrupted"
             [] pc = "ok" /\ ~report.interrupted -> "finished"
             [] OTHER -> "running"

\* What became of an action, by its place.
LEMMA FateFacts ==
    ASSUME RunInv
    PROVE  /\ Fate = [i \in 1..Len(plan) |-> Fate[i]]
           /\ \A i \in 1..Len(plan) :
                  /\ i \in Failed => Fate[i] = "failed"
                  /\ i \in Before /\ i \notin Failed =>
                        Fate[i] = IF plan[i].kind = "skip" THEN "skipped" ELSE "done"
                  /\ i \notin Before /\ i \notin Failed => Fate[i] = "planned"
  BY DEF Fate

\* While the run goes on, its action is the next one to settle.
LEMMA ActionIsNext ==
    ASSUME RunInv, pc \in {"step"} \cup CopySteps, index <= Len(plan)
    PROVE  /\ Outcome = "running" /\ index \in 1..Len(plan)
           /\ index \notin Failed /\ Fate[index] = "planned"
           /\ \A j \in 1..Len(plan) : j < index => Fate[j] # "planned"
<1>1. index \in 1..Len(plan) /\ Len(plan) \in Nat
  BY PlanFacts DEF RunInv, StateTypes
<1>2. Outcome = "running"
  BY DEF RunInv, ControlInv, CopySteps, Outcome
<1>3. index \notin Failed /\ index \notin Before
  BY <1>1 DEF RunInv, FailedInv, Before, CopySteps
<1>4. \A j \in 1..Len(plan) : j < index => j \in Before
  BY <1>1 DEF Before
<1> QED
  BY <1>1, <1>2, <1>3, <1>4, FateFacts

\* An action is settled: the loop is at the next one, and its fate is known.
LEMMA AdvanceSettles ==
    ASSUME RunInv, RunInv', pc \in {"step"} \cup CopySteps, index <= Len(plan), Advance,
           UNCHANGED <<plan, cancelled>>,
           \/ Failed' = Failed
           \/ Failed' = Failed \cup {index} /\ Action.kind # "skip"
    PROVE  Promised!Settle(index)
<1>1. index \in 1..Len(plan) /\ Len(plan) \in Nat /\ Before' = Before \cup {index}
  <2>1. Len(plan) \in Nat /\ index \in 1..Len(plan)
    BY PlanFacts DEF RunInv, StateTypes
  <2>2. index' = index + 1
    BY DEF Advance
  <2> QED
    BY <2>1, <2>2 DEF Before
<1>2. Outcome' = "running"
  BY <1>1 DEF RunInv, ControlInv, CopySteps, Outcome, Advance
<1>3. PICK f \in IF Kinds[index] = "skip" THEN {"skipped"} ELSE {"done", "failed"} :
          Fate' = [Fate EXCEPT ![index] = f]
  <2>1. ASSUME NEW f, Fate'[index] = f,
               \A i \in 1..Len(plan) : i # index => Fate'[i] = Fate[i]
        PROVE  Fate' = [Fate EXCEPT ![index] = f]
    BY <1>1, <2>1, FateFacts DEF Fate
  <2>2. \A i \in 1..Len(plan) : i # index => Fate'[i] = Fate[i]
    BY <1>1 DEF Fate
  <2>3. Fate'[index] \in IF Kinds[index] = "skip" THEN {"skipped"} ELSE {"done", "failed"}
    <3>1. index \notin Failed
      BY ActionIsNext
    <3> QED
      BY <1>1, <3>1 DEF Fate, Kinds, Action
  <2> QED
    BY <2>1, <2>2, <2>3
<1>4. UNCHANGED Kinds
  BY DEF Kinds
<1> QED
  BY <1>1, <1>2, <1>3, <1>4, ActionIsNext
  DEF Promised!Settle, Promised!IsNext, Kinds, Fate, Outcome

\* What a call that fails does to the promise.
LEMMA FailBatch ==
    ASSUME RunInv, RunInv', NEW error \in {"cancelled", "fatal", "plain"}, Fail(error),
           error = "cancelled" => cancelled,
           pc \in {"step"} \cup CopySteps, index <= Len(plan), Action.kind # "skip",
           UNCHANGED <<plan, cancelled>>
    PROVE  Promised!Settle(index) \/ Promised!Abort(index) \/ Promised!Interrupt(index)
<1>0. index \in 1..Len(plan) /\ index \in Nat /\ report \in Reports /\ Len(plan) \in Nat
  BY ActionIsNext, PlanFacts DEF RunInv, StateTypes
<1>1. CASE error = "cancelled"
  <2>1. Interrupting
    BY <1>1 DEF Fail
  <2>2. Fate' = Fate /\ Kinds' = Kinds /\ Outcome' = "interrupted"
    BY <2>1 DEF Interrupting, Fate, Kinds, Outcome, Failed, Before
  <2> QED
    BY <1>1, <2>2, ActionIsNext
    DEF Promised!Interrupt, Promised!IsNext, Kinds, Fate, Outcome
<1>2. CASE error = "fatal"
  <2>1. Failed' = Failed \cup {index} /\ pc' = "abort" /\ UNCHANGED index
    BY <1>0, <1>2, OneMoreFailed DEF Fail
  <2>2. Kinds' = Kinds /\ Outcome' = "aborted"
    <3>1. Kinds' = Kinds
      BY DEF Kinds
    <3>2. Outcome' = "aborted"
      BY <2>1 DEF Outcome, RunInv, ControlInv
    <3> QED
      BY <3>1, <3>2
  <2>3. Fate' = [Fate EXCEPT ![index] = "failed"]
    <3>1. \A i \in 1..Len(plan) : Fate'[i] = IF i = index THEN "failed" ELSE Fate[i]
      BY <2>1 DEF Fate, Before
    <3> QED
      BY <1>0, <3>1 DEF Fate
  <2> QED
    BY <1>0, <2>2, <2>3, ActionIsNext
    DEF Promised!Abort, Promised!IsNext, Kinds, Fate, Outcome, Action
<1>3. CASE error = "plain"
  <2>1. Failed' = Failed \cup {index} /\ Advance
    BY <1>0, <1>3, OneMoreFailed DEF Fail
  <2> QED
    BY <2>1, AdvanceSettles
<1> QED
  BY <1>1, <1>2, <1>3

\* Every step of the loop or of a copy is a step of Batch, or none.
LEMMA BatchStep ==
    ASSUME RunInv, RunInv', [Next]_vars
    PROVE  [Promised!Next]_(Promised!vars)
<1> USE DEF At, Begins
<1>0. Len(plan) \in Nat /\ index \in Nat /\ index <= Len(plan) + 1
  BY PlanFacts DEF RunInv, StateTypes
<1>1. ASSUME index \in 1..Len(plan), UNCHANGED plan,
             Promised!Settle(index) \/ Promised!Abort(index) \/ Promised!Interrupt(index)
      PROVE  Promised!Next
  <2>1. index \in DOMAIN [i \in 1..Len(plan) |-> plan[i].kind]
    BY <1>1
  <2>2. \E i \in DOMAIN [i \in 1..Len(plan) |-> plan[i].kind] :
            Promised!Settle(i) \/ Promised!Abort(i) \/ Promised!Interrupt(i)
    BY <1>1, <2>1
    DEF Promised!Settle, Promised!Abort, Promised!Interrupt, Promised!IsNext
  <2> QED
    BY <2>2 DEF Promised!Next
<1>2. ASSUME UNCHANGED <<plan, index, cancelled, report.failed>>, Outcome' = Outcome
      PROVE  UNCHANGED Promised!vars
  <2>1. Fate' = Fate /\ Kinds' = Kinds
    BY <1>2 DEF Fate, Kinds, Failed, Before
  <2> QED
    BY <1>2, <2>1 DEF Promised!vars, Fate, Kinds, Outcome
<1>3. ASSUME pc \in CopySteps PROVE index \in 1..Len(plan) /\ Action.kind = "copy"
  BY <1>0, <1>3 DEF RunInv, StateTypes, ControlInv, CopySteps
<1>4. CASE StepInterrupted
  <2>1. Fail("cancelled") /\ index \in 1..Len(plan)
    BY <1>4 DEF StepInterrupted, Fail, RunInv, StateTypes
  <2>2. Fate' = Fate /\ Kinds' = Kinds /\ Outcome' = "interrupted"
    BY <1>4 DEF StepInterrupted, Interrupting, Fate, Kinds, Outcome, Failed, Before
  <2>3. Promised!Interrupt(index)
    BY <1>4, <2>1, <2>2, ActionIsNext
    DEF StepInterrupted, Promised!Interrupt, Promised!IsNext, Kinds, Fate, Outcome
  <2> QED
    BY <1>1, <1>4, <2>1, <2>3 DEF StepInterrupted
<1>5. CASE Mkdir
  <2>0. index \in 1..Len(plan) /\ Action.kind # "skip"
    BY <1>5 DEF Mkdir, RunInv, StateTypes
  <2>1. CASE \E error \in Faults : Fail(error)
    BY <1>1, <1>5, <2>0, <2>1, FailBatch DEF Mkdir, Faults
  <2>2. CASE Advance /\ UNCHANGED <<report, outbox>>
    <3>1. Failed' = Failed
      BY <2>2 DEF Failed
    <3> QED
      BY <1>1, <1>5, <2>0, <2>2, <3>1, AdvanceSettles DEF Mkdir
  <2> QED
    BY <1>5, <2>1, <2>2 DEF Mkdir
<1>6. CASE Skip
  <2>1. report'.failed = report.failed
    BY <1>6, OneMoreCounted DEF Skip, RunInv, StateTypes
  <2>2. Failed' = Failed /\ index \in 1..Len(plan)
    BY <1>6, <2>1 DEF Skip, Failed, RunInv, StateTypes
  <2> QED
    BY <1>1, <1>6, <2>2, AdvanceSettles DEF Skip
<1>7. CASE Finish
  <2>1. Outcome = "running" /\ Outcome' = "finished"
    BY <1>7 DEF Finish, RunInv, ControlInv, Outcome
  <2>2. Fate' = Fate /\ Kinds' = Kinds
    BY <1>7 DEF Finish, Fate, Kinds, Failed, Before
  <2>3. \A i \in 1..Len(plan) : Fate[i] # "planned"
    <3>1. \A i \in 1..Len(plan) : i \in Before
      BY <1>0, <1>7 DEF Finish, Before
    <3> QED
      BY <3>1, FateFacts
  <2>4. Promised!Finish
    BY <1>7, <2>1, <2>2, <2>3 DEF Finish, Promised!Finish, Fate, Kinds, Outcome
  <2> QED
    BY <2>4 DEF Promised!Next
<1>8. CASE Interrupt
  <2>1. report'.failed = report.failed /\ report'.interrupted
    BY <1>8 DEF Interrupt, RunInv, StateTypes, Reports
  <2>2. Outcome' = Outcome
    BY <1>8, <2>1 DEF Interrupt, Outcome
  <2> QED
    BY <1>2, <1>8, <2>1, <2>2 DEF Interrupt
<1>9. CASE \/ BeginCopy \/ FinishInterrupted \/ Abort \/ ReadOpens \/ Retry \/ Chunk \/ Send
           \/ Receive \/ HangUp \/ UNCHANGED vars
  <2>1. UNCHANGED <<plan, index, cancelled, report>> /\ Outcome' = Outcome
    BY <1>9 DEF BeginCopy, FinishInterrupted, Abort, ReadOpens, Retry, Chunk, Send, Receive,
                HangUp, vars, progress, RunInv, ControlInv, Outcome
  <2> QED
    BY <1>2, <2>1
<1>10. CASE Settle
  <2>1. pc \in CopySteps
    BY <1>10 DEF Settle, CopySteps
  <2>2. CASE \E error \in Faults : Fail(error)
    BY <1>1, <1>3, <1>10, <2>1, <2>2, FailBatch DEF Settle, Faults
  <2>3. CASE pc' = "read" /\ UNCHANGED <<index, report>>
    <3>1. Outcome' = Outcome
      BY <1>10, <2>3 DEF Settle, Outcome
    <3> QED
      BY <1>2, <1>10, <2>3, <3>1 DEF Settle
  <2> QED
    BY <1>10, <2>2, <2>3 DEF Settle
<1>11. CASE ReadStalls \/ BackOff
  <2>1. pc \in CopySteps /\ UNCHANGED <<plan, cancelled>>
    BY <1>11 DEF ReadStalls, BackOff, CopySteps
  <2>2. CASE cancelled /\ Interrupting
    BY <1>1, <1>3, <2>1, <2>2, FailBatch DEF Fail
  <2>3. CASE pc' \in {"read", "backOff"} /\ UNCHANGED <<index, report>>
    <3>1. Outcome' = Outcome
      BY <2>1, <2>3 DEF Outcome, CopySteps
    <3> QED
      BY <1>2, <2>1, <2>3, <3>1
  <2> QED
    BY <1>11, <2>2, <2>3 DEF ReadStalls, BackOff
<1>12. CASE ReadFails \/ CopyFails
  <2>1. pc \in CopySteps /\ UNCHANGED <<plan, cancelled>>
    BY <1>12 DEF ReadFails, CopyFails, CopySteps
  <2>2. \E error \in {"cancelled", "fatal", "plain"} :
            Fail(error) /\ (error = "cancelled" => cancelled)
    BY <1>12 DEF ReadFails, CopyFails, Errors, Faults
  <2> QED
    BY <1>1, <1>3, <2>1, <2>2, FailBatch
<1>13. CASE CopyLands
  <2>1. pc \in CopySteps /\ UNCHANGED <<plan, cancelled>> /\ Advance
    BY <1>13 DEF CopyLands, CopySteps
  <2>2. report' = [report EXCEPT !.copied = @ + 1, !.bytes = @ + (Action.size - copy.offset)]
    BY <1>13 DEF CopyLands
  <2>3. report'.failed = report.failed
    BY <2>2 DEF RunInv, StateTypes, Reports
  <2>4. Failed' = Failed
    BY <2>3 DEF Failed
  <2> QED
    BY <1>1, <1>3, <2>1, <2>4, AdvanceSettles
<1>14. CASE Cancel
  <2>1. Fate' = Fate /\ Kinds' = Kinds /\ Outcome' = Outcome
    BY <1>14 DEF Cancel, progress, Fate, Kinds, Outcome, Failed, Before
  <2>2. Promised!Cancel
    BY <1>14, <2>1 DEF Cancel, Promised!Cancel, Fate, Kinds, Outcome
  <2> QED
    BY <2>2 DEF Promised!Next
<1> QED
  BY <1>4, <1>5, <1>6, <1>7, <1>8, <1>9, <1>10, <1>11, <1>12, <1>13, <1>14 DEF Next, Run

\* The executor keeps its promise for every plan: actions are settled in order and
\* once each, and the run stops short of the last one only by a cancel or by an
\* error charged to the action it met.
THEOREM BatchKept == Spec => ImplementsBatch
<1>1. Init => Promised!Init
  <2> SUFFICES ASSUME Init PROVE Promised!Init
    OBVIOUS
  <2>1. Failed = {} /\ Before = {}
    BY EmptySeq DEF Init, EmptyReport, Failed, Before
  <2> QED
    BY <2>1 DEF Init, EmptyReport, Promised!Init
<1>2. RunInv /\ RunInv' /\ [Next]_vars => [Promised!Next]_(Promised!vars)
  BY BatchStep
<1> QED
  BY <1>1, <1>2, RunAlways, PTL DEF Spec, ImplementsBatch, Promised!Spec

(***************************************************************************)
(* What a cancel stops.                                                    *)
(***************************************************************************)
Stopping(k) ==
    \/ index = k
    \/ index = k + 1 /\ pc \in {"step", "interrupt", "finish", "ok"}

LEMMA CancelledStaysStopping ==
    ASSUME RunInv, [Next]_vars, NEW k, cancelled, Stopping(k)
    PROVE  cancelled' /\ Stopping(k)'
<1> USE DEF At, Begins
<1>0. index \in Nat
  BY PlanFacts DEF RunInv, StateTypes
<1>1. ASSUME NEW error, Fail(error) PROVE Stopping(k)' \/ index # k
  BY <1>0, <1>1 DEF Fail, Interrupting, Advance, Stopping
<1>2. CASE StepInterrupted \/ Mkdir \/ Skip \/ BeginCopy
  BY <1>2 DEF StepInterrupted, Interrupting, Mkdir, Skip, BeginCopy, Stopping
<1>3. CASE Finish \/ Interrupt \/ FinishInterrupted \/ Abort
  BY <1>3 DEF Finish, Interrupt, FinishInterrupted, Abort, Stopping
<1>4. CASE Settle \/ ReadFails \/ CopyFails
  BY <1>1, <1>4 DEF Settle, ReadFails, CopyFails, Stopping
<1>5. CASE ReadOpens \/ ReadStalls \/ BackOff \/ Retry \/ Chunk
  BY <1>5 DEF ReadOpens, ReadStalls, BackOff, Retry, Chunk, Interrupting, Stopping
<1>6. CASE CopyLands
  BY <1>0, <1>6 DEF CopyLands, Advance, Stopping
<1>7. CASE Send \/ Receive \/ HangUp \/ Cancel \/ UNCHANGED vars
  BY <1>7 DEF Send, Receive, HangUp, Cancel, vars, progress, Stopping
<1> QED
  BY <1>2, <1>3, <1>4, <1>5, <1>6, <1>7 DEF Next, Run

\* A cancel stops the run at the action under way at the latest, for every plan.
THEOREM CancelStops == Spec => CancelHonoured
<1>1. ASSUME NEW k \in 1..Max({Len(p) : p \in Plans})
      PROVE  Spec => [](cancelled /\ index = k => []Stopping(k))
  <2>1. RunInv /\ [Next]_vars /\ cancelled /\ Stopping(k) => cancelled' /\ Stopping(k)'
    BY CancelledStaysStopping
  <2>2. index = k => Stopping(k)
    BY DEF Stopping
  <2> QED
    BY <2>1, <2>2, RunAlways, PTL DEF Spec
<1>2. Spec => \A k \in 1..Max({Len(p) : p \in Plans}) :
                  [](cancelled /\ index = k => []Stopping(k))
  BY <1>1
<1> QED
  BY <1>2 DEF CancelHonoured, Stopping

(***************************************************************************)
(* The report counts every action once.                                    *)
(***************************************************************************)
Skips == {i \in Before : plan[i].kind = "skip"}
CountInv ==
    /\ report.skipped = Cardinality(Skips)
    /\ report.copied = Cardinality(Landed)
    /\ Cardinality(Failed) = Len(report.failed)

LEMMA Finite ==
    ASSUME RunInv
    PROVE  /\ IsFiniteSet(Copies) /\ IsFiniteSet(Before) /\ IsFiniteSet(Failed)
           /\ IsFiniteSet(Skips) /\ IsFiniteSet(Landed)
           /\ Before \subseteq 1..Len(plan) /\ Failed \subseteq 1..Len(plan)
<1>1. Len(plan) \in Nat /\ index \in 1..Len(plan) + 1
  BY PlanFacts DEF RunInv, StateTypes
<1>2. IsFiniteSet(1..Len(plan))
  BY <1>1, FS_Interval
<1>3. Before \subseteq 1..Len(plan)
  BY <1>1 DEF Before
<1>4. Failed \subseteq 1..Len(plan)
  BY <1>1, <1>3 DEF RunInv, FailedInv, ControlInv
<1>5. /\ Copies \subseteq 1..Len(plan) /\ Skips \subseteq 1..Len(plan)
      /\ Landed \subseteq 1..Len(plan)
  BY <1>3 DEF Copies, Skips, Landed
<1> QED
  BY <1>2, <1>3, <1>4, <1>5, FS_Subset

\* What a failed call does to the counts, and what it leaves of the totals.
LEMMA FailCounts ==
    ASSUME RunInv, RunInv', CountInv, NEW error \in {"cancelled", "fatal", "plain"}, Fail(error),
           pc \in {"step"} \cup CopySteps, index <= Len(plan), Action.kind # "skip",
           UNCHANGED <<plan, cancelled>>
    PROVE  CountInv'
<1>0. index \in Nat /\ report \in Reports /\ index \notin Failed /\ index \notin Before
  BY ActionIsNext, PlanFacts DEF RunInv, StateTypes, Before
<1>1. CASE error = "cancelled"
  BY <1>1 DEF Fail, Interrupting, CountInv, Skips, Landed, Copies, Before, Failed
<1>2. CASE error # "cancelled"
  <2>1. /\ Failed' = Failed \cup {index} /\ Len(report'.failed) = Len(report.failed) + 1
        /\ UNCHANGED <<report.copied, report.skipped>>
    BY <1>0, <1>2, OneMoreFailed DEF Fail
  <2>2. Before' = Before \/ Before' = Before \cup {index}
    BY <1>0, <1>2 DEF Fail, Before, Advance
  <2>3. Skips' = Skips /\ Landed' = Landed
    BY <1>0, <2>1, <2>2 DEF Skips, Landed, Copies, Action
  <2>4. Cardinality(Failed') = Cardinality(Failed) + 1
    BY <1>0, <2>1, Finite, FS_AddElement
  <2> QED
    BY <2>1, <2>3, <2>4 DEF CountInv
<1> QED
  BY <1>1, <1>2

LEMMA CountStep == ASSUME RunInv, RunInv', CountInv, [Next]_vars PROVE CountInv'
<1> USE DEF At, Begins
<1>0. Len(plan) \in Nat /\ index \in Nat \ {0} /\ index \notin Before
  BY PlanFacts DEF RunInv, StateTypes, Before
<1>1. ASSUME pc \in CopySteps PROVE index \in 1..Len(plan) /\ Action.kind = "copy"
  BY <1>0, <1>1 DEF RunInv, StateTypes, ControlInv, CopySteps
<1>2. ASSUME UNCHANGED <<plan, index, report.failed, report.skipped, report.copied>>
      PROVE  CountInv'
  BY <1>2 DEF CountInv, Skips, Landed, Copies, Before, Failed
<1>3. CASE Mkdir
  <2>1. CASE \E error \in Faults : Fail(error)
    BY <1>3, <2>1, FailCounts DEF Mkdir, Faults
  <2>2. CASE Advance /\ UNCHANGED <<report, outbox>>
    <3>1. Failed' = Failed /\ Before' = Before \cup {index}
      BY <1>0, <2>2 DEF Failed, Before, Advance
    <3>2. Skips' = Skips /\ Landed' = Landed
      BY <1>0, <1>3, <3>1 DEF Mkdir, Skips, Landed, Copies, Action
    <3> QED
      BY <2>2, <3>1, <3>2 DEF CountInv
  <2> QED
    BY <1>3, <2>1, <2>2 DEF Mkdir
<1>4. CASE Skip
  <2>1. /\ report' = [report EXCEPT !.skipped = @ + 1]
        /\ Advance /\ UNCHANGED plan /\ plan[index].kind = "skip"
    BY <1>4 DEF Skip, Action
  <2>2. /\ report'.failed = report.failed /\ report'.copied = report.copied
        /\ report'.skipped = report.skipped + 1
    BY <2>1 DEF RunInv, StateTypes, Reports
  <2>3. Failed' = Failed /\ Before' = Before \cup {index}
    BY <1>0, <2>1, <2>2 DEF Failed, Before, Advance
  <2>4. Skips' = Skips \cup {index} /\ index \notin Skips /\ Landed' = Landed
    BY <1>0, <2>1, <2>3 DEF Skips, Landed, Copies
  <2>5. Cardinality(Skips') = Cardinality(Skips) + 1
    BY <2>4, Finite, FS_AddElement
  <2> QED
    BY <2>2, <2>3, <2>4, <2>5 DEF CountInv
<1>5. CASE CopyLands
  <2>1. /\ pc \in CopySteps /\ Advance /\ UNCHANGED plan
        /\ report' = [report EXCEPT !.copied = @ + 1, !.bytes = @ + (Action.size - copy.offset)]
    BY <1>5 DEF CopyLands, CopySteps
  <2>2. /\ report'.failed = report.failed /\ report'.skipped = report.skipped
        /\ report'.copied = report.copied + 1
    BY <2>1 DEF RunInv, StateTypes, Reports
  <2>3. Failed' = Failed /\ Before' = Before \cup {index}
    BY <1>0, <2>1, <2>2 DEF Failed, Before, Advance
  <2>4. index \notin Failed /\ index \in Copies
    BY <1>1, <2>1, ActionIsNext DEF Copies, Action
  <2>5. Skips' = Skips /\ Landed' = Landed \cup {index} /\ index \notin Landed
    BY <1>0, <1>1, <2>1, <2>3, <2>4 DEF Skips, Landed, Copies, Action
  <2>6. Cardinality(Landed') = Cardinality(Landed) + 1
    BY <2>5, Finite, FS_AddElement
  <2> QED
    BY <2>2, <2>3, <2>5, <2>6 DEF CountInv
<1>6. CASE Settle \/ ReadFails \/ CopyFails
  <2>1. pc \in CopySteps /\ UNCHANGED <<plan, cancelled>>
    BY <1>6 DEF Settle, ReadFails, CopyFails, CopySteps
  <2>2. \/ UNCHANGED <<index, report>>
        \/ \E error \in {"cancelled", "fatal", "plain"} : Fail(error)
    BY <1>6 DEF Settle, ReadFails, CopyFails, Faults, Errors
  <2> QED
    BY <1>1, <1>2, <2>1, <2>2, FailCounts
<1>7. CASE Interrupt
  <2>1. report' = [report EXCEPT !.interrupted = TRUE] /\ UNCHANGED <<plan, index>>
    BY <1>7 DEF Interrupt
  <2>2. UNCHANGED <<report.failed, report.skipped, report.copied>>
    BY <2>1 DEF RunInv, StateTypes, Reports
  <2> QED
    BY <1>2, <2>1, <2>2
<1>8. CASE \/ StepInterrupted \/ BeginCopy \/ Finish \/ FinishInterrupted \/ Abort \/ ReadOpens
           \/ ReadStalls \/ BackOff \/ Retry \/ Chunk \/ Send \/ Receive \/ HangUp \/ Cancel
           \/ UNCHANGED vars
  <2>1. UNCHANGED <<plan, index, report>>
    BY <1>8 DEF StepInterrupted, Interrupting, BeginCopy, Finish, FinishInterrupted, Abort,
                ReadOpens, ReadStalls, BackOff, Retry, Chunk, Send, Receive, HangUp, Cancel,
                vars, progress
  <2> QED
    BY <1>2, <2>1
<1> QED
  BY <1>3, <1>4, <1>5, <1>6, <1>7, <1>8 DEF Next, Run

LEMMA CountAlways == Spec => []CountInv
<1>1. Init => CountInv
  <2> SUFFICES ASSUME Init PROVE CountInv
    OBVIOUS
  <2>1. Failed = {} /\ Before = {} /\ Len(report.failed) = 0
    BY EmptySeq DEF Init, EmptyReport, Failed, Before
  <2>2. Skips = {} /\ Landed = {}
    BY <2>1 DEF Skips, Landed
  <2> QED
    BY <2>1, <2>2, FS_EmptySet DEF Init, EmptyReport, CountInv
<1>2. RunInv /\ RunInv' /\ CountInv /\ [Next]_vars => CountInv'
  BY CountStep
<1> QED
  BY <1>1, <1>2, RunAlways, PTL DEF Spec

\* Every action the run has passed has exactly one fate and the report counts it
\* there, and the file in flight is charged only when it ends the run.
THEOREM CountsEveryAction == Spec => []Counted
<1>1. RunInv /\ CountInv => Counted
  <2> SUFFICES ASSUME RunInv, CountInv PROVE Counted
    OBVIOUS
  <2>1. Failed \subseteq IF pc \in {"abort", "error"} THEN 1..index ELSE Before
    <3>1. index \in Nat /\ index >= 1
      BY PlanFacts DEF RunInv, StateTypes
    <3> QED
      BY <3>1 DEF RunInv, FailedInv, Before
  <2> QED
    BY <2>1 DEF RunInv, FailedInv, CountInv, Counted, Skips
<1> QED
  BY <1>1, RunAlways, CountAlways, PTL

(***************************************************************************)
(* The bytes it reports are those of the files that landed.                *)
(***************************************************************************)

\* A copy starts at the beginning or where the plan has it resume.
OffsetInv == pc \in CopySteps \ {"settle"} => copy.offset \in {0, Action.from}

BytesInv ==
    /\ IsFiniteSet(Chunks(Landed)) /\ IsFiniteSet(FreshChunks(Landed))
    /\ report.bytes <= Cardinality(Chunks(Landed))
    /\ report.bytes >= Cardinality(FreshChunks(Landed))

\* How many chunks lie between two places of a file.
LEMMA ChunksOfOne ==
    ASSUME NEW i, NEW low \in Nat, NEW high \in Nat, low <= high
    PROVE  /\ IsFiniteSet({i} \X (low + 1..high))
           /\ Cardinality({i} \X (low + 1..high)) = high - low
<1>1. IsFiniteSet({i}) /\ Cardinality({i}) = 1
  BY FS_Singleton
<1>2. IsFiniteSet(low + 1..high) /\ Cardinality(low + 1..high) = high - low
  <2>1. low + 1 \in Int /\ high \in Int
    OBVIOUS
  <2>2. /\ IsFiniteSet(low + 1..high)
        /\ Cardinality(low + 1..high) = IF low + 1 > high THEN 0 ELSE high - (low + 1) + 1
    BY <2>1, FS_Interval
  <2> QED
    BY <2>2
<1>3. /\ IsFiniteSet({i} \X (low + 1..high))
      /\ Cardinality({i} \X (low + 1..high)) = Cardinality({i}) * Cardinality(low + 1..high)
  BY <1>1, <1>2, FS_Product
<1> QED
  BY <1>1, <1>2, <1>3

LEMMA DisjointUnion ==
    ASSUME NEW S, IsFiniteSet(S), NEW T, IsFiniteSet(T), S \cap T = {}
    PROVE  /\ IsFiniteSet(S \cup T)
           /\ Cardinality(S \cup T) = Cardinality(S) + Cardinality(T)
<1>1. /\ IsFiniteSet(S \cup T)
      /\ Cardinality(S \cup T) = Cardinality(S) + Cardinality(T) - Cardinality({})
  BY FS_Union
<1>2. Cardinality({}) = 0 /\ Cardinality(S) \in Nat /\ Cardinality(T) \in Nat
  BY FS_EmptySet, FS_CardinalityType
<1> QED
  BY <1>1, <1>2

\* A file more, and how many chunks it adds.
LEMMA OneMoreFile ==
    ASSUME NEW files \in SUBSET Nat, NEW i \in Nat \ files,
           plan[i] \in Actions, plan[i].from <= plan[i].size,
           IsFiniteSet(Chunks(files)), IsFiniteSet(FreshChunks(files))
    PROVE  /\ IsFiniteSet(Chunks(files \cup {i})) /\ IsFiniteSet(FreshChunks(files \cup {i}))
           /\ Cardinality(Chunks(files \cup {i})) = Cardinality(Chunks(files)) + plan[i].size
           /\ Cardinality(FreshChunks(files \cup {i}))
                  = Cardinality(FreshChunks(files)) + (plan[i].size - plan[i].from)
<1>1. plan[i].size \in Nat /\ plan[i].from \in Nat
  BY DEF Actions
<1> DEFINE all == {i} \X (1..plan[i].size)
           fresh == {i} \X (plan[i].from + 1..plan[i].size)
<1>2. IsFiniteSet(all) /\ Cardinality(all) = plan[i].size
  <2> DEFINE low == 0
             high == plan[i].size
  <2>1. low \in Nat /\ high \in Nat /\ low <= high /\ low + 1 = 1 /\ high - low = high
    BY <1>1
  <2> HIDE DEF low, high
  <2>2. /\ IsFiniteSet({i} \X (low + 1..high))
        /\ Cardinality({i} \X (low + 1..high)) = high - low
    BY <2>1, ChunksOfOne
  <2>3. IsFiniteSet({i} \X (1..high)) /\ Cardinality({i} \X (1..high)) = high
    BY <2>1, <2>2
  <2> QED
    BY <2>3 DEF high
<1>3. IsFiniteSet(fresh) /\ Cardinality(fresh) = plan[i].size - plan[i].from
  <2> DEFINE low == plan[i].from
             high == plan[i].size
  <2>1. low \in Nat /\ high \in Nat /\ low <= high
    BY <1>1
  <2> HIDE DEF low, high
  <2>2. /\ IsFiniteSet({i} \X (low + 1..high))
        /\ Cardinality({i} \X (low + 1..high)) = high - low
    BY <2>1, ChunksOfOne
  <2> QED
    BY <2>2 DEF low, high
<1>4. Chunks(files \cup {i}) = Chunks(files) \cup all
  BY DEF Chunks
<1>5. Chunks(files) \cap all = {}
  BY DEF Chunks
<1>6. FreshChunks(files \cup {i}) = FreshChunks(files) \cup fresh
  BY DEF FreshChunks
<1>7. FreshChunks(files) \cap fresh = {}
  BY DEF FreshChunks
<1> HIDE DEF all, fresh
<1>8. /\ IsFiniteSet(Chunks(files) \cup all)
      /\ Cardinality(Chunks(files) \cup all) = Cardinality(Chunks(files)) + Cardinality(all)
  BY <1>2, <1>5, DisjointUnion
<1>9. /\ IsFiniteSet(FreshChunks(files) \cup fresh)
      /\ Cardinality(FreshChunks(files) \cup fresh)
             = Cardinality(FreshChunks(files)) + Cardinality(fresh)
  BY <1>3, <1>7, DisjointUnion
<1> QED
  BY <1>2, <1>3, <1>4, <1>6, <1>8, <1>9

LEMMA OffsetStep == ASSUME RunInv, OffsetInv, [Next]_vars PROVE OffsetInv'
<1> USE DEF At, Begins, CopySteps
<1>1. ASSUME UNCHANGED <<plan, index, copy>>, pc' \in CopySteps \ {"settle"} =>
                                                 pc \in CopySteps \ {"settle"}
      PROVE  OffsetInv'
  BY <1>1 DEF OffsetInv, Action
<1>2. ASSUME pc' \notin CopySteps \ {"settle"} PROVE OffsetInv'
  BY <1>2 DEF OffsetInv
<1>3. ASSUME NEW error, Fail(error) PROVE OffsetInv'
  BY <1>2, <1>3 DEF Fail, Interrupting, Advance
<1>4. CASE Settle
  <2>1. CASE \E error \in Faults : Fail(error)
    BY <1>3, <2>1
  <2>2. CASE \E offset \in {0, Action.from} :
               copy' = [copy EXCEPT !.offset = offset, !.position = offset]
               /\ UNCHANGED index
    <3>1. copy'.offset \in {0, Action.from} /\ UNCHANGED <<plan, index>>
      BY <1>4, <2>2 DEF RunInv, StateTypes, Settle
    <3> QED
      BY <3>1 DEF OffsetInv, Action
  <2> QED
    BY <1>4, <2>1, <2>2 DEF Settle
<1>5. CASE ReadStalls \/ BackOff \/ Chunk
  <2>1. CASE Interrupting
    BY <1>2, <2>1 DEF Interrupting
  <2>2. CASE ~Interrupting
    <3>1. /\ copy'.offset = copy.offset /\ UNCHANGED <<plan, index>>
          /\ pc \in CopySteps \ {"settle"}
      BY <1>5, <2>2 DEF ReadStalls, BackOff, Chunk, RunInv, StateTypes
    <3> QED
      BY <3>1 DEF OffsetInv, Action
  <2> QED
    BY <2>1, <2>2
<1>6. CASE ReadFails \/ CopyFails
  BY <1>3, <1>6 DEF ReadFails, CopyFails
<1>7. CASE \/ StepInterrupted \/ Mkdir \/ Skip \/ BeginCopy \/ Finish \/ Interrupt
           \/ FinishInterrupted \/ Abort \/ CopyLands
  <2>1. CASE \E error \in Faults : Fail(error)
    BY <1>3, <2>1
  <2>2. CASE ~\E error \in Faults : Fail(error)
    <3>1. pc' \notin CopySteps \ {"settle"}
      BY <1>7, <2>2 DEF StepInterrupted, Interrupting, Mkdir, Skip, BeginCopy, Finish, Interrupt,
                        FinishInterrupted, Abort, CopyLands, Advance
    <3> QED
      BY <1>2, <3>1
  <2> QED
    BY <2>1, <2>2
<1>8. CASE ReadOpens \/ Retry \/ Send \/ Receive \/ HangUp \/ Cancel \/ UNCHANGED vars
  BY <1>1, <1>8 DEF ReadOpens, Retry, Send, Receive, HangUp, Cancel, vars, progress
<1> QED
  BY <1>4, <1>5, <1>6, <1>7, <1>8 DEF Next, Run

\* Where no file lands, the files that landed and the bytes stay what they were.
LEMMA LandedStays ==
    ASSUME RunInv, [Next]_vars, ~CopyLands
    PROVE  UNCHANGED <<plan, report.bytes, Landed>>
<1> USE DEF At, Begins
<1>0. Len(plan) \in Nat /\ index \in Nat \ {0} /\ index \notin Before /\ report \in Reports
  BY PlanFacts DEF RunInv, StateTypes, Before
<1>1. ASSUME pc \in CopySteps PROVE index \in 1..Len(plan) /\ Action.kind = "copy"
  BY <1>0, <1>1 DEF RunInv, StateTypes, ControlInv, CopySteps
<1>2. ASSUME UNCHANGED <<plan, index, report.failed, report.bytes>>
      PROVE  UNCHANGED <<plan, report.bytes, Landed>>
  BY <1>2 DEF Landed, Copies, Before, Failed
<1>3. ASSUME NEW error \in {"cancelled", "fatal", "plain"}, Fail(error),
             pc \in {"step"} \cup CopySteps, index <= Len(plan), UNCHANGED plan
      PROVE  UNCHANGED <<plan, report.bytes, Landed>>
  <2>1. CASE error = "cancelled"
    BY <1>2, <1>3, <2>1 DEF Fail, Interrupting
  <2>2. CASE error # "cancelled"
    <3>1. Failed' = Failed \cup {index} /\ UNCHANGED report.bytes
      BY <1>0, <1>3, <2>2, OneMoreFailed DEF Fail
    <3>2. Before' = Before \/ Before' = Before \cup {index}
      BY <1>0, <1>3, <2>2 DEF Fail, Before, Advance
    <3> QED
      BY <1>0, <1>3, <3>1, <3>2 DEF Landed, Copies
  <2> QED
    BY <2>1, <2>2
<1>4. CASE Mkdir \/ Skip
  <2>1. CASE \E error \in Faults : Fail(error)
    BY <1>3, <1>4, <2>1 DEF Mkdir, Skip, Faults
  <2>2. CASE ~\E error \in Faults : Fail(error)
    <3>1. /\ Advance /\ UNCHANGED plan /\ Action.kind # "copy"
          /\ UNCHANGED <<report.failed, report.bytes>>
      BY <1>0, <1>4, <2>2 DEF Mkdir, Skip, Reports
    <3>2. Failed' = Failed /\ Before' = Before \cup {index}
      BY <1>0, <3>1 DEF Failed, Before, Advance
    <3> QED
      BY <1>0, <3>1, <3>2 DEF Landed, Copies, Action
  <2> QED
    BY <2>1, <2>2
<1>5. CASE Settle \/ ReadFails \/ CopyFails
  <2>1. pc \in CopySteps /\ UNCHANGED plan
    BY <1>5 DEF Settle, ReadFails, CopyFails, CopySteps
  <2>2. \/ UNCHANGED <<index, report>>
        \/ \E error \in {"cancelled", "fatal", "plain"} : Fail(error)
    BY <1>5 DEF Settle, ReadFails, CopyFails, Faults, Errors
  <2> QED
    BY <1>0, <1>1, <1>2, <1>3, <2>1, <2>2
<1>6. CASE Interrupt
  <2>1. UNCHANGED <<plan, index, report.failed, report.bytes>>
    BY <1>0, <1>6 DEF Interrupt, Reports
  <2> QED
    BY <1>2, <2>1
<1>7. CASE \/ StepInterrupted \/ BeginCopy \/ Finish \/ FinishInterrupted \/ Abort \/ ReadOpens
           \/ ReadStalls \/ BackOff \/ Retry \/ Chunk \/ Send \/ Receive \/ HangUp \/ Cancel
           \/ UNCHANGED vars
  <2>1. UNCHANGED <<plan, index, report>>
    BY <1>7 DEF StepInterrupted, Interrupting, BeginCopy, Finish, FinishInterrupted, Abort,
                ReadOpens, ReadStalls, BackOff, Retry, Chunk, Send, Receive, HangUp, Cancel,
                vars, progress
  <2> QED
    BY <1>2, <2>1
<1> QED
  BY <1>4, <1>5, <1>6, <1>7 DEF Next, Run

LEMMA BytesStep == ASSUME RunInv, OffsetInv, BytesInv, [Next]_vars PROVE BytesInv'
<1>1. CASE ~CopyLands
  <2>1. UNCHANGED <<plan, report.bytes, Landed>>
    BY <1>1, LandedStays
  <2> QED
    BY <2>1 DEF BytesInv, Chunks, FreshChunks
<1>2. CASE CopyLands
  <2>1. /\ Len(plan) \in Nat /\ index \in 1..Len(plan) /\ index \notin Before
        /\ Action.kind = "copy" /\ Action \in Actions /\ Action.from <= Action.size
        /\ report \in Reports
    BY <1>2, PlanFacts
    DEF RunInv, StateTypes, ControlInv, CopyLands, At, CopySteps, Action, Before
  <2>2. /\ UNCHANGED plan /\ Advance
        /\ report'.failed = report.failed
        /\ report'.bytes = report.bytes + (Action.size - copy.offset)
        /\ copy.offset \in {0, Action.from}
    BY <1>2, <2>1 DEF CopyLands, At, Reports, OffsetInv, CopySteps
  <2>3. Failed' = Failed /\ Before' = Before \cup {index}
    BY <2>1, <2>2 DEF Failed, Before, Advance
  <2>4. index \notin Failed /\ index \in Copies
    BY <1>2, <2>1, ActionIsNext DEF CopyLands, At, CopySteps, Copies, Action
  <2>5. Landed' = Landed \cup {index} /\ index \notin Landed /\ Landed \subseteq Nat
    BY <2>1, <2>2, <2>3, <2>4 DEF Landed, Copies, Before
  <2>6. Chunks(Landed)' = Chunks(Landed \cup {index})
        /\ FreshChunks(Landed)' = FreshChunks(Landed \cup {index})
    BY <2>2, <2>5 DEF Chunks, FreshChunks
  <2>7. /\ IsFiniteSet(Chunks(Landed \cup {index}))
        /\ IsFiniteSet(FreshChunks(Landed \cup {index}))
        /\ Cardinality(Chunks(Landed \cup {index})) = Cardinality(Chunks(Landed)) + Action.size
        /\ Cardinality(FreshChunks(Landed \cup {index}))
               = Cardinality(FreshChunks(Landed)) + (Action.size - Action.from)
    BY <2>1, <2>5, OneMoreFile DEF BytesInv, Action
  <2>8. /\ Cardinality(Chunks(Landed)) \in Nat /\ Cardinality(FreshChunks(Landed)) \in Nat
        /\ report.bytes \in Nat /\ Action.size \in Nat /\ Action.from \in Nat
    BY <2>1, FS_CardinalityType DEF BytesInv, Reports, Actions
  <2> QED
    BY <2>1, <2>2, <2>6, <2>7, <2>8 DEF BytesInv
<1> QED
  BY <1>1, <1>2

\* Every action the run has passed has one fate and the report counts it there,
\* and the bytes it reports are those of the files that landed, but for what they
\* may have resumed from (TransferReport).
THEOREM ReportsAddUp == Spec => []Accounted
<1>1. Init => OffsetInv /\ BytesInv
  <2> SUFFICES ASSUME Init PROVE OffsetInv /\ BytesInv
    OBVIOUS
  <2>1. Landed = {}
    BY DEF Init, Landed, Before
  <2>2. Chunks(Landed) = {} /\ FreshChunks(Landed) = {}
    BY <2>1 DEF Chunks, FreshChunks
  <2> QED
    BY <2>2, FS_EmptySet DEF Init, EmptyReport, BytesInv, OffsetInv, CopySteps
<1>2. RunInv /\ OffsetInv /\ BytesInv /\ [Next]_vars => (OffsetInv /\ BytesInv)'
  BY OffsetStep, BytesStep
<1>3. Counted /\ BytesInv => Accounted
  BY DEF BytesInv, Accounted
<1> QED
  BY <1>1, <1>2, <1>3, RunAlways, CountsEveryAction, PTL DEF Spec
=============================================================================
