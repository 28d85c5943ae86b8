---------------------------- MODULE MtpEndpoint ----------------------------
(***************************************************************************)
(* One storage of a phone as the source of a transfer: it is opened, it is *)
(* scanned, and then one file after the other is read from it, through the *)
(* handle cache and the pump.  The executor asks for the next stream when  *)
(* it is through with the last one.                                        *)
(***************************************************************************)
EXTENDS Resolver, Pump

CONSTANT
    RootStays      \* the phone keeps the handle of the folder a user asked for

endpoint == <<phone, since, cancelled, walkVars, readVars, pumpVars>>

MtpInit == PhoneInit /\ NotCancelled /\ WalkInit /\ ResolverInit /\ PumpInit

Scan == \/ WalkStep /\ UNCHANGED <<readVars, pumpVars>>
        \/ WalkDone /\ Prime /\ UNCHANGED pumpVars

Read ==
    \/ BeginRead /\ NoStream /\ UNCHANGED pumpVars
    \/ ReadStep /\ UNCHANGED pumpVars

\* The download is open: its tasks take over, and the reader is free.
Open ==
    /\ reader = "opened"
    /\ \E from \in {0} \cup Sizes, total \in Sizes : OpenStream(from, total)
    /\ Rest
    /\ UNCHANGED <<phone, walkVars>>

Stream == PumpStep /\ UNCHANGED <<phone, since, walkVars, readVars>>

\* What the phone does while a stream runs shows in it as a window that fails;
\* the rest waits until the next read.
WorldChanges ==
    /\ NoStream /\ PhoneChanges
    /\ UNCHANGED <<cancelled, walkVars, readVars, pumpVars>>
    /\ RootStays /\ Names(root) => Names(root)'

Stopped == Interrupt /\ UNCHANGED <<phone, since, walkVars, readVars, pumpVars>>

MtpNext == Scan \/ Read \/ Open \/ Stream \/ WorldChanges \/ Stopped

\* Calls return, and tokio runs every task that can go on.
MtpFairness ==
    /\ WF_endpoint(Scan)
    /\ WF_endpoint(ReadStep /\ UNCHANGED pumpVars)
    /\ WF_endpoint(Open)
    /\ WF_endpoint(PumpTasks /\ UNCHANGED <<phone, since, walkVars, readVars>>)
    /\ WF_endpoint(PumpConsumer /\ UNCHANGED <<phone, since, walkVars, readVars>>)

MtpSpec == MtpInit /\ [][MtpNext]_endpoint /\ MtpFairness

\* The three parts of a storage hold what the code's types allow, whatever the
\* phone does between any two calls.
MtpTypeOK == WalkTypeOK /\ ResolverTypeOK /\ PumpTypeOK

\* A phone whose folders contain themselves, that re-keys, refuses or fails, and
\* a cancel at any moment: a scan still comes to an end, and so does a read; a
\* cancelled stream ends for who waits for it, and one that nobody pulls any
\* more does not keep its tasks alive.
EveryCallAnswers ==
    /\ scan = "locate" ~> scan \in {"walked", "failed"}
    /\ reader # "idle" ~> reader = "idle"
    /\ cancelled ~> consumer # "pulling"
    /\ consumer = "gone" ~> pump = "none"
=============================================================================
