------------------------------ MODULE MtpProofs ------------------------------
(***************************************************************************)
(* The endpoint runs the pump as it is: whatever the phone, the walk and   *)
(* the handle cache do around it, every stream an endpoint opens keeps     *)
(* what PumpProofs says of the pump.                                       *)
(***************************************************************************)
EXTENDS MtpEndpoint, PumpProofs

\* What is not the pump's own leaves it alone.
LEMMA EndpointStep == [MtpNext]_endpoint => [PumpNext]_<<pumpVars, cancelled>>
<1> SUFFICES ASSUME [MtpNext]_endpoint PROVE [PumpNext]_<<pumpVars, cancelled>>
  OBVIOUS
<1>1. ASSUME WalkStep PROVE UNCHANGED cancelled
  BY <1>1, Zenon
  DEF WalkStep, LocateSegment, Located, BeginScan, WalkFolder, Revalidate, FindFile
<1>2. ASSUME ReadStep PROVE UNCHANGED cancelled
  BY <1>2, Zenon
  DEF ReadStep, ReadFailed, Resolve, DescendCached, DescendListed, Operate, Probe, outside
<1>3. CASE Scan
  BY <1>1, <1>3, Zenon DEF Scan, WalkDone
<1>4. CASE Read
  BY <1>2, <1>4, Zenon DEF Read, BeginRead, outside
<1>5. CASE Open
  BY <1>5, Zenon DEF Open, PumpNext
<1>6. CASE Stream
  BY <1>6, Zenon DEF Stream, PumpNext
<1>7. CASE WorldChanges
  BY <1>7, Zenon DEF WorldChanges
<1>8. CASE Stopped
  BY <1>8, Zenon DEF Stopped, PumpNext
<1>9. CASE UNCHANGED endpoint
  BY <1>9, Zenon DEF endpoint
<1> QED
  BY <1>3, <1>4, <1>5, <1>6, <1>7, <1>8, <1>9 DEF MtpNext

LEMMA EndpointPumps == MtpSpec => PumpSpec
<1>1. MtpInit => PumpInit /\ NotCancelled
  BY DEF MtpInit
<1> QED
  BY <1>1, EndpointStep, PTL DEF MtpSpec, PumpSpec

\* However slow the destination is, no more than the channel and one window in
\* hand are fetched ahead of it: memory stays bounded (PUMP_DEPTH).
THEOREM EndpointPrefetch == MtpSpec => []PrefetchBounded
BY EndpointPumps, PrefetchIsBounded, PTL

\* A cancel that comes once every window was fetched cannot fail the file.
THEOREM EndpointLands == MtpSpec => []LandedIsNotCancelled
BY EndpointPumps, CancelComesTooLate, PTL

\* What the destination pulls from an endpoint is a byte stream: no gap, and no
\* clean end before the last window.
THEOREM EndpointStreams == MtpSpec => ImplementsByteStream
BY EndpointPumps, PumpImplements, PTL
=============================================================================
