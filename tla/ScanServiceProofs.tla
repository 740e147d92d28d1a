------------------------- MODULE ScanServiceProofs -------------------------
(***************************************************************************)
(* What TLAPS proves of ScanService, for every set of requests and every   *)
(* bound on the networks: its variables keep their types; and, for one     *)
(* central, at most one stream is on the air and what the service notifies *)
(* implements ScanStream.                                                  *)
(***************************************************************************)
EXTENDS ScanService, TLAPS

\* Every action writes values of the variables' types.
LEMMA TypeStep == TypeOK /\ [Next]_vars => TypeOK'
<1> SUFFICES ASSUME TypeOK, [Next]_vars
             PROVE  TypeOK'
  OBVIOUS
<1> USE ScanServiceAssumption DEF TypeOK, Frames, Frame, Live, OnAir, Finished
<1>1. ASSUME NEW r \in Requests, WriteLaunches(r)
      PROVE  TypeOK'
  BY <1>1 DEF WriteLaunches, MayArrive, Launch, Running, networks
<1>2. ASSUME NEW r \in Requests, WriteCancels(r)
      PROVE  TypeOK'
  BY <1>2 DEF WriteCancels, MayArrive, Running, networks
<1>3. ASSUME NEW r \in Requests, WriteResumes(r)
      PROVE  TypeOK'
  BY <1>3 DEF WriteResumes, Launch, networks
<1>4. ASSUME NEW r \in Requests, StreamBegins(r)
      PROVE  TypeOK'
  BY <1>4 DEF StreamBegins, Goes, Notify, handler, networks
<1>5. ASSUME NEW r \in Requests, AskIface(r)
      PROVE  TypeOK'
  BY <1>5 DEF AskIface, Goes, handler, networks
<1>6. ASSUME NEW r \in Requests, IfaceKnown(r)
      PROVE  TypeOK'
  BY <1>6 DEF IfaceKnown, NmclisDone, Goes, handler, networks
<1>7. ASSUME NEW r \in Requests, IfaceTimesOut(r) \/ ListFails(r)
      PROVE  TypeOK'
  BY <1>7 DEF IfaceTimesOut, ListFails, NmclisDone, Goes, Notify, handler, networks
<1>8. ASSUME NEW r \in Requests, ListArrives(r)
      PROVE  TypeOK'
  <2>1. PICK size \in 0..MaxNets :
          total' = [total EXCEPT ![r] = size] /\ NotifyNext(r, size, 0)
    BY <1>8 DEF ListArrives
  <2> QED
    BY <1>8, <2>1 DEF ListArrives, NmclisDone, NotifyNext, Goes, Notify, handler
<1>9. ASSUME NEW r \in Requests, NetSlept(r)
      PROVE  TypeOK'
  BY <1>9 DEF NetSlept, NotifyNext, Goes, Notify, handler
<1>10. ASSUME NEW r \in Requests, StreamDies(r)
       PROVE  TypeOK'
  BY <1>10 DEF StreamDies, Goes, handler, networks
<1>11. ASSUME NEW r \in Requests, CancelDelivered(r)
       PROVE  TypeOK'
  BY <1>11 DEF CancelDelivered, Goes, handler, networks
<1>12. CASE RescanEnds
  BY <1>12 DEF RescanEnds, handler, networks
<1>13. CASE UNCHANGED vars
  BY <1>13 DEF vars, handler, networks
<1> QED
  BY <1>1, <1>2, <1>3, <1>4, <1>5, <1>6, <1>7, <1>8, <1>9, <1>10, <1>11,
     <1>12, <1>13 DEF Next, Write, Stream, Quiescent

LEMMA TypeInit == Init => TypeOK
<1> SUFFICES ASSUME Init PROVE TypeOK
  OBVIOUS
<1>1. MaxNets \in Nat /\ 0 \in 0..MaxNets
  BY ScanServiceAssumption
<1>2. wire \in Frames
  BY <1>1 DEF Init, Frames, Frame
<1>3. total \in [Requests -> 0..MaxNets] /\ sent \in [Requests -> 0..MaxNets]
  BY <1>1 DEF Init
<1> QED
  BY <1>2, <1>3 DEF Init, TypeOK, Live, OnAir, Finished

\* The variables of the scan service keep their types, however writes overlap
\* and however nmcli fails (service.py:127-181).
THEOREM TypeCorrect == Spec => []TypeOK
<1>1. Init => TypeOK
  BY TypeInit
<1> QED
  BY <1>1, TypeStep, PTL DEF Spec

-----------------------------------------------------------------------------
(* The inductive invariant for one central. *)

\* The handler that awaits is alone, and awaits the task _scan_task holds.
OneWaiter ==
    \A r \in Requests : wpc[r] = "awaiting" =>
        /\ waitsOn[r] = scanTask
        /\ \A q \in Requests : wpc[q] = "awaiting" => q = r

\* A stream task exists exactly for the requests whose handler has launched it.
LaunchedWhenDone ==
    \A r \in Requests : spc[r] = "none" <=> wpc[r] # "done"

\* sent counts the networks already notified, of the total known since the list.
SentCounts ==
    \A r \in Requests :
        /\ spc[r] \in {"none", "created", "begun", "iface", "listing"} => sent[r] = 0
        /\ spc[r] = "streaming" => sent[r] \in 1..total[r]

SerialInv ==
    /\ OneWaiter
    /\ LaunchedWhenDone
    /\ SentCounts
    /\ NoOrphan
    /\ OneStreamOnAir

\* The handler's steps: a write goes on only when no stream task is left alive.
LEMMA SerialWrite ==
    ASSUME ~Overlap, TypeOK, SerialInv, NEW r \in Requests, Write(r)
    PROVE  SerialInv'
<1> USE DEF TypeOK, Live, OnAir, Finished
<1>1. CASE WriteCancels(r)
  BY <1>1 DEF WriteCancels, MayArrive, Running, networks, SerialInv, OneWaiter,
              LaunchedWhenDone, SentCounts, NoOrphan, OneStreamOnAir
<1>2. CASE WriteLaunches(r) \/ WriteResumes(r)
  <2>1. spc[r] = "none" /\ sent[r] = 0
    BY <1>2 DEF WriteLaunches, MayArrive, WriteResumes, SerialInv,
                LaunchedWhenDone, SentCounts
  <2>2. \A q \in Requests : spc[q] \notin Live
    BY <1>2, ScanServiceAssumption
       DEF WriteLaunches, WriteResumes, Running, SerialInv, OneWaiter, NoOrphan
  <2>3. \A q \in Requests : q # r => wpc[q] # "awaiting"
    BY <1>2 DEF WriteLaunches, WriteResumes, MayArrive, SerialInv, OneWaiter
  <2>4. /\ wpc' = [wpc EXCEPT ![r] = "done"]
        /\ spc' = [spc EXCEPT ![r] = "created"]
        /\ scanTask' = r
        /\ UNCHANGED <<waitsOn, sent, total, wire>>
    BY <1>2 DEF WriteLaunches, WriteResumes, Launch, networks
  <2> QED
    BY <2>1, <2>2, <2>3, <2>4 DEF SerialInv, OneWaiter, LaunchedWhenDone,
       SentCounts, NoOrphan, OneStreamOnAir
<1> QED
  BY <1>1, <1>2 DEF Write

\* A stream's steps: only the task of _scan_task takes one, so the frame before
\* is its own.
LEMMA SerialStream ==
    ASSUME TypeOK, SerialInv, NEW r \in Requests, Stream(r)
    PROVE  SerialInv'
<1> USE DEF TypeOK, Live, OnAir, Finished
<1>1. /\ scanTask = r
      /\ \A q \in Requests : q # r => spc[q] \notin Live
      /\ spc[r] \in Live
  BY DEF Stream, StreamBegins, AskIface, IfaceKnown, IfaceTimesOut, ListFails,
         ListArrives, NetSlept, StreamDies, CancelDelivered, SerialInv, NoOrphan
<1>2. UNCHANGED <<wpc, waitsOn, scanTask>>
  BY DEF Stream, StreamBegins, AskIface, IfaceKnown, IfaceTimesOut, ListFails,
         ListArrives, NetSlept, StreamDies, CancelDelivered, handler
<1>3. spc' = [spc EXCEPT ![r] = spc'[r]] /\ spc'[r] # "none"
  BY DEF Stream, StreamBegins, AskIface, IfaceKnown, IfaceTimesOut, ListFails,
         ListArrives, NetSlept, StreamDies, CancelDelivered, Goes, NotifyNext
<1>4. OneWaiter' /\ LaunchedWhenDone' /\ NoOrphan'
  BY <1>1, <1>2, <1>3 DEF SerialInv, OneWaiter, LaunchedWhenDone, NoOrphan
<1>5. CASE StreamBegins(r)
  BY <1>5, <1>1, <1>4 DEF StreamBegins, Goes, Notify, Frame, networks,
     SerialInv, SentCounts, OneStreamOnAir
<1>6. CASE AskIface(r) \/ IfaceKnown(r)
  BY <1>6, <1>1, <1>4 DEF AskIface, IfaceKnown, Goes, networks,
     SerialInv, SentCounts, OneStreamOnAir
<1>7. CASE IfaceTimesOut(r) \/ ListFails(r) \/ StreamDies(r) \/ CancelDelivered(r)
  BY <1>7, <1>1, <1>4 DEF IfaceTimesOut, ListFails, StreamDies,
     CancelDelivered, Goes, networks, SerialInv, SentCounts, OneStreamOnAir
<1>8. ASSUME NEW size \in 0..MaxNets, NEW count \in 0..size,
             NotifyNext(r, size, count), total'[r] = size, sent[r] = count,
             \A q \in Requests : q # r => total'[q] = total[q]
      PROVE  SerialInv'
  BY <1>8, <1>1, <1>3, <1>4, ScanServiceAssumption DEF NotifyNext, Goes, Notify,
     Frame, SerialInv, SentCounts, OneStreamOnAir
<1>9. CASE ListArrives(r)
  <2>1. PICK size \in 0..MaxNets :
          total' = [total EXCEPT ![r] = size] /\ NotifyNext(r, size, 0)
    BY <1>9 DEF ListArrives
  <2>2. sent[r] = 0
    BY <1>9 DEF ListArrives, SerialInv, SentCounts
  <2> QED
    BY <1>8, <2>1, <2>2, ScanServiceAssumption
<1>10. CASE NetSlept(r)
  <2>1. sent[r] \in 0..total[r] /\ NotifyNext(r, total[r], sent[r])
    BY <1>10, ScanServiceAssumption DEF NetSlept, SerialInv, SentCounts
  <2> QED
    BY <1>8, <1>10, <2>1 DEF NetSlept
<1> QED
  BY <1>5, <1>6, <1>7, <1>9, <1>10 DEF Stream

LEMMA SerialStep ==
    ASSUME ~Overlap
    PROVE  TypeOK /\ SerialInv /\ [Next]_vars => SerialInv'
<1> SUFFICES ASSUME TypeOK, SerialInv, [Next]_vars
             PROVE  SerialInv'
  OBVIOUS
<1>1. CASE RescanEnds \/ UNCHANGED vars
  BY <1>1 DEF RescanEnds, vars, handler, networks, SerialInv, OneWaiter,
     LaunchedWhenDone, SentCounts, NoOrphan, OneStreamOnAir
<1> QED
  BY <1>1, SerialWrite, SerialStream DEF Next, Quiescent

LEMMA SerialInit == Init => SerialInv
BY ScanServiceAssumption DEF Init, SerialInv, OneWaiter, LaunchedWhenDone,
   SentCounts, NoOrphan, OneStreamOnAir, Live, OnAir

LEMMA SerialInvariant == ASSUME ~Overlap PROVE Spec => [](TypeOK /\ SerialInv)
<1>1. Init => TypeOK /\ SerialInv
  BY SerialInit, TypeInit
<1>2. TypeOK /\ SerialInv /\ [Next]_vars => TypeOK' /\ SerialInv'
  BY TypeStep, SerialStep
<1> QED
  BY <1>1, <1>2, PTL DEF Spec

\* With one central, only the newest stream is on the air and the last frame
\* tells where it is (service.py:127-177).
THEOREM SerialStreams == ASSUME ~Overlap PROVE Spec => []OneStreamOnAir
<1>1. TypeOK /\ SerialInv => OneStreamOnAir
  BY DEF SerialInv
<1> QED
  BY <1>1, SerialInvariant, PTL

\* With one central, a running stream is the one _scan_task holds, so that the
\* next write and shutdown() reach it (service.py:135-142, 338-344).
THEOREM SerialNoOrphan == ASSUME ~Overlap PROVE Spec => []NoOrphan
<1>1. TypeOK /\ SerialInv => NoOrphan
  BY DEF SerialInv
<1> QED
  BY <1>1, SerialInvariant, PTL

-----------------------------------------------------------------------------
(* Refinement: with one central, the service implements ScanStream. *)

Begun == {r \in Requests : spc[r] \notin {"none", "created", "dropped"}}

LEMMA PromiseInit == Init => Promise!Init
BY DEF Init, Promise!Init, Promise!Frame, Frame

\* A step of the stream of r is a step of the promise, or leaves the wire alone.
LEMMA PromiseStream ==
    ASSUME TypeOK, SerialInv, NEW r \in Requests, Stream(r)
    PROVE  Promise!Next \/ UNCHANGED Promise!vars
<1> USE DEF TypeOK, Live, OnAir, Finished
<1>1. ASSUME spc[r] \in OnAir, spc' = [spc EXCEPT ![r] = spc'[r]],
             spc'[r] \in OnAir \cup {"ended", "errored", "stopped", "died"}
      PROVE  UNCHANGED Begun
  BY <1>1 DEF Begun
<1>2. CASE StreamBegins(r)
  <2>1. r \notin Begun /\ Begun' = Begun \cup {r}
    BY <1>2 DEF StreamBegins, Goes, Begun
  <2>2. Promise!Begin(r)
    BY <1>2, <2>1 DEF StreamBegins, Notify, Frame, Promise!Begin, Promise!Frame, Begun
  <2> QED
    BY <2>2 DEF Promise!Next
<1>3. CASE AskIface(r) \/ IfaceKnown(r) \/ StreamDies(r)
  <2>1. UNCHANGED wire /\ UNCHANGED Begun
    BY <1>3, <1>1 DEF AskIface, IfaceKnown, StreamDies, Goes
  <2> QED
    BY <2>1 DEF Promise!vars, Begun
<1>4. CASE CancelDelivered(r)
  <2>1. UNCHANGED wire /\ UNCHANGED Begun
    BY <1>4 DEF CancelDelivered, Goes, Begun
  <2> QED
    BY <2>1 DEF Promise!vars, Begun
<1>5. CASE IfaceTimesOut(r) \/ ListFails(r)
  <2>1. UNCHANGED Begun /\ wire' = Frame(r, "err", 0)
    BY <1>5, <1>1 DEF IfaceTimesOut, ListFails, Goes, Notify
  <2>2. wire.s = r /\ wire.t = "begin"
    BY <1>5 DEF IfaceTimesOut, ListFails, SerialInv, OneStreamOnAir
  <2>3. Promise!Err(r)
    BY <2>1, <2>2 DEF Frame, Promise!Err, Promise!Frame, Begun
  <2> QED
    BY <2>3 DEF Promise!Next
<1>6. ASSUME NEW size \in 0..MaxNets, NEW count \in 0..size,
             spc[r] \in {"listing", "streaming"},
             NotifyNext(r, size, count), sent[r] = count
      PROVE  Promise!Next
  <2>1. wire.s = r /\ wire.t \in {"begin", "net"} /\ wire.n = count
    BY <1>6 DEF SerialInv, OneStreamOnAir
  <2>2. UNCHANGED Begun
    BY <1>6, <1>1 DEF NotifyNext, Goes
  <2>3. CASE count < size
    <3>1. Promise!Net(r)
      BY <1>6, <2>1, <2>2, <2>3, ScanServiceAssumption
         DEF NotifyNext, Notify, Frame, Promise!Net, Promise!Frame, Begun
    <3> QED
      BY <3>1 DEF Promise!Next
  <2>4. CASE ~(count < size)
    <3>1. count = size
      BY <2>4, ScanServiceAssumption
    <3>2. Promise!End(r)
      BY <1>6, <2>1, <2>2, <2>4, <3>1
         DEF NotifyNext, Notify, Frame, Promise!End, Promise!Frame, Begun
    <3> QED
      BY <3>2 DEF Promise!Next
  <2> QED
    BY <2>3, <2>4
<1>7. CASE ListArrives(r)
  <2>1. PICK size \in 0..MaxNets : NotifyNext(r, size, 0)
    BY <1>7 DEF ListArrives
  <2>2. spc[r] = "listing" /\ sent[r] = 0
    BY <1>7 DEF ListArrives, SerialInv, SentCounts
  <2> QED
    BY <1>6, <2>1, <2>2, ScanServiceAssumption
<1>8. CASE NetSlept(r)
  <2>1. sent[r] \in 0..total[r] /\ NotifyNext(r, total[r], sent[r])
    BY <1>8, ScanServiceAssumption DEF NetSlept, SerialInv, SentCounts
  <2> QED
    BY <1>6, <1>8, <2>1 DEF NetSlept
<1> QED
  BY <1>2, <1>3, <1>4, <1>5, <1>7, <1>8 DEF Stream

\* The other steps put nothing on the wire.
LEMMA PromiseStep ==
    TypeOK /\ SerialInv /\ [Next]_vars => Promise!Next \/ UNCHANGED Promise!vars
<1> SUFFICES ASSUME TypeOK, SerialInv, [Next]_vars
             PROVE  Promise!Next \/ UNCHANGED Promise!vars
  OBVIOUS
<1>1. ASSUME NEW r \in Requests, Write(r)
      PROVE  UNCHANGED Promise!vars
  <2>1. spc[r] = "none" \/ UNCHANGED spc
    BY <1>1 DEF Write, WriteLaunches, WriteCancels, WriteResumes, MayArrive,
       SerialInv, LaunchedWhenDone
  <2>2. UNCHANGED wire /\ (UNCHANGED spc \/ spc' = [spc EXCEPT ![r] = "created"])
    BY <1>1 DEF Write, WriteLaunches, WriteCancels, WriteResumes, Launch
  <2>3. UNCHANGED Begun
    BY <2>1, <2>2 DEF TypeOK, Begun
  <2> QED
    BY <2>2, <2>3 DEF Promise!vars, Begun
<1>2. CASE RescanEnds \/ UNCHANGED vars
  BY <1>2 DEF RescanEnds, vars, Promise!vars
<1> QED
  BY <1>1, <1>2, PromiseStream DEF Next, Quiescent

\* With one central, the frames of the scan characteristic are the coherent
\* succession of streams README.md:86 and service.py:130-132 promise.
THEOREM ServiceKeepsPromise == ASSUME ~Overlap PROVE Spec => KeepsPromise
<1>1. Spec => [](TypeOK /\ SerialInv)
  BY SerialInvariant
<1>2. TypeOK /\ SerialInv /\ [Next]_vars => [Promise!Next]_(Promise!vars)
  BY PromiseStep
<1>3. Init => Promise!Init
  BY PromiseInit
<1> QED
  BY <1>1, <1>2, <1>3, PTL DEF Spec, KeepsPromise, Promise!Spec
=============================================================================
