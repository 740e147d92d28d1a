------------------------- MODULE ScanSessionProofs -------------------------
(***************************************************************************)
(* What TLAPS proves of ScanSession, for every set of calls, any number of *)
(* frames in flight, any number of calls open at once, whether timers fire *)
(* early and whether the link drops: the variables keep their types, a     *)
(* settled call keeps what it has given; and, with one central, a resolved *)
(* list is a gapless part of one stream, all of it when it is the call's   *)
(* own.                                                                    *)
(***************************************************************************)
EXTENDS ScanSession, ScanServiceProofs, SequenceTheorems

-----------------------------------------------------------------------------
(* The firmware of a session is ScanService. *)

\* What a step of the session does to the firmware is a step of the firmware.
LEMMA FirmwareStep == [SessionNext]_sessionVars => [Next]_vars
<1>1. ASSUME NEW r \in Requests, CallStep(r)
      PROVE  Write(r) \/ UNCHANGED vars
  BY <1>1 DEF CallStep, Call, Subscribed, SubscribeFails, WriteArrives,
              WriteAcked, WriteThrows, TimesOut, Write
<1>2. ASSUME NEW r \in Requests, HandlerResumes(r) \/ StreamSteps(r)
      PROVE  Write(r) \/ Stream(r)
  BY <1>2 DEF HandlerResumes, StreamSteps, Write
<1>3. ASSUME Deliver \/ Drop \/ Reconnect \/ SessionOver \/ UNCHANGED sessionVars
      PROVE  UNCHANGED vars
  BY <1>3 DEF Deliver, Drop, Reconnect, SessionOver, sessionVars
<1> QED
  BY <1>1, <1>2, <1>3 DEF SessionNext, RescanSteps, Next

\* The session runs the service as it is: whatever holds of the service's steps
\* alone holds of it under the page's calls and the link (ble.js:230-320).
THEOREM SessionRunsService == SessionSpec => Spec
<1>1. SessionInit => Init
  BY DEF SessionInit
<1> QED
  BY <1>1, FirmwareStep, PTL DEF SessionSpec, Spec

\* As long as no write meets another one's await, the wire keeps the promise of
\* the scan characteristic under calls that overlap and time out and a link that
\* drops (README.md:86, service.py:130-132).
THEOREM SessionKeepsPromise == ASSUME ~Overlap PROVE SessionSpec => KeepsPromise
BY SessionRunsService, ServiceKeepsPromise, PTL

-----------------------------------------------------------------------------
(* Types, and what is settled. *)

\* Only a call that has begun and is not settled has its timer pending.
ArmedInv ==
    /\ \A r \in armed : cpc[r] # "new" /\ done[r] = "open"
    /\ \A r \in Requests : cpc[r] = "new" => done[r] = "open" /\ got[r] = << >>

PageInv == SessionTypeOK /\ ArmedInv

\* What the page and the link do keeps their variables' types.
LEMMA PageStep == PageInv /\ TypeOK' /\ [SessionNext]_sessionVars => PageInv'
<1> SUFFICES ASSUME PageInv, TypeOK', [SessionNext]_sessionVars
             PROVE  PageInv'
  OBVIOUS
<1> USE DEF PageInv, SessionTypeOK, ArmedInv
<1>1. ASSUME NEW r \in Requests,
             UNCHANGED <<air, link, client>>
      PROVE  PageInv'
  BY <1>1 DEF client
<1>2. ASSUME NEW r \in Requests, WriteArrives(r) \/ HandlerResumes(r) PROVE PageInv'
  BY <1>1, <1>2 DEF WriteArrives, HandlerResumes
<1>3. ASSUME NEW r \in Requests, StreamSteps(r) PROVE PageInv'
  <2>1. wire' \in Frames
    BY DEF TypeOK
  <2>2. /\ air' = (IF link /\ wire' # wire THEN Append(air, wire') ELSE air)
        /\ Len(air) < AirMax /\ UNCHANGED <<link, client>>
    BY <1>3 DEF StreamSteps, Relay
  <2>3. air' \in Seq(Frames) /\ Len(air') <= AirMax
    BY <2>1, <2>2, ScanSessionAssumption
  <2> QED
    BY <2>2, <2>3 DEF client
<1>4. ASSUME NEW r \in Requests, Call(r) PROVE PageInv'
  BY <1>4 DEF Call, At
<1>5. ASSUME NEW r \in Requests, Subscribed(r) \/ WriteAcked(r) \/ WriteThrows(r)
      PROVE  PageInv'
  BY <1>5 DEF Subscribed, WriteAcked, WriteThrows, At
<1>6. ASSUME NEW r \in Requests, SubscribeFails(r) PROVE PageInv'
  BY <1>6 DEF SubscribeFails, At
<1>7. ASSUME NEW r \in Requests, TimesOut(r) PROVE PageInv'
  BY <1>7 DEF TimesOut
<1>8. ASSUME RescanSteps \/ Reconnect \/ SessionOver \/ UNCHANGED sessionVars
      PROVE  PageInv'
  BY <1>8 DEF RescanSteps, Reconnect, SessionOver, sessionVars, client
<1>9. CASE Drop
  <2>1. air' \in Seq(Frames) /\ Len(air') <= AirMax
    BY <1>9, ScanSessionAssumption DEF Drop
  <2> QED
    BY <1>9, <2>1 DEF Drop
<1>10. CASE Deliver
  <2> DEFINE f == Head(air)
             last == f.t \in {"end", "err"}
  <2>1. /\ got' = [r \in Requests |-> IF r \in hears THEN HeardList(f, got[r]) ELSE got[r]]
        /\ told' = [r \in Requests |-> IF r \in hears /\ f.t = "end" THEN f ELSE told[r]]
        /\ done' = [r \in Requests |-> IF r \in hears /\ last THEN Settled(f) ELSE done[r]]
        /\ armed' = IF last THEN armed \ hears ELSE armed
        /\ hears' = IF last THEN {} ELSE hears
        /\ air # << >> /\ air' = Tail(air) /\ UNCHANGED <<vars, link, cpc>>
    BY <1>10 DEF Deliver
  <2>2. f \in Frames /\ air' \in Seq(Frames) /\ Len(air') <= AirMax
    BY <2>1, ScanSessionAssumption
  <2>3. \A list \in Seq(Frames) : HeardList(f, list) \in Seq(Frames)
    BY <2>2 DEF HeardList
  <2>4. got' \in [Requests -> Seq(Frames)]
    BY <2>1, <2>3
  <2>5. told' \in [Requests -> Frames]
    BY <2>1, <2>2
  <2>6. Settled(f) \in {"resolved", "rejected"}
    BY DEF Settled
  <2> HIDE DEF f
  <2>7. done' \in [Requests -> {"open", "resolved", "rejected"}]
    BY <2>1, <2>6
  <2> QED
    BY <2>1, <2>2, <2>4, <2>5, <2>7
<1> QED
  BY <1>2, <1>3, <1>4, <1>5, <1>6, <1>7, <1>8, <1>9, <1>10 DEF SessionNext, CallStep

\* Nothing has been called, and nothing is in flight.
LEMMA PageInit == SessionInit => PageInv
<1> SUFFICES ASSUME SessionInit PROVE PageInv
  OBVIOUS
<1>1. TypeOK
  BY TypeInit DEF SessionInit
<1>2. Frame(NoReq, "none", 0) \in Frames
  BY ScanServiceAssumption DEF Frame, Frames
<1>3. air \in Seq(Frames) /\ Len(air) <= AirMax
  BY ScanSessionAssumption DEF SessionInit
<1> QED
  BY <1>1, <1>2, <1>3 DEF SessionInit, PageInv, SessionTypeOK, ArmedInv

\* The types and the timers, in every state.
LEMMA PageInvariant == SessionSpec => []PageInv
<1>1. PageInv /\ [SessionNext]_sessionVars => PageInv'
  <2>1. PageInv /\ [SessionNext]_sessionVars => TypeOK'
    BY FirmwareStep, TypeStep DEF PageInv, SessionTypeOK
  <2> QED
    BY <2>1, PageStep
<1> QED
  BY <1>1, PageInit, PTL DEF SessionSpec

\* The variables of the firmware, of the link and of the calls keep their types,
\* and a listener is never left without its timer (ble.js:283-307).
THEOREM SessionTypeCorrect == SessionSpec => []SessionTypeOK
<1>1. PageInv => SessionTypeOK
  BY DEF PageInv
<1> QED
  BY <1>1, PageInvariant, PTL

\* A settled call has neither its timer nor a listener, so that no late frame, no
\* timer and no other stream changes its outcome or its list (ble.js:283-307).
THEOREM OutcomeIsFinal == SessionSpec => SettledForGood
<1>1. ASSUME PageInv, [SessionNext]_sessionVars, NEW r \in Requests, done[r] # "open"
      PROVE  UNCHANGED <<done[r], got[r]>>
  <2>1. r \notin armed /\ r \notin hears
    BY <1>1 DEF PageInv, SessionTypeOK, ArmedInv
  <2>2. ASSUME Deliver PROVE UNCHANGED <<done[r], got[r]>>
    <3> DEFINE f == Head(air)
    <3>1. /\ got' = [q \in Requests |-> IF q \in hears THEN HeardList(f, got[q]) ELSE got[q]]
          /\ done' = [q \in Requests |->
                       IF q \in hears /\ f.t \in {"end", "err"} THEN Settled(f) ELSE done[q]]
      BY <2>2 DEF Deliver
    <3> QED
      BY <2>1, <3>1
  <2>3. ASSUME NEW q \in Requests, TimesOut(q) PROVE UNCHANGED <<done[r], got[r]>>
    BY <2>1, <2>3 DEF TimesOut
  <2>4. ASSUME NEW q \in Requests, CallStep(q), ~TimesOut(q)
        PROVE  UNCHANGED <<done[r], got[r]>>
    BY <2>4 DEF CallStep, Call, Subscribed, SubscribeFails, WriteArrives,
                WriteAcked, WriteThrows, client
  <2>5. ASSUME NEW q \in Requests, HandlerResumes(q) \/ StreamSteps(q)
        PROVE  UNCHANGED <<done[r], got[r]>>
    BY <2>5 DEF HandlerResumes, StreamSteps, Relay, client
  <2>6. ASSUME RescanSteps \/ Drop \/ Reconnect \/ SessionOver \/ UNCHANGED sessionVars
        PROVE  UNCHANGED <<done[r], got[r]>>
    BY <2>6 DEF RescanSteps, Drop, Reconnect, SessionOver, sessionVars, client
  <2> QED
    BY <1>1, <2>2, <2>3, <2>4, <2>5, <2>6 DEF SessionNext
<1>2. PageInv /\ [SessionNext]_sessionVars =>
        [\A r \in Requests : done[r] # "open" => UNCHANGED <<done[r], got[r]>>]_sessionVars
  BY <1>1
<1> QED
  BY <1>2, PageInvariant, PTL DEF SessionSpec, SettledForGood

-----------------------------------------------------------------------------
(* The lists, as long as no write meets another one's await. *)

\* Frame g is what may come next on the wire after frame f.
Follows(g, f) ==
    \/ g.t = "begin" /\ g.n = 0
    \/ /\ g.s = f.s /\ f.t \in {"begin", "net"}
       /\ \/ g.t = "net" /\ g.n = f.n + 1
          \/ g.t = "end" /\ g.n = f.n
          \/ g.t = "err"

\* What is in flight is the end of what was on the wire, nothing left out.
AirInv ==
    /\ \A i \in DOMAIN air : i + 1 \in DOMAIN air => Follows(air[i + 1], air[i])
    /\ \A i \in DOMAIN air : air[i].t # "none" /\ (air[i].t = "begin" => air[i].n = 0)
    /\ air # << >> => air[Len(air)] = wire
    /\ ~link => air = << >> /\ hears = {}

\* A call that has not begun has written nothing, and nothing was ever seen of a
\* stream that has not begun.
FreshInv ==
    /\ \A r \in Requests : cpc[r] = "new" => wpc[r] = "idle"
    /\ \A r \in Requests \ Begun : wire.s # r /\ \A i \in DOMAIN air : air[i].s # r

\* Networks of one stream, numbered without a hole.
Consecutive(list) ==
    \A i \in DOMAIN list :
        /\ list[i].t = "net"
        /\ list[i].s = list[Len(list)].s
        /\ list[i].n = list[Len(list)].n - Len(list) + i

\* The last network of a list is the frame before those still to come.
Continues(list) ==
    list # << >> => IF air = << >> THEN wire = list[Len(list)]
                    ELSE Follows(air[1], list[Len(list)])

\* Frame f goes on with a list of k networks that misses none of its stream.
GoesOn(f, k) ==
    \/ f.t \in {"begin", "err"}
    \/ f.t = "net" /\ f.n = k + 1
    \/ f.t = "end" /\ f.n = k

\* A call misses no network of its own stream.
MissesNone(r) ==
    /\ air # << >> /\ air[1].s = r => GoesOn(air[1], Len(got[r]))
    /\ air = << >> /\ wire.s = r => wire.n = Len(got[r])

HearInv == \A r \in hears : Consecutive(got[r]) /\ Continues(got[r]) /\ MissesNone(r)

ListInv == AirInv /\ FreshInv /\ HearInv /\ ListIsTail /\ OwnListIsComplete

\* One frame at a time, and each follows the one before it.
LEMMA WireStep ==
    ASSUME TypeOK, SerialInv, [Next]_vars
    PROVE  /\ Begun \subseteq Begun'
           /\ wire' # wire => /\ Follows(wire', wire)
                              /\ wire'.s = wire.s \/ wire'.s \in Begun'
<1>1. Promise!Next \/ UNCHANGED Promise!vars
  BY PromiseStep
<1>2. CASE UNCHANGED Promise!vars
  BY <1>2 DEF Promise!vars, Begun
<1>3. ASSUME NEW r \in Requests, Promise!Begin(r)
      PROVE  /\ Begun' = Begun \cup {r}
             /\ Follows(wire', wire) /\ wire'.s = r
  BY <1>3 DEF Promise!Begin, Promise!Frame, Begun, Follows
<1>4. ASSUME NEW r \in Requests, Promise!Net(r) \/ Promise!End(r) \/ Promise!Err(r)
      PROVE  /\ Begun' = Begun
             /\ Follows(wire', wire) /\ wire'.s = wire.s
  BY <1>4 DEF Promise!Net, Promise!End, Promise!Err, Promise!Frame, Begun, Follows
<1> QED
  BY <1>1, <1>2, <1>3, <1>4 DEF Promise!Next

\* A sequence of frames with one more at its end.
LEMMA OneMore ==
    ASSUME NEW list \in Seq(Frames), NEW f \in Frames
    PROVE  /\ Append(list, f) # << >> /\ Len(list) \in Nat
           /\ Len(Append(list, f)) = Len(list) + 1
           /\ DOMAIN Append(list, f) = DOMAIN list \cup {Len(list) + 1}
           /\ Append(list, f)[Len(list) + 1] = f
           /\ \A i \in DOMAIN list :
                /\ Append(list, f)[i] = list[i] /\ list[i] \in Frames
                /\ i \in Nat /\ i \in 1..Len(list)
           /\ list # << >> => 1 \in DOMAIN list /\ Len(list) \in DOMAIN list
           /\ list = << >> => Len(list) = 0 /\ DOMAIN list = {}
<1>1. Len(list) \in Nat /\ DOMAIN list = 1..Len(list)
  BY LenProperties
<1>2. /\ Append(list, f) # << >> /\ Len(Append(list, f)) = Len(list) + 1
      /\ DOMAIN Append(list, f) = DOMAIN list \cup {Len(list) + 1}
      /\ Append(list, f)[Len(list) + 1] = f
      /\ \A i \in DOMAIN list : Append(list, f)[i] = list[i] /\ list[i] \in Frames
  OBVIOUS
<1>3. list = << >> => Len(list) = 0 /\ DOMAIN list = {}
  OBVIOUS
<1>4. list # << >> => Len(list) # 0
  BY EmptySeq
<1> QED
  BY <1>1, <1>2, <1>3, <1>4

\* A list that a listener has gone on with.
LEMMA ListGoesOn ==
    ASSUME NEW list \in Seq(Frames), NEW f \in Frames, Consecutive(list),
           f.t \in {"begin", "net"},
           f.t = "net" /\ list # << >> => Follows(f, list[Len(list)])
    PROVE  /\ Consecutive(HeardList(f, list))
           /\ f.t = "begin" => HeardList(f, list) = << >>
           /\ f.t = "net" => /\ HeardList(f, list) = Append(list, f)
                             /\ HeardList(f, list) # << >>
                             /\ Len(HeardList(f, list)) = Len(list) + 1
                             /\ HeardList(f, list)[Len(HeardList(f, list))] = f
<1>1. CASE f.t = "begin"
  <2>1. HeardList(f, list) = << >> /\ DOMAIN << >> = {}
    BY <1>1 DEF HeardList
  <2> QED
    BY <1>1, <2>1 DEF Consecutive
<1>2. CASE f.t = "net"
  <2> DEFINE longer == Append(list, f)
  <2>1. HeardList(f, list) = longer /\ longer = Append(list, f)
    BY <1>2 DEF HeardList
  <2>2. /\ longer # << >> /\ Len(longer) = Len(list) + 1 /\ longer[Len(longer)] = f
        /\ DOMAIN longer = DOMAIN list \cup {Len(list) + 1}
        /\ \A i \in DOMAIN list : longer[i] = list[i] /\ list[i] \in Frames /\ i \in Nat
    BY OneMore
  <2>3. f.n \in Nat /\ Len(list) \in Nat
    BY ScanServiceAssumption DEF Frames
  <2>4. CASE list = << >>
    <3>1. Len(list) = 0 /\ DOMAIN list = {}
      BY <2>4
    <3>2. DOMAIN longer = {1} /\ longer[1] = f /\ Len(longer) = 1
      BY <2>2, <3>1
    <3> QED
      BY <1>2, <2>1, <2>2, <2>3, <3>2 DEF Consecutive
  <2>5. CASE list # << >>
    <3>1. list[Len(list)] \in Frames /\ Len(list) \in DOMAIN list
      BY <2>5
    <3>2. f.s = list[Len(list)].s /\ f.n = list[Len(list)].n + 1
      BY <1>2, <2>5, <3>1 DEF Follows
    <3>3. ASSUME NEW i \in DOMAIN longer
          PROVE  longer[i].t = "net" /\ longer[i].s = f.s /\ longer[i].n = f.n - Len(longer) + i
      <4>1. CASE i \in DOMAIN list
        <5>1. list[Len(list)].n \in Nat /\ list[i].n \in Nat /\ i \in Nat
          BY <2>2, <3>1, <4>1, ScanServiceAssumption DEF Frames
        <5> QED
          BY <2>2, <2>3, <3>2, <4>1, <5>1 DEF Consecutive
      <4>2. CASE i = Len(list) + 1
        BY <1>2, <2>2, <2>3, <4>2
      <4> QED
        BY <2>2, <4>1, <4>2
    <3> HIDE DEF longer
    <3>4. Consecutive(longer)
      BY <2>2, <3>3 DEF Consecutive
    <3> QED
      BY <1>2, <2>1, <2>2, <3>4
  <2> QED
    BY <2>4, <2>5
<1> QED
  BY <1>1, <1>2

\* A settled list is left as it is.
LEMMA SettledLists ==
    ASSUME ListInv,
           \A r \in Requests : Resolved(r)' =>
             /\ Resolved(r)
             /\ UNCHANGED <<got[r], told[r]>>
    PROVE  ListIsTail' /\ OwnListIsComplete'
<1>1. ListIsTail'
  BY DEF ListInv, ListIsTail, Resolved
<1>2. OwnListIsComplete'
  BY DEF ListInv, OwnListIsComplete, Resolved
<1> QED
  BY <1>1, <1>2

\* The steps of the page that leave the air, the link and the lists alone.
LEMMA PageSteps ==
    ASSUME PageInv, SerialInv, ListInv, NEW r \in Requests,
           \/ Call(r) \/ Subscribed(r) \/ SubscribeFails(r)
           \/ WriteAcked(r) \/ WriteThrows(r) \/ TimesOut(r)
    PROVE  ListInv'
<1> USE DEF PageInv, SessionTypeOK, ArmedInv
<1>1. UNCHANGED <<vars, air, link, got, told>>
  BY DEF Call, Subscribed, SubscribeFails, WriteAcked, WriteThrows, TimesOut
<1>2. /\ \A q \in Requests : cpc'[q] = "new" => cpc[q] = "new"
      /\ \A q \in Requests : Resolved(q)' => Resolved(q)
      /\ hears' \subseteq hears \cup {r}
      /\ r \in hears' \ hears => link /\ cpc[r] = "new"
      /\ hears' # {} => hears # {} \/ link
  BY DEF Call, Subscribed, SubscribeFails, WriteAcked, WriteThrows, TimesOut, At, Resolved
<1>3. Begun' = Begun
  BY <1>1 DEF vars, Begun
<1>4. AirInv'
  BY <1>1, <1>2 DEF ListInv, AirInv, vars
<1>5. FreshInv'
  BY <1>1, <1>2, <1>3 DEF ListInv, FreshInv, vars, handler
<1>6. HearInv'
  <2>1. ASSUME NEW q \in hears
        PROVE  (Consecutive(got[q]) /\ Continues(got[q]) /\ MissesNone(q))'
    BY <1>1, <2>1 DEF ListInv, HearInv, Continues, MissesNone, vars, Consecutive
  <2>2. ASSUME r \in hears' \ hears
        PROVE  (Consecutive(got[r]) /\ Continues(got[r]) /\ MissesNone(r))'
    <3>1. got[r] = << >> /\ r \notin Begun
      BY <1>2, <2>2 DEF ListInv, FreshInv, LaunchedWhenDone, SerialInv, Begun
    <3>2. wire.s # r /\ (air # << >> => air[1].s # r)
      <4>1. air # << >> => 1 \in DOMAIN air
        OBVIOUS
      <4> QED
        BY <3>1, <4>1 DEF ListInv, FreshInv
    <3> QED
      BY <1>1, <3>1, <3>2 DEF Continues, MissesNone, vars, Consecutive
  <2> QED
    BY <1>2, <2>1, <2>2 DEF HearInv
<1>7. ListIsTail' /\ OwnListIsComplete'
  BY <1>1, <1>2, SettledLists
<1> QED
  BY <1>4, <1>5, <1>6, <1>7 DEF ListInv

\* The steps of the firmware that put nothing on the wire.
LEMMA SilentSteps ==
    ASSUME PageInv, SerialInv, ListInv, TypeOK, [Next]_vars,
           UNCHANGED <<wire, air, link, client>>,
           \A r \in Requests : wpc'[r] # wpc[r] => cpc[r] = "writing" \/ wpc[r] = "awaiting"
    PROVE  ListInv'
<1>1. Begun \subseteq Begun'
  BY WireStep
<1>2. AirInv'
  BY DEF ListInv, AirInv, client
<1>3. FreshInv'
  BY <1>1 DEF ListInv, FreshInv, client
<1>4. HearInv'
  BY DEF ListInv, HearInv, Consecutive, Continues, MissesNone, client
<1>5. ListIsTail' /\ OwnListIsComplete'
  <2>1. \A r \in Requests : Resolved(r)' => Resolved(r) /\ UNCHANGED <<got[r], told[r]>>
    BY DEF Resolved, client
  <2> QED
    BY <2>1, SettledLists
<1> QED
  BY <1>2, <1>3, <1>4, <1>5 DEF ListInv

\* A step of a stream: the frame it puts on the wire, if any, goes into the air.
LEMMA StreamKeepsLists ==
    ASSUME PageInv, TypeOK', SerialInv, ListInv, NEW r \in Requests, StreamSteps(r)
    PROVE  ListInv'
<1> USE DEF PageInv, SessionTypeOK
<1>1. /\ UNCHANGED <<link, client>>
      /\ air' = (IF link /\ wire' # wire THEN Append(air, wire') ELSE air)
  BY DEF StreamSteps, Relay
<1>2. [Next]_vars /\ UNCHANGED wpc
  BY DEF StreamSteps, Next, Stream, StreamBegins, AskIface, IfaceKnown, IfaceTimesOut,
         ListFails, ListArrives, NetSlept, StreamDies, CancelDelivered, handler
<1>3. /\ Begun \subseteq Begun'
      /\ wire' # wire => Follows(wire', wire) /\ (wire'.s = wire.s \/ wire'.s \in Begun')
  BY <1>2, WireStep
<1>4. CASE wire' = wire
  BY <1>1, <1>2, <1>4, SilentSteps
<1>5. CASE wire' # wire
  <2>1. ListIsTail' /\ OwnListIsComplete'
    <3>1. \A q \in Requests : Resolved(q)' => Resolved(q) /\ UNCHANGED <<got[q], told[q]>>
      BY <1>1 DEF Resolved, client
    <3> QED
      BY <3>1, SettledLists
  <2>2. CASE ~link
    <3>1. air' = << >> /\ hears' = {} /\ DOMAIN air' = {}
      BY <1>1, <2>2 DEF ListInv, AirInv, client
    <3>2. AirInv' /\ HearInv'
      BY <3>1 DEF AirInv, HearInv
    <3>3. FreshInv'
      BY <1>1, <1>2, <1>3, <1>5, <3>1 DEF ListInv, FreshInv, client
    <3> QED
      BY <2>1, <3>2, <3>3 DEF ListInv
  <2>3. CASE link
    <3>1. air' = Append(air, wire') /\ wire' \in Frames
      BY <1>1, <1>5, <2>3 DEF TypeOK
    <3>2. /\ DOMAIN air' = DOMAIN air \cup {Len(air) + 1}
          /\ Len(air') = Len(air) + 1 /\ Len(air) \in Nat
          /\ air'[Len(air) + 1] = wire' /\ air' # << >>
          /\ \A i \in DOMAIN air : air'[i] = air[i] /\ i \in 1..Len(air)
          /\ air # << >> => 1 \in DOMAIN air
          /\ air = << >> => Len(air) = 0 /\ DOMAIN air = {}
      BY <3>1, OneMore
    <3>3. AirInv'
      <4>1. \A i \in DOMAIN air' : i + 1 \in DOMAIN air' => Follows(air'[i + 1], air'[i])
        BY <1>3, <1>5, <3>2 DEF ListInv, AirInv
      <4>2. \A i \in DOMAIN air' :
              air'[i].t # "none" /\ (air'[i].t = "begin" => air'[i].n = 0)
        BY <1>3, <1>5, <3>2 DEF ListInv, AirInv, Follows
      <4> QED
        BY <1>1, <2>3, <3>2, <4>1, <4>2 DEF AirInv
    <3>4. FreshInv'
      <4>1. \A q \in Requests \ Begun' :
              wire'.s # q /\ \A i \in DOMAIN air' : air'[i].s # q
        BY <1>3, <1>5, <3>2 DEF ListInv, FreshInv
      <4> QED
        BY <1>1, <1>2, <4>1 DEF ListInv, FreshInv, client
    <3>5. ASSUME NEW q \in hears
          PROVE  (Consecutive(got[q]) /\ Continues(got[q]) /\ MissesNone(q))'
      <4>1. got'[q] = got[q] /\ Consecutive(got[q]) /\ Continues(got[q]) /\ MissesNone(q)
        BY <1>1, <3>5 DEF ListInv, HearInv, client
      <4>2. CASE air = << >>
        <5>1. air'[1] = wire'
          BY <3>2, <4>2
        <5>2. got[q] # << >> => Follows(wire', got[q][Len(got[q])])
          BY <1>3, <1>5, <4>1, <4>2 DEF Continues
        <5>3. wire'.s = q => GoesOn(wire', Len(got[q]))
          BY <1>3, <1>5, <4>1, <4>2 DEF MissesNone, GoesOn, Follows
        <5> QED
          BY <3>2, <4>1, <5>1, <5>2, <5>3 DEF Consecutive, Continues, MissesNone
      <4>3. CASE air # << >>
        <5>1. air'[1] = air[1]
          BY <3>2, <4>3
        <5> QED
          BY <3>2, <4>1, <4>3, <5>1 DEF Consecutive, Continues, MissesNone
      <4> QED
        BY <4>2, <4>3
    <3> QED
      BY <1>1, <2>1, <3>3, <3>4, <3>5 DEF ListInv, HearInv, client
  <2> QED
    BY <2>2, <2>3
<1> QED
  BY <1>4, <1>5

\* What one listener is left with when frame f is heard: a list that goes on, or
\* the outcome of its call.
LEMMA DeliverKeepsLists ==
    ASSUME PageInv, ListInv, Deliver
    PROVE  ListInv'
<1> USE DEF PageInv, SessionTypeOK
<1> DEFINE f == air[1]
           last == f.t \in {"end", "err"}
<1>1. /\ air # << >> /\ air' = Tail(air) /\ UNCHANGED <<vars, link, cpc>>
      /\ 1 \in DOMAIN air /\ f \in Frames /\ f = Head(air)
  BY DEF Deliver
<1>2. /\ got' = [r \in Requests |-> IF r \in hears THEN HeardList(f, got[r]) ELSE got[r]]
      /\ told' = [r \in Requests |-> IF r \in hears /\ f.t = "end" THEN f ELSE told[r]]
      /\ done' = [r \in Requests |-> IF r \in hears /\ last THEN Settled(f) ELSE done[r]]
      /\ hears' = IF last THEN {} ELSE hears
  BY <1>1 DEF Deliver
<1>3. /\ \A i \in DOMAIN air' : i + 1 \in DOMAIN air /\ air'[i] = air[i + 1] /\ i \in Nat
      /\ air' # << >> => 1 \in DOMAIN air' /\ 2 \in DOMAIN air
                          /\ air'[1] = air[2] /\ air'[Len(air')] = air[Len(air)]
      /\ air' = << >> => Len(air) = 1
  <2>1. air' \in Seq(Frames) /\ Len(air') = Len(air) - 1 /\ Len(air) \in Nat
    BY <1>1
  <2>2. \A i \in DOMAIN air' : i + 1 \in DOMAIN air /\ air'[i] = air[i + 1] /\ i \in Nat
    BY <1>1
  <2>3. air' # << >> => 1 \in DOMAIN air' /\ Len(air') \in DOMAIN air'
    BY <2>1, OneMore, <1>1
  <2>4. air' = << >> => Len(air') = 0
    OBVIOUS
  <2> QED
    BY <2>1, <2>2, <2>3, <2>4
<1>4. \A i \in DOMAIN air' : i + 1 \in DOMAIN air' => i + 2 \in DOMAIN air
  BY <1>3
<1> HIDE DEF f, last
<1>5. AirInv'
  <2>1. \A i \in DOMAIN air' : i + 1 \in DOMAIN air' => Follows(air'[i + 1], air'[i])
    <3> SUFFICES ASSUME NEW i \in DOMAIN air', i + 1 \in DOMAIN air'
                 PROVE  Follows(air'[i + 1], air'[i])
      OBVIOUS
    <3>1. /\ i + 1 \in DOMAIN air /\ (i + 1) + 1 \in DOMAIN air
          /\ air'[i] = air[i + 1] /\ air'[i + 1] = air[(i + 1) + 1]
      BY <1>3
    <3> QED
      BY <3>1 DEF ListInv, AirInv
  <2>2. \A i \in DOMAIN air' :
          air'[i].t # "none" /\ (air'[i].t = "begin" => air'[i].n = 0)
    BY <1>3 DEF ListInv, AirInv
  <2>3. air' # << >> => air'[Len(air')] = wire'
    BY <1>1, <1>3 DEF ListInv, AirInv, vars
  <2>4. link'
    BY <1>1 DEF ListInv, AirInv
  <2> QED
    BY <2>1, <2>2, <2>3, <2>4 DEF AirInv
<1>6. FreshInv'
  <2>1. Begun' = Begun /\ UNCHANGED <<wire, wpc, cpc>>
    BY <1>1 DEF Begun, vars, handler
  <2> QED
    BY <1>3, <2>1 DEF ListInv, FreshInv
<1>7. f.t \in {"begin", "net", "end", "err"}
  BY <1>1 DEF ListInv, AirInv, Frames, f
<1>8. ASSUME NEW r \in hears
      PROVE  /\ got[r] \in Seq(Frames) /\ Consecutive(got[r])
             /\ f.t # "begin" /\ got[r] # << >> => Follows(f, got[r][Len(got[r])])
             /\ f.s = r => GoesOn(f, Len(got[r]))
             /\ got'[r] = HeardList(f, got[r])
  BY <1>1, <1>2 DEF ListInv, HearInv, Continues, MissesNone, ArmedInv, f
<1>9. air' # << >> => Follows(air'[1], f)
  BY <1>1, <1>3 DEF ListInv, AirInv, f
<1>10. air' = << >> => wire' = f
  BY <1>1, <1>3 DEF ListInv, AirInv, vars, f
<1>11. ASSUME NEW r \in hears, ~last
       PROVE  (Consecutive(got[r]) /\ Continues(got[r]) /\ MissesNone(r))'
  <2>1. f.t \in {"begin", "net"}
    BY <1>7, <1>11 DEF last
  <2>2. /\ Consecutive(got'[r])
        /\ f.t = "begin" => got'[r] = << >>
        /\ f.t = "net" => /\ got'[r] # << >> /\ got'[r][Len(got'[r])] = f
                          /\ Len(got'[r]) = Len(got[r]) + 1
    <3>1. f.t = "net" /\ got[r] # << >> => Follows(f, got[r][Len(got[r])])
      BY <1>8, <1>11
    <3>2. /\ Consecutive(HeardList(f, got[r]))
          /\ f.t = "begin" => HeardList(f, got[r]) = << >>
          /\ f.t = "net" =>
               /\ HeardList(f, got[r]) # << >>
               /\ Len(HeardList(f, got[r])) = Len(got[r]) + 1
               /\ HeardList(f, got[r])[Len(HeardList(f, got[r]))] = f
      BY <1>1, <1>8, <1>11, <2>1, <3>1, ListGoesOn
    <3> QED
      BY <1>8, <1>11, <3>2
  <2>3. Continues(got[r])'
    BY <1>9, <1>10, <2>1, <2>2 DEF Continues
  <2>4. f.s = r => f.n = Len(got'[r])
    <3>1. CASE f.t = "net"
      BY <1>8, <1>11, <2>2, <3>1 DEF GoesOn
    <3>2. CASE f.t = "begin"
      <4>1. f.n = 0
        BY <1>1, <3>2 DEF ListInv, AirInv, f
      <4> QED
        BY <2>2, <3>2, <4>1
    <3> QED
      BY <2>1, <3>1, <3>2
  <2>5. MissesNone(r)'
    BY <1>9, <1>10, <2>4 DEF MissesNone, GoesOn, Follows
  <2> QED
    BY <2>2, <2>3, <2>5 DEF Consecutive
<1>12. HearInv'
  BY <1>2, <1>11 DEF HearInv
<1>13. ASSUME NEW r \in Requests, Resolved(r)', r \in hears, last
       PROVE  /\ got'[r] = got[r] /\ told'[r] = f /\ Consecutive(got[r])
              /\ got[r] \in Seq(Frames)
              /\ got[r] # << >> => f.s = got[r][Len(got[r])].s /\ f.n = got[r][Len(got[r])].n
              /\ f.s = r => f.n = Len(got[r])
  <2>1. f.t = "end"
    BY <1>2, <1>13 DEF Resolved, Settled, last
  <2>2. got'[r] = got[r]
    BY <1>8, <1>13, <2>1 DEF HeardList
  <2>3. told'[r] = f
    BY <1>2, <1>13, <2>1
  <2> QED
    BY <1>8, <1>13, <2>1, <2>2, <2>3 DEF Follows, GoesOn
<1>14. ASSUME NEW r \in Requests, Resolved(r)', ~(r \in hears /\ last)
       PROVE  Resolved(r) /\ UNCHANGED <<got[r], told[r]>>
  <2>1. done[r] = "resolved"
    BY <1>2, <1>14 DEF Resolved
  <2>2. r \notin hears
    BY <2>1 DEF ArmedInv
  <2> QED
    BY <1>2, <1>14, <2>1, <2>2 DEF Resolved
<1>15. ListIsTail'
  <2> SUFFICES ASSUME NEW r \in Requests, Resolved(r)', NEW i \in DOMAIN got'[r]
               PROVE  /\ got'[r][i].s = told'[r].s
                      /\ got'[r][i].n = told'[r].n - Len(got'[r]) + i
    BY DEF ListIsTail
  <2>1. CASE r \in hears /\ last
    <3>1. got[r] # << >>
      BY <1>13, <2>1
    <3> QED
      BY <1>13, <2>1, <3>1 DEF Consecutive
  <2>2. CASE ~(r \in hears /\ last)
    BY <1>14, <2>2 DEF ListInv, ListIsTail
  <2> QED
    BY <2>1, <2>2
<1>16. OwnListIsComplete'
  <2> SUFFICES ASSUME NEW r \in Requests, Resolved(r)', told'[r].s = r
               PROVE  Len(got'[r]) = told'[r].n
    BY DEF OwnListIsComplete
  <2>1. CASE r \in hears /\ last
    BY <1>13, <2>1
  <2>2. CASE ~(r \in hears /\ last)
    BY <1>14, <2>2 DEF ListInv, OwnListIsComplete
  <2> QED
    BY <2>1, <2>2
<1> QED
  BY <1>5, <1>6, <1>12, <1>15, <1>16 DEF ListInv

\* When the link drops nothing is in flight and nobody listens any more.
LEMMA LinkKeepsLists ==
    ASSUME PageInv, ListInv, Drop \/ Reconnect
    PROVE  ListInv'
<1>1. UNCHANGED <<wpc, wire, spc, cpc, got, told, done>>
  BY DEF Drop, Reconnect, client, vars, handler
<1>2. air' = << >> /\ hears' = {} /\ DOMAIN air' = {}
  BY DEF Drop, Reconnect, ListInv, AirInv, client
<1>3. AirInv' /\ HearInv'
  BY <1>2 DEF AirInv, HearInv
<1>4. FreshInv'
  BY <1>1, <1>2 DEF ListInv, FreshInv, Begun
<1>5. ListIsTail' /\ OwnListIsComplete'
  <2>1. \A r \in Requests : Resolved(r)' => Resolved(r) /\ UNCHANGED <<got[r], told[r]>>
    BY <1>1 DEF Resolved
  <2> QED
    BY <2>1, SettledLists
<1> QED
  BY <1>3, <1>4, <1>5 DEF ListInv

\* Each action of the session keeps what is known of the lists.
LEMMA ListStep ==
    PageInv /\ TypeOK' /\ SerialInv /\ ListInv /\ [SessionNext]_sessionVars => ListInv'
<1> SUFFICES ASSUME PageInv, TypeOK', SerialInv, ListInv, [SessionNext]_sessionVars
             PROVE  ListInv'
  OBVIOUS
<1>1. TypeOK /\ [Next]_vars
  BY FirmwareStep DEF PageInv, SessionTypeOK
<1>2. ASSUME NEW r \in Requests, WriteArrives(r) \/ HandlerResumes(r) PROVE ListInv'
  <2>1. /\ UNCHANGED <<wire, air, link, client>>
        /\ wpc' = [wpc EXCEPT ![r] = wpc'[r]]
        /\ cpc[r] = "writing" \/ wpc[r] = "awaiting"
    BY <1>1, <1>2 DEF WriteArrives, HandlerResumes, WriteLaunches, WriteCancels,
                      WriteResumes, Launch, TypeOK
  <2>2. \A q \in Requests : wpc'[q] # wpc[q] => cpc[q] = "writing" \/ wpc[q] = "awaiting"
    BY <1>1, <2>1 DEF TypeOK
  <2> QED
    BY <1>1, <2>1, <2>2, SilentSteps
<1>3. ASSUME RescanSteps \/ SessionOver \/ UNCHANGED sessionVars PROVE ListInv'
  <2>1. UNCHANGED <<wire, air, link, client, wpc>>
    BY <1>3 DEF RescanSteps, RescanEnds, SessionOver, sessionVars, vars, handler
  <2> QED
    BY <1>1, <2>1, SilentSteps
<1> QED
  BY <1>2, <1>3, PageSteps, StreamKeepsLists, DeliverKeepsLists, LinkKeepsLists
     DEF SessionNext, CallStep

\* Nothing was ever seen on the wire.
LEMMA ListInit == SessionInit => ListInv
<1> SUFFICES ASSUME SessionInit PROVE ListInv
  OBVIOUS
<1>1. DOMAIN air = {} /\ wire.s = NoReq
  BY DEF SessionInit, Init, Frame
<1> QED
  BY <1>1, ScanServiceAssumption DEF SessionInit, Init, ListInv, AirInv, FreshInv, HearInv,
     ListIsTail, OwnListIsComplete, Resolved

\* All that is known of a session whose writes do not meet.
LEMMA ListInvariant == ASSUME ~Overlap PROVE SessionSpec => []ListInv
<1>1. SessionSpec => [](TypeOK /\ SerialInv)
  BY SessionRunsService, SerialInvariant, PTL
<1>2. PageInv /\ TypeOK' /\ SerialInv /\ ListInv /\ [SessionNext]_sessionVars => ListInv'
  BY ListStep
<1> QED
  BY <1>1, <1>2, ListInit, PageInvariant, PTL DEF SessionSpec

\* A list a call resolves with is a gapless part of one stream, up to its end,
\* whoever asked for it, however many calls listen, whenever they time out and
\* whenever the link drops (ble.js:256-297).
THEOREM ListsAreTails == ASSUME ~Overlap PROVE SessionSpec => []ListIsTail
<1>1. ListInv => ListIsTail
  BY DEF ListInv
<1> QED
  BY <1>1, ListInvariant, PTL

\* A call that resolves with the stream it has asked for itself has heard all of
\* it: its listener was there before the trigger was written (ble.js:309-319).
THEOREM OwnListsAreComplete == ASSUME ~Overlap PROVE SessionSpec => []OwnListIsComplete
<1>1. ListInv => OwnListIsComplete
  BY DEF ListInv
<1> QED
  BY <1>1, ListInvariant, PTL
=============================================================================
