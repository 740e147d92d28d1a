---------------------------- MODULE ScanSession ----------------------------
(***************************************************************************)
(* A scan from end to end: the streamWifi calls of the web page (ble.js),  *)
(* the link that carries their writes and the notifications in order, and  *)
(* the firmware of ScanService.  The call of request r is the one whose    *)
(* trigger is write r.  Every call that has a listener on the              *)
(* characteristic hears every frame, whoever asked for it.                 *)
(***************************************************************************)
EXTENDS ScanService, Sequences

CONSTANTS
    AirMax,     \* BOUND on the notifications in flight
    MaxOpen,    \* BOUND on the calls open at once (doScan has no lock: the
                \* rescan after a join, app.js:276, may meet the user's scan)
    Impatient,  \* TRUE: a call's timer may fire while frames are still to come
    LinkDrops   \* TRUE: the link may go down, and the page reconnect

ASSUME ScanSessionAssumption ==
    /\ AirMax \in Nat \ {0}
    /\ MaxOpen \in Nat \ {0}
    /\ Impatient \in BOOLEAN
    /\ LinkDrops \in BOOLEAN

VARIABLES
    air,        \* the notifications in flight, in order
    link,       \* the GATT connection is up
    cpc,        \* cpc[r]: new, subscribing, writing, waiting (for done), threw
    armed,      \* calls whose timer is pending
    hears,      \* calls whose listener is on the live characteristic
    got,        \* got[r]: the networks array of call r
    told,       \* history: told[r], the end frame call r has heard
    done        \* done[r]: the call's promise: open, resolved, rejected

client      == <<cpc, armed, hears, got, told, done>>
sessionVars == <<vars, air, link, client>>

SessionTypeOK ==
    /\ TypeOK
    /\ air \in Seq(Frames) /\ Len(air) <= AirMax
    /\ link \in BOOLEAN
    /\ cpc \in [Requests -> {"new", "subscribing", "writing", "waiting", "threw"}]
    /\ armed \subseteq Requests
    /\ hears \subseteq armed
    /\ got \in [Requests -> Seq(Frames)]
    /\ told \in [Requests -> Frames]
    /\ done \in [Requests -> {"open", "resolved", "rejected"}]

SessionInit ==
    /\ Init
    /\ air = << >>
    /\ link = TRUE
    /\ cpc = [r \in Requests |-> "new"]
    /\ armed = {}
    /\ hears = {}
    /\ got = [r \in Requests |-> << >>]
    /\ told = [r \in Requests |-> Frame(NoReq, "none", 0)]
    /\ done = [r \in Requests |-> "open"]

-----------------------------------------------------------------------------
(* The firmware, and the link that relays what it notifies. *)

\* BlueZ relays a changed Value to the central, in order; without a link the
\* notification goes nowhere.
Relay ==
    /\ Len(air) < AirMax
    /\ air' = IF link /\ wire' # wire THEN Append(air, wire') ELSE air
    /\ UNCHANGED <<link, client>>

\* The trigger reaches the firmware, and its handler runs to its first await.
WriteArrives(r) ==
    /\ cpc[r] = "writing" /\ link
    /\ WriteLaunches(r) \/ WriteCancels(r)
    /\ UNCHANGED <<air, link, client>>

HandlerResumes(r) ==
    /\ WriteResumes(r)
    /\ UNCHANGED <<air, link, client>>

StreamSteps(r) == Stream(r) /\ Relay

RescanSteps ==
    /\ RescanEnds
    /\ UNCHANGED <<air, link, client>>

-----------------------------------------------------------------------------
(* The calls of streamWifi. *)

IsOpen(r) == cpc[r] \in {"subscribing", "writing"} \/ (cpc[r] = "waiting" /\ done[r] = "open")

At(r, pc) == cpc' = [cpc EXCEPT ![r] = pc]

\* The listener and the timer are there before the subscription and the write.
Call(r) ==
    /\ link
    /\ cpc[r] = "new"
    /\ Cardinality({q \in Requests : IsOpen(q)}) < MaxOpen
    /\ At(r, "subscribing")
    /\ armed' = armed \cup {r}
    /\ hears' = hears \cup {r}
    /\ UNCHANGED <<vars, air, link, got, told, done>>

Subscribed(r) ==
    /\ link
    /\ cpc[r] = "subscribing"
    /\ At(r, "writing")
    /\ UNCHANGED <<vars, air, link, armed, hears, got, told, done>>

\* startNotifications throws: the call cleans up and throws.
SubscribeFails(r) ==
    /\ LinkDrops
    /\ cpc[r] = "subscribing"
    /\ At(r, "threw")
    /\ armed' = armed \ {r}
    /\ hears' = hears \ {r}
    /\ UNCHANGED <<vars, air, link, got, told, done>>

WriteAcked(r) ==
    /\ link
    /\ cpc[r] = "writing"
    /\ wpc[r] = "done"
    /\ At(r, "waiting")
    /\ UNCHANGED <<vars, air, link, armed, hears, got, told, done>>

\* The write throws, because the link is lost or because the browser rejects it
\* while another call writes to the same characteristic (some queue it instead):
\* streamWifi throws with it, and leaves its listener and timer behind.
WriteThrows(r) ==
    /\ cpc[r] = "writing"
    /\ ~link \/ (wpc[r] = "idle" /\ \E q \in Requests \ {r} : cpc[q] = "writing")
    /\ At(r, "threw")
    /\ UNCHANGED <<vars, air, link, armed, hears, got, told, done>>

\* Mutant of HeardList: a begin does not empty the list.
HeardListKeeps(f, list) == IF f.t = "net" THEN Append(list, f) ELSE list

\* What the listener of one call does with a frame: a begin empties its list, a
\* network is added, end and err settle the promise whatever n says.
HeardList(f, list) ==
    CASE f.t = "begin" -> << >>
      [] f.t = "net"   -> Append(list, f)
      [] OTHER         -> list

Settled(f) == IF f.t = "end" THEN "resolved" ELSE "rejected"

\* Mutant of Deliver: cleanup() clears the timer and forgets the listener.
DeliverKeepsListening ==
    /\ air # << >>
    /\ LET f == Head(air)
           last == f.t \in {"end", "err"} IN
         /\ got' = [r \in Requests |-> IF r \in hears THEN HeardList(f, got[r]) ELSE got[r]]
         /\ told' = [r \in Requests |-> IF r \in hears /\ f.t = "end" THEN f ELSE told[r]]
         /\ done' = [r \in Requests |-> IF r \in hears /\ last THEN Settled(f) ELSE done[r]]
         /\ armed' = IF last THEN armed \ hears ELSE armed
         /\ UNCHANGED hears
    /\ air' = Tail(air)
    /\ UNCHANGED <<vars, link, cpc>>

Deliver ==
    /\ air # << >>
    /\ LET f == Head(air)
           last == f.t \in {"end", "err"} IN
         /\ got' = [r \in Requests |-> IF r \in hears THEN HeardList(f, got[r]) ELSE got[r]]
         /\ told' = [r \in Requests |-> IF r \in hears /\ f.t = "end" THEN f ELSE told[r]]
         /\ done' = [r \in Requests |-> IF r \in hears /\ last THEN Settled(f) ELSE done[r]]
         /\ armed' = IF last THEN armed \ hears ELSE armed
         /\ hears' = IF last THEN {} ELSE hears
    /\ air' = Tail(air)
    /\ UNCHANGED <<vars, link, cpc>>

\* Nothing more will come for the call: its stream is over or out of reach, or
\* its write was rejected.
Hopeless(r) ==
    \/ r \notin hears
    \/ cpc[r] = "threw"
    \/ wpc[r] = "done" /\ spc[r] \in Finished /\ air = << >>

\* Mutants of TimesOut: the listener is not removed; the call is not rejected.
TimesOutHearing(r) ==
    /\ r \in armed
    /\ Impatient \/ Hopeless(r)
    /\ armed' = armed \ {r}
    /\ done' = [done EXCEPT ![r] = "rejected"]
    /\ UNCHANGED <<vars, air, link, cpc, hears, got, told>>

TimesOutSilently(r) ==
    /\ r \in armed
    /\ Impatient \/ Hopeless(r)
    /\ armed' = armed \ {r}
    /\ hears' = hears \ {r}
    /\ UNCHANGED <<vars, air, link, cpc, got, told, done>>

\* The timer of a call, 20 s after the call: it cleans up and rejects.
TimesOut(r) ==
    /\ r \in armed
    /\ Impatient \/ Hopeless(r)
    /\ armed' = armed \ {r}
    /\ hears' = hears \ {r}
    /\ done' = [done EXCEPT ![r] = "rejected"]
    /\ UNCHANGED <<vars, air, link, cpc, got, told>>

-----------------------------------------------------------------------------
(* The link. *)

\* Listeners stay on the characteristic objects of the lost connection.
Drop ==
    /\ LinkDrops
    /\ link
    /\ link' = FALSE
    /\ air' = << >>
    /\ hears' = {}
    /\ UNCHANGED <<vars, cpc, armed, got, told, done>>

\* The page connects again once the calls of the lost connection have thrown.
Reconnect ==
    /\ ~link
    /\ \A r \in Requests : cpc[r] \notin {"subscribing", "writing"}
    /\ link' = TRUE
    /\ UNCHANGED <<vars, air, client>>

-----------------------------------------------------------------------------

CallStep(r) ==
    \/ Call(r) \/ Subscribed(r) \/ SubscribeFails(r) \/ WriteArrives(r)
    \/ WriteAcked(r) \/ WriteThrows(r) \/ TimesOut(r)

\* Every call has been made and is over, and the firmware is idle.
SessionOver ==
    /\ \A r \in Requests : cpc[r] = "threw" \/ (cpc[r] = "waiting" /\ done[r] # "open")
    /\ \A r \in Requests : wpc[r] # "awaiting" /\ spc[r] \notin Live
    /\ air = << >> /\ armed = {} /\ ~rescan /\ link
    /\ UNCHANGED sessionVars

SessionNext ==
    \/ \E r \in Requests : CallStep(r) \/ HandlerResumes(r) \/ StreamSteps(r)
    \/ RescanSteps
    \/ Deliver
    \/ Drop
    \/ Reconnect
    \/ SessionOver

SessionSpec == SessionInit /\ [][SessionNext]_sessionVars

\* The link delivers, GATT operations answer or throw when the link is lost,
\* timers fire, and the event loop of the firmware runs its tasks.
SessionFairness ==
    /\ \A r \in Requests :
         /\ WF_sessionVars(Subscribed(r) \/ SubscribeFails(r))
         /\ WF_sessionVars(WriteArrives(r))
         /\ WF_sessionVars(WriteAcked(r) \/ WriteThrows(r))
         /\ WF_sessionVars(TimesOut(r))
         /\ WF_sessionVars(HandlerResumes(r))
         /\ WF_sessionVars(StreamSteps(r))
    /\ WF_sessionVars(Deliver)

FairSession == SessionSpec /\ SessionFairness

-----------------------------------------------------------------------------
(* Properties. *)

Resolved(r) == done[r] = "resolved"

\* A resolved list never mixes two streams and has no hole: it is the part of
\* one stream heard since the listener was attached (ble.js:256-297).
ListIsTail ==
    \A r \in Requests : Resolved(r) =>
        \A i \in DOMAIN got[r] :
            /\ got[r][i].s = told[r].s
            /\ got[r][i].n = told[r].n - Len(got[r]) + i

\* The promise resolves with the network array of the scan: as many networks
\* as the end frame announces (ble.js:236-247; README.md:86).
ListIsComplete ==
    \A r \in Requests : Resolved(r) => Len(got[r]) = told[r].n

\* The stream a call has asked for itself is heard from its begin on, so the
\* list it resolves with is complete (ble.js:309-319: the listener is attached
\* before the trigger is written).
OwnListIsComplete ==
    \A r \in Requests : Resolved(r) /\ told[r].s = r => Len(got[r]) = told[r].n

\* Every call ends: it resolves, rejects or throws, whatever the firmware and
\* the link do (ble.js:246-247, 299-302).
EveryCallSettles ==
    \A r \in Requests :
        cpc[r] = "subscribing" ~> \/ cpc[r] = "threw"
                                  \/ cpc[r] = "waiting" /\ done[r] # "open"

\* A settled call keeps its outcome and its list: no late frame, timer or
\* second stream changes what doScan has been given (ble.js:283-307).
SettledForGood ==
    [][\A r \in Requests : done[r] # "open" =>
         UNCHANGED <<done[r], got[r]>>]_sessionVars
=============================================================================
