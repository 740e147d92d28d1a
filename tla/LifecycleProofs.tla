-------------------------- MODULE LifecycleProofs --------------------------
(***************************************************************************)
(* Theorems about Lifecycle, for every number of guests, delays, changes   *)
(* of the Pi's state, failures and attempts, and whether cancellations are *)
(* swallowed or not: its types, and the two promises of a stop: the loop   *)
(* never outlives the bus it notifies on, and what is advertised is        *)
(* served.                                                                 *)
(***************************************************************************)
EXTENDS Lifecycle, TLAPS

-----------------------------------------------------------------------------
(* The invariants.                                                          *)

\* A task that sleeps between two refreshes of a join has a delay before it.
SleepInv == \A g \in Guests : stage[g] = "sleeping" => left[g] \in 1..Rounds

TypeInv == TypeOK /\ SleepInv

\* A shutdown that is done with the loop.
PastLoop == {"scan", "intro", "advertisement", "application", "agent", "over"}

\* No shutdown closes the bus before it is past the loop, and a loop created
\* after that finds the stop event set and does not begin.
LoopInv ==
    /\ \A p \in Shutdowns : sd[p] \in PastLoop => stage[Loop] \notin Awaits
    /\ \A p \in Shutdowns : sd[p] \notin {"none", "created"} => stopping
    /\ main \in {"leaving", "exited"} => sd["finally"] = "over"
    /\ Running(Loop) /\ ~stopping => bus = "open"
    /\ LoopOnOpenBus

\* The advertisement is registered last, on top of the application, and is not
\* registered again once a shutdown has unregistered it, so that the application
\* may go; no shutdown that unregisters the application has missed it (adv); and
\* the agent stays until a shutdown has begun.
ServedInv ==
    /\ "advertisement" \in registered => main \in {"advertisement", "serving", "finally", "leaving"}
    /\ \A p \in Shutdowns : sd[p] = "advertisement" =>
         /\ main \in {"advertisement", "serving", "finally", "leaving", "exited"}
         /\ "advertisement" \notin registered
    /\ main \in {"appIntro", "application", "advertisement", "serving"} => adv
    /\ "application" \in registered \/ "advertisement" \in registered => adv
    /\ main = "application" /\ bus = "open" => "application" \in registered
    /\ ~stopping /\ main \in {"agent", "defaulting", "appIntro", "application",
                              "advertisement", "serving"} => "agent" \in registered
    /\ main \in {"finally", "leaving", "exited"} => stopping
    /\ AdvertisedServes

-----------------------------------------------------------------------------
(* Types. *)

\* faults only counts up to its bound.
LEMMA FaultsType ==
    ASSUME faults \in 0..MaxFaults, Fault \/ NoFault
    PROVE  faults' \in 0..MaxFaults
BY StatusRefreshAssumption DEF Fault, NoFault

RefreshInv == RefreshTypeOK /\ SleepInv

\* A task that moves on keeps its types, when it sleeps only with a delay
\* before it and its cancellation, if any, does not outlive it.
LEMMA GoesType ==
    ASSUME RefreshInv, NEW f \in Refreshers,
           NEW next \in {"created", "over"} \cup Awaits,
           NEW delays \in {ReadOnly} \cup 0..Rounds,
           next = "sleeping" /\ f \in Guests => delays \in 1..Rounds,
           GoesWith(f, next, delays),
           cancelled' \subseteq cancelled,
           next = "over" => f \notin cancelled'
    PROVE  /\ stage' \in [Refreshers -> {"none", "created", "over"} \cup Awaits]
           /\ got' \in [Refreshers -> Versions \cup {Nothing}]
           /\ \A g \in Refreshers : got'[g] # Nothing => stage'[g] \in {"status", "address"}
           /\ left' \in [Refreshers -> {ReadOnly} \cup 0..Rounds]
           /\ cancelled' \subseteq {g \in Refreshers : stage'[g] \in {"created"} \cup Awaits}
           /\ SleepInv'
<1> USE DEF RefreshInv, RefreshTypeOK, GoesWith
<1>1. stage' \in [Refreshers -> {"none", "created", "over"} \cup Awaits]
  BY DEF Awaits
<1>2. got' \in [Refreshers -> Versions \cup {Nothing}]
  OBVIOUS
<1>3. \A g \in Refreshers : got'[g] # Nothing => stage'[g] \in {"status", "address"}
  BY DEF Awaits
<1>4. left' \in [Refreshers -> {ReadOnly} \cup 0..Rounds]
  BY StatusRefreshAssumption
<1>5. cancelled' \subseteq {g \in Refreshers : stage'[g] \in {"created"} \cup Awaits}
  BY DEF Awaits
<1>6. SleepInv'
  BY StatusRefreshAssumption DEF SleepInv, Refreshers
<1> QED
  BY <1>1, <1>2, <1>3, <1>4, <1>5, <1>6

\* Every step of a refresher keeps the types.
LEMMA RefresherType ==
    ASSUME RefreshInv, NEW f \in Refreshers, Refresher(f)
    PROVE  RefreshInv'
<1> DEFINE Moves(next, delays) ==
             /\ next \in {"created", "over"} \cup Awaits
             /\ delays \in {ReadOnly} \cup 0..Rounds
             /\ next = "sleeping" /\ f \in Guests => delays \in 1..Rounds
             /\ GoesWith(f, next, delays)
             /\ cancelled' \subseteq cancelled
             /\ next = "over" => f \notin cancelled'
<1>1. world' \in 0..MaxChanges /\ stopping' \in BOOLEAN
  BY DEF Refresher, LoopStarts, StatusSampled, StatusPushed, StatusFails, AddressSampled,
     AddressPushed, AddressFails, Wakes, CancelDelivered, Finds, RefreshInv, RefreshTypeOK
<1>2. faults' \in 0..MaxFaults
  BY FaultsType DEF Refresher, LoopStarts, StatusSampled, StatusPushed, StatusFails,
     AddressSampled, AddressPushed, AddressFails, Wakes, CancelDelivered, Finds, NoFault,
     RefreshInv, RefreshTypeOK
<1>3. status' \in Versions /\ address' \in Versions
  BY DEF Refresher, LoopStarts, StatusSampled, StatusPushed, StatusFails, AddressSampled,
     AddressPushed, AddressFails, Wakes, CancelDelivered, Finds, shown, RefreshInv,
     RefreshTypeOK
<1>4. CASE StatusSampled(f) \/ AddressSampled(f)
  <2>1. PICK v \in Versions : got' = [got EXCEPT ![f] = v]
    BY <1>4 DEF StatusSampled, AddressSampled, Finds, Versions, RefreshInv, RefreshTypeOK
  <2>2. stage[f] \in {"status", "address"} /\ UNCHANGED <<stage, left, cancelled>>
    BY <1>4 DEF StatusSampled, AddressSampled, Finds
  <2> QED
    BY <1>1, <1>2, <1>3, <2>1, <2>2 DEF RefreshInv, RefreshTypeOK, SleepInv
<1>5. CASE ~(StatusSampled(f) \/ AddressSampled(f))
  <2>1. left[f] \in {ReadOnly} \cup 0..Rounds
    BY DEF RefreshInv, RefreshTypeOK
  <2>2. \E next, delays : Moves(next, delays)
    <3>1. CASE LoopStarts(f)
      BY <2>1, <3>1 DEF LoopStarts, Goes, Awaits
    <3>2. CASE StatusPushed(f) \/ StatusFails(f)
      BY <2>1, <3>2 DEF StatusPushed, StatusFails, AfterStatus, NmcliDone, Goes, Awaits
    <3>3. CASE AddressPushed(f) \/ AddressFails(f)
      <4>1. AfterAddress(f) = "sleeping" /\ f \in Guests => left[f] \in 1..Rounds
        BY <2>1, StatusRefreshAssumption DEF AfterAddress
      <4>2. GoesWith(f, AfterAddress(f), left[f]) /\ f \notin cancelled /\ cancelled' = cancelled
        BY <3>3 DEF AddressPushed, AddressFails, Goes
      <4>3. AfterAddress(f) \in {"over", "sleeping"}
        BY DEF AfterAddress
      <4> QED
        BY <2>1, <4>1, <4>2, <4>3 DEF Awaits
    <3>4. CASE Wakes(f)
      <4> DEFINE next   == IF stopping THEN "over" ELSE "status"
                 delays == IF f = Loop THEN 0 ELSE left[f] - 1
      <4>1. delays \in 0..Rounds
        BY <3>4, StatusRefreshAssumption DEF Wakes, Refreshers, RefreshInv, SleepInv
      <4>2. GoesWith(f, next, delays) /\ f \notin cancelled /\ cancelled' = cancelled
        BY <3>4 DEF Wakes
      <4>3. next \in {"over", "status"}
        OBVIOUS
      <4> HIDE DEF next, delays
      <4> QED
        BY <4>1, <4>2, <4>3 DEF Awaits
    <3>5. CASE CancelDelivered(f)
      BY <2>1, <3>5 DEF CancelDelivered, Goes
    <3> QED
      BY <1>5, <3>1, <3>2, <3>3, <3>4, <3>5 DEF Refresher
  <2> HIDE DEF Moves
  <2>3. PICK next, delays : Moves(next, delays)
    BY <2>2
  <2> QED
    BY <1>1, <1>2, <1>3, <2>3, GoesType DEF Moves, RefreshInv, RefreshTypeOK
<1> QED
  BY <1>4, <1>5

\* What a step outside the refreshers does to their variables.
LEMMA RefreshKept ==
    ASSUME RefreshInv, UNCHANGED <<world, stage, got, left, shown>>,
           stopping' \in BOOLEAN, Fault \/ NoFault,
           cancelled' \subseteq cancelled \cup {f \in Refreshers : Running(f)}
    PROVE  RefreshInv'
<1>1. faults' \in 0..MaxFaults
  BY FaultsType DEF RefreshInv, RefreshTypeOK
<1>2. cancelled' \subseteq {f \in Refreshers : stage'[f] \in {"created"} \cup Awaits}
  BY DEF RefreshInv, RefreshTypeOK, Running
<1> QED
  BY <1>1, <1>2 DEF RefreshInv, RefreshTypeOK, SleepInv, shown

ServiceOK ==
    /\ main \in Setup \cup {"serving", "finally", "leaving", "exited"}
    /\ failed \in BOOLEAN /\ signalled \in BOOLEAN
    /\ bus \in {"none", "open", "closed"}
    /\ adapter \in BOOLEAN /\ adv \in BOOLEAN
    /\ registered \subseteq {"agent", "application", "advertisement"}
    /\ registered # {} => bus = "open"
    /\ powered \in BOOLEAN
    /\ attempts \in 0..MaxAttempts
    /\ scan \in {"none", "running", "over"}
    /\ held \subseteq Shutdowns
    /\ sd \in [Shutdowns -> {"none", "created", "loop", "scan", "intro", "advertisement",
                             "application", "agent", "over"}]

\* The invariant of the types, told apart by the part of the state.
LEMMA TypeParts == TypeInv <=> RefreshInv /\ ServiceOK
BY DEF TypeInv, TypeOK, RefreshInv, ServiceOK

\* What a shutdown does next when it is done with a task, or begins: it waits
\* for a loop that runs, and only then comes near the bus.
LEMMA CloseAfterDoes ==
    ASSUME NEW p, NEW tasks, CloseAfter(p, tasks)
    PROVE  \E next \in {"loop", "scan", "intro", "over"} :
             /\ sd' = [sd EXCEPT ![p] = next]
             /\ next = "loop" <=> Loop \in tasks /\ Running(Loop)
             /\ cancelled' = IF next = "loop" THEN cancelled \cup {Loop} ELSE cancelled
             /\ held' \subseteq held \cup {p}
             /\ \/ UNCHANGED <<bus, registered>>
                \/ next = "over" /\ bus' = "closed" /\ registered' = {}
BY DEF CloseAfter, Close, Awaiting, Disconnect

\* What the unregistrations of a shutdown do: what is undone only goes, the
\* advertisement before the application.
LEMMA UnregistersDoes ==
    ASSUME NEW p, Unregisters(p)
    PROVE  \E next \in {"advertisement", "application", "agent", "over"} :
             /\ sd[p] \in {"intro", "advertisement", "application", "agent"}
             /\ sd' = [sd EXCEPT ![p] = next]
             /\ next = "advertisement" =>
                  /\ sd[p] = "intro" /\ "advertisement" \in registered
                  /\ registered' = registered \ {"advertisement"}
             /\ registered' \subseteq registered
             /\ "application" \in registered \ registered' =>
                  \/ sd[p] = "intro" /\ ~adv
                  \/ sd[p] = "advertisement"
                  \/ bus' = "closed"
             /\ \/ bus' = bus
                \/ next = "over" /\ bus' = "closed" /\ registered' = {}
BY DEF Unregisters, UnregisterCalled, AdvertisementGone, ApplicationGone, AgentGone, Undo,
   Awaiting, Disconnect

\* The types hold when the process starts.
LEMMA TypeInit == Init => TypeInv
<1> SUFFICES ASSUME Init PROVE TypeInv
  OBVIOUS
<1>1. RefreshTypeOK
  <2>1. MaxChanges \in Nat /\ MaxFaults \in Nat /\ Rounds \in Nat
    BY StatusRefreshAssumption DEF StatusRefreshAssumption
  <2>2. world \in 0..MaxChanges /\ faults \in 0..MaxFaults /\ 0 \in 0..Rounds
    BY <2>1 DEF Init
  <2>3. stopping \in BOOLEAN
    BY DEF Init, Fresh
  <2>4. Blank \in Versions
    BY DEF Versions
  <2> QED
    BY <2>2, <2>3, <2>4 DEF Init, Fresh, RefreshTypeOK
<1>2. SleepInv
  BY DEF Init, Fresh, SleepInv, Refreshers
<1>3. ServiceOK
  <2>1. attempts \in 0..MaxAttempts
    BY LifecycleAssumption DEF Init
  <2> QED
    BY <2>1 DEF Init, ServiceOK, Setup
<1> QED
  BY <1>1, <1>2, <1>3, TypeParts DEF RefreshInv

\* A step of setup keeps the types.
LEMMA SetupType ==
    ASSUME TypeInv,
           BusConnected \/ AdapterFound \/ PowerTried \/ PoweredOn \/ AgentRegistered
             \/ DefaultAsked \/ ObjectsExported \/ ApplicationRegistered
             \/ AdvertisementRegistered
    PROVE  TypeInv'
<1> USE DEF process, refresh, stops, peripheral, Replied, Registers, Setup
<1>1. RefreshInv /\ ServiceOK
  BY TypeParts
<1>2. UNCHANGED <<world, stage, got, left, shown, stopping, cancelled>>
  BY DEF BusConnected, AdapterFound, PowerTried, PoweredOn, AgentRegistered, DefaultAsked,
     ObjectsExported, ApplicationRegistered, AdvertisementRegistered
<1>14. Fault \/ NoFault
  BY DEF BusConnected, AdapterFound, PowerTried, PoweredOn, AgentRegistered, DefaultAsked,
     ObjectsExported, ApplicationRegistered, AdvertisementRegistered, NoFault
<1>3. RefreshInv'
  BY <1>1, <1>2, <1>14, RefreshKept DEF RefreshInv, RefreshTypeOK
<1>4. ASSUME BusConnected PROVE ServiceOK'
  BY <1>1, <1>4 DEF BusConnected, ServiceOK
<1>5. ASSUME AdapterFound PROVE ServiceOK'
  BY <1>1, <1>5 DEF AdapterFound, ServiceOK
<1>6. ASSUME PowerTried PROVE ServiceOK'
  <2>1. attempts' \in 0..MaxAttempts
    BY <1>1, <1>6, LifecycleAssumption DEF PowerTried, ServiceOK
  <2>2. powered' \in BOOLEAN
    BY <1>1, <1>6 DEF PowerTried, ServiceOK
  <2> QED
    BY <1>1, <1>6, <2>1, <2>2 DEF PowerTried, ServiceOK
<1>7. ASSUME PoweredOn PROVE ServiceOK'
  BY <1>1, <1>7, LifecycleAssumption DEF PoweredOn, ServiceOK
<1>8. ASSUME AgentRegistered PROVE ServiceOK'
  BY <1>1, <1>8 DEF AgentRegistered, ServiceOK
<1>9. ASSUME DefaultAsked PROVE ServiceOK'
  BY <1>1, <1>9 DEF DefaultAsked, ServiceOK
<1>10. ASSUME ObjectsExported PROVE ServiceOK'
  BY <1>1, <1>10 DEF ObjectsExported, ServiceOK
<1>11. ASSUME ApplicationRegistered PROVE ServiceOK'
  BY <1>1, <1>11 DEF ApplicationRegistered, ServiceOK
<1>12. ASSUME AdvertisementRegistered PROVE ServiceOK'
  BY <1>1, <1>12 DEF AdvertisementRegistered, ServiceOK
<1>13. ServiceOK'
  BY <1>4, <1>5, <1>6, <1>7, <1>8, <1>9, <1>10, <1>11, <1>12
<1> QED
  BY <1>3, <1>13 DEF TypeInv, TypeOK, RefreshInv, ServiceOK

\* So does a shutdown that begins, or goes on after the loop.
LEMMA CloseAfterType ==
    ASSUME TypeInv, NEW p \in Shutdowns, NEW tasks, CloseAfter(p, tasks)
    PROVE  /\ sd' \in [Shutdowns -> {"none", "created", "loop", "scan", "intro",
                                     "advertisement", "application", "agent", "over"}]
           /\ held' \subseteq Shutdowns
           /\ bus' \in {"none", "open", "closed"}
           /\ registered' \subseteq {"agent", "application", "advertisement"}
           /\ registered' # {} => bus' = "open"
           /\ cancelled' \subseteq cancelled \cup {f \in Refreshers : Running(f)}
<1>1. PICK next \in {"loop", "scan", "intro", "over"} :
             /\ sd' = [sd EXCEPT ![p] = next]
             /\ next = "loop" <=> Loop \in tasks /\ Running(Loop)
             /\ cancelled' = IF next = "loop" THEN cancelled \cup {Loop} ELSE cancelled
             /\ held' \subseteq held \cup {p}
             /\ \/ UNCHANGED <<bus, registered>>
                \/ next = "over" /\ bus' = "closed" /\ registered' = {}
  BY CloseAfterDoes
<1>2. ServiceOK
  BY TypeParts
<1>3. Loop \in Refreshers
  BY DEF Refreshers
<1> QED
  BY <1>1, <1>2, <1>3 DEF ServiceOK

\* The step in which a shutdown begins keeps the types.
LEMMA BeginsType ==
    ASSUME TypeInv, NEW p \in Shutdowns, ShutdownBegins(p), Fault \/ NoFault,
           main' \in Setup \cup {"serving", "finally", "leaving", "exited"},
           failed' \in BOOLEAN,
           UNCHANGED <<signalled, world, stage, got, left, shown, adapter, adv, powered,
                       attempts, scan>>
    PROVE  TypeInv'
<1>1. RefreshInv /\ ServiceOK
  BY TypeParts
<1>2. stopping' \in BOOLEAN
  BY DEF ShutdownBegins
<1> DEFINE tasks == {f \in {Loop} : stage[f] # "none"} \cup {s \in {Scan} : scan # "none"}
<1>3. CloseAfter(p, tasks)
  BY DEF ShutdownBegins
<1> HIDE DEF tasks
<1>4. RefreshInv'
  BY <1>1, <1>2, <1>3, CloseAfterType, RefreshKept
<1>5. ServiceOK'
  BY <1>1, <1>3, CloseAfterType DEF ServiceOK
<1> QED
  BY <1>4, <1>5 DEF TypeInv, TypeOK, RefreshInv, ServiceOK

\* So does every later step of a shutdown.
LEMMA ShutdownType ==
    ASSUME TypeInv, NEW p \in Shutdowns, Shutdown(p)
    PROVE  TypeInv'
<1>1. RefreshInv /\ ServiceOK
  BY TypeParts
<1>2. ASSUME LoopAwaited(p) PROVE RefreshInv' /\ ServiceOK'
  <2> DEFINE tasks == IF p \in held THEN {Scan} ELSE {}
  <2>1. CloseAfter(p, tasks)
    BY <1>2 DEF LoopAwaited
  <2> HIDE DEF tasks
  <2>2. /\ UNCHANGED <<world, stage, got, left, shown, stopping, faults>>
        /\ UNCHANGED <<process, adapter, adv, powered, attempts, scan>>
    BY <1>2 DEF LoopAwaited
  <2>3. stopping' \in BOOLEAN /\ NoFault
    BY <1>1, <2>2 DEF RefreshInv, RefreshTypeOK, NoFault
  <2>4. RefreshInv'
    BY <1>1, <2>1, <2>2, <2>3, CloseAfterType, RefreshKept
  <2>5. ServiceOK'
    BY <1>1, <2>1, <2>2, CloseAfterType DEF ServiceOK, process
  <2> QED
    BY <2>4, <2>5
<1>3. ASSUME ScanAwaited(p) PROVE RefreshInv' /\ ServiceOK'
  <2>1. PICK next \in {"intro", "over"} :
          /\ sd' = [sd EXCEPT ![p] = next]
          /\ \/ UNCHANGED <<bus, registered>>
             \/ bus' = "closed" /\ registered' = {}
    BY <1>3 DEF ScanAwaited, Close, Awaiting, Disconnect
  <2>2. UNCHANGED <<refresh, process, adapter, adv, powered, attempts, scan, held>>
    BY <1>3 DEF ScanAwaited
  <2>3. RefreshInv'
    BY <1>1, <2>2 DEF RefreshInv, RefreshTypeOK, SleepInv, refresh, shown
  <2>4. ServiceOK'
    BY <1>1, <2>1, <2>2 DEF ServiceOK, process
  <2> QED
    BY <2>3, <2>4
<1>4. ASSUME Unregisters(p) PROVE RefreshInv' /\ ServiceOK'
  <2>1. PICK next \in {"advertisement", "application", "agent", "over"} :
          /\ sd' = [sd EXCEPT ![p] = next]
          /\ registered' \subseteq registered
          /\ \/ bus' = bus
             \/ bus' = "closed" /\ registered' = {}
    BY <1>4, UnregistersDoes
  <2>2. /\ UNCHANGED <<world, stage, got, left, shown, stopping, cancelled>>
        /\ UNCHANGED <<process, adapter, adv, powered, attempts, scan, held>>
    BY <1>4 DEF Unregisters
  <2>3. Fault \/ NoFault
    BY <1>4 DEF Unregisters, UnregisterCalled, AdvertisementGone, ApplicationGone, AgentGone,
       Undo
  <2>4. RefreshInv'
    BY <1>1, <2>2, <2>3, RefreshKept DEF RefreshInv, RefreshTypeOK
  <2>5. /\ sd' \in [Shutdowns -> {"none", "created", "loop", "scan", "intro", "advertisement",
                                  "application", "agent", "over"}]
        /\ registered' \subseteq {"agent", "application", "advertisement"}
        /\ registered' # {} => bus' = "open"
        /\ bus' \in {"none", "open", "closed"}
    BY <1>1, <2>1 DEF ServiceOK
  <2>6. ServiceOK'
    BY <1>1, <2>2, <2>5 DEF ServiceOK, process
  <2> QED
    BY <2>4, <2>6
<1> QED
  BY <1>2, <1>3, <1>4 DEF Shutdown, TypeInv, TypeOK, RefreshInv, ServiceOK

\* The refreshes, and what starts them, keep the types.
LEMMA RefreshesType ==
    ASSUME TypeInv,
           \/ \E f \in Refreshers : Refreshes(f)
           \/ JoinServed \/ ReadServed \/ Changes
    PROVE  TypeInv'
<1>1. RefreshInv /\ ServiceOK
  BY TypeParts
<1>2. ServiceOK'
  <2>1. UNCHANGED <<process, peripheral, scan, stops>>
    BY DEF Refreshes, JoinServed, ReadServed, Changes, outside
  <2> QED
    BY <1>1, <2>1 DEF ServiceOK, process, peripheral, stops
<1>3. ASSUME NEW f \in Refreshers, Refreshes(f) PROVE RefreshInv'
  BY <1>1, <1>3, RefresherType DEF Refreshes
<1>4. ASSUME NEW g \in Guests, Joined(g) \/ ReadArrives(g) PROVE RefreshInv'
  <2>1. PICK next \in {"status", "address"}, delays \in {ReadOnly, Rounds} :
          GoesWith(g, next, delays)
    BY <1>4 DEF Joined, ReadArrives
  <2>2. /\ UNCHANGED <<world, shown, stopping, cancelled, faults>>
        /\ g \in Refreshers
    BY <1>4 DEF Joined, ReadArrives, Refreshers
  <2>3. delays \in {ReadOnly} \cup 0..Rounds /\ next \in {"created", "over"} \cup Awaits
    BY StatusRefreshAssumption DEF Awaits
  <2> QED
    BY <1>1, <2>1, <2>2, <2>3, GoesType DEF RefreshInv, RefreshTypeOK, shown
<1>5. ASSUME Changes PROVE RefreshInv'
  <2>1. world' \in 0..MaxChanges
    BY <1>1, <1>5, StatusRefreshAssumption DEF Changes, WorldChanges, RefreshInv, RefreshTypeOK
  <2>2. UNCHANGED <<stage, got, left, shown, stopping, cancelled, faults>>
    BY <1>5 DEF Changes, WorldChanges
  <2> QED
    BY <1>1, <2>1, <2>2 DEF RefreshInv, RefreshTypeOK, SleepInv, shown
<1>6. RefreshInv'
  BY <1>3, <1>4, <1>5 DEF JoinServed, ReadServed
<1> QED
  BY <1>2, <1>6 DEF TypeInv, TypeOK, RefreshInv, ServiceOK

\* Every step keeps the types.
LEMMA TypeNext == TypeInv /\ [Next]_vars => TypeInv'
<1> SUFFICES ASSUME TypeInv, [Next]_vars PROVE TypeInv'
  OBVIOUS
<1> USE DEF process, peripheral, stops, Setup
<1>1. RefreshInv /\ ServiceOK
  BY TypeParts
<1>2. ASSUME Serving PROVE TypeInv'
  <2>1. /\ stage' = [stage EXCEPT ![Loop] = "created"]
        /\ got' = [got EXCEPT ![Loop] = Nothing]
        /\ left' = [left EXCEPT ![Loop] = left[Loop]]
        /\ UNCHANGED <<world, shown, stopping, faults>>
        /\ UNCHANGED <<failed, signalled, peripheral, scan>>
    BY <1>2 DEF Serving, Goes, GoesWith
  <2>2. /\ main' \in {"finally", "serving"}
        /\ \/ UNCHANGED <<stops, cancelled>>
           \/ /\ sd' = [sd EXCEPT !["finally"] = "loop"]
              /\ held' \subseteq held \cup {"finally"}
              /\ cancelled' = cancelled \cup {Loop}
    BY <1>2 DEF Serving
  <2>3. Loop \in Refreshers /\ Loop \notin Guests
    BY StatusRefreshAssumption DEF Refreshers
  <2>4. stage' \in [Refreshers -> {"none", "created", "over"} \cup Awaits]
    BY <1>1, <2>1 DEF RefreshInv, RefreshTypeOK
  <2>5. \A f \in Refreshers : got'[f] # Nothing => stage'[f] \in {"status", "address"}
    BY <1>1, <2>1 DEF RefreshInv, RefreshTypeOK
  <2>6. RefreshInv'
    BY <1>1, <2>1, <2>2, <2>3, <2>4, <2>5 DEF RefreshInv, RefreshTypeOK, SleepInv, shown
  <2>7. ServiceOK'
    BY <1>1, <2>1, <2>2 DEF ServiceOK, Shutdowns
  <2> QED
    BY <2>6, <2>7 DEF TypeInv, TypeOK, RefreshInv, ServiceOK
<1>3. ASSUME StopHeard PROVE TypeInv'
  BY <1>1, <1>3, BeginsType DEF StopHeard, ServiceOK, NoFault, Shutdowns
<1>4. ASSUME SetupFails PROVE TypeInv'
  BY <1>1, <1>4, BeginsType DEF SetupFails, Raised, ServiceOK, Shutdowns
<1>5. ASSUME SignalServed PROVE TypeInv'
  BY <1>1, <1>5, BeginsType DEF SignalServed, ServiceOK, NoFault, Shutdowns
<1>6. ASSUME Leaves PROVE TypeInv'
  <2>1. RefreshInv'
    BY <1>1, <1>6, RefreshKept DEF Leaves, RefreshInv, RefreshTypeOK, NoFault
  <2>2. ServiceOK'
    BY <1>1, <1>6 DEF Leaves, ServiceOK
  <2> QED
    BY <2>1, <2>2 DEF TypeInv, TypeOK, RefreshInv, ServiceOK
<1>7. ASSUME Restarts PROVE TypeInv'
  <2>1. stopping' \in BOOLEAN
    BY <1>7 DEF Restarts, FreshAgain
  <2>5. Blank \in Versions /\ 0 \in 0..Rounds
    BY StatusRefreshAssumption DEF Versions
  <2>2. RefreshInv'
    BY <1>1, <1>7, <2>1, <2>5 DEF Restarts, FreshAgain, RefreshInv, RefreshTypeOK,
       SleepInv, Refreshers
  <2>3. attempts' \in 0..MaxAttempts
    BY <1>7, LifecycleAssumption DEF Restarts
  <2>4. ServiceOK'
    BY <1>1, <1>7, <2>3 DEF Restarts, ServiceOK
  <2> QED
    BY <2>2, <2>4 DEF TypeInv, TypeOK, RefreshInv, ServiceOK
<1>8. ASSUME Exits \/ Signalled \/ SignalCancelled \/ ScanWritten \/ ScanEnds \/ UNCHANGED vars
      PROVE  TypeInv'
  <2>1. UNCHANGED refresh
    BY <1>8 DEF Exits, Signalled, SignalCancelled, ScanWritten, ScanEnds, vars
  <2>2. RefreshInv'
    BY <1>1, <2>1 DEF RefreshInv, RefreshTypeOK, SleepInv, refresh, shown
  <2>3. ASSUME Exits PROVE ServiceOK'
    BY <1>1, <2>3 DEF Exits, ServiceOK
  <2>4. ASSUME Signalled PROVE ServiceOK'
    BY <1>1, <2>4 DEF Signalled, ServiceOK
  <2>5. ASSUME SignalCancelled PROVE ServiceOK'
    BY <1>1, <2>5 DEF SignalCancelled, ServiceOK
  <2>6. ASSUME ScanWritten \/ ScanEnds PROVE ServiceOK'
    BY <1>1, <2>6 DEF ScanWritten, ScanEnds, ServiceOK
  <2>7. ASSUME UNCHANGED vars PROVE ServiceOK'
    BY <1>1, <2>7 DEF vars, ServiceOK
  <2>8. ServiceOK'
    BY <1>8, <2>3, <2>4, <2>5, <2>6, <2>7
  <2> QED
    BY <2>2, <2>8 DEF TypeInv, TypeOK, RefreshInv, ServiceOK
<1> QED
  BY <1>2, <1>3, <1>4, <1>5, <1>6, <1>7, <1>8, SetupType, ShutdownType, RefreshesType
     DEF Next, Main, Stopped

\* The types hold in every state.
LEMMA TypeInvariant == Spec => []TypeInv
BY TypeInit, TypeNext, PTL DEF Spec

\* The variables keep their types, for every set of guests, whatever fails and
\* whenever the process is stopped.
THEOREM TypeCorrect == Spec => []TypeOK
BY TypeInvariant, PTL DEF TypeInv

-----------------------------------------------------------------------------
(* The loop and its bus.                                                    *)

\* The loop leaves its first await only when it is not told to stop, and is
\* created nowhere else.
LEMMA LoopMoves ==
    ASSUME TypeInv,
           \/ \E f \in Refreshers : Refreshes(f)
           \/ JoinServed \/ ReadServed \/ Changes
    PROVE  /\ UNCHANGED <<process, peripheral, scan, stops, stopping>>
           /\ stage'[Loop] \in Awaits =>
                stage[Loop] \in Awaits \/ (stage[Loop] = "created" /\ ~stopping)
           /\ Running(Loop)' => Running(Loop)
<1>1. /\ stage \in [Refreshers -> {"none", "created", "over"} \cup Awaits]
      /\ Loop \in Refreshers /\ Loop \notin Guests
  BY StatusRefreshAssumption DEF TypeInv, TypeOK, RefreshTypeOK, Refreshers
<1>2. UNCHANGED <<process, peripheral, scan, stops, stopping>>
  BY DEF Refreshes, JoinServed, ReadServed, Changes, outside, Refresher, LoopStarts,
     StatusSampled, StatusPushed, StatusFails, AddressSampled, AddressPushed, AddressFails,
     Wakes, CancelDelivered, Finds, Joined, ReadArrives, WorldChanges
<1>3. ASSUME NEW f \in Refreshers, Refresher(f)
      PROVE  \/ stage'[Loop] = stage[Loop]
             \/ stage[Loop] \in Awaits
             \/ stage[Loop] = "created" /\ (stage'[Loop] = "over" \/ ~stopping)
             \/ stage'[Loop] = "over"
  BY <1>1, <1>3 DEF Refresher, LoopStarts, StatusSampled, StatusPushed, StatusFails,
     AddressSampled, AddressPushed, AddressFails, Wakes, CancelDelivered, Finds, Goes,
     GoesWith, Awaits
<1>4. ASSUME ~\E f \in Refreshers : Refreshes(f)
      PROVE  stage'[Loop] = stage[Loop]
  BY <1>1, <1>4 DEF JoinServed, ReadServed, Changes, Joined, ReadArrives, WorldChanges,
     GoesWith
<1> QED
  BY <1>2, <1>3, <1>4 DEF Refreshes, Running, Awaits

\* A step that has no part in it.
LEMMA LoopKept ==
    ASSUME TypeInv, LoopInv, UNCHANGED <<stage, stopping, sd>>,
           main' \in {"leaving", "exited"} => sd["finally"] = "over",
           bus = "open" => bus' = "open"
    PROVE  LoopInv'
BY DEF LoopInv, LoopOnOpenBus, Running

\* A shutdown that begins awaits a loop that runs.
LEMMA LoopBegins ==
    ASSUME TypeInv, LoopInv, NEW p \in Shutdowns, ShutdownBegins(p), UNCHANGED stage,
           main' \notin {"leaving", "exited"}
    PROVE  LoopInv'
<1> DEFINE tasks == {f \in {Loop} : stage[f] # "none"} \cup {s \in {Scan} : scan # "none"}
<1>1. CloseAfter(p, tasks) /\ stopping' = TRUE
  BY DEF ShutdownBegins
<1>2. stage[Loop] # "none" => Loop \in tasks
  OBVIOUS
<1> HIDE DEF tasks
<1>3. PICK next \in {"loop", "scan", "intro", "over"} :
        /\ sd' = [sd EXCEPT ![p] = next]
        /\ next = "loop" <=> Loop \in tasks /\ Running(Loop)
        /\ \/ UNCHANGED <<bus, registered>>
           \/ next = "over" /\ bus' = "closed" /\ registered' = {}
  BY <1>1, CloseAfterDoes
<1>4. next # "loop" => stage[Loop] \notin Awaits
  BY <1>2, <1>3 DEF Running, Awaits
<1>5. /\ stage' = stage
      /\ \A q \in Shutdowns : sd'[q] = IF q = p THEN next ELSE sd[q]
  BY <1>3 DEF TypeInv, TypeOK
<1> QED
  BY <1>1, <1>3, <1>4, <1>5 DEF LoopInv, LoopOnOpenBus, PastLoop

\* A shutdown that goes on has seen the end of the loop.
LEMMA LoopShutdown ==
    ASSUME TypeInv, LoopInv, NEW p \in Shutdowns, Shutdown(p)
    PROVE  LoopInv'
<1>1. /\ UNCHANGED <<stage, stopping, main>>
      /\ sd[p] \in {"loop", "scan", "intro", "advertisement", "application", "agent"}
      /\ stage[Loop] \notin Awaits
  BY DEF Shutdown, LoopAwaited, ScanAwaited, Unregisters, UnregisterCalled, AdvertisementGone,
     ApplicationGone, AgentGone, Running, LoopInv, PastLoop, refresh, process
<1>2. \E next : sd' = [sd EXCEPT ![p] = next]
  <2>1. ASSUME NEW tasks, CloseAfter(p, tasks) PROVE \E next : sd' = [sd EXCEPT ![p] = next]
    BY <2>1, CloseAfterDoes
  <2>2. ASSUME Unregisters(p) PROVE \E next : sd' = [sd EXCEPT ![p] = next]
    BY <2>2, UnregistersDoes
  <2>3. ASSUME Close(p) PROVE \E next : sd' = [sd EXCEPT ![p] = next]
    BY <2>3 DEF Close, Awaiting, Disconnect
  <2> QED
    BY <2>1, <2>2, <2>3 DEF Shutdown, LoopAwaited, ScanAwaited
<1>3. \A q \in Shutdowns : q # p => sd'[q] = sd[q]
  BY <1>2 DEF TypeInv, TypeOK
<1>4. stopping
  BY <1>1 DEF LoopInv
<1> QED
  BY <1>1, <1>3, <1>4 DEF LoopInv, LoopOnOpenBus, Running, Shutdowns

\* Every step keeps the loop inside the life of its bus.
LEMMA LoopNext == TypeInv /\ LoopInv /\ [Next]_vars => LoopInv'
<1> SUFFICES ASSUME TypeInv, LoopInv, [Next]_vars PROVE LoopInv'
  OBVIOUS
<1> USE DEF process, peripheral, stops
<1>1. /\ stage \in [Refreshers -> {"none", "created", "over"} \cup Awaits]
      /\ sd \in [Shutdowns -> {"none", "created", "loop", "scan", "intro", "advertisement",
                              "application", "agent", "over"}]
      /\ Loop \in Refreshers
      /\ main \in Setup \cup {"serving", "finally", "leaving", "exited"}
  BY DEF TypeInv, TypeOK, RefreshTypeOK, Refreshers
<1>2. ASSUME \/ BusConnected \/ AdapterFound \/ PowerTried \/ PoweredOn \/ AgentRegistered
             \/ DefaultAsked \/ ObjectsExported \/ ApplicationRegistered
             \/ AdvertisementRegistered \/ ScanWritten \/ ScanEnds \/ UNCHANGED vars
      PROVE  LoopInv'
  <2>1. /\ UNCHANGED <<stage, stopping, sd>>
        /\ main' \in {"leaving", "exited"} => main' = main
        /\ bus = "open" => bus' = "open"
    BY <1>2 DEF BusConnected, AdapterFound, PowerTried, PoweredOn, AgentRegistered,
       DefaultAsked, ObjectsExported, ApplicationRegistered, AdvertisementRegistered, Replied,
       Registers, ScanWritten, ScanEnds, vars, refresh
  <2> QED
    BY <2>1, LoopKept DEF LoopInv
<1>3. ASSUME Serving PROVE LoopInv'
  <2>1. stage'[Loop] = "created" /\ bus' = "open" /\ UNCHANGED stopping
    BY <1>1, <1>3 DEF Serving, Goes, GoesWith
  <2>2. \A p \in Shutdowns :
          sd'[p] = sd[p] \/ (p = "finally" /\ sd'[p] = "loop" /\ stopping)
    BY <1>1, <1>3 DEF Serving
  <2>3. main' \in {"serving", "finally"}
    BY <1>3 DEF Serving
  <2> QED
    BY <2>1, <2>2, <2>3 DEF LoopInv, LoopOnOpenBus, Running, Awaits, PastLoop
<1>4. ASSUME StopHeard \/ SetupFails PROVE LoopInv'
  BY <1>4, LoopBegins DEF StopHeard, SetupFails, Shutdowns
<1>5. ASSUME SignalServed PROVE LoopInv'
  BY <1>5, LoopBegins DEF SignalServed, Shutdowns
<1>6. ASSUME Leaves PROVE LoopInv'
  BY <1>6, LoopKept DEF Leaves
<1>7. ASSUME Exits PROVE LoopInv'
  <2>1. /\ ~Running(Loop) /\ UNCHANGED <<stage, stopping, sd>>
        /\ main = "leaving"
    BY <1>1, <1>7 DEF Exits, refresh
  <2> QED
    BY <2>1 DEF LoopInv, LoopOnOpenBus, Running
<1>8. ASSUME Signalled PROVE LoopInv'
  <2>1. UNCHANGED <<stage, stopping, main, bus>>
    BY <1>8 DEF Signalled, refresh
  <2>2. \A p \in Shutdowns :
          sd'[p] = sd[p] \/ (p = "signal" /\ sd'[p] = "created")
    BY <1>1, <1>8 DEF Signalled
  <2> QED
    BY <2>1, <2>2 DEF LoopInv, LoopOnOpenBus, Running, PastLoop, Shutdowns
<1>9. ASSUME SignalCancelled PROVE LoopInv'
  <2>1. UNCHANGED <<stage, stopping, main, bus>> /\ main = "leaving"
    BY <1>9 DEF SignalCancelled, refresh
  <2>2. \A p \in Shutdowns :
          sd'[p] = sd[p] \/ (p = "signal" /\ sd'[p] = "over")
    BY <1>1, <1>9 DEF SignalCancelled
  <2>3. stopping /\ stage[Loop] \notin Awaits
    BY <2>1 DEF LoopInv, PastLoop, Shutdowns
  <2> QED
    BY <2>1, <2>2, <2>3 DEF LoopInv, LoopOnOpenBus, Running, PastLoop, Shutdowns
<1>10. ASSUME Restarts PROVE LoopInv'
  <2>1. stage'[Loop] = "none" /\ main' = "connecting" /\ \A p \in Shutdowns : sd'[p] = "none"
    BY <1>1, <1>10 DEF Restarts, FreshAgain
  <2> QED
    BY <2>1 DEF LoopInv, LoopOnOpenBus, Running, Awaits, PastLoop
<1>11. ASSUME \/ \E f \in Refreshers : Refreshes(f)
              \/ JoinServed \/ ReadServed \/ Changes
       PROVE  LoopInv'
  <2>1. /\ UNCHANGED <<process, peripheral, scan, stops, stopping>>
        /\ stage'[Loop] \in Awaits =>
             stage[Loop] \in Awaits \/ (stage[Loop] = "created" /\ ~stopping)
        /\ Running(Loop)' => Running(Loop)
    BY <1>11, LoopMoves
  <2>2. UNCHANGED <<main, bus, sd, stopping>>
    BY <2>1
  <2>3. \A p \in Shutdowns : sd[p] \in PastLoop => stopping
    BY DEF LoopInv, PastLoop
  <2> QED
    BY <2>1, <2>2, <2>3 DEF LoopInv, LoopOnOpenBus, Running
<1> QED
  BY <1>2, <1>3, <1>4, <1>5, <1>6, <1>7, <1>8, <1>9, <1>10, <1>11, LoopShutdown
     DEF Next, Main, Stopped

\* There is no loop at first.
LEMMA LoopInit == Init => LoopInv
BY DEF Init, Fresh, LoopInv, LoopOnOpenBus, Running, Awaits, PastLoop, Refreshers, Shutdowns

\* The loop is over before any shutdown closes the bus it notifies on, whenever
\* the signal comes, however many shutdowns there are and whatever swallows a
\* cancellation (service.py:283-290, 338-345).
THEOREM LoopNeedsBus == Spec => []LoopOnOpenBus
<1>1. LoopInv => LoopOnOpenBus
  BY DEF LoopInv
<1> QED
  BY <1>1, LoopInit, LoopNext, TypeInvariant, PTL DEF Spec

-----------------------------------------------------------------------------
(* What is advertised.                                                      *)

\* Setup registers the advertisement last, and never again once it is undone.
LEMMA ServedSetup ==
    ASSUME TypeInv, LoopInv, ServedInv,
           BusConnected \/ AdapterFound \/ PowerTried \/ PoweredOn \/ AgentRegistered
             \/ DefaultAsked \/ ObjectsExported \/ ApplicationRegistered
             \/ AdvertisementRegistered
    PROVE  ServedInv'
<1> USE DEF process, peripheral, stops, refresh, Replied, Registers, ServedInv, AdvertisedServes
<1>1. UNCHANGED <<sd, stopping>>
  BY DEF BusConnected, AdapterFound, PowerTried, PoweredOn, AgentRegistered, DefaultAsked,
     ObjectsExported, ApplicationRegistered, AdvertisementRegistered
<1>2. ASSUME BusConnected PROVE ServedInv'
  BY <1>1, <1>2 DEF BusConnected
<1>3. ASSUME AdapterFound PROVE ServedInv'
  BY <1>1, <1>3 DEF AdapterFound
<1>4. ASSUME PowerTried PROVE ServedInv'
  BY <1>1, <1>4 DEF PowerTried
<1>5. ASSUME PoweredOn PROVE ServedInv'
  BY <1>1, <1>5 DEF PoweredOn
<1>6. ASSUME AgentRegistered PROVE ServedInv'
  BY <1>1, <1>6 DEF AgentRegistered
<1>7. ASSUME DefaultAsked PROVE ServedInv'
  BY <1>1, <1>7 DEF DefaultAsked
<1>8. ASSUME ObjectsExported PROVE ServedInv'
  BY <1>1, <1>8 DEF ObjectsExported
<1>9. ASSUME ApplicationRegistered PROVE ServedInv'
  BY <1>1, <1>9 DEF ApplicationRegistered
<1>10. ASSUME AdvertisementRegistered PROVE ServedInv'
  BY <1>1, <1>10 DEF AdvertisementRegistered
<1> QED
  BY <1>2, <1>3, <1>4, <1>5, <1>6, <1>7, <1>8, <1>9, <1>10

\* A shutdown that begins, or is done with a task, leaves every registration, or
\* closes the bus and with it drops them all.
LEMMA ServedCloses ==
    ASSUME TypeInv, ServedInv, NEW p \in Shutdowns,
           NEW next \in {"loop", "scan", "intro", "over"},
           sd' = [sd EXCEPT ![p] = next],
           \/ UNCHANGED <<bus, registered>>
           \/ next = "over" /\ bus' = "closed" /\ registered' = {},
           stopping', main' \in {main, "finally"}, UNCHANGED adv,
           main' = "finally" => main \in Setup \cup {"serving", "finally"}
    PROVE  ServedInv'
<1>1. \A q \in Shutdowns : sd'[q] = "advertisement" => sd[q] = "advertisement"
  BY DEF TypeInv, TypeOK
<1> QED
  BY <1>1 DEF ServedInv, AdvertisedServes, Setup

\* A shutdown that begins has unregistered nothing yet.
LEMMA ServedBegins ==
    ASSUME TypeInv, ServedInv, NEW p \in Shutdowns, ShutdownBegins(p), UNCHANGED adv,
           \/ main' = main
           \/ main \in Setup \cup {"serving"} /\ main' = "finally"
    PROVE  ServedInv'
<1> DEFINE tasks == {f \in {Loop} : stage[f] # "none"} \cup {s \in {Scan} : scan # "none"}
<1>1. CloseAfter(p, tasks) /\ stopping'
  BY DEF ShutdownBegins
<1> HIDE DEF tasks
<1>2. PICK next \in {"loop", "scan", "intro", "over"} :
        /\ sd' = [sd EXCEPT ![p] = next]
        /\ \/ UNCHANGED <<bus, registered>>
           \/ next = "over" /\ bus' = "closed" /\ registered' = {}
  BY <1>1, CloseAfterDoes
<1> QED
  BY <1>1, <1>2, ServedCloses DEF ServedInv, Setup

\* The advertisement is unregistered before the application, and neither comes
\* back; a shutdown that passes over the advertisement leaves the application.
LEMMA ServedShutdown ==
    ASSUME TypeInv, LoopInv, ServedInv, NEW p \in Shutdowns, Shutdown(p)
    PROVE  ServedInv'
<1>1. UNCHANGED <<stopping, main, adv>>
  BY DEF Shutdown, LoopAwaited, ScanAwaited, Unregisters, refresh, process
<1>2. stopping
  BY DEF LoopInv, Shutdown, LoopAwaited, ScanAwaited, Unregisters, UnregisterCalled,
     AdvertisementGone, ApplicationGone, AgentGone
<1>3. ASSUME LoopAwaited(p) \/ ScanAwaited(p) PROVE ServedInv'
  <2> DEFINE Closes(next) == /\ sd' = [sd EXCEPT ![p] = next]
                             /\ \/ UNCHANGED <<bus, registered>>
                                \/ next = "over" /\ bus' = "closed" /\ registered' = {}
  <2>1. \E next \in {"loop", "scan", "intro", "over"} : Closes(next)
    <3>1. ASSUME NEW tasks, CloseAfter(p, tasks)
          PROVE  \E next \in {"loop", "scan", "intro", "over"} : Closes(next)
      BY <3>1, CloseAfterDoes
    <3>2. ASSUME Close(p)
          PROVE  \E next \in {"loop", "scan", "intro", "over"} : Closes(next)
      BY <3>2 DEF Close, Awaiting, Disconnect
    <3> QED
      BY <1>3, <3>1, <3>2 DEF LoopAwaited, ScanAwaited
  <2>2. main' = "finally" => main \in Setup \cup {"serving", "finally"}
    BY <1>1
  <2> QED
    BY <1>1, <1>2, <2>1, <2>2, ServedCloses
<1>4. ASSUME Unregisters(p) PROVE ServedInv'
  <2>1. PICK next \in {"advertisement", "application", "agent", "over"} :
             /\ sd[p] \in {"intro", "advertisement", "application", "agent"}
             /\ sd' = [sd EXCEPT ![p] = next]
             /\ next = "advertisement" =>
                  /\ sd[p] = "intro" /\ "advertisement" \in registered
                  /\ registered' = registered \ {"advertisement"}
             /\ registered' \subseteq registered
             /\ "application" \in registered \ registered' =>
                  \/ sd[p] = "intro" /\ ~adv
                  \/ sd[p] = "advertisement"
                  \/ bus' = "closed"
             /\ \/ bus' = bus
                \/ next = "over" /\ bus' = "closed" /\ registered' = {}
    BY <1>4, UnregistersDoes
  <2>2. \A q \in Shutdowns : sd'[q] = IF q = p THEN next ELSE sd[q]
    BY <2>1 DEF TypeInv, TypeOK
  <2>3. registered # {} => bus = "open"
    BY DEF TypeInv, TypeOK
  <2> QED
    BY <1>1, <1>2, <2>1, <2>2, <2>3 DEF ServedInv, AdvertisedServes
<1> QED
  BY <1>3, <1>4 DEF Shutdown

\* Every step keeps what is advertised served.
LEMMA ServedNext == TypeInv /\ LoopInv /\ ServedInv /\ [Next]_vars => ServedInv'
<1> SUFFICES ASSUME TypeInv, LoopInv, ServedInv, [Next]_vars PROVE ServedInv'
  OBVIOUS
<1> USE DEF process, peripheral, stops
<1>1. sd \in [Shutdowns -> {"none", "created", "loop", "scan", "intro", "advertisement",
                            "application", "agent", "over"}]
  BY DEF TypeInv, TypeOK
<1>2. ASSUME ScanWritten \/ ScanEnds \/ UNCHANGED vars PROVE ServedInv'
  <2>1. UNCHANGED <<main, bus, registered, adv, sd, stopping>>
    BY <1>2 DEF ScanWritten, ScanEnds, vars, refresh
  <2> QED
    BY <2>1 DEF ServedInv, AdvertisedServes
<1>3. ASSUME \/ \E f \in Refreshers : Refreshes(f)
             \/ JoinServed \/ ReadServed \/ Changes
      PROVE  ServedInv'
  <2>1. UNCHANGED <<main, bus, registered, adv, sd, stopping>>
    BY <1>3, LoopMoves
  <2> QED
    BY <2>1 DEF ServedInv, AdvertisedServes
<1>4. ASSUME Serving PROVE ServedInv'
  <2>1. /\ main = "advertisement" /\ UNCHANGED <<bus, registered, adv, stopping>>
        /\ main' = "serving" \/ (main' = "finally" /\ stopping)
    BY <1>4 DEF Serving
  <2>2. \A p \in Shutdowns : sd'[p] = sd[p] \/ sd'[p] = "loop"
    BY <1>1, <1>4 DEF Serving
  <2> QED
    BY <2>1, <2>2 DEF ServedInv, AdvertisedServes
<1>5. ASSUME StopHeard \/ SetupFails PROVE ServedInv'
  <2>1. main \in Setup \cup {"serving"}
    BY <1>5 DEF StopHeard, SetupFails, Raised, Setup
  <2> QED
    BY <1>5, <2>1, ServedBegins DEF StopHeard, SetupFails, Shutdowns
<1>6. ASSUME SignalServed PROVE ServedInv'
  BY <1>6, ServedBegins DEF SignalServed, Shutdowns
<1>7. ASSUME Leaves PROVE ServedInv'
  BY <1>7 DEF Leaves, ServedInv, AdvertisedServes
<1>8. ASSUME Exits PROVE ServedInv'
  BY <1>8 DEF Exits, ServedInv, AdvertisedServes, refresh
<1>9. ASSUME Signalled \/ SignalCancelled PROVE ServedInv'
  <2>1. UNCHANGED <<main, bus, registered, adv, stopping>>
    BY <1>9 DEF Signalled, SignalCancelled, refresh
  <2>2. \A p \in Shutdowns : sd'[p] = sd[p] \/ sd'[p] \in {"created", "over"}
    BY <1>1, <1>9 DEF Signalled, SignalCancelled
  <2> QED
    BY <2>1, <2>2 DEF ServedInv, AdvertisedServes
<1>10. ASSUME Restarts PROVE ServedInv'
  BY <1>10 DEF Restarts, ServedInv, AdvertisedServes
<1> QED
  BY <1>2, <1>3, <1>4, <1>5, <1>6, <1>7, <1>8, <1>9, <1>10, ServedSetup, ServedShutdown
     DEF Next, Main, Stopped

\* Nothing is advertised at first.
LEMMA ServedInit == Init => ServedInv
BY DEF Init, Fresh, ServedInv, AdvertisedServes

\* Whoever finds the advertisement finds the service behind it and, but for a
\* process that stops, the agent: even when a signal unregisters while setup
\* still registers, and when BlueZ refuses a call (ble_server.py:390-434).
THEOREM AdvertisedIsServed == Spec => []AdvertisedServes
<1>1. ServedInv => AdvertisedServes
  BY DEF ServedInv
<1> QED
  BY <1>1, LoopInit, LoopNext, ServedInit, ServedNext, TypeInvariant, PTL DEF Spec
=============================================================================
