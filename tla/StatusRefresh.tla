--------------------------- MODULE StatusRefresh ---------------------------
(***************************************************************************)
(* The values of the status and the address characteristics, and the tasks *)
(* that put them there (service.py): the periodic loop, the refreshes that *)
(* follow a join (the handler's own and those of _delayed_refreshes) and   *)
(* the reads of a central.  Each samples the Pi in an await and stores or  *)
(* notifies the sample after it, so two of them may do so in the other     *)
(* order.  When the tasks start and stop is the matter of Lifecycle.       *)
(***************************************************************************)
EXTENDS Integers

CONSTANTS
    Loop,           \* the task of _status_loop
    Guests,         \* connect requests that join, each with its refreshes, and
                    \* reads of the status or the address characteristic
    Rounds,         \* delays of _delayed_refreshes (3 in the code)
    MaxChanges,     \* BOUND on the changes of the Pi's network state
    MaxFaults,      \* BOUND on the failures of nmcli, the kernel and BlueZ
    SwallowsCancel  \* TRUE: asyncio.wait_for returns the result of a finished
                    \* nmcli even when its task is being cancelled (Python < 3.12)

ASSUME StatusRefreshAssumption ==
    /\ Loop \notin Guests
    /\ Rounds \in Nat /\ MaxChanges \in Nat /\ MaxFaults \in Nat
    /\ SwallowsCancel \in BOOLEAN

Refreshers == {Loop} \cup Guests

VARIABLES
    world,      \* the version of the Pi's network state
    stage,      \* stage[f]: where f is
    got,        \* got[f]: the version f has sampled and not pushed yet
    left,       \* left[g]: the delays a join has before it; a read is ReadOnly
    status,     \* the version in the status characteristic's _value
    address,    \* the one in the address characteristic's: the older of its two
                \* halves, the primary address and the interfaces
    stopping,   \* _stop_event
    cancelled,  \* tasks with a cancellation requested and not delivered
    faults      \* how many failures have happened

shown   == <<status, address>>
refresh == <<world, stage, got, left, shown, stopping, cancelled, faults>>

\* No value yet, or the empty answer of a query that failed.
Blank    == -1
Versions == {Blank} \cup 0..MaxChanges
Nothing  == -2
ReadOnly == -1

Awaits == {"status", "address", "sleeping"}

RefreshTypeOK ==
    /\ world \in 0..MaxChanges
    /\ stage \in [Refreshers -> {"none", "created", "over"} \cup Awaits]
    /\ got \in [Refreshers -> Versions \cup {Nothing}]
    /\ \A f \in Refreshers : got[f] # Nothing => stage[f] \in {"status", "address"}
    /\ left \in [Refreshers -> {ReadOnly} \cup 0..Rounds]
    /\ status \in Versions
    /\ address \in Versions
    /\ stopping \in BOOLEAN
    /\ cancelled \subseteq {f \in Refreshers : stage[f] \in {"created"} \cup Awaits}
    /\ faults \in 0..MaxFaults

\* What the process starts with; the Pi's state and the failures outlive it.
Fresh ==
    /\ stage = [f \in Refreshers |-> "none"]
    /\ got = [f \in Refreshers |-> Nothing]
    /\ left = [f \in Refreshers |-> 0]
    /\ status = Blank
    /\ address = Blank
    /\ stopping = FALSE
    /\ cancelled = {}

\* A new process knows nothing of what the last one did.
FreshAgain ==
    /\ stage' = [f \in Refreshers |-> "none"]
    /\ got' = [f \in Refreshers |-> Nothing]
    /\ left' = [f \in Refreshers |-> 0]
    /\ status' = Blank
    /\ address' = Blank
    /\ stopping' = FALSE
    /\ cancelled' = {}

-----------------------------------------------------------------------------

Fault   == faults < MaxFaults /\ faults' = faults + 1
NoFault == UNCHANGED faults

Running(f) == stage[f] \in {"created"} \cup Awaits

\* f moves on, with so many delays before it, and forgets what it has sampled.
GoesWith(f, next, delays) ==
    /\ stage' = [stage EXCEPT ![f] = next]
    /\ got' = [got EXCEPT ![f] = Nothing]
    /\ left' = [left EXCEPT ![f] = IF next = "over" THEN 0 ELSE delays]

Goes(f, next) == GoesWith(f, next, left[f])

\* The Pi joins or leaves a network, or gets an address.
WorldChanges ==
    /\ world < MaxChanges
    /\ world' = world + 1
    /\ UNCHANGED <<stage, got, left, shown, stopping, cancelled, faults>>

\* The connect handler has pushed its ok and refreshes at once.
Joined(c) ==
    /\ stage[c] = "none"
    /\ GoesWith(c, "status", Rounds)
    /\ UNCHANGED <<world, shown, stopping, cancelled, faults>>

\* A read of the status, or one of the address.
ReadArrives(r) ==
    /\ stage[r] = "none"
    /\ \E first \in {"status", "address"} : GoesWith(r, first, ReadOnly)
    /\ UNCHANGED <<world, shown, stopping, cancelled, faults>>

\* The loop's task runs for the first time.
LoopStarts(f) ==
    /\ f = Loop /\ stage[f] = "created" /\ f \notin cancelled
    /\ Goes(f, IF stopping THEN "over" ELSE "status")
    /\ UNCHANGED <<world, shown, stopping, cancelled, faults>>

\* f has looked at the Pi and found the state of this moment, or nothing.
Finds(f) ==
    /\ got[f] = Nothing
    /\ \/ NoFault /\ got' = [got EXCEPT ![f] = world]
       \/ Fault /\ got' = [got EXCEPT ![f] = Blank]
    /\ UNCHANGED <<world, stage, left, shown, stopping, cancelled>>

\* The nmcli processes of status().
StatusSampled(f) == stage[f] = "status" /\ Finds(f)

\* The two threads of the executor, one after the other: the pair is as old as
\* what the first has found.
AddressSampled(f) == stage[f] = "address" /\ Finds(f)

\* The step after an nmcli is not taken when a cancellation is due, unless
\* wait_for swallows it.
NmcliDone(f) ==
    /\ f \in cancelled => SwallowsCancel
    /\ cancelled' = cancelled \ {f}

\* After the status: the address, but for a read.
AfterStatus(f) == IF left[f] = ReadOnly THEN "over" ELSE "address"

StatusPushed(f) ==
    /\ stage[f] = "status" /\ got[f] # Nothing
    /\ NmcliDone(f)
    /\ status' = got[f]
    /\ Goes(f, AfterStatus(f))
    /\ UNCHANGED <<world, address, stopping, faults>>

\* nmcli takes more than 30 s, or cannot be started: logged, or an error
\* answer for a read.
StatusFails(f) ==
    /\ stage[f] = "status"
    /\ NmcliDone(f)
    /\ Fault
    /\ Goes(f, AfterStatus(f))
    /\ UNCHANGED <<world, shown, stopping>>

\* The loop waits, a join has another delay, or it was the last refresh.
AfterAddress(f) ==
    IF f \in Guests /\ left[f] \in {ReadOnly, 0} THEN "over" ELSE "sleeping"

AddressPushed(f) ==
    /\ stage[f] = "address" /\ got[f] # Nothing /\ f \notin cancelled
    /\ address' = got[f]
    /\ Goes(f, AfterAddress(f))
    /\ UNCHANGED <<world, status, stopping, cancelled, faults>>

\* Mutant of AddressFails: the exception ends the task.
AddressFailsTask(f) ==
    /\ stage[f] = "address" /\ f \notin cancelled
    /\ Fault
    /\ Goes(f, "over")
    /\ UNCHANGED <<world, shown, stopping, cancelled>>

\* No socket can be made: logged, or an error answer for a read.
AddressFails(f) ==
    /\ stage[f] = "address" /\ f \notin cancelled
    /\ Fault
    /\ Goes(f, AfterAddress(f))
    /\ UNCHANGED <<world, shown, stopping, cancelled>>

\* Mutant of Wakes: "while True".
WakesForever(f) ==
    /\ stage[f] = "sleeping" /\ f \notin cancelled
    /\ GoesWith(f, IF stopping /\ f # Loop THEN "over" ELSE "status",
                IF f = Loop THEN 0 ELSE left[f] - 1)
    /\ UNCHANGED <<world, shown, stopping, cancelled, faults>>

\* The 10 s of the loop are over or the stop event is set; or the next delay of
\* a join is over.  A set stop event ends both.
Wakes(f) ==
    /\ stage[f] = "sleeping" /\ f \notin cancelled
    /\ GoesWith(f, IF stopping THEN "over" ELSE "status",
                IF f = Loop THEN 0 ELSE left[f] - 1)
    /\ UNCHANGED <<world, shown, stopping, cancelled, faults>>

\* CancelledError is no Exception: it goes through the handlers of the refresh.
CancelDelivered(f) ==
    /\ f \in cancelled
    /\ Goes(f, "over")
    /\ cancelled' = cancelled \ {f}
    /\ UNCHANGED <<world, shown, stopping, faults>>

\* One step of a refresher that has started.
Refresher(f) ==
    \/ LoopStarts(f) \/ StatusSampled(f) \/ StatusPushed(f) \/ StatusFails(f)
    \/ AddressSampled(f) \/ AddressPushed(f) \/ AddressFails(f) \/ Wakes(f)
    \/ CancelDelivered(f)

\* The characteristics tell the present state of the Pi.
UpToDate == status = world /\ address = world
=============================================================================
