----------------------------- MODULE Lifecycle -----------------------------
(***************************************************************************)
(* The process from its start to its end: _amain (__main__.py), setup and  *)
(* shutdown of the service (service.py), and the calls by which the        *)
(* peripheral and the pairing agent register with BlueZ and unregister     *)
(* (ble_server.py, agent.py), over the refresh tasks of StatusRefresh.     *)
(* A stop signal runs one shutdown, the end of _amain another: two of them *)
(* may be under way, and the signal may come while setup still registers.  *)
(*                                                                         *)
(* BlueZ and D-Bus are outside src/: BlueZ serves the calls in the order   *)
(* they are sent, so a call has its effect in the step that sends it, and  *)
(* its reply comes with a later one; it drops the registrations of a       *)
(* connection that is closed; a call that is pending on a closed bus, or   *)
(* made on it, raises.                                                     *)
(***************************************************************************)
EXTENDS StatusRefresh

CONSTANTS
    Scan,           \* the task of _stream_scan; BOUND: one in each process
    MaxAttempts     \* BOUND on the attempts to power the adapter on (5 in the code)

ASSUME LifecycleAssumption ==
    /\ Scan \notin Refreshers
    /\ MaxAttempts \in Nat \ {0}

\* The shutdown of the finally clause, and the one of the signal handler's task.
Shutdowns == {"finally", "signal"}

VARIABLES
    main,       \* where _amain is: the call of setup it awaits, or after it
    failed,     \* setup raised: the exit code tells systemd of a failure
    signalled,  \* SIGTERM has been sent (systemctl stop), or systemd has no
                \* process to send it to
    bus,        \* Peripheral._bus: none, open, closed
    adapter,    \* Peripheral._adapter_path is set: an adapter has been found
    adv,        \* Peripheral._adv is set
    registered, \* what BlueZ knows of this process
    powered,    \* the adapter is powered
    attempts,   \* attempts to power it on
    scan,       \* the scan task: none, running, over
    held,       \* shutdowns that await the loop and have found a scan task too
    sd          \* sd[p]: the task or the call that shutdown p awaits

process    == <<main, failed, signalled>>
peripheral == <<bus, adapter, adv, registered, powered, attempts>>
stops      == <<held, sd>>
vars       == <<refresh, process, peripheral, scan, stops>>

Setup == {"connecting", "finding", "powering", "aliasing", "agent", "defaulting",
          "appIntro", "application", "advertisement", "refused"}

TypeOK ==
    /\ RefreshTypeOK
    /\ main \in Setup \cup {"serving", "finally", "leaving", "exited"}
    /\ failed \in BOOLEAN /\ signalled \in BOOLEAN
    /\ bus \in {"none", "open", "closed"}
    /\ adapter \in BOOLEAN /\ adv \in BOOLEAN
    /\ registered \subseteq {"agent", "application", "advertisement"}
    /\ registered # {} => bus = "open"
    /\ powered \in BOOLEAN
    /\ attempts \in 0..MaxAttempts
    /\ scan \in {"none", "running", "over"}
    /\ held \subseteq Shutdowns
    /\ sd \in [Shutdowns -> {"none", "created", "loop", "scan", "intro", "advertisement",
                             "application", "agent", "over"}]

\* systemd starts the process; the adapter may be powered already.
Init ==
    /\ Fresh
    /\ world = 0 /\ faults = 0
    /\ signalled = FALSE
    /\ powered \in BOOLEAN
    /\ main = "connecting" /\ failed = FALSE
    /\ bus = "none" /\ adapter = FALSE /\ adv = FALSE /\ registered = {}
    /\ attempts = 0
    /\ scan = "none"
    /\ held = {}
    /\ sd = [p \in Shutdowns |-> "none"]

-----------------------------------------------------------------------------
(* Shutdown p: the tasks, then the registrations, then the bus. *)

Awaiting(p, what) ==
    /\ sd' = [sd EXCEPT ![p] = what]
    /\ UNCHANGED <<bus, registered>>

Disconnect(p) ==
    /\ sd' = [sd EXCEPT ![p] = "over"]
    /\ bus' = "closed"
    /\ registered' = {}

\* close(): nothing to unregister before an adapter is known, nothing to close
\* before the bus is.
Close(p) ==
    CASE bus = "none" -> Awaiting(p, "over")
      [] bus # "none" /\ ~adapter -> Disconnect(p)
      [] OTHER -> Awaiting(p, "intro")

\* Mutant of CloseAfter: the tasks are cancelled, not awaited.
CloseAfterCancelling(p, tasks) ==
    /\ Close(p)
    /\ cancelled' = cancelled \cup {f \in tasks \cap {Loop} : Running(f)}
    /\ UNCHANGED held

\* The loop over the tasks that are left: a running one is cancelled and
\* awaited (Scan ends whether its cancellation is swallowed or not).
CloseAfter(p, tasks) ==
    IF Loop \in tasks /\ Running(Loop)
      THEN /\ Awaiting(p, "loop")
           /\ cancelled' = cancelled \cup {Loop}
           /\ held' = IF Scan \in tasks THEN held \cup {p} ELSE held
      ELSE /\ IF Scan \in tasks /\ scan = "running" THEN Awaiting(p, "scan") ELSE Close(p)
           /\ held' = held \ {p}
           /\ UNCHANGED cancelled

\* _status_task and _scan_task are read once, after the stop event is set.
ShutdownBegins(p) ==
    /\ stopping' = TRUE
    /\ CloseAfter(p, {f \in {Loop} : stage[f] # "none"} \cup {s \in {Scan} : scan # "none"})

LoopAwaited(p) ==
    /\ sd[p] = "loop" /\ ~Running(Loop)
    /\ CloseAfter(p, IF p \in held THEN {Scan} ELSE {})
    /\ UNCHANGED <<world, stage, got, left, shown, stopping, faults, process,
                   adapter, adv, powered, attempts, scan>>

ScanAwaited(p) ==
    /\ sd[p] = "scan" /\ scan # "running"
    /\ Close(p)
    /\ UNCHANGED <<refresh, process, adapter, adv, powered, attempts, scan, held>>

\* A call that undoes a registration; BlueZ refuses it when there is none, and
\* may fail.  The next await is "then" when the call is sent, "refused" when
\* it cannot be or will raise.
Undo(p, what, then, refused) ==
    \/ /\ bus = "open" /\ what \in registered
       /\ NoFault
       /\ sd' = [sd EXCEPT ![p] = then]
       /\ registered' = registered \ {what}
       /\ UNCHANGED bus
    \/ /\ \/ (bus # "open" \/ what \notin registered) /\ NoFault
          \/ Fault
       /\ Awaiting(p, refused)

\* Mutant of UnregisterCalled: the advertisement and the application have a try
\* of their own.
UnregisterCalledApart(p) ==
    /\ sd[p] = "intro"
    /\ IF adv THEN Undo(p, "advertisement", "advertisement", "advertisement")
              ELSE Undo(p, "application", "application", "application")

\* The adapter is introspected: the advertisement goes first.  Whatever raises
\* in unregister ends its one try: the application's call is then skipped, as
\* it is after its own reply ("application").
UnregisterCalled(p) ==
    /\ sd[p] = "intro"
    /\ IF adv THEN Undo(p, "advertisement", "advertisement", "application")
              ELSE Undo(p, "application", "application", "application")

AdvertisementGone(p) ==
    /\ sd[p] = "advertisement"
    /\ Undo(p, "application", "application", "application")

\* unregister_agent comes next, whatever became of the rest.
ApplicationGone(p) ==
    /\ sd[p] = "application"
    /\ Undo(p, "agent", "agent", "agent")

\* Whatever became of the agent, the bus is closed.
AgentGone(p) ==
    /\ sd[p] = "agent"
    /\ Disconnect(p)
    /\ NoFault

Unregisters(p) ==
    /\ UnregisterCalled(p) \/ AdvertisementGone(p) \/ ApplicationGone(p) \/ AgentGone(p)
    /\ UNCHANGED <<world, stage, got, left, shown, stopping, cancelled, process,
                   adapter, adv, powered, attempts, scan, held>>

\* BOUND: one signal, that of systemctl stop.  Its handler creates a task;
\* without a process, or in its last moments, there is nobody to do it.
Signalled ==
    /\ signalled = FALSE
    /\ signalled' = TRUE
    /\ sd' = IF main \in {"leaving", "exited"} THEN sd ELSE [sd EXCEPT !["signal"] = "created"]
    /\ UNCHANGED <<refresh, main, failed, peripheral, scan, held>>

SignalServed ==
    /\ sd["signal"] = "created" /\ main \notin {"leaving", "exited"}
    /\ ShutdownBegins("signal")
    /\ UNCHANGED <<world, stage, got, left, shown, faults, process,
                   adapter, adv, powered, attempts, scan>>

-----------------------------------------------------------------------------
(* _amain: setup, one step per reply it awaits. *)

\* The step of setup that follows stage "from", when the reply is good.
Replied(from, to) ==
    /\ main = from /\ bus = "open"
    /\ main' = to
    /\ NoFault
    /\ UNCHANGED <<failed, signalled, world, stage, got, left, shown, stopping, cancelled,
                   scan, stops>>

BusConnected ==
    /\ main = "connecting"
    /\ main' = "finding"
    /\ bus' = "open"
    /\ UNCHANGED <<failed, signalled, refresh, adapter, adv, registered, powered, attempts,
                   scan, stops>>

AdapterFound ==
    /\ Replied("finding", "powering")
    /\ adapter' = TRUE
    /\ UNCHANGED <<bus, adv, registered, powered, attempts>>

\* Mutant of PowerTried: the attempts have no end.
PowerTriedAgain ==
    /\ main = "powering" /\ bus = "open" /\ powered = FALSE
    /\ attempts' = attempts + 1
    /\ \/ NoFault /\ powered' = TRUE
       \/ Fault /\ UNCHANGED powered
    /\ UNCHANGED <<process, world, stage, got, left, shown, stopping, cancelled,
                   bus, adapter, adv, registered, scan, stops>>

\* Powered = true is set, whether it raises or not, and polled for 2 s; a
\* blocked adapter stays off.
PowerTried ==
    /\ main = "powering" /\ bus = "open" /\ powered = FALSE
    /\ attempts < MaxAttempts
    /\ attempts' = attempts + 1
    /\ \/ NoFault /\ powered' = TRUE
       \/ Fault /\ UNCHANGED powered
    /\ UNCHANGED <<process, world, stage, got, left, shown, stopping, cancelled,
                   bus, adapter, adv, registered, scan, stops>>

PoweredOn ==
    /\ powered = TRUE
    /\ Replied("powering", "aliasing")
    /\ attempts' = 0
    /\ UNCHANGED <<bus, adapter, adv, registered, powered>>

\* A registration is sent, and BlueZ accepts it; or it will raise.
Registers(what, from, to) ==
    /\ \/ /\ Replied(from, to)
          /\ registered' = registered \cup {what}
       \/ /\ main = from /\ bus = "open"
          /\ Fault
          /\ main' = "refused"
          /\ UNCHANGED <<failed, signalled, world, stage, got, left, shown, stopping,
                         cancelled, scan, stops, registered>>
    /\ UNCHANGED <<bus, adapter, adv, powered, attempts>>

\* An alias that cannot be set is only logged.
AgentRegistered == Registers("agent", "aliasing", "agent")

DefaultAsked ==
    /\ Replied("agent", "defaulting")
    /\ UNCHANGED peripheral

\* Another tool may be the default agent: not fatal, whatever raised.  Then the
\* objects are exported, the advertisement made and the adapter introspected.
ObjectsExported ==
    /\ main = "defaulting"
    /\ main' = "appIntro"
    /\ adv' = TRUE
    /\ UNCHANGED <<failed, signalled, refresh, bus, adapter, registered, powered, attempts,
                   scan, stops>>

\* BlueZ reads the object tree, and knows the service and its characteristics.
ApplicationRegistered == Registers("application", "appIntro", "application")

AdvertisementRegistered == Registers("advertisement", "application", "advertisement")

\* setup() is done and the loop's task is created; run() waits for the stop
\* event, which may be set already.
Serving ==
    /\ main = "advertisement" /\ bus = "open"
    /\ Goes(Loop, "created")
    /\ IF stopping
         THEN /\ main' = "finally"
              /\ held' = held \cup {p \in {"finally"} : scan # "none"}
              /\ sd' = [sd EXCEPT !["finally"] = "loop"]
              /\ cancelled' = cancelled \cup {Loop}
         ELSE main' = "serving" /\ UNCHANGED <<stops, cancelled>>
    /\ UNCHANGED <<failed, signalled, world, shown, stopping, faults, peripheral, scan>>

StopHeard ==
    /\ main = "serving" /\ stopping
    /\ main' = "finally"
    /\ ShutdownBegins("finally")
    /\ UNCHANGED <<failed, signalled, world, stage, got, left, shown, faults,
                   adapter, adv, powered, attempts, scan>>

\* What raises in setup: the bus or the adapter is not there, it stays without
\* power, BlueZ refuses a registration, or a shutdown has closed the bus.
Raised ==
    \/ main \in {"connecting", "finding", "powering"} /\ Fault
    \/ main = "powering" /\ powered = FALSE /\ attempts = MaxAttempts /\ NoFault
    \/ main = "refused" /\ NoFault
    \/ main \in Setup \ {"defaulting"} /\ bus = "closed" /\ NoFault

\* Mutant of SetupFails: the error is logged, and the exit code is 0.
SetupFailsQuietly ==
    /\ Raised
    /\ main' = "finally"
    /\ ShutdownBegins("finally")
    /\ UNCHANGED <<failed, signalled, world, stage, got, left, shown,
                   adapter, adv, powered, attempts, scan>>

SetupFails ==
    /\ Raised
    /\ main' = "finally"
    /\ failed' = TRUE
    /\ ShutdownBegins("finally")
    /\ UNCHANGED <<signalled, world, stage, got, left, shown,
                   adapter, adv, powered, attempts, scan>>

\* asyncio.run cancels what is left, and waits for it.
Leaves ==
    /\ main = "finally" /\ sd["finally"] = "over"
    /\ main' = "leaving"
    /\ cancelled' = {f \in Refreshers : Running(f)}
    /\ UNCHANGED <<failed, signalled, world, stage, got, left, shown, stopping, faults,
                   peripheral, scan, stops>>

\* The signal's shutdown is cancelled with the rest, in a call or before its
\* first step; it swallows the cancellation where it awaits a task.
SignalCancelled ==
    /\ main = "leaving"
    /\ sd["signal"] \in {"created", "intro", "advertisement", "application", "agent"}
    /\ sd' = [sd EXCEPT !["signal"] = "over"]
    /\ UNCHANGED <<refresh, process, peripheral, scan, held>>

Exits ==
    /\ main = "leaving"
    /\ \A f \in Refreshers : ~Running(f)
    /\ scan # "running" /\ sd["signal"] \in {"none", "over"}
    /\ main' = "exited"
    /\ bus' = IF bus = "open" THEN "closed" ELSE bus
    /\ registered' = {}
    /\ UNCHANGED <<refresh, failed, signalled, adapter, adv, powered, attempts, scan, stops>>

\* systemd restarts a process that has failed, unless it was told to stop it.
Restarts ==
    /\ main = "exited" /\ failed = TRUE /\ signalled = FALSE
    /\ FreshAgain
    /\ main' = "connecting" /\ failed' = FALSE
    /\ bus' = "none" /\ adapter' = FALSE /\ adv' = FALSE /\ registered' = {}
    /\ attempts' = 0
    /\ scan' = "none"
    /\ held' = {}
    /\ sd' = [p \in Shutdowns |-> "none"]
    /\ UNCHANGED <<world, faults, signalled, powered>>

-----------------------------------------------------------------------------
(* What a central asks for, while BlueZ relays it. *)

Reachable == bus = "open" /\ "application" \in registered

outside == <<process, peripheral, scan, stops>>

ScanWritten ==
    /\ Reachable /\ scan = "none"
    /\ scan' = "running"
    /\ UNCHANGED <<refresh, process, peripheral, stops>>

ScanEnds ==
    /\ scan = "running"
    /\ scan' = "over"
    /\ UNCHANGED <<refresh, process, peripheral, stops>>

JoinServed == /\ Reachable
              /\ \E c \in Guests : Joined(c)
              /\ UNCHANGED outside

ReadServed == /\ Reachable
              /\ \E r \in Guests : ReadArrives(r)
              /\ UNCHANGED outside

Refreshes(f) == Refresher(f) /\ UNCHANGED outside

\* BOUND: only what changes while the service is up; the first sample shows the
\* rest as it shows the initial state.
Changes == main = "serving" /\ WorldChanges /\ UNCHANGED outside

-----------------------------------------------------------------------------

Main ==
    \/ BusConnected \/ AdapterFound \/ PowerTried \/ PoweredOn
    \/ AgentRegistered \/ DefaultAsked \/ ObjectsExported \/ ApplicationRegistered
    \/ AdvertisementRegistered \/ Serving \/ StopHeard \/ SetupFails \/ Leaves \/ Exits

Shutdown(p) == LoopAwaited(p) \/ ScanAwaited(p) \/ Unregisters(p)

\* The process is stopped for good.
Stopped == main = "exited" /\ signalled /\ UNCHANGED vars

Next ==
    \/ Main \/ Signalled \/ SignalServed \/ SignalCancelled \/ Restarts
    \/ \E p \in Shutdowns : Shutdown(p)
    \/ \E f \in Refreshers : Refreshes(f)
    \/ ScanWritten \/ ScanEnds \/ JoinServed \/ ReadServed \/ Changes
    \/ Stopped

Spec == Init /\ [][Next]_vars

\* The event loop runs what is ready; nmcli has its timeout, a scan its end and
\* BlueZ answers; systemd restarts.  Nobody promises a signal or a request.
Fairness ==
    /\ WF_vars(Main) /\ WF_vars(SignalServed) /\ WF_vars(SignalCancelled) /\ WF_vars(Restarts)
    /\ \A p \in Shutdowns : WF_vars(Shutdown(p))
    /\ \A f \in Refreshers : WF_vars(Refreshes(f))
    /\ WF_vars(ScanEnds)

FairSpec == Spec /\ Fairness

-----------------------------------------------------------------------------
(* Properties. *)

\* Whoever finds the advertisement finds the service behind it, and, unless the
\* process is stopping, the agent that answers a pairing (ble_server.py:390-419,
\* 424-434; agent.py:1-18): even when a signal unregisters while setup registers.
AdvertisedServes ==
    "advertisement" \in registered =>
        /\ "application" \in registered
        /\ stopping \/ "agent" \in registered

\* The loop is over before any shutdown closes the bus it notifies on
\* (service.py:338-345), however many shutdowns there are and whatever swallows
\* the cancellation.
LoopOnOpenBus == stage[Loop] \in Awaits => bus = "open"

\* A signal ends the process, in setup as in service, with one shutdown or two,
\* and it is not started again (__main__.py:32-37, service.py:283-290, 336-345).
Stops == signalled ~> [](main = "exited")

\* As failures end, the service comes up, and stays up until it is told to stop:
\* setup never hangs, and one that fails is started anew (ble_server.py:316-356,
\* pi-ble-config.service:12-13).
Serves == <>[](main = "serving" \/ signalled)

\* Once the Pi's state settles the characteristics tell it and keep telling it,
\* whatever order the samples were pushed in and whatever query has failed
\* (service.py:207-218, 259-290).
CatchesUp == <>[](UpToDate \/ signalled)
=============================================================================
