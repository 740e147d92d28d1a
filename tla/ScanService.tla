---------------------------- MODULE ScanService ----------------------------
(***************************************************************************)
(* The firmware's side of a streaming scan: the WriteValue handler of the  *)
(* scan characteristic (_on_write_scan) and the asyncio task it launches   *)
(* (_stream_scan), which asks nmcli for the networks and notifies them one *)
(* frame at a time.  A step is what runs between two awaits; a             *)
(* cancellation is requested by one step and delivered by a later one.     *)
(***************************************************************************)
EXTENDS Naturals, FiniteSets

CONSTANTS
    Requests,       \* the writes to the scan characteristic, each served once
    NoReq,          \* no request: the initial _scan_task (None)
    MaxNets,        \* BOUND on the networks of one scan (limit=30 in the code)
    Overlap,        \* TRUE: a write may arrive while another one is being
                    \* answered (two centrals, or a reconnection); FALSE: one
                    \* central, which ATT makes wait for each answer
    SwallowsCancel, \* TRUE: asyncio.wait_for returns the result of a finished
                    \* nmcli even when its task is being cancelled (Python < 3.12)
    SpawnMayFail    \* TRUE: starting nmcli may raise OSError (no binary, no memory)

ASSUME ScanServiceAssumption ==
    /\ NoReq \notin Requests
    /\ MaxNets \in Nat
    /\ Overlap \in BOOLEAN
    /\ SwallowsCancel \in BOOLEAN
    /\ SpawnMayFail \in BOOLEAN

VARIABLES
    wpc,        \* wpc[r]: the handler of write r: idle, awaiting, done
    waitsOn,    \* waitsOn[r]: the task the handler of r has cancelled and awaits
    scanTask,   \* ProvisioningService._scan_task: the request it was made for
    spc,        \* spc[r]: where the stream task of r is
    total,      \* total[r]: len(networks) of stream r
    sent,       \* sent[r]: the networks stream r has notified
    cancelled,  \* tasks with a cancellation requested and not delivered
    rescan,     \* wifi._rescan_task is running
    wire,       \* the last frame notified
    latest      \* history: the write received last

handler  == <<wpc, waitsOn, scanTask, latest>>
networks == <<total, sent>>
vars     == <<handler, spc, networks, cancelled, rescan, wire>>

\* A task cancelled before its first step never runs (dropped); one cancelled
\* later stops at the await it is in (stopped); OSError kills it (died).
Finished == {"dropped", "stopped", "ended", "errored", "died"}
OnAir    == {"begun", "iface", "listing", "streaming"}
Live     == {"created"} \cup OnAir

Frame(s, t, n) == [s |-> s, t |-> t, n |-> n]

Frames == [s : Requests \cup {NoReq},
           t : {"none", "begin", "net", "end", "err"},
           n : 0..MaxNets]

TypeOK ==
    /\ wpc \in [Requests -> {"idle", "awaiting", "done"}]
    /\ waitsOn \in [Requests -> Requests \cup {NoReq}]
    /\ scanTask \in Requests \cup {NoReq}
    /\ spc \in [Requests -> {"none"} \cup Live \cup Finished]
    /\ total \in [Requests -> 0..MaxNets]
    /\ sent \in [Requests -> 0..MaxNets]
    /\ cancelled \subseteq Requests
    /\ rescan \in BOOLEAN
    /\ wire \in Frames
    /\ latest \in Requests \cup {NoReq}

Init ==
    /\ wpc = [r \in Requests |-> "idle"]
    /\ waitsOn = [r \in Requests |-> NoReq]
    /\ scanTask = NoReq
    /\ spc = [r \in Requests |-> "none"]
    /\ total = [r \in Requests |-> 0]
    /\ sent = [r \in Requests |-> 0]
    /\ cancelled = {}
    /\ rescan = FALSE
    /\ wire = Frame(NoReq, "none", 0)
    /\ latest = NoReq

-----------------------------------------------------------------------------
(* The WriteValue handler. *)

Running(t) == t # NoReq /\ spc[t] \in Live

\* Mutant of Launch: the task is not kept in _scan_task.
LaunchUnkept(r) ==
    /\ wpc' = [wpc EXCEPT ![r] = "done"]
    /\ spc' = [spc EXCEPT ![r] = "created"]
    /\ UNCHANGED scanTask

\* self._scan_task = asyncio.create_task(self._stream_scan())
Launch(r) ==
    /\ wpc' = [wpc EXCEPT ![r] = "done"]
    /\ spc' = [spc EXCEPT ![r] = "created"]
    /\ scanTask' = r

MayArrive(r) ==
    /\ wpc[r] = "idle"
    /\ Overlap \/ \A q \in Requests : wpc[q] # "awaiting"

\* Nothing to cancel: the new stream is launched at once.
WriteLaunches(r) ==
    /\ MayArrive(r)
    /\ ~Running(scanTask)
    /\ Launch(r)
    /\ latest' = r
    /\ UNCHANGED <<waitsOn, networks, cancelled, rescan, wire>>

\* Mutants of WriteCancels: the cancelled stream is not awaited; it is not even
\* cancelled.
WriteDoesNotAwait(r) ==
    /\ MayArrive(r)
    /\ Running(scanTask)
    /\ cancelled' = cancelled \cup {scanTask}
    /\ Launch(r)
    /\ latest' = r
    /\ UNCHANGED <<waitsOn, networks, rescan, wire>>

WriteDoesNotCancel(r) ==
    /\ MayArrive(r)
    /\ Running(scanTask)
    /\ Launch(r)
    /\ latest' = r
    /\ UNCHANGED <<waitsOn, networks, cancelled, rescan, wire>>

\* The running stream is cancelled, and awaited before anything else is done.
WriteCancels(r) ==
    /\ MayArrive(r)
    /\ Running(scanTask)
    /\ cancelled' = cancelled \cup {scanTask}
    /\ wpc' = [wpc EXCEPT ![r] = "awaiting"]
    /\ waitsOn' = [waitsOn EXCEPT ![r] = scanTask]
    /\ latest' = r
    /\ UNCHANGED <<scanTask, spc, networks, rescan, wire>>

\* Mutant of WriteResumes: "except Exception", which is not a CancelledError.
WriteResumesUncancelled(r) ==
    /\ wpc[r] = "awaiting"
    /\ spc[waitsOn[r]] \in {"ended", "errored", "died"}
    /\ Launch(r)
    /\ UNCHANGED <<waitsOn, latest, networks, cancelled, rescan, wire>>

\* The awaited task is over, whatever its outcome; _scan_task is not read again.
WriteResumes(r) ==
    /\ wpc[r] = "awaiting"
    /\ spc[waitsOn[r]] \in Finished
    /\ Launch(r)
    /\ UNCHANGED <<waitsOn, latest, networks, cancelled, rescan, wire>>

-----------------------------------------------------------------------------
(* The stream task of r. *)

Goes(r, pc)     == spc' = [spc EXCEPT ![r] = pc]
Notify(r, t, n) == wire' = Frame(r, t, n)

\* The step that runs when nmcli has finished: it is not taken when a
\* cancellation is due, unless wait_for swallows it.
NmclisDone(r) ==
    /\ r \in cancelled => SwallowsCancel
    /\ cancelled' = cancelled \ {r}

StreamBegins(r) ==
    /\ spc[r] = "created" /\ r \notin cancelled
    /\ Goes(r, "begun")
    /\ Notify(r, "begin", 0)
    /\ UNCHANGED <<handler, networks, cancelled, rescan>>

\* The sleep after begin is over and get_wifi_iface() starts nmcli.
AskIface(r) ==
    /\ spc[r] = "begun" /\ r \notin cancelled
    /\ Goes(r, "iface")
    /\ UNCHANGED <<handler, networks, cancelled, rescan, wire>>

\* A background rescan is launched unless one is running; then the list is asked.
IfaceKnown(r) ==
    /\ spc[r] = "iface"
    /\ NmclisDone(r)
    /\ Goes(r, "listing")
    /\ rescan' = TRUE
    /\ UNCHANGED <<handler, networks, wire>>

\* 30 s without an answer: WifiError, caught by _stream_scan.
IfaceTimesOut(r) ==
    /\ spc[r] = "iface" /\ r \notin cancelled
    /\ Goes(r, "errored")
    /\ Notify(r, "err", 0)
    /\ UNCHANGED <<handler, networks, cancelled, rescan>>

\* Mutant of ListFails: the failure is only logged.
ListFailsSilently(r) ==
    /\ spc[r] = "listing"
    /\ NmclisDone(r)
    /\ Goes(r, "errored")
    /\ UNCHANGED <<handler, networks, rescan, wire>>

\* nmcli fails or takes more than 5 s: WifiError, caught by _stream_scan.
ListFails(r) ==
    /\ spc[r] = "listing"
    /\ NmclisDone(r)
    /\ Goes(r, "errored")
    /\ Notify(r, "err", 0)
    /\ UNCHANGED <<handler, networks, rescan>>

\* The loop's next round: one more network, or the end frame with their number.
NotifyNext(r, size, count) ==
    IF count < size
      THEN /\ Goes(r, "streaming")
           /\ Notify(r, "net", count + 1)
           /\ sent' = [sent EXCEPT ![r] = count + 1]
      ELSE /\ Goes(r, "ended")
           /\ Notify(r, "end", size)
           /\ UNCHANGED sent

\* Mutants of ListArrives: the list is not limited; its first network is skipped.
ListUnlimited(r) ==
    /\ spc[r] = "listing"
    /\ NmclisDone(r)
    /\ \E size \in 0..(MaxNets + 1) :
         /\ total' = [total EXCEPT ![r] = size]
         /\ NotifyNext(r, size, 0)
    /\ UNCHANGED <<handler, rescan>>

ListSkipsFirst(r) ==
    /\ spc[r] = "listing"
    /\ NmclisDone(r)
    /\ \E size \in 0..MaxNets :
         /\ total' = [total EXCEPT ![r] = size]
         /\ NotifyNext(r, size, 1)
    /\ UNCHANGED <<handler, rescan>>

ListArrives(r) ==
    /\ spc[r] = "listing"
    /\ NmclisDone(r)
    /\ \E size \in 0..MaxNets :
         /\ total' = [total EXCEPT ![r] = size]
         /\ NotifyNext(r, size, 0)
    /\ UNCHANGED <<handler, rescan>>

\* The sleep after a network is over.
NetSlept(r) ==
    /\ spc[r] = "streaming" /\ r \notin cancelled
    /\ NotifyNext(r, total[r], sent[r])
    /\ UNCHANGED <<handler, total, cancelled, rescan>>

\* OSError from create_subprocess_exec, at either query: only WifiError is
\* caught, so the task ends without another frame.  The second query comes
\* after the launch of the rescan, whose own OSError is discarded.
StreamDies(r) ==
    /\ SpawnMayFail
    /\ r \notin cancelled
    /\ \/ spc[r] = "begun" /\ UNCHANGED rescan
       \/ spc[r] = "iface" /\ rescan' = TRUE
    /\ Goes(r, "died")
    /\ UNCHANGED <<handler, networks, cancelled, wire>>

CancelDelivered(r) ==
    /\ r \in cancelled
    /\ spc[r] \in Live
    /\ Goes(r, IF spc[r] = "created" THEN "dropped" ELSE "stopped")
    /\ cancelled' = cancelled \ {r}
    /\ UNCHANGED <<handler, networks, rescan, wire>>

\* The background rescan ends, within 15 s and whatever its outcome.
RescanEnds ==
    /\ rescan
    /\ rescan' = FALSE
    /\ UNCHANGED <<handler, spc, networks, cancelled, wire>>

-----------------------------------------------------------------------------

Write(r) == WriteLaunches(r) \/ WriteCancels(r) \/ WriteResumes(r)

Stream(r) ==
    \/ StreamBegins(r) \/ AskIface(r) \/ IfaceKnown(r) \/ IfaceTimesOut(r)
    \/ ListFails(r) \/ ListArrives(r) \/ NetSlept(r) \/ StreamDies(r)
    \/ CancelDelivered(r)

\* Every write is answered and every task is over: the service is idle.
Quiescent ==
    /\ \A r \in Requests : wpc[r] = "done" /\ spc[r] \in Finished
    /\ ~rescan
    /\ UNCHANGED vars

Next ==
    \/ \E r \in Requests : Write(r) \/ Stream(r)
    \/ RescanEnds
    \/ Quiescent

Spec == Init /\ [][Next]_vars

\* The event loop runs every ready task, and every await ends: the sleeps are
\* 50 ms, each nmcli has its timeout.  Nobody promises that a write arrives.
Fairness ==
    /\ \A r \in Requests : WF_vars(WriteResumes(r)) /\ WF_vars(Stream(r))
    /\ WF_vars(RescanEnds)

FairSpec == Spec /\ Fairness

-----------------------------------------------------------------------------
(* Properties. *)

\* Only the newest stream is on the air: the last frame belongs to it, and
\* tells how many networks it has shown (the cancel-and-await of
\* _on_write_scan, service.py:135-142).
OneStreamOnAir ==
    \A r \in Requests : spc[r] \in OnAir =>
        /\ wire.s = r
        /\ wire.n = sent[r]
        /\ wire.t = IF spc[r] = "streaming" THEN "net" ELSE "begin"

\* A stream that still runs is the one _scan_task holds: the next write and
\* shutdown() can cancel it (service.py:135-137, 338-344).
NoOrphan == \A r \in Requests : spc[r] \in Live => scanTask = r

\* What the service puts on the wire is what the scan characteristic promises.
Promise == INSTANCE ScanStream WITH
    Streams  <- Requests,
    NoStream <- NoReq,
    begun    <- {r \in Requests : spc[r] \notin {"none", "created", "dropped"}}

KeepsPromise == Promise!Spec

\* A coherent sequence, as _on_write_scan claims it (service.py:130-132): once
\* a newer stream has begun, no frame of an older one follows, so a network
\* or an end always continues the frame before it.
CoherentWire ==
    [][wire'.t \in {"net", "end", "err"} /\ wire' # wire => wire'.s = wire.s]_vars

\* Every write to the scan characteristic is answered (service.py:138-142):
\* the await of a cancelled stream never blocks its handler for good.
WriteAnswered ==
    \A r \in Requests : wpc[r] = "awaiting" ~> wpc[r] = "done"

\* The request received last gets its closing frame, end or err (README.md:86,
\* service.py:144-177), unless a newer request takes its place, or nmcli could
\* not even be started: that OSError, which nobody catches, leaves the stream
\* without a closing frame.
NewestCloses ==
    \A r \in Requests :
        latest = r ~> \/ latest # r
                      \/ spc[r] = "died"
                      \/ wire.s = r /\ wire.t \in {"end", "err"}
=============================================================================
