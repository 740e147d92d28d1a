---------------------------- MODULE SshControl ----------------------------
(***************************************************************************)
(* The SSH characteristic: writes that switch the daemon on and off        *)
(* (_on_write_ssh and ssh.set_enabled) and reads of its state              *)
(* (_on_read_ssh and ssh.is_enabled), one step per systemctl awaited.      *)
(* systemd is outside src/: of the unit, only whether it runs (active) and *)
(* whether it starts at boot (enabled) is modelled.                        *)
(***************************************************************************)
EXTENDS Naturals

CONSTANTS
    Writes,     \* the writes to the characteristic, each served once
    Reads,      \* the reads of the characteristic, each served once
    Overlap,    \* TRUE: an operation may arrive while another one is being
                \* answered (two centrals); FALSE: ATT makes the central wait
    MaxFaults   \* BOUND on failures of systemctl, exceptions included

ASSUME SshControlAssumption ==
    /\ Writes \cap Reads = {}
    /\ Overlap \in BOOLEAN
    /\ MaxFaults \in Nat

VARIABLES
    active,     \* the unit runs
    enabled,    \* the unit starts at boot
    pc,         \* pc[o]: the systemctl operation o awaits
    want,       \* want[w]: the state write w asks for
    failed,     \* failed[w]: a systemctl of w has failed
    verdict,    \* verdict[o]: none, or how o has ended: ok or failed for the
                \* result that a write has pushed, raised for an exception
    answer,     \* answer[d]: the byte read d answers, 1 if the unit runs
    since,      \* history: since[d], what lastOk was when read d arrived
    lastOk,     \* history: the write that was the last to end, if it ended with
                \* an ok; otherwise, and at first, none
    faults      \* how many failures have happened

unit  == <<active, enabled>>
vars  == <<unit, pc, want, failed, verdict, answer, since, lastOk, faults>>

Ops    == Writes \cup Reads
NoWrite == "none"

TypeOK ==
    /\ active \in BOOLEAN /\ enabled \in BOOLEAN
    /\ pc \in [Ops -> {"idle", "resolving", "first", "second", "asking", "answering", "done"}]
    /\ want \in [Writes -> BOOLEAN]
    /\ failed \in [Writes -> BOOLEAN]
    /\ verdict \in [Ops -> {"none", "ok", "failed", "raised"}]
    /\ answer \in [Reads -> {0, 1}]
    /\ since \in [Reads -> Writes \cup {NoWrite}]
    /\ lastOk \in Writes \cup {NoWrite}
    /\ faults \in 0..MaxFaults

\* Whoever has set the unit up may have started it without enabling it, or
\* enabled it without starting it.
Init ==
    /\ active \in BOOLEAN
    /\ enabled \in BOOLEAN
    /\ pc = [o \in Ops |-> "idle"]
    /\ want = [w \in Writes |-> FALSE]
    /\ failed = [w \in Writes |-> FALSE]
    /\ verdict = [o \in Ops |-> "none"]
    /\ answer = [d \in Reads |-> 0]
    /\ since = [d \in Reads |-> NoWrite]
    /\ lastOk = NoWrite
    /\ faults = 0

-----------------------------------------------------------------------------

MayArrive(o) ==
    /\ pc[o] = "idle"
    /\ Overlap \/ \A p \in Ops : pc[p] \in {"idle", "done"}

Moves(o, from, to) ==
    /\ pc[o] = from
    /\ pc' = [pc EXCEPT ![o] = to]

\* Mutant of StepOf: switching on does not enable the unit at boot.
StepNoEnable(w, nth) ==
    IF want[w] THEN "start" ELSE (IF nth = 1 THEN "stop" ELSE "disable")

\* The two systemctl verbs of a write, in order: enable then start, or stop then
\* disable.
StepOf(w, nth) ==
    IF want[w] THEN (IF nth = 1 THEN "enable" ELSE "start")
               ELSE (IF nth = 1 THEN "stop" ELSE "disable")

Systemctl(verb) ==
    /\ active' = IF verb \in {"start", "stop"} THEN verb = "start" ELSE active
    /\ enabled' = IF verb \in {"enable", "disable"} THEN verb = "enable" ELSE enabled

\* Mutant of Attempt: the first verb's exit code is not looked at.
AttemptForgetsFirst(w, nth) ==
    \/ Systemctl(StepOf(w, nth)) /\ UNCHANGED <<failed, faults>>
    \/ /\ faults < MaxFaults /\ faults' = faults + 1
       /\ failed' = [failed EXCEPT ![w] = nth = 2]
       /\ UNCHANGED unit

\* The verb is done, or fails and leaves the unit as it was.
Attempt(w, nth) ==
    \/ Systemctl(StepOf(w, nth)) /\ UNCHANGED <<failed, faults>>
    \/ /\ faults < MaxFaults /\ faults' = faults + 1
       /\ failed' = [failed EXCEPT ![w] = TRUE]
       /\ UNCHANGED unit

\* bool(data and data[0]); then _resolve_unit looks for the unit's name.
WriteSsh(w) ==
    /\ MayArrive(w)
    /\ Moves(w, "idle", "resolving")
    /\ \E on \in BOOLEAN : want' = [want EXCEPT ![w] = on]
    /\ UNCHANGED <<unit, failed, verdict, answer, since, lastOk, faults>>

Resolved(w) ==
    /\ Moves(w, "resolving", "first")
    /\ UNCHANGED <<unit, want, failed, verdict, answer, since, lastOk, faults>>

\* The second verb is tried whatever the exit code of the first.
FirstDone(w) ==
    /\ Moves(w, "first", "second")
    /\ Attempt(w, 1)
    /\ UNCHANGED <<want, verdict, answer, since, lastOk>>

\* The result is pushed: SshError if either verb has failed.
SecondDone(w) ==
    /\ Moves(w, "second", "done")
    /\ Attempt(w, 2)
    /\ verdict' = [verdict EXCEPT ![w] = IF failed'[w] THEN "failed" ELSE "ok"]
    /\ lastOk' = IF failed'[w] THEN NoWrite ELSE w
    /\ UNCHANGED <<want, answer, since>>

\* Mutant of WriteRaises: an exception is taken for success.
WriteRaisesOk(w) ==
    /\ pc[w] \in {"resolving", "first", "second"}
    /\ faults < MaxFaults /\ faults' = faults + 1
    /\ pc' = [pc EXCEPT ![w] = "done"]
    /\ verdict' = [verdict EXCEPT ![w] = "ok"]
    /\ lastOk' = w
    /\ UNCHANGED <<unit, want, failed, answer, since>>

\* systemctl cannot be started (OSError), or what it has printed cannot be
\* decoded, and then it has run: only SshError is caught, so no other verb is
\* tried, no result is pushed, and the exception answers the write.
WriteRaises(w) ==
    /\ pc[w] \in {"resolving", "first", "second"}
    /\ faults < MaxFaults /\ faults' = faults + 1
    /\ pc' = [pc EXCEPT ![w] = "done"]
    /\ verdict' = [verdict EXCEPT ![w] = "raised"]
    /\ lastOk' = NoWrite
    /\ \/ UNCHANGED unit
       \/ pc[w] = "first" /\ Systemctl(StepOf(w, 1))
       \/ pc[w] = "second" /\ Systemctl(StepOf(w, 2))
    /\ UNCHANGED <<want, failed, answer, since>>

ReadSsh(d) ==
    /\ MayArrive(d)
    /\ Moves(d, "idle", "asking")
    /\ since' = [since EXCEPT ![d] = lastOk]
    /\ UNCHANGED <<unit, want, failed, verdict, answer, lastOk, faults>>

\* Mutant of Asked: the exit code itself is answered.
AskedExitCode(d) ==
    /\ Moves(d, "asking", "answering")
    /\ answer' = [answer EXCEPT ![d] = IF active THEN 0 ELSE 3]
    /\ UNCHANGED <<unit, want, failed, verdict, since, lastOk, faults>>

\* systemctl is-active looks at the unit ...
Asked(d) ==
    /\ Moves(d, "asking", "answering")
    /\ answer' = [answer EXCEPT ![d] = IF active THEN 1 ELSE 0]
    /\ UNCHANGED <<unit, want, failed, verdict, since, lastOk, faults>>

\* ... and its exit code is read, and answered, later.
Answered(d) ==
    /\ Moves(d, "answering", "done")
    /\ UNCHANGED <<unit, want, failed, verdict, answer, since, lastOk, faults>>

\* The same exceptions; the read has no answer then.
ReadRaises(d) ==
    /\ pc[d] \in {"asking", "answering"}
    /\ faults < MaxFaults /\ faults' = faults + 1
    /\ pc' = [pc EXCEPT ![d] = "done"]
    /\ verdict' = [verdict EXCEPT ![d] = "raised"]
    /\ UNCHANGED <<unit, want, failed, answer, since, lastOk>>

AllAnswered ==
    /\ \A o \in Ops : pc[o] = "done"
    /\ UNCHANGED vars

WriteStep(w) == Resolved(w) \/ FirstDone(w) \/ SecondDone(w) \/ WriteRaises(w)
ReadStep(d)  == Asked(d) \/ Answered(d) \/ ReadRaises(d)

Next ==
    \/ \E w \in Writes : WriteSsh(w) \/ WriteStep(w)
    \/ \E d \in Reads : ReadSsh(d) \/ ReadStep(d)
    \/ AllAnswered

Spec == Init /\ [][Next]_vars

-----------------------------------------------------------------------------
(* Properties. *)

\* An ok result means that the unit is in the state asked for, running and at
\* boot, when it is pushed (ssh.py:39-50; service.py:237).
OkMeansSwitched ==
    [][\A w \in Writes : verdict[w] # "ok" /\ verdict'[w] = "ok" =>
         active' = want[w] /\ enabled' = want[w]]_vars

\* With one central, a read answers what the last write before it has asked for,
\* if that one ended with an ok, whatever earlier writes have left half switched
\* and whatever the unit was before (service.py:223-237).
ReadsLastOk ==
    \A d \in Reads :
        pc[d] \in {"answering", "done"} /\ verdict[d] # "raised" /\ since[d] # NoWrite =>
            (answer[d] = 1) = want[since[d]]

\* When no write is at work and the last one has ended with an ok, the byte of the
\* characteristic, 0 = stopped/disabled and 1 = running/enabled (README.md:89),
\* tells the whole state: the unit runs exactly if it starts at boot, even when
\* an earlier write had left it half switched (ssh.py:39-50).
SettledAgrees ==
    lastOk # NoWrite /\ (\A w \in Writes : pc[w] \in {"idle", "done"})
        => active = enabled
=============================================================================
