----------------------------- MODULE JoinDialog -----------------------------
(***************************************************************************)
(* The page's password dialog (app.js): the submissions that write to the  *)
(* connect characteristic, the notifications of the result channel, the    *)
(* answers of the writes, and the watchdog of each submission, over the    *)
(* links of PageLink.  The firmware of each Pi is what _on_write_connect   *)
(* promises a central: a result, then the answer of the write, or an error *)
(* alone.                                                                  *)
(***************************************************************************)
EXTENDS PageLink, Sequences

CONSTANTS
    MaxTries,       \* BOUND on the submissions of the form
    MaxTriesOfMany  \* BOUND on them once a second Pi has been chosen

ASSUME JoinDialogAssumption == MaxTries \in Nat /\ MaxTriesOfMany \in Nat

\* The tries, numbered in their order; each makes at most one GATT write.
Tries == 1..MaxTries
NoTry == 0

VARIABLES
    open,       \* the dialog is on the screen: modalOverlay is not hidden
    connecting, \* modalSubmit says "Connecting..." and is disabled
    error,      \* the message in the dialog: its kind, and the try it came from
    tpc,        \* tpc[t]: new, writing, throwing, threw, acked
    to,         \* to[t]: the Pi that try t writes to
    watchdogs,  \* tries whose 15 s timer is pending
    fw,         \* fw[t]: that Pi's handler: none, working, told, done
    air,        \* air[d]: notifications and answers on their way from Pi d, in order
    stray       \* history: a try was left behind before its result was heard:
                \* its dialog closed, its link lost, or its wait ended by the
                \* watchdog or by an older try that threw

dialogVars == <<open, connecting, error, tpc, to, watchdogs, fw, air, stray>>
allVars    == <<linkVars, dialogVars>>

Error(kind, t) == [kind |-> kind, t |-> t]
NoError == Error("none", NoTry)

Message(kind, t, ok) == [kind |-> kind, t |-> t, ok |-> ok]

Messages == [kind : {"result", "answer"}, t : Tries, ok : BOOLEAN]

TypeOK ==
    /\ LinkTypeOK
    /\ {open, connecting} \subseteq BOOLEAN
    /\ error \in [kind : {"none", "local", "firmware", "late"}, t : Tries \cup {NoTry}]
    /\ tpc \in [Tries -> {"new", "writing", "throwing", "threw", "acked"}]
    /\ watchdogs \subseteq {t \in Tries : tpc[t] = "acked"}
    /\ fw \in [Tries -> {"none", "working", "told", "done"}]
    /\ to \in [Tries -> Devices \cup {NoDevice}]
    /\ air \in [Devices -> Seq(Messages)]
    /\ stray \in BOOLEAN

Init ==
    /\ LinkInit
    /\ open = FALSE
    /\ connecting = FALSE
    /\ error = NoError
    /\ tpc = [t \in Tries |-> "new"]
    /\ watchdogs = {}
    /\ fw = [t \in Tries |-> "none"]
    /\ to = [t \in Tries |-> NoDevice]
    /\ air = [d \in Devices |-> << >>]
    /\ stray = FALSE

\* A result is still to be heard.
Unheard ==
    \/ \E t \in Tries : fw[t] = "working"
    \/ \E d \in Devices : \E i \in DOMAIN air[d] : air[d][i].kind = "result"

-----------------------------------------------------------------------------
(* The links below: when one goes down the writes to that Pi reject, and    *)
(* what was on its way from it is lost; setConnectedUi(false) closes the    *)
(* dialog.                                                                  *)

Fallen == {d \in Devices : gatt[d] /\ ~gatt'[d]}

DialogFollows ==
    /\ open' = (open /\ shown')
    /\ error' = IF shown' THEN error ELSE NoError
    /\ tpc' = [t \in Tries |-> IF tpc[t] = "writing" /\ to[t] \in Fallen
                               THEN "throwing" ELSE tpc[t]]
    /\ air' = [d \in Devices |-> IF d \in Fallen THEN << >> ELSE air[d]]
    /\ stray' = (stray \/ (~shown' /\ Unheard))
    /\ UNCHANGED <<connecting, to, watchdogs, fw>>

LinkStep == LinkNext /\ DialogFollows

-----------------------------------------------------------------------------
(* The dialog. *)

OpenModal ==
    /\ shown /\ ~open
    /\ open' = TRUE
    /\ connecting' = FALSE
    /\ error' = NoError
    /\ UNCHANGED <<linkVars, tpc, to, watchdogs, fw, air, stray>>

\* Cancel, close, Escape or a click beside it; the button keeps its label.
CloseModal ==
    /\ open
    /\ open' = FALSE
    /\ error' = NoError
    /\ stray' = (stray \/ Unheard)
    /\ UNCHANGED <<linkVars, connecting, tpc, to, watchdogs, fw, air>>

\* Without an ssid, or when the client has no live server: an error at once.
SubmitRefused ==
    /\ open /\ ~connecting
    /\ error' = Error("local", NoTry)
    /\ UNCHANGED <<linkVars, open, connecting, tpc, to, watchdogs, fw, air, stray>>

\* The next try that can be made.
IsNext(t) ==
    /\ tpc[t] = "new" /\ \A u \in Tries : u < t => tpc[u] # "new"
    /\ OnePi \/ t <= MaxTriesOfMany

\* The Pi whose connect characteristic the client has, if it has one.
Targets == IF chars = Mixed THEN Devices \cup {NoDevice} ELSE {chars}

\* connectWifi: it rejects at once when there is no characteristic, when its link
\* is down and while another write to it is under way.
Writes(t, d) ==
    IF \/ d = NoDevice
       \/ ~gatt[d]
       \/ \E u \in Tries : tpc[u] = "writing" /\ to[u] = d
      THEN tpc' = [tpc EXCEPT ![t] = "throwing"] /\ UNCHANGED <<to, fw>>
      ELSE /\ tpc' = [tpc EXCEPT ![t] = "writing"]
           /\ to' = [to EXCEPT ![t] = d]
           /\ fw' = [fw EXCEPT ![t] = "working"]

\* Mutants of Submit: the button is not disabled; the watchdog is set before the
\* write is made.
SubmitStaysArmed(t) ==
    /\ IsNext(t) /\ open /\ ~connecting /\ connected
    /\ error' = NoError
    /\ \E d \in Targets : Writes(t, d)
    /\ UNCHANGED <<linkVars, open, connecting, watchdogs, air, stray>>

SubmitArms(t) ==
    /\ IsNext(t) /\ open /\ ~connecting /\ connected
    /\ connecting' = TRUE
    /\ error' = NoError
    /\ watchdogs' = watchdogs \cup {t}
    /\ \E d \in Targets : Writes(t, d)
    /\ UNCHANGED <<linkVars, open, air, stray>>

\* Whatever live server the client has, the write goes to the Pi of its
\* characteristic.
Submit(t) ==
    /\ IsNext(t) /\ open /\ ~connecting /\ connected
    /\ connecting' = TRUE
    /\ error' = NoError
    /\ \E d \in Targets : Writes(t, d)
    /\ UNCHANGED <<linkVars, open, watchdogs, air, stray>>

\* showModalError, of which nothing is seen in a hidden dialog and nothing is
\* left when it is opened; the button is re-armed in any case.
Complain(kind, t) ==
    /\ error' = IF open THEN Error(kind, t) ELSE NoError
    /\ connecting' = FALSE

\* The write throws out of connectWifi.
Throws(t) ==
    /\ tpc[t] = "throwing"
    /\ tpc' = [tpc EXCEPT ![t] = "threw"]
    /\ Complain("local", NoTry)
    /\ stray' = (stray \/ Unheard)
    /\ UNCHANGED <<linkVars, open, to, watchdogs, fw, air>>

\* Mutant of Watchdog: it only logs.
WatchdogLogs(t) ==
    /\ t \in watchdogs
    /\ watchdogs' = watchdogs \ {t}
    /\ UNCHANGED <<linkVars, open, connecting, error, tpc, to, fw, air, stray>>

\* 15 s after the write was answered, whatever the dialog is about by now.
Watchdog(t) ==
    /\ t \in watchdogs
    /\ watchdogs' = watchdogs \ {t}
    /\ IF connecting /\ open
         THEN Complain("late", t) /\ stray' = (stray \/ Unheard)
         ELSE UNCHANGED <<connecting, error, stray>>
    /\ UNCHANGED <<linkVars, open, tpc, to, fw, air>>

-----------------------------------------------------------------------------
(* The firmware, and what it sends. *)

FirmwareSends(t, next, messages) ==
    /\ fw' = [fw EXCEPT ![t] = next]
    /\ air' = [air EXCEPT ![to[t]] = @ \o messages]
    /\ UNCHANGED <<linkVars, open, connecting, error, tpc, to, watchdogs, stray>>

\* _push_result: a notification, for whoever is subscribed by now.
PushResult(t) ==
    /\ fw[t] = "working"
    /\ \E ok \in BOOLEAN :
         FirmwareSends(t, "told",
             IF to[t] \in hears THEN << Message("result", t, ok) >> ELSE << >>)

\* The handler returns, after the refresh that follows a success: the write is
\* answered, if its link is still there.
Answer(t) ==
    /\ fw[t] = "told"
    /\ FirmwareSends(t, "done",
           IF tpc[t] = "writing" THEN << Message("answer", t, TRUE) >> ELSE << >>)

\* An exception answers the write, and there is no result.
Raise(t) ==
    /\ fw[t] = "working"
    /\ FirmwareSends(t, "done",
           IF tpc[t] = "writing" THEN << Message("answer", t, FALSE) >> ELSE << >>)

\* onResultBytes: an ok closes the dialog, a failure is shown in it and re-arms
\* its button, whichever dialog it is.
HearResult(m) ==
    /\ CASE ~open -> UNCHANGED <<open, error, connecting>>
         [] open /\ m.ok -> open' = FALSE /\ error' = NoError /\ UNCHANGED connecting
         [] OTHER -> Complain("firmware", m.t) /\ UNCHANGED open
    /\ UNCHANGED <<tpc, watchdogs>>

HearAnswer(m) ==
    /\ tpc' = [tpc EXCEPT ![m.t] = IF m.ok THEN "acked" ELSE "throwing"]
    /\ watchdogs' = IF m.ok THEN watchdogs \cup {m.t} ELSE watchdogs
    /\ UNCHANGED <<open, error, connecting>>

Hear(d) ==
    /\ air[d] # << >>
    /\ LET m == Head(air[d]) IN IF m.kind = "result" THEN HearResult(m) ELSE HearAnswer(m)
    /\ air' = [air EXCEPT ![d] = Tail(@)]
    /\ UNCHANGED <<linkVars, to, fw, stray>>

-----------------------------------------------------------------------------

TryStep(t) == Throws(t) \/ Watchdog(t) \/ PushResult(t) \/ Answer(t) \/ Raise(t)

\* Every click is over and everything sent has been heard: the page rests.
Rests ==
    /\ \A c \in Calls : cpc[c] \in {"done", "failed"}
    /\ \A t \in Tries : tpc[t] \in {"new", "threw", "acked"} /\ fw[t] \in {"none", "done"}
    /\ watchdogs = {} /\ \A d \in Devices : air[d] = << >>
    /\ UNCHANGED allVars

Next ==
    \/ LinkStep
    \/ OpenModal \/ CloseModal \/ SubmitRefused
    \/ \E t \in Tries : Submit(t) \/ TryStep(t)
    \/ \E d \in Devices : Hear(d)
    \/ Rests

Spec == Init /\ [][Next]_allVars

\* Every promise of the browser settles, the backoff and the watchdog are timers,
\* the firmware's nmcli are killed in time, and a link that is up delivers.
Fairness ==
    /\ \A c \in Calls : WF_allVars(CallStep(c) /\ DialogFollows)
    /\ \A t \in Tries : WF_allVars(TryStep(t))
    /\ \A d \in Devices : WF_allVars(Hear(d))

FairSpec == Spec /\ Fairness

-----------------------------------------------------------------------------
(* Properties. *)

\* Nothing has been submitted after try t.
IsLast(t) == \A u \in Tries : u > t => tpc[u] = "new"

\* The user is never left before "Connecting..." for good (app.js:587-588): a
\* result, an error or the watchdog ends it, or the dialog is closed.
NeverStares == open /\ connecting ~> ~open \/ ~connecting

\* A failure on show is the answer to what was submitted last (app.js:583-585,
\* README.md:91: "outcome of the last write-triggered command"), unless some
\* request was left behind: its dialog closed, its link lost, or its wait ended by
\* the watchdog or by an older try that threw.
FailureIsOfLast ==
    error.kind = "firmware" => IsLast(error.t) \/ stray

\* The watchdog says that a try has had no response (app.js:587-594), so its
\* message is about the try the user is waiting for.
WatchdogIsOfLast == error.kind = "late" => IsLast(error.t)
=============================================================================
