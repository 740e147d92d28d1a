-------------------------- MODULE JoinDialogProofs --------------------------
(***************************************************************************)
(* What TLAPS proves of JoinDialog and of the PageLink below it, for any   *)
(* number of clicks, attempts and submissions: the variables keep their    *)
(* types, the cards are shown only with a client that works, and a failure *)
(* on show is the answer to what was submitted last.                       *)
(***************************************************************************)
EXTENDS JoinDialog, SequenceTheorems, TLAPS

-----------------------------------------------------------------------------
(* The connection (PageLink). *)

\* A call has its Pi from the moment it is chosen.
ChosenInv ==
    \A c \in Calls :
        /\ cpc[c] \notin {"idle", "choosing", "failed"} => device[c] \in Devices
        /\ cpc[c] \in {"idle", "choosing"} => device[c] = NoDevice /\ attempt[c] = 0
        /\ cpc[c] = "backoff" => attempt[c] < MaxAttempts

\* As long as there is but one Pi no call is spoilt by another: one that
\* discovers has the link it has made, and the client's server.
OnePiInv ==
    OnePi => /\ server <= 1
             /\ \A c \in Calls : cpc[c] # "spoilt"
             /\ \A c \in Calls : cpc[c] = "discovering" => gatt[1] /\ server = 1

LinkInv == LinkTypeOK /\ ChosenInv /\ OnePiInv /\ CardsWork

\* When a link goes down, none of its Pi's calls discovers any more and no call
\* begins anew.
LEMMA RejectedStages ==
    ASSUME LinkTypeOK, NEW d \in Devices
    PROVE  /\ Rejected(d) \in [Calls -> Stages]
           /\ \A c \in Calls :
                /\ Rejected(d)[c] # cpc[c] =>
                     /\ Rejected(d)[c] \in {"failing", "throwing"}
                     /\ cpc[c] \in {"connecting", "discovering", "subscribing"}
                /\ Rejected(d)[c] = "discovering" => device[c] # d
<1> DEFINE After(c) ==
      CASE device[c] = d /\ cpc[c] \in {"connecting", "discovering"} -> "failing"
        [] device[c] = d /\ cpc[c] = "subscribing" /\ chars = d -> "throwing"
        [] OTHER -> cpc[c]
<1>1. Rejected(d) = [c \in Calls |-> After(c)]
  BY DEF Rejected
<1>2. ASSUME NEW c \in Calls
      PROVE  /\ After(c) \in Stages
             /\ After(c) # cpc[c] =>
                  /\ After(c) \in {"failing", "throwing"}
                  /\ cpc[c] \in {"connecting", "discovering", "subscribing"}
             /\ After(c) = "discovering" => device[c] # d
  <2>1. CASE device[c] = d /\ cpc[c] \in {"connecting", "discovering"}
    BY <2>1 DEF Stages
  <2>2. CASE device[c] = d /\ cpc[c] = "subscribing" /\ chars = d
    BY <2>2 DEF Stages
  <2>3. CASE /\ ~(device[c] = d /\ cpc[c] \in {"connecting", "discovering"})
             /\ ~(device[c] = d /\ cpc[c] = "subscribing" /\ chars = d)
    <3>1. After(c) = cpc[c]
      BY <2>3
    <3> QED
      BY <2>3, <3>1 DEF LinkTypeOK
  <2> QED
    BY <2>1, <2>2, <2>3
<1> HIDE DEF After
<1> QED
  BY <1>1, <1>2

\* What an abandoned attempt leaves the calls to do.
LEMMA AbandonedStages ==
    ASSUME NEW c \in Calls, NEW calls \in [Calls -> Stages], Abandons(c, calls)
    PROVE  /\ cpc' \in [Calls -> Stages]
           /\ cpc'[c] = IF attempt[c] < MaxAttempts THEN "backoff" ELSE "failed"
           /\ \A b \in Calls : b # c => \/ cpc'[b] = calls[b] /\ calls[b] # "discovering"
                                        \/ cpc'[b] = "spoilt" /\ calls[b] = "discovering"
<1> DEFINE After(b) ==
      CASE b = c -> IF attempt[c] < MaxAttempts THEN "backoff" ELSE "failed"
        [] b # c /\ calls[b] = "discovering" -> "spoilt"
        [] OTHER -> calls[b]
<1>1. cpc' = [b \in Calls |-> After(b)]
  BY DEF Abandons
<1>2. ASSUME NEW b \in Calls
      PROVE  /\ After(b) \in Stages
             /\ b = c => After(b) = IF attempt[c] < MaxAttempts THEN "backoff" ELSE "failed"
             /\ b # c => \/ After(b) = calls[b] /\ calls[b] # "discovering"
                         \/ After(b) = "spoilt" /\ calls[b] = "discovering"
  <2>1. CASE b = c
    BY <2>1 DEF Stages
  <2>2. CASE b # c /\ calls[b] = "discovering"
    BY <2>2 DEF Stages
  <2>3. CASE b # c /\ calls[b] # "discovering"
    BY <2>3
  <2> QED
    BY <2>1, <2>2, <2>3
<1> HIDE DEF After
<1> QED
  BY <1>1, <1>2

\* Before the first click.
LEMMA LinkInvInit == LinkInit => LinkInv
<1> SUFFICES ASSUME LinkInit PROVE LinkInv
  OBVIOUS
<1>1. 0 \in 0..MaxAttempts
  BY PageLinkAssumption
<1>2. LinkTypeOK
  BY <1>1 DEF LinkInit, LinkTypeOK, Stages
<1>3. ChosenInv /\ OnePiInv /\ CardsWork
  BY DEF LinkInit, ChosenInv, OnePiInv, CardsWork, NoDevice
<1> QED
  BY <1>2, <1>3 DEF LinkInv

\* A step that leaves the Pis, their links and the client as they are, begins no
\* attempt and shows no cards.
LEMMA LinkKept ==
    ASSUME LinkInv, UNCHANGED <<device, gatt, server, chars, attempt>>,
           hears' \subseteq {d \in Devices : gatt[d]},
           disabled' \in BOOLEAN, shown' \in BOOLEAN, shown' => shown,
           cpc' \in [Calls -> Stages],
           \A c \in Calls :
               /\ cpc'[c] \in {"idle", "choosing", "backoff", "discovering", "spoilt"}
                    => cpc'[c] = cpc[c] \/ (cpc'[c] = "choosing" /\ cpc[c] = "idle")
               /\ cpc[c] \in {"idle", "choosing"} => cpc'[c] \in {"idle", "choosing", "failed"}
               /\ cpc[c] = "failed" => cpc'[c] = "failed"
    PROVE  LinkInv'
<1>0. LinkTypeOK /\ ChosenInv /\ OnePiInv /\ CardsWork
  BY DEF LinkInv
<1>1. LinkTypeOK'
  BY <1>0 DEF LinkTypeOK
<1>2. ChosenInv'
  BY <1>0 DEF ChosenInv
<1>3. OnePiInv'
  BY <1>0 DEF OnePiInv, OnePi
<1>4. CardsWork'
  BY <1>0 DEF CardsWork, OnePi, connected
<1> QED
  BY <1>1, <1>2, <1>3, <1>4 DEF LinkInv

\* Each step of the connection keeps LinkInv, whatever the other loops do.
LEMMA LinkInvStep == ASSUME LinkInv, LinkNext PROVE LinkInv'
<1> USE PageLinkAssumption
<1>0. LinkTypeOK /\ ChosenInv /\ OnePiInv /\ CardsWork
  BY DEF LinkInv
<1>one. 1 \in Devices /\ \A d \in Devices : d \in Nat /\ (d <= 1 => d = 1) /\ d # NoDevice /\ d # Mixed
  BY DEF Devices, NoDevice, Mixed
<1>1. ASSUME NEW c \in Calls, Click(c)
      PROVE  LinkInv'
  <2>1. /\ cpc' = [cpc EXCEPT ![c] = "choosing"] /\ cpc[c] = "idle"
        /\ UNCHANGED <<device, gatt, server, chars, hears, attempt, disabled, shown>>
    BY <1>1 DEF Click, At, client, page
  <2> QED
    BY <1>0, <2>1, LinkKept DEF LinkTypeOK, Stages
<1>2. ASSUME NEW c \in Calls, Chosen(c)
      PROVE  LinkInv'
  <2>1. /\ cpc' = [cpc EXCEPT ![c] = "connecting"]
        /\ attempt' = [attempt EXCEPT ![c] = attempt[c] + 1]
        /\ cpc[c] = "choosing"
        /\ disabled' = TRUE /\ UNCHANGED <<gatt, server, chars, hears, shown>>
    BY <1>2 DEF Chosen, StartAttempt, At, client
  <2>2. PICK d \in Devices : device' = [device EXCEPT ![c] = d]
    BY <1>2 DEF Chosen
  <2>3. attempt[c] + 1 \in 0..MaxAttempts
    BY <1>0, <2>1 DEF ChosenInv
  <2>4. LinkTypeOK'
    BY <1>0, <2>1, <2>2, <2>3 DEF LinkTypeOK, Stages
  <2>5. ChosenInv'
    BY <1>0, <2>1, <2>2 DEF LinkTypeOK, ChosenInv
  <2>6. OnePi' => OnePi
    BY <1>0, <2>1, <2>2 DEF LinkTypeOK, ChosenInv, OnePi, NoDevice
  <2>7. OnePiInv' /\ CardsWork'
    BY <1>0, <2>1, <2>6 DEF LinkTypeOK, OnePiInv, CardsWork, connected
  <2> QED
    BY <2>4, <2>5, <2>7 DEF LinkInv
<1>3. ASSUME NEW c \in Calls, BackoffOver(c)
      PROVE  LinkInv'
  <2>1. /\ cpc' = [cpc EXCEPT ![c] = "connecting"]
        /\ attempt' = [attempt EXCEPT ![c] = attempt[c] + 1]
        /\ cpc[c] = "backoff"
        /\ disabled' = TRUE /\ UNCHANGED <<device, gatt, server, chars, hears, shown>>
    BY <1>3 DEF BackoffOver, StartAttempt, At, client
  <2>2. attempt[c] + 1 \in 0..MaxAttempts
    BY <1>0, <2>1 DEF ChosenInv, LinkTypeOK
  <2>3. LinkTypeOK'
    BY <1>0, <2>1, <2>2 DEF LinkTypeOK, Stages
  <2>4. ChosenInv'
    BY <1>0, <2>1 DEF LinkTypeOK, ChosenInv
  <2>5. OnePiInv' /\ CardsWork'
    BY <1>0, <2>1 DEF LinkTypeOK, OnePi, OnePiInv, CardsWork, connected
  <2> QED
    BY <2>3, <2>4, <2>5 DEF LinkInv
<1>4. ASSUME NEW c \in Calls, NotChosen(c) \/ SubscribeFails(c)
      PROVE  LinkInv'
  <2>1. /\ cpc' = [cpc EXCEPT ![c] = "failed"]
        /\ cpc[c] \in {"choosing", "subscribing", "throwing"}
        /\ disabled' = FALSE /\ shown' = FALSE
        /\ UNCHANGED <<device, gatt, server, chars, hears, attempt>>
    BY <1>4 DEF NotChosen, SubscribeFails, At, SetConnectedUi, client
  <2> QED
    BY <1>0, <2>1, LinkKept DEF LinkTypeOK, Stages
<1>5. ASSUME NEW c \in Calls, GattUp(c)
      PROVE  LinkInv'
  <2> DEFINE next == IF \E b \in Discovering : device[b] # device[c] \/ cpc[b] = "spoilt"
                       THEN "spoilt" ELSE "discovering"
  <2>1. /\ cpc[c] = "connecting" /\ device[c] \in Devices
        /\ gatt' = [gatt EXCEPT ![device[c]] = TRUE]
        /\ server' = device[c]
        /\ chars' = IF chars = device[c] THEN chars ELSE Mixed
        /\ cpc' = [b \in Calls |-> IF b \in Discovering \cup {c} THEN next ELSE cpc[b]]
        /\ UNCHANGED <<device, hears, attempt, disabled, shown>>
    BY <1>0, <1>5 DEF GattUp, ChosenInv, page
  <2>2. /\ next \in {"spoilt", "discovering"}
        /\ \A b \in Discovering : b \in Calls /\ cpc[b] \in {"discovering", "spoilt"}
    BY DEF Discovering
  <2>3. OnePi => next = "discovering" /\ device[c] = 1
    BY <1>0, <1>one, <2>1, <2>2 DEF OnePi, OnePiInv, ChosenInv
  <2> HIDE DEF next
  <2>4. LinkTypeOK'
    BY <1>0, <2>1, <2>2 DEF LinkTypeOK, Stages
  <2>5. ChosenInv'
    BY <1>0, <2>1, <2>2 DEF LinkTypeOK, ChosenInv
  <2>6. OnePi' <=> OnePi
    BY <2>1 DEF OnePi
  <2>7. OnePiInv'
    BY <1>0, <1>one, <2>1, <2>2, <2>3, <2>6 DEF LinkTypeOK, OnePiInv, Discovering
  <2>8. CardsWork'
    <3>1. ASSUME OnePi, shown PROVE server = 1 /\ chars = 1
      BY <1>0, <1>one, <3>1 DEF CardsWork, OnePiInv, connected
    <3> QED
      BY <1>0, <1>one, <2>1, <2>3, <2>6, <3>1 DEF LinkTypeOK, CardsWork, connected
  <2> QED
    BY <2>4, <2>5, <2>7, <2>8 DEF LinkInv
<1>6. ASSUME NEW c \in Calls, Discovered(c)
      PROVE  LinkInv'
  <2>1. /\ cpc' = [cpc EXCEPT ![c] = "subscribing"]
        /\ cpc[c] \in {"discovering", "spoilt"} /\ device[c] \in Devices
        /\ chars' \in {device[c], Mixed}
        /\ cpc[c] = "discovering" => chars' = device[c]
        /\ disabled' = FALSE /\ shown' = TRUE
        /\ UNCHANGED <<device, gatt, server, hears, attempt>>
    BY <1>0, <1>6 DEF Discovered, At, SetConnectedUi, ChosenInv
  <2>2. LinkTypeOK'
    BY <1>0, <2>1 DEF LinkTypeOK, Stages
  <2>3. ChosenInv'
    BY <1>0, <2>1 DEF LinkTypeOK, ChosenInv
  <2>4. OnePi' <=> OnePi
    BY <2>1 DEF OnePi
  <2>5. OnePiInv'
    BY <1>0, <2>1, <2>4 DEF LinkTypeOK, OnePiInv
  <2>6. OnePi => cpc[c] = "discovering" /\ device[c] = 1
    BY <1>0, <1>one, <2>1 DEF OnePi, OnePiInv
  <2>7. CardsWork'
    BY <1>0, <1>one, <2>1, <2>4, <2>6 DEF OnePiInv, CardsWork, connected
  <2> QED
    BY <2>2, <2>3, <2>5, <2>7 DEF LinkInv
<1>7. ASSUME NEW c \in Calls, AttemptFails(c)
      PROVE  LinkInv'
  <2> DEFINE calls == IF gatt[device[c]] THEN Rejected(device[c]) ELSE cpc
  <2>1. /\ cpc[c] \in {"connecting", "discovering", "spoilt", "failing"}
        /\ device[c] \in Devices
        /\ gatt' = [gatt EXCEPT ![device[c]] = FALSE] /\ hears' = hears \ {device[c]}
        /\ chars' = NoDevice /\ server' = NoDevice
        /\ Abandons(c, calls)
        /\ disabled' \in BOOLEAN /\ shown' \in BOOLEAN
        /\ shown' => shown /\ ~gatt[device[c]]
        /\ UNCHANGED <<device, attempt>>
    BY <1>0, <1>7 DEF AttemptFails, Attempting, Drops, SetConnectedUi, page, ChosenInv, LinkTypeOK
  <2>2. /\ calls \in [Calls -> Stages]
        /\ \A b \in Calls :
             /\ calls[b] # cpc[b] => /\ calls[b] \in {"failing", "throwing"}
                                     /\ cpc[b] \in {"connecting", "discovering", "subscribing"}
             /\ calls[b] = "discovering" => ~gatt[device[c]] \/ device[b] # device[c]
    BY <1>0, <2>1, RejectedStages DEF LinkTypeOK
  <2> HIDE DEF calls
  <2>3. /\ cpc' \in [Calls -> Stages]
        /\ cpc'[c] = IF attempt[c] < MaxAttempts THEN "backoff" ELSE "failed"
        /\ \A b \in Calls : b # c => \/ cpc'[b] = calls[b] /\ calls[b] # "discovering"
                                     \/ cpc'[b] = "spoilt" /\ calls[b] = "discovering"
    BY <2>1, <2>2, AbandonedStages
  <2>4. LinkTypeOK'
    BY <1>0, <2>1, <2>3 DEF LinkTypeOK
  <2>5. ChosenInv'
    BY <1>0, <2>1, <2>2, <2>3 DEF LinkTypeOK, ChosenInv
  <2>6. OnePi' <=> OnePi
    BY <2>1 DEF OnePi
  <2>7. OnePi => device[c] = 1 /\ \A b \in Calls : calls[b] \notin {"discovering", "spoilt"}
    <3> SUFFICES ASSUME OnePi, NEW b \in Calls
                 PROVE  device[c] = 1 /\ calls[b] \notin {"discovering", "spoilt"}
      BY <1>one, <2>1 DEF OnePi
    <3>1. device[c] = 1 /\ cpc[b] # "spoilt" /\ (cpc[b] = "discovering" => gatt[1])
      BY <1>0, <1>one, <2>1 DEF OnePi, OnePiInv
    <3>2. cpc[b] = "discovering" => device[b] = 1
      BY <1>0, <1>one DEF OnePi, ChosenInv
    <3> QED
      BY <2>2, <3>1, <3>2
  <2>8. OnePiInv'
    BY <2>1, <2>3, <2>6, <2>7 DEF OnePiInv, NoDevice
  <2>9. CardsWork'
    <3>1. ASSUME OnePi, shown PROVE gatt[1]
      BY <1>0, <1>one, <3>1 DEF CardsWork, OnePiInv, connected
    <3> QED
      BY <2>1, <2>6, <2>7, <3>1 DEF CardsWork
  <2> QED
    BY <2>4, <2>5, <2>8, <2>9 DEF LinkInv
<1>8. ASSUME NEW c \in Calls, Subscribed(c)
      PROVE  LinkInv'
  <2>1. /\ cpc' = [cpc EXCEPT ![c] = "done"] /\ cpc[c] = "subscribing"
        /\ UNCHANGED <<device, gatt, server, chars, attempt, disabled, shown>>
    BY <1>8 DEF Subscribed, At, client, page
  <2>2. hears' \subseteq {d \in Devices : gatt[d]}
    BY <1>0, <1>8 DEF Subscribed, LinkTypeOK
  <2> QED
    BY <1>0, <2>1, <2>2, LinkKept DEF LinkTypeOK, Stages
<1>9. ASSUME NEW d \in Devices, LinkDown(d)
      PROVE  LinkInv'
  <2>1. /\ gatt' = [gatt EXCEPT ![d] = FALSE] /\ hears' = hears \ {d}
        /\ cpc' = Rejected(d)
        /\ disabled' = FALSE /\ shown' = FALSE
        /\ UNCHANGED <<device, server, chars, attempt>>
    BY <1>9 DEF LinkDown, Drops, SetConnectedUi, client
  <2>2. /\ cpc' \in [Calls -> Stages]
        /\ \A c \in Calls :
             /\ cpc'[c] # cpc[c] => /\ cpc'[c] \in {"failing", "throwing"}
                                    /\ cpc[c] \in {"connecting", "discovering", "subscribing"}
             /\ cpc'[c] = "discovering" => device[c] # d
    BY <1>0, <2>1, RejectedStages
  <2>3. LinkTypeOK'
    BY <1>0, <2>1, <2>2 DEF LinkTypeOK
  <2>4. ChosenInv'
    BY <1>0, <2>1, <2>2 DEF ChosenInv
  <2>5. OnePi' <=> OnePi
    BY <2>1 DEF OnePi
  <2>6. OnePiInv'
    <3>1. \A c \in Calls : OnePi /\ cpc'[c] = "discovering" => device[c] = 1 /\ cpc[c] = "discovering"
      BY <1>0, <1>one, <2>2 DEF OnePi, ChosenInv
    <3>2. \A c \in Calls : OnePi /\ cpc'[c] = "discovering" => gatt'[1]
      BY <1>0, <1>one, <2>1, <2>2, <3>1 DEF OnePiInv, LinkTypeOK
    <3> QED
      BY <1>0, <2>1, <2>2, <2>5, <3>1, <3>2 DEF OnePiInv
  <2>7. CardsWork'
    BY <2>1 DEF CardsWork
  <2> QED
    BY <2>3, <2>4, <2>6, <2>7 DEF LinkInv
<1>10. CASE DisconnectNothing
  <2>1. /\ disabled' = FALSE /\ shown' = FALSE
        /\ UNCHANGED <<device, gatt, server, chars, hears, cpc, attempt>>
    BY <1>10 DEF DisconnectNothing, SetConnectedUi, client
  <2> QED
    BY <1>0, <2>1, LinkKept DEF LinkTypeOK
<1> QED
  BY <1>1, <1>2, <1>3, <1>4, <1>5, <1>6, <1>7, <1>8, <1>9, <1>10 DEF LinkNext, CallStep

-----------------------------------------------------------------------------
(* The types of the dialog. *)

AnsweredOnce ==
    \A d \in Devices : \A i, j \in DOMAIN air[d] :
        air[d][i].kind = "answer" /\ air[d][j].kind = "answer" /\ air[d][i].t = air[d][j].t
          => i = j

\* A handler runs, and a message is on its way, only for a try that was made to
\* that Pi; an answer is on its way only for a write that waits for it, and only
\* once, so a try that has been answered keeps its watchdog until it fires.
AirInv ==
    /\ \A t \in Tries : fw[t] # "none" => tpc[t] # "new" /\ to[t] \in Devices
    /\ \A d \in Devices : \A i \in DOMAIN air[d] :
         /\ tpc[air[d][i].t] # "new" /\ to[air[d][i].t] = d
         /\ air[d][i].kind = "answer" => /\ tpc[air[d][i].t] = "writing"
                                         /\ fw[air[d][i].t] = "done"
    /\ AnsweredOnce

DialogOK ==
    /\ {open, connecting} \subseteq BOOLEAN
    /\ error \in [kind : {"none", "local", "firmware", "late"}, t : Tries \cup {NoTry}]
    /\ tpc \in [Tries -> {"new", "writing", "throwing", "threw", "acked"}]
    /\ watchdogs \subseteq {t \in Tries : tpc[t] = "acked"}
    /\ fw \in [Tries -> {"none", "working", "told", "done"}]
    /\ to \in [Tries -> Devices \cup {NoDevice}]
    /\ air \in [Devices -> Seq(Messages)]
    /\ stray \in BOOLEAN

TypeInv == LinkInv /\ DialogOK /\ AirInv

\* Whatever is on its way is of a try.
LEMMA OfTries ==
    ASSUME NEW s \in Seq(Messages), NEW i \in DOMAIN s
    PROVE  s[i].t \in Tries /\ s[i].ok \in BOOLEAN /\ s[i].kind \in {"result", "answer"}
<1>1. s[i] \in Messages
  BY ElementOfSeq, LenProperties
<1> QED
  BY <1>1 DEF Messages

\* What was on its way from Pi e before a message is sent is there after it.
LEMMA Sent ==
    ASSUME air \in [Devices -> Seq(Messages)], NEW e \in Devices, NEW m \in Messages,
           air' = [air EXCEPT ![e] = @ \o << m >>]
    PROVE  /\ air' \in [Devices -> Seq(Messages)]
           /\ \A d \in Devices : d # e => air'[d] = air[d]
           /\ DOMAIN air'[e] = DOMAIN air[e] \cup {Len(air[e]) + 1}
           /\ Len(air[e]) + 1 \notin DOMAIN air[e]
           /\ air'[e][Len(air[e]) + 1] = m
           /\ \A i \in DOMAIN air[e] : air'[e][i] = air[e][i]
<1> DEFINE s == air[e]
<1>1. s \in Seq(Messages)
  OBVIOUS
<1>2. air'[e] = s \o << m >> /\ \A d \in Devices : d # e => air'[d] = air[d]
  OBVIOUS
<1> HIDE DEF s
<1>3. /\ s \o << m >> \in Seq(Messages)
      /\ DOMAIN (s \o << m >>) = DOMAIN s \cup {Len(s) + 1}
      /\ Len(s) + 1 \notin DOMAIN s
      /\ (s \o << m >>)[Len(s) + 1] = m
      /\ \A i \in DOMAIN s : (s \o << m >>)[i] = s[i]
  BY <1>1
<1>4. air' \in [Devices -> Seq(Messages)]
  BY <1>2, <1>3
<1> QED
  BY <1>2, <1>3, <1>4 DEF s

\* What is left when the first message of Pi e is heard was there before it,
\* further on.
LEMMA Heard ==
    ASSUME air \in [Devices -> Seq(Messages)], NEW e \in Devices, air[e] # << >>,
           air' = [air EXCEPT ![e] = Tail(@)]
    PROVE  /\ air' \in [Devices -> Seq(Messages)]
           /\ \A d \in Devices : d # e => air'[d] = air[d]
           /\ 1 \in DOMAIN air[e] /\ Head(air[e]) = air[e][1] /\ air[e][1] \in Messages
           /\ \A i \in DOMAIN air'[e] :
                i + 1 \in DOMAIN air[e] /\ i + 1 # 1 /\ air'[e][i] = air[e][i + 1]
           /\ \A i, j \in DOMAIN air'[e] : i + 1 = j + 1 => i = j
<1> DEFINE s == air[e]
<1>1. s \in Seq(Messages) /\ s # << >>
  OBVIOUS
<1>2. air'[e] = Tail(s) /\ \A d \in Devices : d # e => air'[d] = air[d]
  OBVIOUS
<1> HIDE DEF s
<1>3. /\ Tail(s) \in Seq(Messages)
      /\ 1 \in DOMAIN s /\ Head(s) = s[1] /\ s[1] \in Messages
      /\ \A i \in DOMAIN Tail(s) : i + 1 \in DOMAIN s /\ i + 1 # 1 /\ Tail(s)[i] = s[i + 1]
      /\ \A i, j \in DOMAIN Tail(s) : i + 1 = j + 1 => i = j
  BY <1>1
<1>4. air' \in [Devices -> Seq(Messages)]
  BY <1>2, <1>3
<1> QED
  BY <1>2, <1>3, <1>4 DEF s

\* The firmware may send nothing.
LEMMA SendsNothing ==
    ASSUME air \in [Devices -> Seq(Messages)], NEW e \in Devices,
           air' = [air EXCEPT ![e] = @ \o << >>]
    PROVE  air' = air
<1>1. air[e] \o << >> = air[e]
  BY ConcatEmptySeq
<1> QED
  BY <1>1

\* Nothing has been submitted, and nothing is on its way.
LEMMA TypeInit == Init => TypeInv
<1> SUFFICES ASSUME Init PROVE TypeInv
  OBVIOUS
<1>1. LinkInv
  BY LinkInvInit DEF Init
<1>2. error \in [kind : {"none", "local", "firmware", "late"}, t : Tries \cup {NoTry}]
  BY DEF Init, NoError, Error
<1>3. air \in [Devices -> Seq(Messages)] /\ \A d \in Devices : DOMAIN air[d] = {}
  BY DEF Init
<1>4. to \in [Tries -> Devices \cup {NoDevice}]
  BY DEF Init
<1>5. DialogOK
  BY <1>2, <1>3, <1>4 DEF Init, DialogOK
<1>6. AirInv
  BY <1>3 DEF Init, AirInv, AnsweredOnce
<1> QED
  BY <1>1, <1>5, <1>6 DEF TypeInv

\* A step that sends, hears and answers nothing.
LEMMA KeptTypes ==
    ASSUME TypeInv, LinkInv', UNCHANGED <<to, fw, air>>,
           {open', connecting'} \subseteq BOOLEAN, stray' \in BOOLEAN,
           error' \in [kind : {"none", "local", "firmware", "late"}, t : Tries \cup {NoTry}],
           tpc' \in [Tries -> {"new", "writing", "throwing", "threw", "acked"}],
           \A t \in Tries : /\ tpc[t] \in {"writing", "acked"} => tpc'[t] = tpc[t]
                            /\ tpc[t] # "new" => tpc'[t] # "new",
           watchdogs' \subseteq watchdogs
    PROVE  TypeInv'
<1>1. \A d \in Devices : \A i \in DOMAIN air[d] : air[d][i].t \in Tries
  BY OfTries DEF TypeInv, DialogOK
<1>2. AirInv'
  BY <1>1 DEF TypeInv, AirInv, AnsweredOnce
<1>3. DialogOK'
  BY DEF TypeInv, DialogOK
<1> QED
  BY <1>2, <1>3 DEF TypeInv

\* A try that is made writes to one Pi, or throws.
LEMMA SubmitWrites ==
    ASSUME LinkTypeOK, NEW t \in Tries, Submit(t)
    PROVE  \E next \in {"writing", "throwing"} :
             /\ tpc' = [tpc EXCEPT ![t] = next]
             /\ \/ UNCHANGED <<to, fw>>
                \/ \E d \in Devices : /\ to' = [to EXCEPT ![t] = d]
                                      /\ fw' = [fw EXCEPT ![t] = "working"]
<1>1. PICK d \in Targets : Writes(t, d)
  BY DEF Submit
<1>2. d \in Devices \cup {NoDevice}
  BY DEF Targets, LinkTypeOK
<1> QED
  BY <1>1, <1>2 DEF Writes

\* Each action of the link, of the dialog, of the firmware and of the air.
LEMMA TypeStep == TypeInv /\ [Next]_allVars => TypeInv'
<1> SUFFICES ASSUME TypeInv, [Next]_allVars
             PROVE  TypeInv'
  OBVIOUS
<1> DEFINE Errors == [kind : {"none", "local", "firmware", "late"}, t : Tries \cup {NoTry}]
<1>0. LinkInv /\ DialogOK /\ AirInv
  BY DEF TypeInv
<1>errors. /\ NoError \in Errors
      /\ \A kind \in {"local", "firmware", "late"}, t \in Tries \cup {NoTry} :
           Error(kind, t) \in Errors
  BY DEF NoError, Error
<1>1. ASSUME UNCHANGED linkVars PROVE LinkInv'
  BY <1>0, <1>1 DEF linkVars, client, page, LinkInv, LinkTypeOK, ChosenInv, OnePiInv, OnePi,
    CardsWork, connected
<1>2. ASSUME LinkStep PROVE TypeInv'
  <2>1. LinkInv'
    BY <1>0, <1>2, LinkInvStep DEF LinkStep
  <2>2. {open', connecting'} \subseteq BOOLEAN /\ stray' \in BOOLEAN
    BY <1>0, <1>2 DEF LinkStep, DialogFollows, DialogOK
  <2>3. error' \in Errors
    BY <1>0, <1>2, <1>errors DEF LinkStep, DialogFollows, DialogOK
  <2>4. /\ tpc' = [t \in Tries |-> IF tpc[t] = "writing" /\ to[t] \in Fallen
                                   THEN "throwing" ELSE tpc[t]]
        /\ air' = [d \in Devices |-> IF d \in Fallen THEN << >> ELSE air[d]]
        /\ UNCHANGED <<to, watchdogs, fw>>
    BY <1>2 DEF LinkStep, DialogFollows
  <2>5. DialogOK'
    <3>1. tpc' \in [Tries -> {"new", "writing", "throwing", "threw", "acked"}]
      BY <1>0, <2>4 DEF DialogOK
    <3>2. watchdogs' \subseteq {t \in Tries : tpc'[t] = "acked"}
      BY <1>0, <2>4 DEF DialogOK
    <3>3. air' \in [Devices -> Seq(Messages)]
      BY <1>0, <2>4 DEF DialogOK
    <3> QED
      BY <1>0, <2>2, <2>3, <2>4, <3>1, <3>2, <3>3 DEF DialogOK
  <2>6. AirInv'
    <3>1. \A t \in Tries : /\ tpc[t] # "new" => tpc'[t] # "new"
                           /\ to[t] \notin Fallen => tpc'[t] = tpc[t]
      BY <2>4
    <3>2. \A d \in Devices : DOMAIN air'[d] # {} => d \notin Fallen /\ air'[d] = air[d]
      BY <2>4
    <3>3. \A d \in Devices : \A i \in DOMAIN air[d] : air[d][i].t \in Tries
      BY <1>0, OfTries DEF DialogOK
    <3> QED
      BY <1>0, <2>4, <3>1, <3>2, <3>3 DEF AirInv, AnsweredOnce
  <2> QED
    BY <2>1, <2>5, <2>6 DEF TypeInv
<1>3. ASSUME OpenModal \/ CloseModal \/ SubmitRefused PROVE TypeInv'
  <2>1. /\ {open', connecting'} \subseteq BOOLEAN /\ stray' \in BOOLEAN
        /\ UNCHANGED <<linkVars, tpc, to, watchdogs, fw, air>>
    BY <1>0, <1>3 DEF OpenModal, CloseModal, SubmitRefused, DialogOK
  <2>2. error' \in Errors
    BY <1>3, <1>errors DEF OpenModal, CloseModal, SubmitRefused
  <2> QED
    BY <1>0, <1>1, <2>1, <2>2, KeptTypes DEF DialogOK
<1>4. ASSUME NEW t \in Tries, Submit(t) PROVE TypeInv'
  <2>1. /\ {open', connecting'} \subseteq BOOLEAN /\ stray' \in BOOLEAN
        /\ UNCHANGED <<linkVars, watchdogs, air>>
        /\ tpc[t] = "new"
    BY <1>0, <1>4 DEF Submit, IsNext, DialogOK
  <2>2. error' \in Errors
    BY <1>4, <1>errors DEF Submit
  <2>3. PICK next \in {"writing", "throwing"} :
          /\ tpc' = [tpc EXCEPT ![t] = next]
          /\ \/ UNCHANGED <<to, fw>>
             \/ \E d \in Devices : /\ to' = [to EXCEPT ![t] = d]
                                   /\ fw' = [fw EXCEPT ![t] = "working"]
    BY <1>0, <1>4, SubmitWrites DEF LinkInv
  <2>4. \A d \in Devices : \A i \in DOMAIN air[d] : air[d][i].t \in Tries
    BY <1>0, OfTries DEF DialogOK
  <2>5. DialogOK'
    <3>1. /\ tpc' \in [Tries -> {"new", "writing", "throwing", "threw", "acked"}]
          /\ watchdogs' \subseteq {u \in Tries : tpc'[u] = "acked"}
      BY <1>0, <2>1, <2>3 DEF DialogOK
    <3>2. /\ fw' \in [Tries -> {"none", "working", "told", "done"}]
          /\ to' \in [Tries -> Devices \cup {NoDevice}]
      <4>1. CASE fw' = fw /\ to' = to
        BY <1>0, <4>1 DEF DialogOK
      <4>2. ASSUME NEW d \in Devices, to' = [to EXCEPT ![t] = d],
                   fw' = [fw EXCEPT ![t] = "working"]
            PROVE  /\ fw' \in [Tries -> {"none", "working", "told", "done"}]
                   /\ to' \in [Tries -> Devices \cup {NoDevice}]
        BY <1>0, <4>2 DEF DialogOK
      <4> QED
        BY <2>3, <4>1, <4>2
    <3>3. open' \in BOOLEAN /\ air' \in [Devices -> Seq(Messages)]
      BY <1>0, <2>1 DEF DialogOK
    <3> QED
      BY <2>1, <2>2, <3>1, <3>2, <3>3 DEF DialogOK
  <2>6. AirInv'
    <3>1. \A u \in Tries : tpc[u] # "new" =>
            /\ tpc'[u] = tpc[u] /\ to'[u] = to[u] /\ fw'[u] = fw[u]
      BY <1>0, <2>1, <2>3 DEF DialogOK
    <3>2. \A u \in Tries : fw'[u] # "none" => tpc'[u] # "new" /\ to'[u] \in Devices
      BY <1>0, <2>1, <2>3 DEF AirInv, DialogOK
    <3> QED
      BY <1>0, <2>1, <2>4, <3>1, <3>2 DEF AirInv, AnsweredOnce
  <2> QED
    BY <1>1, <2>1, <2>5, <2>6 DEF TypeInv
<1>5. ASSUME NEW t \in Tries, Throws(t) \/ Watchdog(t) PROVE TypeInv'
  <2>1. /\ {open', connecting'} \subseteq BOOLEAN /\ stray' \in BOOLEAN
        /\ UNCHANGED <<linkVars, to, fw, air>> /\ watchdogs' \subseteq watchdogs
    BY <1>0, <1>5 DEF Throws, Watchdog, Complain, DialogOK
  <2>2. error' \in Errors
    BY <1>0, <1>5, <1>errors DEF Throws, Watchdog, Complain, DialogOK
  <2>3. tpc' = tpc \/ (tpc[t] = "throwing" /\ tpc' = [tpc EXCEPT ![t] = "threw"])
    BY <1>5 DEF Throws, Watchdog
  <2>4. /\ tpc' \in [Tries -> {"new", "writing", "throwing", "threw", "acked"}]
        /\ \A u \in Tries : /\ tpc[u] \in {"writing", "acked"} => tpc'[u] = tpc[u]
                            /\ tpc[u] # "new" => tpc'[u] # "new"
    BY <1>0, <2>3 DEF DialogOK
  <2> QED
    BY <1>1, <2>1, <2>2, <2>4, KeptTypes
<1>6. ASSUME NEW t \in Tries, PushResult(t) \/ Answer(t) \/ Raise(t) PROVE TypeInv'
  <2>1. PICK next \in {"told", "done"}, messages \in {<< >>} \cup {<< m >> : m \in Messages} :
          /\ FirmwareSends(t, next, messages)
          /\ fw[t] \in {"working", "told"}
          /\ \/ messages = << >>
             \/ \E ok \in BOOLEAN : next = "told" /\ messages = << Message("result", t, ok) >>
             \/ \E ok \in BOOLEAN :
                  /\ next = "done" /\ messages = << Message("answer", t, ok) >>
                  /\ tpc[t] = "writing"
    <3>1. \A kind \in {"result", "answer"}, ok \in BOOLEAN : Message(kind, t, ok) \in Messages
      BY DEF Message, Messages
    <3> QED
      BY <1>6, <3>1 DEF PushResult, Answer, Raise
  <2>2. /\ fw' = [fw EXCEPT ![t] = next]
        /\ air' = [air EXCEPT ![to[t]] = @ \o messages]
        /\ UNCHANGED <<linkVars, open, connecting, error, tpc, to, watchdogs, stray>>
    BY <2>1 DEF FirmwareSends
  <2>3. \A d \in Devices : \A i \in DOMAIN air[d] : air[d][i].t \in Tries
    BY <1>0, OfTries DEF DialogOK
  <2>4. to[t] \in Devices /\ tpc[t] # "new"
    BY <1>0, <2>1 DEF AirInv
  <2>5. CASE messages = << >>
    <3>1. air' = air
      BY <1>0, <2>2, <2>4, <2>5, SendsNothing DEF DialogOK
    <3>2. AirInv'
      BY <1>0, <2>1, <2>2, <2>3, <2>4, <3>1 DEF AirInv, AnsweredOnce, DialogOK
    <3> QED
      BY <1>0, <1>1, <2>2, <3>1, <3>2 DEF TypeInv, DialogOK
  <2>6. ASSUME NEW m \in Messages, messages = << m >>, m.t = t,
               m.kind = "answer" => next = "done" /\ tpc[t] = "writing"
        PROVE  TypeInv'
    <3> DEFINE e == to[t]
    <3>1. e \in Devices /\ air' = [air EXCEPT ![e] = @ \o << m >>]
      BY <2>2, <2>4, <2>6
    <3> DEFINE n == Len(air[e]) + 1
    <3> HIDE DEF e
    <3>2. /\ air' \in [Devices -> Seq(Messages)]
          /\ \A d \in Devices : d # e => air'[d] = air[d]
          /\ DOMAIN air'[e] = DOMAIN air[e] \cup {n}
          /\ n \notin DOMAIN air[e]
          /\ air'[e][n] = m
          /\ \A i \in DOMAIN air[e] : air'[e][i] = air[e][i]
      BY <1>0, <3>1, Sent DEF DialogOK
    <3> HIDE DEF n
    <3>3. \A d \in Devices : \A i \in DOMAIN air[d] :
            air[d][i].kind = "answer" => air[d][i].t # t
      BY <1>0, <2>1 DEF AirInv
    <3>4. \A u \in Tries : fw[u] = "done" => fw'[u] = "done"
      BY <1>0, <2>1, <2>2 DEF DialogOK
    <3>5. AirInv'
      <4>1. \A u \in Tries : fw'[u] # "none" => tpc'[u] # "new" /\ to'[u] \in Devices
        BY <1>0, <2>2, <2>4 DEF AirInv, DialogOK
      <4>2. \A d \in Devices : \A i \in DOMAIN air'[d] :
              /\ tpc'[air'[d][i].t] # "new" /\ to'[air'[d][i].t] = d
              /\ air'[d][i].kind = "answer" => /\ tpc'[air'[d][i].t] = "writing"
                                               /\ fw'[air'[d][i].t] = "done"
        <5>1. ASSUME NEW d \in Devices, NEW i \in DOMAIN air[d], air'[d][i] = air[d][i]
              PROVE  /\ tpc'[air'[d][i].t] # "new" /\ to'[air'[d][i].t] = d
                     /\ air'[d][i].kind = "answer" => /\ tpc'[air'[d][i].t] = "writing"
                                                      /\ fw'[air'[d][i].t] = "done"
          BY <1>0, <2>2, <2>3, <3>4, <5>1 DEF AirInv
        <5>2. /\ tpc'[m.t] # "new" /\ to'[m.t] = e
              /\ m.kind = "answer" => tpc'[m.t] = "writing" /\ fw'[m.t] = "done"
          BY <1>0, <2>2, <2>4, <2>6 DEF e, DialogOK
        <5>3. ASSUME NEW d \in Devices, NEW i \in DOMAIN air'[d], d # e
              PROVE  i \in DOMAIN air[d] /\ air'[d][i] = air[d][i]
          BY <3>2, <5>3
        <5>4. \A i \in DOMAIN air'[e] : i = n \/ (i \in DOMAIN air[e] /\ air'[e][i] = air[e][i])
          BY <3>2
        <5> QED
          BY <3>1, <3>2, <5>1, <5>2, <5>3, <5>4
      <4>3. AnsweredOnce'
        <5>1. \A d \in Devices : \A i \in DOMAIN air'[d] :
                \/ i \in DOMAIN air[d] /\ air'[d][i] = air[d][i]
                \/ d = e /\ i = n /\ air'[d][i] = m
          BY <3>2
        <5>2. AnsweredOnce
          BY <1>0 DEF AirInv
        <5>3. ASSUME NEW d \in Devices, NEW i \in DOMAIN air'[d], NEW j \in DOMAIN air'[d],
                     air'[d][i].kind = "answer", air'[d][j].kind = "answer",
                     air'[d][i].t = air'[d][j].t
              PROVE  i = j
          <6>1. CASE /\ i \in DOMAIN air[d] /\ air'[d][i] = air[d][i]
                     /\ j \in DOMAIN air[d] /\ air'[d][j] = air[d][j]
            BY <5>2, <5>3, <6>1 DEF AnsweredOnce
          <6>2. ASSUME NEW k \in DOMAIN air[d], air'[d][k] = air[d][k],
                       air'[d][k].kind = "answer"
                PROVE  air'[d][k].t # t
            BY <3>3, <6>2
          <6>3. CASE d = e /\ (i = n \/ j = n)
            <7>1. CASE i = n /\ j # n
              BY <2>6, <3>2, <5>1, <5>3, <6>2, <6>3, <7>1
            <7>2. CASE i # n /\ j = n
              BY <2>6, <3>2, <5>1, <5>3, <6>2, <6>3, <7>2
            <7> QED
              BY <6>3, <7>1, <7>2
          <6> QED
            BY <5>1, <6>1, <6>3
        <5> QED
          BY <5>3 DEF AnsweredOnce
      <4> QED
        BY <4>1, <4>2, <4>3 DEF AirInv
    <3> QED
      BY <1>0, <1>1, <2>2, <3>2, <3>5 DEF TypeInv, DialogOK
  <2>7. CASE messages # << >>
    <3>1. PICK kind \in {"result", "answer"}, ok \in BOOLEAN :
            /\ messages = << Message(kind, t, ok) >>
            /\ kind = "answer" => next = "done" /\ tpc[t] = "writing"
      BY <2>1, <2>7
    <3>2. /\ Message(kind, t, ok) \in Messages
          /\ Message(kind, t, ok).t = t /\ Message(kind, t, ok).kind = kind
      BY DEF Message, Messages
    <3> QED
      BY <2>6, <3>1, <3>2
  <2> QED
    BY <2>5, <2>7
<1>7. ASSUME NEW e \in Devices, Hear(e) PROVE TypeInv'
  <2>1. /\ air[e] # << >> /\ air' = [air EXCEPT ![e] = Tail(@)]
        /\ UNCHANGED <<linkVars, to, fw, stray>>
    BY <1>7 DEF Hear
  <2>2. /\ air' \in [Devices -> Seq(Messages)]
        /\ \A d \in Devices : d # e => air'[d] = air[d]
        /\ 1 \in DOMAIN air[e] /\ Head(air[e]) = air[e][1] /\ air[e][1] \in Messages
        /\ \A i \in DOMAIN air'[e] :
             i + 1 \in DOMAIN air[e] /\ i + 1 # 1 /\ air'[e][i] = air[e][i + 1]
        /\ \A i, j \in DOMAIN air'[e] : i + 1 = j + 1 => i = j
    BY <1>0, <2>1, Heard DEF DialogOK
  <2> DEFINE m == air[e][1]
  <2>3. m.t \in Tries /\ m.ok \in BOOLEAN /\ m.kind \in {"result", "answer"}
    BY <2>2 DEF Messages
  <2>4. \A d \in Devices : \A i \in DOMAIN air'[d] : air'[d][i].t \in Tries
    BY <2>2, OfTries
  <2>5. \A d \in Devices : \A i \in DOMAIN air'[d] :
          \E j \in DOMAIN air[d] : /\ air'[d][i] = air[d][j]
                                   /\ d = e => j # 1
    BY <2>2
  <2>6. AnsweredOnce'
    <3>1. AnsweredOnce
      BY <1>0 DEF AirInv
    <3>2. ASSUME NEW d \in Devices, NEW i \in DOMAIN air'[d], NEW j \in DOMAIN air'[d],
                 air'[d][i].kind = "answer", air'[d][j].kind = "answer",
                 air'[d][i].t = air'[d][j].t
          PROVE  i = j
      <4>1. CASE d = e
        <5>1. /\ i + 1 \in DOMAIN air[e] /\ air'[d][i] = air[e][i + 1]
              /\ j + 1 \in DOMAIN air[e] /\ air'[d][j] = air[e][j + 1]
          BY <2>2, <4>1
        <5>2. i + 1 = j + 1
          BY <3>1, <3>2, <5>1 DEF AnsweredOnce
        <5> QED
          BY <2>2, <4>1, <5>2
      <4>2. CASE d # e
        <5>1. air'[d] = air[d]
          BY <2>2, <4>2
        <5> QED
          BY <3>1, <3>2, <5>1 DEF AnsweredOnce
      <4> QED
        BY <4>1, <4>2
    <3> QED
      BY <3>2 DEF AnsweredOnce
  <2>7. CASE m.kind = "result"
    <3>1. HearResult(m)
      BY <1>7, <2>2, <2>7 DEF Hear
    <3>2. {open', connecting'} \subseteq BOOLEAN
      BY <1>0, <3>1 DEF HearResult, Complain, DialogOK
    <3>3. error' \in Errors
      BY <1>0, <1>errors, <2>3, <3>1 DEF HearResult, Complain, DialogOK
    <3>4. UNCHANGED <<tpc, watchdogs>>
      BY <3>1 DEF HearResult
    <3>5. AirInv'
      BY <1>0, <2>1, <2>5, <2>6, <3>4 DEF AirInv
    <3> QED
      BY <1>0, <1>1, <2>1, <2>2, <3>2, <3>3, <3>4, <3>5 DEF TypeInv, DialogOK
  <2>8. CASE m.kind = "answer"
    <3>1. HearAnswer(m)
      BY <1>7, <2>2, <2>8 DEF Hear
    <3>2. PICK next \in {"acked", "throwing"} :
            /\ tpc' = [tpc EXCEPT ![m.t] = next]
            /\ watchdogs' \subseteq IF next = "acked" THEN watchdogs \cup {m.t} ELSE watchdogs
            /\ UNCHANGED <<open, error, connecting>>
      BY <2>3, <3>1 DEF HearAnswer
    <3>3. tpc[m.t] = "writing" /\ to[m.t] = e
      BY <1>0, <2>2, <2>8 DEF AirInv
    <3>4. watchdogs' \subseteq {t \in Tries : tpc'[t] = "acked"}
      BY <1>0, <2>3, <3>2, <3>3 DEF DialogOK
    <3>5. \A d \in Devices : \A i \in DOMAIN air'[d] :
            air'[d][i].kind = "answer" => air'[d][i].t # m.t
      <4> SUFFICES ASSUME NEW d \in Devices, NEW i \in DOMAIN air'[d],
                          air'[d][i].kind = "answer", air'[d][i].t = m.t
                   PROVE  FALSE
        OBVIOUS
      <4>1. PICK j \in DOMAIN air[d] : air'[d][i] = air[d][j] /\ (d = e => j # 1)
        BY <2>5
      <4>2. to[air[d][j].t] = d /\ AnsweredOnce
        BY <1>0 DEF AirInv
      <4>3. d = e
        BY <3>3, <4>1, <4>2
      <4> QED
        BY <2>2, <2>8, <4>1, <4>2, <4>3 DEF AnsweredOnce
    <3>6. tpc' \in [Tries -> {"new", "writing", "throwing", "threw", "acked"}]
      BY <1>0, <3>2 DEF DialogOK
    <3>7. \A u \in Tries : /\ tpc[u] # "new" => tpc'[u] # "new"
                           /\ u # m.t => tpc'[u] = tpc[u]
      BY <1>0, <3>2 DEF DialogOK
    <3> HIDE DEF m
    <3>8. AirInv'
      BY <1>0, <2>1, <2>4, <2>5, <2>6, <3>5, <3>7 DEF AirInv
    <3> QED
      BY <1>0, <1>1, <2>1, <2>2, <3>2, <3>4, <3>6, <3>8 DEF TypeInv, DialogOK
  <2> QED
    BY <2>3, <2>7, <2>8
<1>8. ASSUME UNCHANGED allVars PROVE TypeInv'
  BY <1>0, <1>1, <1>8 DEF allVars, dialogVars, TypeInv, DialogOK, AirInv, AnsweredOnce
<1> QED
  BY <1>2, <1>3, <1>4, <1>5, <1>6, <1>7, <1>8 DEF Next, TryStep, Rests

\* The types hold throughout.
LEMMA TypeInvariant == Spec => []TypeInv
BY TypeInit, TypeStep, PTL DEF Spec

\* The variables of the page's connection and of its dialog keep their types,
\* whatever the loops, the links and the firmware do (ble.js:48-117,
\* app.js:530-608).
THEOREM TypeCorrect == Spec => []TypeOK
<1>1. TypeInv => TypeOK
  BY DEF TypeInv, LinkInv, DialogOK, TypeOK
<1> QED
  BY <1>1, TypeInvariant, PTL

\* To a user of one Pi the cards are shown only while its link is up and its
\* characteristics have been found, however many loops run at once, however often
\* they are clicked off and whichever of them takes the link down
\* (app.js:147-168, ble.js:73-97).
THEOREM CardsAlwaysWork == Spec => []CardsWork
<1>1. TypeInv => CardsWork
  BY DEF TypeInv, LinkInv
<1> QED
  BY <1>1, TypeInvariant, PTL

-----------------------------------------------------------------------------
(* The failure on show. *)

\* Tries are made in their order.
OrderInv == \A t, u \in Tries : tpc[t] = "new" /\ u > t => tpc[u] = "new"

\* One result at most is still to be heard, of whichever Pi.
OneUnheard ==
    /\ \A t, u \in Tries : fw[t] = "working" /\ fw[u] = "working" => t = u
    /\ \A t \in Tries, d \in Devices : \A i \in DOMAIN air[d] :
         fw[t] = "working" => air[d][i].kind # "result"
    /\ \A d, e \in Devices : \A i \in DOMAIN air[d], j \in DOMAIN air[e] :
         air[d][i].kind = "result" /\ air[e][j].kind = "result" => d = e /\ i = j

\* As long as no try has been left behind, the result still to be heard is that
\* of the last one, and the dialog waits for it.
WaitInv ==
    /\ OneUnheard
    /\ Unheard => open /\ connecting
    /\ \A t \in Tries : fw[t] = "working" => IsLast(t)
    /\ \A d \in Devices : \A i \in DOMAIN air[d] :
         air[d][i].kind = "result" => IsLast(air[d][i].t)
    /\ error.kind = "firmware" => IsLast(error.t)

LastInv ==
    /\ OrderInv
    /\ stray \/ WaitInv

\* Nobody waits for anything.
LEMMA LastInit == Init => LastInv
<1> SUFFICES ASSUME Init PROVE LastInv
  OBVIOUS
<1>1. (\A d \in Devices : DOMAIN air[d] = {}) /\ \A t \in Tries : tpc[t] = "new" /\ fw[t] = "none"
  BY DEF Init
<1>2. error.kind = "none"
  BY DEF Init, NoError, Error
<1> QED
  BY <1>1, <1>2 DEF LastInv, OrderInv, WaitInv, OneUnheard, Unheard

\* A step that makes no try leaves the last one the last.
LEMMA SameLast ==
    ASSUME \A t \in Tries : tpc'[t] = "new" <=> tpc[t] = "new"
    PROVE  \A t : IsLast(t) => IsLast(t)'
BY DEF IsLast

\* A step after which the firmware and the air owe what they owed.
LEMMA LastKept ==
    ASSUME TypeInv, LastInv, UNCHANGED <<fw, air>>,
           \A t \in Tries : tpc'[t] = "new" <=> tpc[t] = "new",
           stray => stray',
           ~stray' /\ Unheard => open' /\ connecting',
           ~stray' /\ error'.kind = "firmware" => error' = error
    PROVE  LastInv'
<1>1. \A d \in Devices : \A i \in DOMAIN air[d] : air[d][i].t \in Tries
  BY OfTries DEF TypeInv, DialogOK
<1>2. OrderInv'
  BY DEF LastInv, OrderInv
<1>3. ASSUME ~stray' PROVE WaitInv'
  <2>1. Unheard' => Unheard
    BY DEF Unheard
  <2>2. OneUnheard'
    BY <1>3 DEF LastInv, WaitInv, OneUnheard
  <2> QED
    BY <1>3, <2>1, <2>2, SameLast DEF LastInv, WaitInv
<1> QED
  BY <1>2, <1>3 DEF LastInv

\* Each action keeps what is known of the last try.
LEMMA LastStep == TypeInv /\ LastInv /\ [Next]_allVars => LastInv'
<1> SUFFICES ASSUME TypeInv, LastInv, [Next]_allVars
             PROVE  LastInv'
  OBVIOUS
<1>0. LinkInv /\ DialogOK /\ AirInv /\ OrderInv
  BY DEF TypeInv, LastInv
<1>errors. NoError.kind = "none" /\ \A kind, t : Error(kind, t).kind = kind /\ Error(kind, t).t = t
  BY DEF NoError, Error
<1>tries. \A d \in Devices : \A i \in DOMAIN air[d] : air[d][i].t \in Tries
  BY <1>0, OfTries DEF DialogOK
<1>1. ASSUME LinkStep PROVE LastInv'
  <2>1. /\ open' = (open /\ shown') /\ UNCHANGED <<connecting, fw>>
        /\ stray' = (stray \/ (~shown' /\ Unheard))
        /\ error' = error \/ error' = NoError
        /\ tpc' = [t \in Tries |-> IF tpc[t] = "writing" /\ to[t] \in Fallen
                                   THEN "throwing" ELSE tpc[t]]
        /\ air' = [d \in Devices |-> IF d \in Fallen THEN << >> ELSE air[d]]
    BY <1>1 DEF LinkStep, DialogFollows
  <2>2. \A t \in Tries : tpc'[t] = "new" <=> tpc[t] = "new"
    BY <1>0, <2>1 DEF DialogOK
  <2>3. OrderInv'
    BY <1>0, <2>2 DEF OrderInv
  <2>4. \A d \in Devices : \A i \in DOMAIN air'[d] :
          i \in DOMAIN air[d] /\ air'[d][i] = air[d][i]
    <3>1. \A d \in Devices : air'[d] = << >> \/ air'[d] = air[d]
      BY <2>1
    <3> QED
      BY <3>1
  <2>5. ASSUME ~stray' PROVE WaitInv'
    <3>1. WaitInv
      BY <2>1, <2>5 DEF LastInv
    <3>2. Unheard' => Unheard
      BY <2>1, <2>4 DEF Unheard
    <3>3. Unheard' => open' /\ connecting'
      BY <2>1, <2>5, <3>1, <3>2 DEF WaitInv
    <3>4. \A u : IsLast(u) => IsLast(u)'
      BY <2>2, SameLast
    <3>5. OneUnheard'
      BY <2>1, <2>4, <3>1 DEF WaitInv, OneUnheard
    <3>6. (error.kind = "firmware" => IsLast(error.t))'
      BY <1>errors, <2>1, <3>1, <3>4 DEF WaitInv
    <3>7. (\A d \in Devices : \A i \in DOMAIN air[d] :
             air[d][i].kind = "result" => IsLast(air[d][i].t))'
      BY <2>4, <3>1, <3>4 DEF WaitInv
    <3> QED
      BY <2>1, <3>1, <3>3, <3>4, <3>5, <3>6, <3>7 DEF WaitInv
  <2> QED
    BY <2>3, <2>5 DEF LastInv
<1>2. ASSUME OpenModal \/ CloseModal \/ SubmitRefused PROVE LastInv'
  <2>1. /\ UNCHANGED <<tpc, fw, air>>
        /\ stray => stray'
        /\ error'.kind # "firmware"
    BY <1>0, <1>2 DEF OpenModal, CloseModal, SubmitRefused, DialogOK, NoError, Error
  <2>2. ~stray' /\ Unheard => open' /\ connecting'
    BY <1>2 DEF OpenModal, CloseModal, SubmitRefused, LastInv, WaitInv
  <2>3. \A t \in Tries : tpc'[t] = "new" <=> tpc[t] = "new"
    BY <2>1
  <2> QED
    BY <2>1, <2>2, <2>3, LastKept, Zenon
<1>3. ASSUME NEW t \in Tries, Submit(t) PROVE LastInv'
  <2>1. /\ tpc[t] = "new" /\ \A u \in Tries : u < t => tpc[u] # "new"
        /\ open' /\ connecting' /\ ~connecting
        /\ error' = NoError /\ UNCHANGED <<air, stray>>
    BY <1>3 DEF Submit, IsNext
  <2>2. PICK next \in {"writing", "throwing"} :
          /\ tpc' = [tpc EXCEPT ![t] = next]
          /\ fw' \in {fw, [fw EXCEPT ![t] = "working"]}
    BY <1>0, <1>3, SubmitWrites DEF LinkInv
  <2>3. \A u \in Tries : tpc'[u] = "new" <=> tpc[u] = "new" /\ u # t
    BY <1>0, <2>1, <2>2 DEF DialogOK
  <2>4. \A u \in Tries : u > t => tpc'[u] = "new"
    BY <1>0, <2>1, <2>3 DEF OrderInv, Tries
  <2>5. OrderInv'
    BY <1>0, <2>1, <2>3 DEF OrderInv, Tries
  <2>6. ASSUME ~stray PROVE WaitInv'
    <3>1. ~Unheard
      BY <2>1, <2>6 DEF LastInv, WaitInv
    <3>2. /\ \A u \in Tries : fw'[u] = "working" => u = t
          /\ \A d \in Devices : \A i \in DOMAIN air'[d] : air'[d][i].kind # "result"
      BY <1>0, <2>1, <2>2, <3>1 DEF Unheard, DialogOK
    <3>3. IsLast(t)'
      BY <2>4 DEF IsLast
    <3> QED
      BY <1>errors, <2>1, <3>2, <3>3 DEF WaitInv, OneUnheard
  <2> QED
    BY <2>1, <2>5, <2>6 DEF LastInv
<1>4. ASSUME NEW t \in Tries, Throws(t) \/ Watchdog(t) PROVE LastInv'
  <2>1. UNCHANGED <<open, fw, air>>
    BY <1>4 DEF Throws, Watchdog
  <2>2. /\ stray => stray'
        /\ connecting' = connecting \/ (Unheard => stray')
    <3>1. CASE Throws(t)
      BY <3>1, Zenon DEF Throws
    <3>2. CASE Watchdog(t)
      BY <3>2, Zenon DEF Watchdog
    <3> QED
      BY <1>4, <3>1, <3>2
  <2>3. error'.kind = "firmware" => error' = error
    BY <1>4 DEF Throws, Watchdog, Complain, NoError, Error
  <2>4. \A u \in Tries : tpc'[u] = "new" <=> tpc[u] = "new"
    BY <1>0, <1>4 DEF Throws, Watchdog, DialogOK
  <2>5. ~stray' /\ Unheard => open' /\ connecting'
    <3>1. ~stray' /\ Unheard => connecting' = connecting /\ ~stray
      BY <2>2, Zenon
    <3> QED
      BY <2>1, <3>1, Zenon DEF LastInv, WaitInv
  <2> QED
    BY <2>1, <2>2, <2>3, <2>4, <2>5, LastKept, Zenon
<1>5. ASSUME NEW t \in Tries, PushResult(t) PROVE LastInv'
  <2>1. PICK ok \in BOOLEAN :
          FirmwareSends(t, "told",
              IF to[t] \in hears THEN << Message("result", t, ok) >> ELSE << >>)
    BY <1>5 DEF PushResult
  <2>2. /\ fw[t] = "working" /\ fw' = [fw EXCEPT ![t] = "told"]
        /\ to[t] \in Devices
        /\ UNCHANGED <<open, connecting, error, tpc, stray>>
    BY <1>0, <1>5, <2>1 DEF PushResult, FirmwareSends, AirInv
  <2>3. OrderInv'
    BY <1>0, <2>2 DEF OrderInv
  <2>4. ~stray => /\ \A u \in Tries : fw'[u] # "working"
                  /\ \A d \in Devices : \A i \in DOMAIN air[d] : air[d][i].kind # "result"
                  /\ open /\ connecting /\ IsLast(t)
    BY <1>0, <2>2 DEF LastInv, WaitInv, OneUnheard, Unheard, DialogOK
  <2>5. \A u : IsLast(u) => IsLast(u)'
    BY <2>2, SameLast
  <2>6. CASE air' = air
    <3>1. ~stray' => WaitInv'
      BY <2>2, <2>4, <2>5, <2>6 DEF LastInv, WaitInv, OneUnheard, Unheard
    <3> QED
      BY <2>3, <3>1 DEF LastInv
  <2>7. ASSUME NEW m \in Messages, NEW e \in Devices,
               air' = [air EXCEPT ![e] = @ \o << m >>], m.t = t
        PROVE  LastInv'
    <3> DEFINE n == Len(air[e]) + 1
    <3>1. /\ \A d \in Devices : d # e => air'[d] = air[d]
          /\ DOMAIN air'[e] = DOMAIN air[e] \cup {n}
          /\ air'[e][n] = m
          /\ \A i \in DOMAIN air[e] : air'[e][i] = air[e][i]
      BY <1>0, <2>7, Sent DEF DialogOK
    <3> HIDE DEF n
    <3>2. \A d \in Devices : \A i \in DOMAIN air'[d] :
            \/ d = e /\ i = n /\ air'[d][i] = m
            \/ i \in DOMAIN air[d] /\ air'[d][i] = air[d][i]
      BY <3>1
    <3>3. ~stray' => WaitInv'
      <4> SUFFICES ASSUME ~stray' PROVE WaitInv'
        OBVIOUS
      <4>1. /\ \A u \in Tries : fw'[u] # "working"
            /\ \A d \in Devices : \A i \in DOMAIN air[d] : air[d][i].kind # "result"
            /\ open' /\ connecting' /\ IsLast(t)' /\ WaitInv
        BY <2>2, <2>4, <2>5 DEF LastInv
      <4>2. \A d \in Devices : \A i \in DOMAIN air'[d] :
              air'[d][i].kind = "result" => d = e /\ i = n /\ air'[d][i].t = t
        BY <2>7, <3>2, <4>1
      <4>3. (error.kind = "firmware" => IsLast(error.t))'
        BY <2>2, <2>5, <4>1 DEF WaitInv
      <4> QED
        BY <4>1, <4>2, <4>3 DEF WaitInv, OneUnheard
    <3> QED
      BY <2>3, <3>3 DEF LastInv
  <2>8. Message("result", t, ok) \in Messages /\ Message("result", t, ok).t = t
    BY DEF Message, Messages
  <2>9. \/ air' = [air EXCEPT ![to[t]] = @ \o << >>]
        \/ air' = [air EXCEPT ![to[t]] = @ \o << Message("result", t, ok) >>]
    BY <2>1 DEF FirmwareSends
  <2>10. CASE air' = [air EXCEPT ![to[t]] = @ \o << >>]
    BY <1>0, <2>2, <2>6, <2>10, SendsNothing DEF DialogOK
  <2> QED
    BY <2>2, <2>7, <2>8, <2>9, <2>10
<1>6. ASSUME NEW t \in Tries, Answer(t) \/ Raise(t) PROVE LastInv'
  <2>1. PICK ok \in BOOLEAN :
          FirmwareSends(t, "done",
              IF tpc[t] = "writing" THEN << Message("answer", t, ok) >> ELSE << >>)
    BY <1>6 DEF Answer, Raise
  <2>2. /\ fw[t] # "none" /\ fw' = [fw EXCEPT ![t] = "done"]
        /\ to[t] \in Devices
        /\ UNCHANGED <<open, connecting, error, tpc, stray>>
    BY <1>0, <1>6, <2>1 DEF Answer, Raise, FirmwareSends, AirInv
  <2>3. OrderInv'
    BY <1>0, <2>2 DEF OrderInv
  <2>4. \A u : IsLast(u) => IsLast(u)'
    BY <2>2, SameLast
  <2>5. \A u \in Tries : fw'[u] = "working" => fw[u] = "working"
    BY <1>0, <2>2 DEF DialogOK
  <2>6. ASSUME \A d \in Devices : \A i \in DOMAIN air'[d] : air'[d][i].kind = "result" =>
                 i \in DOMAIN air[d] /\ air'[d][i] = air[d][i]
        PROVE  LastInv'
    <3> SUFFICES ASSUME ~stray' PROVE WaitInv'
      BY <2>3 DEF LastInv
    <3>1. WaitInv
      BY <2>2 DEF LastInv
    <3>2. Unheard' => Unheard
      BY <2>5, <2>6 DEF Unheard
    <3>3. (error.kind = "firmware" => IsLast(error.t))'
      BY <2>2, <2>4, <3>1 DEF WaitInv
    <3>4. OneUnheard'
      BY <2>5, <2>6, <3>1 DEF WaitInv, OneUnheard
    <3> QED
      BY <2>2, <2>4, <2>5, <2>6, <3>1, <3>2, <3>3, <3>4 DEF WaitInv
  <2>7. ASSUME NEW m \in Messages, NEW e \in Devices,
               air' = [air EXCEPT ![e] = @ \o << m >>], m.kind = "answer"
        PROVE  LastInv'
    <3>1. /\ \A d \in Devices : d # e => air'[d] = air[d]
          /\ DOMAIN air'[e] = DOMAIN air[e] \cup {Len(air[e]) + 1}
          /\ air'[e][Len(air[e]) + 1] = m
          /\ \A i \in DOMAIN air[e] : air'[e][i] = air[e][i]
      BY <1>0, <2>7, Sent DEF DialogOK
    <3>2. \A d \in Devices : \A i \in DOMAIN air'[d] : air'[d][i].kind = "result" =>
            i \in DOMAIN air[d] /\ air'[d][i] = air[d][i]
      BY <2>7, <3>1
    <3> QED
      BY <2>6, <3>2
  <2>8. /\ Message("answer", t, ok) \in Messages
        /\ Message("answer", t, ok).kind = "answer"
    BY DEF Message, Messages
  <2>9. \/ air' = [air EXCEPT ![to[t]] = @ \o << >>]
        \/ air' = [air EXCEPT ![to[t]] = @ \o << Message("answer", t, ok) >>]
    BY <2>1 DEF FirmwareSends
  <2>10. CASE air' = [air EXCEPT ![to[t]] = @ \o << >>]
    BY <1>0, <2>2, <2>6, <2>10, SendsNothing DEF DialogOK
  <2> QED
    BY <2>2, <2>7, <2>8, <2>9, <2>10
<1>7. ASSUME NEW e \in Devices, Hear(e) PROVE LastInv'
  <2>1. /\ air[e] # << >> /\ air' = [air EXCEPT ![e] = Tail(@)] /\ UNCHANGED <<fw, stray>>
    BY <1>7 DEF Hear
  <2>2. /\ \A d \in Devices : d # e => air'[d] = air[d]
        /\ 1 \in DOMAIN air[e] /\ Head(air[e]) = air[e][1] /\ air[e][1] \in Messages
        /\ \A i \in DOMAIN air'[e] :
             i + 1 \in DOMAIN air[e] /\ i + 1 # 1 /\ air'[e][i] = air[e][i + 1]
        /\ \A i, j \in DOMAIN air'[e] : i + 1 = j + 1 => i = j
    BY <1>0, <2>1, Heard DEF DialogOK
  <2> DEFINE m == air[e][1]
  <2>3. m.t \in Tries /\ m.ok \in BOOLEAN /\ m.kind \in {"result", "answer"}
    BY <2>2 DEF Messages
  <2>4. \A d \in Devices : \A i \in DOMAIN air'[d] :
          \E j \in DOMAIN air[d] : air'[d][i] = air[d][j] /\ (d = e => j # 1)
    BY <2>2
  <2>5. /\ \A u \in Tries : tpc'[u] = "new" <=> tpc[u] = "new"
        /\ m.kind = "result" => HearResult(m)
        /\ m.kind = "answer" => UNCHANGED <<open, error, connecting>>
    <3>1. CASE m.kind = "result"
      BY <1>7, <2>2, <3>1 DEF Hear, HearResult
    <3>2. CASE m.kind = "answer"
      <4>1. HearAnswer(m) /\ tpc[m.t] = "writing"
        BY <1>0, <1>7, <2>2, <3>2 DEF Hear, AirInv
      <4> QED
        BY <1>0, <3>2, <4>1 DEF HearAnswer, DialogOK
    <3> QED
      BY <2>3, <3>1, <3>2
  <2>6. OrderInv'
    BY <1>0, <2>5 DEF OrderInv
  <2>7. ASSUME ~stray' PROVE WaitInv'
    <3>1. WaitInv
      BY <2>1, <2>7 DEF LastInv
    <3>2. OneUnheard'
      <4>1. \A d, c \in Devices : \A i \in DOMAIN air'[d], j \in DOMAIN air'[c] :
              air'[d][i].kind = "result" /\ air'[c][j].kind = "result" => d = c /\ i = j
        BY <2>2, <3>1 DEF WaitInv, OneUnheard
      <4> QED
        BY <2>1, <2>4, <3>1, <4>1 DEF WaitInv, OneUnheard
    <3>3. Unheard' => Unheard
      BY <2>1, <2>4 DEF Unheard
    <3>4. \A u : IsLast(u) => IsLast(u)'
      BY <2>5, SameLast
    <3>5. (\A d \in Devices : \A i \in DOMAIN air[d] :
             air[d][i].kind = "result" => IsLast(air[d][i].t))'
      BY <2>4, <3>1, <3>4 DEF WaitInv
    <3>6. CASE m.kind = "answer"
      BY <2>1, <2>5, <3>1, <3>2, <3>3, <3>4, <3>5, <3>6 DEF WaitInv
    <3>7. CASE m.kind = "result"
      <4>1. open /\ IsLast(m.t)
        BY <2>2, <3>1, <3>7 DEF WaitInv, Unheard
      <4>2. ~Unheard'
        BY <2>1, <2>2, <2>4, <3>1, <3>7 DEF WaitInv, OneUnheard, Unheard
      <4>3. error' = NoError \/ error' = Error("firmware", m.t)
        <5>1. CASE m.ok
          BY <2>5, <3>7, <4>1, <5>1 DEF HearResult
        <5>2. CASE ~m.ok
          BY <2>5, <3>7, <4>1, <5>2 DEF HearResult, Complain
        <5> QED
          BY <5>1, <5>2
      <4>4. (error.kind = "firmware" => IsLast(error.t))'
        BY <2>5, <4>1, <4>3 DEF IsLast, NoError, Error
      <4> QED
        BY <2>1, <3>1, <3>2, <3>4, <3>5, <4>2, <4>4 DEF WaitInv
    <3> QED
      BY <2>3, <3>6, <3>7
  <2> QED
    BY <2>6, <2>7 DEF LastInv
<1>8. ASSUME UNCHANGED allVars PROVE LastInv'
  BY <1>8 DEF allVars, dialogVars, LastInv, OrderInv, WaitInv, OneUnheard, Unheard, IsLast
<1> QED
  BY <1>1, <1>2, <1>3, <1>4, <1>5, <1>6, <1>7, <1>8 DEF Next, TryStep, Rests

\* A failure on show is the answer to what was submitted last, for any number of
\* submissions, unless some try was left behind before its result was heard
\* (app.js:583-594, service.py:229-262).
THEOREM FailureShownIsOfLast == Spec => []FailureIsOfLast
<1>1. LastInv => FailureIsOfLast
  BY DEF LastInv, WaitInv, FailureIsOfLast
<1>2. TypeInv /\ TypeInv' /\ LastInv /\ [Next]_allVars => LastInv'
  BY LastStep
<1> QED
  BY <1>1, <1>2, TypeInvariant, LastInit, PTL DEF Spec
=============================================================================
