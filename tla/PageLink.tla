------------------------------ MODULE PageLink ------------------------------
(***************************************************************************)
(* The web page's connection to the Pi: PiBleClient.connect with its retry *)
(* loop (ble.js), the click handler that runs it, and the handlers of the  *)
(* events that show its progress (app.js).  Nothing keeps two loops from   *)
(* running at once on one client object, be it with one Pi or, as each     *)
(* click opens the chooser again, with several.  The browser's GATT stack  *)
(* is outside src/: a link to each Pi that is up or down, and when it goes *)
(* down every operation that was under way on it rejects.                  *)
(***************************************************************************)
EXTENDS Naturals

CONSTANTS
    MaxCalls,       \* BOUND on the clicks on "Connect to Pi"
    MaxAttempts,    \* BOUND on the attempts of one call (5 in the code)
    MaxDevices      \* BOUND on the Pis the user chooses among

ASSUME PageLinkAssumption ==
    /\ MaxCalls \in Nat
    /\ MaxAttempts \in Nat \ {0}
    /\ MaxDevices \in Nat \ {0}

\* Each click is one call of connect(), numbered in their order.
Calls == 1..MaxCalls

\* The Pis, numbered in the order in which they are first chosen.
Devices  == 1..MaxDevices
NoDevice == 0
Mixed    == MaxDevices + 1

VARIABLES
    device,     \* device[c]: the Pi that call c is for, its own `device`
    gatt,       \* gatt[d]: device.gatt.connected of Pi d
    server,     \* the Pi client.server is of
    chars,      \* the Pi all of client.chars are of; Mixed when some of them are
                \* missing or of another Pi
    hears,      \* the Pis whose result characteristic has the page's listener
    cpc,        \* cpc[c]: where call c is
    attempt,    \* attempt[c]: the number of its attempt
    disabled,   \* btnConnect.disabled
    shown       \* the cards are shown (and the hero hidden): setConnectedUi(true)

client   == <<server, chars>>
page     == <<disabled, shown>>
linkVars == <<device, gatt, client, hears, cpc, attempt, page>>

\* A call whose pending operation has been rejected is failing (in an attempt)
\* or throwing (in subscribeAll).  One that discovers is spoilt when another
\* call has put its own service, or null, into the client meanwhile.
Stages == {"idle", "choosing", "connecting", "discovering", "spoilt", "failing",
           "backoff", "subscribing", "throwing", "done", "failed"}

LinkTypeOK ==
    /\ device \in [Calls -> Devices \cup {NoDevice}]
    /\ gatt \in [Devices -> BOOLEAN]
    /\ server \in Devices \cup {NoDevice}
    /\ chars \in Devices \cup {NoDevice, Mixed}
    /\ hears \subseteq {d \in Devices : gatt[d]}
    /\ {disabled, shown} \subseteq BOOLEAN
    /\ cpc \in [Calls -> Stages]
    /\ attempt \in [Calls -> 0..MaxAttempts]

LinkInit ==
    /\ device = [c \in Calls |-> NoDevice]
    /\ gatt = [d \in Devices |-> FALSE]
    /\ server = NoDevice /\ chars = NoDevice /\ hears = {}
    /\ cpc = [c \in Calls |-> "idle"]
    /\ attempt = [c \in Calls |-> 0]
    /\ disabled = FALSE /\ shown = FALSE

connected == server \in Devices /\ gatt[server]

-----------------------------------------------------------------------------
(* What the handlers do to the page. *)

\* setConnectedUi(on): it re-enables the button whatever a loop is doing.
SetConnectedUi(on) ==
    /\ shown' = on
    /\ disabled' = FALSE

\* What becomes of the calls when the link to d goes down.
Rejected(d) ==
    [c \in Calls |->
        CASE device[c] = d /\ cpc[c] \in {"connecting", "discovering"} -> "failing"
          [] device[c] = d /\ cpc[c] = "subscribing" /\ chars = d -> "throwing"
          [] OTHER -> cpc[c]]

\* The link to d goes down, if it is up.
Drops(d) ==
    /\ gatt' = [gatt EXCEPT ![d] = FALSE]
    /\ hears' = hears \ {d}

At(c, stage) == cpc' = [cpc EXCEPT ![c] = stage]

-----------------------------------------------------------------------------
(* One call of connect(), and the click handler that awaits it. *)

\* The hero and its button are there only while the cards are hidden; the
\* browser has one chooser.
Click(c) ==
    /\ cpc[c] = "idle"
    /\ ~disabled /\ ~shown
    /\ \A b \in Calls : cpc[b] # "choosing" /\ (b < c => cpc[b] # "idle")
    /\ At(c, "choosing")
    /\ UNCHANGED <<device, gatt, client, hears, attempt, page>>

\* The connect-attempt event disables the button.
StartAttempt(c) ==
    /\ At(c, "connecting")
    /\ attempt' = [attempt EXCEPT ![c] = @ + 1]
    /\ disabled' = TRUE
    /\ UNCHANGED <<gatt, client, hears, shown>>

\* Any Pi may be chosen: one that was chosen before, or a new one.
Chosen(c) ==
    /\ cpc[c] = "choosing"
    /\ \E d \in Devices :
         /\ \A e \in Devices : e < d => \E b \in Calls : device[b] = e
         /\ device' = [device EXCEPT ![c] = d]
    /\ StartAttempt(c)

BackoffOver(c) == cpc[c] = "backoff" /\ StartAttempt(c) /\ UNCHANGED device

\* requestDevice throws, out of connect() and into the click handler's catch.
NotChosen(c) ==
    /\ cpc[c] = "choosing"
    /\ At(c, "failed")
    /\ SetConnectedUi(FALSE)
    /\ UNCHANGED <<device, gatt, client, hears, attempt>>

\* The calls that write the client's service and chars, one after the other.
Discovering == {c \in Calls : cpc[c] \in {"discovering", "spoilt"}}

\* From here on the client's server is this Pi's, and its chars become so one by
\* one: calls that discover on two Pis spoil each other.
GattUp(c) ==
    /\ cpc[c] = "connecting"
    /\ gatt' = [gatt EXCEPT ![device[c]] = TRUE]
    /\ server' = device[c]
    /\ chars' = IF chars = device[c] THEN chars ELSE Mixed
    /\ LET clash == \E b \in Discovering : device[b] # device[c] \/ cpc[b] = "spoilt"
       IN  cpc' = [b \in Calls |-> IF b \in Discovering \cup {c}
                                    THEN IF clash THEN "spoilt" ELSE "discovering"
                                    ELSE cpc[b]]
    /\ UNCHANGED <<device, hears, attempt, page>>

\* The last characteristic is there: connect() returns, and the cards are shown
\* before anything else can happen.  A call that was spoilt may return too, with
\* whatever service the client had each time.
Discovered(c) ==
    /\ \/ cpc[c] = "discovering" /\ chars' = device[c]
       \/ cpc[c] = "spoilt" /\ gatt[device[c]] /\ Discovering = {c} /\ chars' = device[c]
       \/ cpc[c] = "spoilt" /\ (\E d \in Devices : gatt[d]) /\ chars' = Mixed
    /\ At(c, "subscribing")
    /\ SetConnectedUi(TRUE)
    /\ UNCHANGED <<device, gatt, server, hears, attempt>>

Attempting == {"connecting", "discovering", "spoilt", "failing"}

\* An attempt of c is over, and the others go on as they are in calls; those
\* that discover find the client's service gone.
Abandons(c, calls) ==
    cpc' = [b \in Calls |->
              CASE b = c -> IF attempt[c] < MaxAttempts THEN "backoff" ELSE "failed"
                [] b # c /\ calls[b] = "discovering" -> "spoilt"
                [] OTHER -> calls[b]]

\* Mutants of AttemptFails: the link is not taken down; after the last attempt
\* connect() throws nothing.
AttemptKeepsLink(c) ==
    /\ cpc[c] \in Attempting
    /\ chars' = NoDevice /\ server' = NoDevice
    /\ Abandons(c, cpc)
    /\ IF attempt[c] = MaxAttempts THEN SetConnectedUi(FALSE) ELSE UNCHANGED page
    /\ UNCHANGED <<device, gatt, hears, attempt>>

AttemptGivesUp(c) ==
    /\ cpc[c] \in Attempting
    /\ Drops(device[c])
    /\ chars' = NoDevice /\ server' = NoDevice
    /\ Abandons(c, IF gatt[device[c]] THEN Rejected(device[c]) ELSE cpc)
    /\ IF gatt[device[c]] THEN SetConnectedUi(FALSE) ELSE UNCHANGED page
    /\ UNCHANGED <<device, attempt>>

\* The catch of an attempt takes the link of its own device down if it is up,
\* and forgets the client's state, whichever Pi that is of.  When the link goes
\* down gattserverdisconnected is fired, what was under way on it rejects, and
\* the page shows the hero.  After the last attempt connect() throws, and the
\* click handler's catch shows it.
AttemptFails(c) ==
    /\ cpc[c] \in Attempting
    /\ Drops(device[c])
    /\ chars' = NoDevice /\ server' = NoDevice
    /\ Abandons(c, IF gatt[device[c]] THEN Rejected(device[c]) ELSE cpc)
    /\ IF gatt[device[c]] \/ attempt[c] = MaxAttempts
         THEN SetConnectedUi(FALSE)
         ELSE UNCHANGED page
    /\ UNCHANGED <<device, attempt>>

\* The three subscriptions of subscribeAll are there, on the characteristics the
\* client had, and what follows never throws.
Subscribed(c) ==
    /\ cpc[c] = "subscribing"
    /\ \E d \in Devices :
         /\ gatt[d] /\ (d = device[c] \/ chars # device[c])
         /\ hears' = hears \cup {d}
    /\ At(c, "done")
    /\ UNCHANGED <<device, gatt, client, attempt, page>>

\* A subscription throws: the catch shows the hero, and leaves the link as it is.
SubscribeFails(c) ==
    /\ cpc[c] \in {"subscribing", "throwing"}
    /\ At(c, "failed")
    /\ SetConnectedUi(FALSE)
    /\ UNCHANGED <<device, gatt, client, hears, attempt>>

-----------------------------------------------------------------------------
(* The end of the link. *)

\* gattserverdisconnected: the radio lost Pi d, or d is the client's server and
\* the user clicked Disconnect, a button that is there with the cards.
LinkDown(d) ==
    /\ gatt[d]
    /\ Drops(d)
    /\ cpc' = Rejected(d)
    /\ SetConnectedUi(FALSE)
    /\ UNCHANGED <<device, client, attempt>>

\* A click on Disconnect when the client has no live server.
DisconnectNothing ==
    /\ shown /\ ~connected
    /\ SetConnectedUi(FALSE)
    /\ UNCHANGED <<device, gatt, client, hears, cpc, attempt>>

-----------------------------------------------------------------------------

CallStep(c) ==
    \/ Chosen(c) \/ NotChosen(c) \/ GattUp(c) \/ Discovered(c) \/ AttemptFails(c)
    \/ BackoffOver(c) \/ Subscribed(c) \/ SubscribeFails(c)

LinkNext ==
    \/ \E c \in Calls : Click(c) \/ CallStep(c)
    \/ \E d \in Devices : LinkDown(d)
    \/ DisconnectNothing

-----------------------------------------------------------------------------
(* Properties. *)

\* Every click has been for one and the same Pi.
OnePi == \A c \in Calls : device[c] <= 1

\* To a user of one Pi the cards are shown only with a client that works: the
\* link is up and the characteristics are those found on it, whichever of the
\* loops has made it and whatever the others have torn down since
\* (app.js:147-168, ble.js:73-97).
CardsWork == OnePi /\ shown => connected /\ chars = server

\* The button that signals "in progress" (app.js:124-126) always comes back: no
\* outcome of connect(), on one Pi or on several, leaves it disabled for good.
NeverLocked == disabled ~> ~disabled
=============================================================================
