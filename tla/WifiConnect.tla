---------------------------- MODULE WifiConnect ----------------------------
(***************************************************************************)
(* Joining a network: the write handler of the connect characteristic      *)
(* (_on_write_connect, service.py) and the pipeline it runs (wifi.connect),*)
(* one step per nmcli process awaited, over NetworkManager's connection    *)
(* profiles.  NetworkManager is outside src/: its profiles, and what each  *)
(* nmcli command does to them, are modelled from how wifi.py uses them.    *)
(***************************************************************************)
EXTENDS Naturals, FiniteSets

CONSTANTS
    Requests,   \* the writes to the connect characteristic, each served once
    Ssids,      \* networks; a profile made by the code is named after its ssid
    OldNames,   \* other names of profiles (tray applet, older versions, a user)
    Keys,       \* passwords of a valid length
    ApKey,      \* ApKey[s]: the key the access point of s wants, or Open
    Saved,      \* the profiles there are at the start
    Altered,    \* ssids that the terse output of nmcli does not print as they
                \* are: ':' and '\' come escaped, outer blanks are stripped
    Overlap,    \* TRUE: a write may arrive while another one is being answered
                \* (nmcli may take 60 s, an ATT request only 30 s)
    MaxFaults   \* BOUND on failures of nmcli that the profiles do not explain

\* Special keys and the empty values.
Open      == "open"      \* no password: no security properties
Short     == "short"     \* a password of fewer than 8 or more than 63 characters
Broken    == "broken"    \* a profile whose key-mgmt is missing
Blank     == "blank"     \* an empty ssid, or a payload that does not decode
NoProfile == "none"

ASSUME WifiConnectAssumption ==
    /\ Ssids \cap OldNames = {}
    /\ Blank \notin Ssids
    /\ Keys \cap {Open, Short, Broken} = {}
    /\ ApKey \in [Ssids -> Keys \cup {Open}]
    /\ \A p \in Saved : p.name \in Ssids \cup OldNames /\ p.ssid \in Ssids
    /\ \A p \in Saved : p.key \in Keys \cup {Open, Broken}
    /\ \A p \in Saved : p = [by |-> p.by, name |-> p.name, ssid |-> p.ssid, key |-> p.key]
    /\ \A p \in Saved : p.by \notin Requests \cup {NoProfile}
    /\ \A p, q \in Saved : p.by = q.by => p = q
    /\ NoProfile \notin Requests
    /\ Altered \subseteq Ssids
    /\ Overlap \in BOOLEAN
    /\ MaxFaults \in Nat

Names == Ssids \cup OldNames

Profiles == [by : Requests \cup {p.by : p \in Saved}, name : Names, ssid : Ssids,
             key : Keys \cup {Open, Broken}]

Payloads == [ssid : Ssids \cup {Blank}, key : Keys \cup {Open, Short}]

VARIABLES
    profiles,   \* NetworkManager's profiles; "by" identifies one, like its UUID
    active,     \* the profile the interface is connected with, or NoProfile
    pc,         \* pc[r]: the nmcli process the handler of r awaits
    req,        \* req[r]: the payload of r
    holder,     \* history: the request whose "up" has connected the interface, while
                \* its handler is not told yet and nothing has changed the connection
    alone,      \* history: the requests that no other one has overlapped so far
    smooth,     \* history: the requests for which no listing, reading or deletion of
                \* profiles has failed so far
    todo,       \* todo[r]: candidates whose ssid is still to be read
    stale,      \* stale[r]: matching names still to be deleted
    verdict,    \* verdict[r]: none, or the result pushed: ok, failed; or raised
    faults      \* how many failures have happened

nm   == <<profiles, active, holder>>
vars == <<nm, pc, req, alone, smooth, todo, stale, verdict, faults>>

\* The nmcli awaited; "up" is "risen" or "fallen" once NetworkManager is done with
\* it and nmcli is still to end, or its output to be read.
Checked == {"adding", "verifying", "modifying", "rising", "risen", "fallen"}
Awaits  == {"iface", "listing", "reading", "wiping"} \cup Checked

TypeOK ==
    /\ profiles \subseteq Profiles
    /\ active \in {p.by : p \in profiles} \cup {NoProfile}
    /\ pc \in [Requests -> {"idle", "refreshing", "done"} \cup Awaits]
    /\ req \in [Requests -> Payloads]
    /\ \A r \in Requests : pc[r] \in Checked => req[r].key # Short
    /\ holder \in Requests \cup {NoProfile}
    /\ alone \subseteq Requests
    /\ smooth \subseteq Requests
    /\ todo \in [Requests -> SUBSET Names]
    /\ stale \in [Requests -> SUBSET Names]
    /\ verdict \in [Requests -> {"none", "ok", "failed", "raised"}]
    /\ faults \in 0..MaxFaults

Init ==
    /\ profiles = Saved
    /\ active \in {p.by : p \in {q \in Saved : q.key = ApKey[q.ssid]}} \cup {NoProfile}
    /\ pc = [r \in Requests |-> "idle"]
    /\ req = [r \in Requests |-> [ssid |-> Blank, key |-> Open]]
    /\ holder = NoProfile
    /\ alone = Requests
    /\ smooth = Requests
    /\ todo = [r \in Requests |-> {}]
    /\ stale = [r \in Requests |-> {}]
    /\ verdict = [r \in Requests |-> "none"]
    /\ faults = 0

-----------------------------------------------------------------------------
(* NetworkManager.  A name may be that of several profiles: "show" prints   *)
(* each of them, "delete" deletes each, "modify" and "up" take one.         *)

Named(n) == {p \in profiles : p.name = n}

Delete(n) ==
    /\ profiles' = profiles \ Named(n)
    /\ IF active \in {p.by : p \in Named(n)}
       THEN active' = NoProfile /\ holder' = NoProfile
       ELSE UNCHANGED <<active, holder>>

\* Mutant of Add: every profile gets one and the same name.
AddFixedName(r, key) ==
    /\ profiles' = profiles \cup
         {[by |-> r, name |-> CHOOSE s \in Ssids : TRUE, ssid |-> req[r].ssid, key |-> key]}
    /\ UNCHANGED <<active, holder>>

Add(r, key) ==
    /\ profiles' = profiles \cup
         {[by |-> r, name |-> req[r].ssid, ssid |-> req[r].ssid, key |-> key]}
    /\ UNCHANGED <<active, holder>>

SetKey(p, key) ==
    /\ profiles' = (profiles \ {p}) \cup {[p EXCEPT !.key = key]}
    /\ holder' = IF p.by = active THEN NoProfile ELSE holder
    /\ UNCHANGED active

Activates(p) == p.key = ApKey[p.ssid]

\* An activation takes the interface from whatever it was connected with.
Activate(p, h) ==
    /\ active' = IF Activates(p) THEN p.by ELSE NoProfile
    /\ holder' = h
    /\ UNCHANGED profiles

-----------------------------------------------------------------------------
(* The handler. *)

Await(r, next) ==
    /\ pc' = [pc EXCEPT ![r] = next]
    /\ UNCHANGED verdict

\* _push_result, before the handler returns and the write is answered.
Fail(r) ==
    /\ pc' = [pc EXCEPT ![r] = "done"]
    /\ verdict' = [verdict EXCEPT ![r] = "failed"]

Succeed(r) ==
    /\ pc' = [pc EXCEPT ![r] = "refreshing"]
    /\ verdict' = [verdict EXCEPT ![r] = "ok"]

\* A failure the profiles do not explain: D-Bus, signal, permissions.
Fault  == faults < MaxFaults /\ faults' = faults + 1
NoFault == UNCHANGED faults

\* The same for a listing, a reading or a deletion of profiles.
Missed(r) == Fault /\ smooth' = smooth \ {r}
Smoothly  == NoFault /\ UNCHANGED smooth

\* Mutant of Proceed: the length of the password is not checked.
ProceedUnchecked(r, candidates, matches) ==
    /\ todo' = [todo EXCEPT ![r] = candidates]
    /\ stale' = [stale EXCEPT ![r] = matches]
    /\ CASE candidates # {} -> Await(r, "reading")
         [] candidates = {} /\ matches # {} -> Await(r, "wiping")
         [] OTHER -> Await(r, "adding")

\* The next await of the pipeline: a candidate to read, a name to delete, or
\* the new profile to add; a password of a bad length is noticed only then.
Proceed(r, candidates, matches) ==
    /\ todo' = [todo EXCEPT ![r] = candidates]
    /\ stale' = [stale EXCEPT ![r] = matches]
    /\ CASE candidates # {} -> Await(r, "reading")
         [] candidates = {} /\ matches # {} -> Await(r, "wiping")
         [] OTHER -> IF req[r].key = Short THEN Fail(r) ELSE Await(r, "adding")

\* The requests that are being served.
Served == {q \in Requests : pc[q] \notin {"idle", "done"}}

WriteConnect(r) ==
    /\ pc[r] = "idle"
    /\ Overlap \/ Served = {}
    /\ alone' = IF Served = {} THEN alone ELSE alone \ (Served \cup {r})
    /\ \E p \in Payloads :
         /\ req' = [req EXCEPT ![r] = p]
         /\ IF p.ssid = Blank THEN Fail(r) ELSE Await(r, "iface")
    /\ UNCHANGED <<nm, smooth, todo, stale, faults>>

\* When nmcli fails the fallback interface is taken.
IfaceKnown(r) ==
    /\ pc[r] = "iface"
    /\ Await(r, "listing")
    /\ UNCHANGED <<nm, req, alone, smooth, todo, stale, faults>>

\* Mutant of ProfilesListed: only the profile named after the ssid is a candidate.
ProfileNamedAfter(r) ==
    /\ pc[r] = "listing"
    /\ NoFault
    /\ Proceed(r, {p.name : p \in Named(req[r].ssid)}, {})
    /\ UNCHANGED <<nm, req, alone, smooth>>

\* When nmcli fails, no profile is a candidate.
ProfilesListed(r) ==
    /\ pc[r] = "listing"
    /\ \/ Smoothly /\ Proceed(r, {p.name : p \in profiles}, {})
       \/ Missed(r) /\ Proceed(r, {}, {})
    /\ UNCHANGED <<nm, req, alone>>

\* Mutants of Matches: the name is compared, not the ssid; any line of the
\* output is enough.
MatchesName(r, n) == n = req[r].ssid

MatchesAnyLine(r, n) == req[r].ssid \in {p.ssid : p \in Named(n)}

\* The output is the ssid only if one profile has the name, and nothing in the
\* ssid is escaped: unlike the names, it does not go through _parse_terse.
Matches(r, n) ==
    /\ {p.ssid : p \in Named(n)} = {req[r].ssid}
    /\ Cardinality(Named(n)) = 1
    /\ req[r].ssid \notin Altered

SsidRead(r) ==
    /\ pc[r] = "reading"
    /\ \E n \in todo[r] :
         \/ /\ Smoothly
            /\ Proceed(r, todo[r] \ {n},
                       IF Matches(r, n) THEN stale[r] \cup {n} ELSE stale[r])
         \/ Missed(r) /\ Proceed(r, todo[r] \ {n}, stale[r])
    /\ UNCHANGED <<nm, req, alone>>

\* Mutant of Wiped: a deletion that fails is tried again.
WipedRetries(r) ==
    /\ pc[r] = "wiping"
    /\ \E n \in stale[r] :
         /\ Named(n) # {}
         /\ Proceed(r, {}, stale[r] \ {n})
         /\ Delete(n)
    /\ UNCHANGED <<req, alone, smooth, faults>>

\* A failed deletion is only logged.
Wiped(r) ==
    /\ pc[r] = "wiping"
    /\ \E n \in stale[r] :
         /\ Proceed(r, {}, stale[r] \ {n})
         /\ \/ Smoothly /\ Delete(n)
            \/ Missed(r) /\ UNCHANGED nm
    /\ UNCHANGED <<req, alone>>

\* The verification is for networks with a password only.
Added(r) ==
    /\ pc[r] = "adding"
    /\ \/ /\ NoFault
          /\ Add(r, req[r].key)
          /\ Await(r, IF req[r].key = Open THEN "rising" ELSE "verifying")
       \/ /\ Fault /\ req[r].key # Open
          /\ Add(r, Broken)
          /\ Await(r, "verifying")
       \/ Fault /\ UNCHANGED nm /\ Fail(r)
    /\ UNCHANGED <<req, alone, smooth, todo, stale>>

\* key-mgmt is read by name, and is "wpa-psk" if one profile has the name.
Verifies(r) ==
    /\ Cardinality(Named(req[r].ssid)) = 1
    /\ \A p \in Named(req[r].ssid) : p.key \in Keys

Verified(r) ==
    /\ pc[r] = "verifying"
    /\ \/ NoFault /\ Await(r, IF Verifies(r) THEN "rising" ELSE "modifying")
       \/ Fault /\ Await(r, "modifying")
    /\ UNCHANGED <<nm, req, alone, smooth, todo, stale>>

\* Whatever becomes of the modification, the profile is brought up.
Modified(r) ==
    /\ pc[r] = "modifying"
    /\ Await(r, "rising")
    /\ \/ NoFault /\ \E p \in Named(req[r].ssid) : SetKey(p, req[r].key)
       \/ NoFault /\ Named(req[r].ssid) = {} /\ UNCHANGED nm
       \/ Fault /\ UNCHANGED nm
    /\ UNCHANGED <<req, alone, smooth, todo, stale>>

\* NetworkManager activates the profile, or fails to, while nmcli is awaited.
Rises(r) ==
    /\ pc[r] = "rising"
    /\ \/ /\ NoFault
          /\ \E p \in Named(req[r].ssid) :
               IF Activates(p) THEN Activate(p, r) /\ Await(r, "risen")
                               ELSE Activate(p, NoProfile) /\ Await(r, "fallen")
       \/ NoFault /\ Named(req[r].ssid) = {} /\ UNCHANGED nm /\ Await(r, "fallen")
       \/ /\ Fault /\ Await(r, "fallen")
          /\ active' = NoProfile /\ holder' = NoProfile /\ UNCHANGED profiles
    /\ UNCHANGED <<req, alone, smooth, todo, stale>>

\* The handler is told, and tells.
Leaves(r) == holder' = IF holder = r THEN NoProfile ELSE holder

\* Mutant of Up: the exit code of nmcli is not looked at.
UpUnchecked(r) ==
    /\ pc[r] \in {"risen", "fallen"}
    /\ Succeed(r)
    /\ Leaves(r)
    /\ UNCHANGED <<profiles, active, req, alone, smooth, todo, stale, faults>>

\* Later, nmcli has ended; its exit code decides.
Up(r) ==
    /\ pc[r] \in {"risen", "fallen"}
    /\ IF pc[r] = "risen" THEN Succeed(r) ELSE Fail(r)
    /\ Leaves(r)
    /\ UNCHANGED <<profiles, active, req, alone, smooth, todo, stale, faults>>

\* nmcli takes too long and is killed: WifiError, at any await.  What it had
\* asked of NetworkManager may have been done all the same.
TimesOut(r) ==
    /\ pc[r] \in Awaits
    /\ Fault
    /\ Fail(r)
    /\ \/ UNCHANGED <<profiles, active>> /\ Leaves(r)
       \/ pc[r] = "wiping" /\ \E n \in stale[r] : Delete(n)
       \/ pc[r] = "adding" /\ Add(r, req[r].key)
       \/ pc[r] = "modifying" /\ \E p \in Named(req[r].ssid) : SetKey(p, req[r].key)
       \/ pc[r] = "rising" /\ \E p \in Named(req[r].ssid) : Activate(p, NoProfile)
    /\ UNCHANGED <<req, alone, smooth, todo, stale>>

\* nmcli cannot be started: OSError answers the write, and no result is pushed.
Raises(r) ==
    /\ pc[r] \in Awaits \ {"risen", "fallen"}
    /\ Fault
    /\ pc' = [pc EXCEPT ![r] = "done"]
    /\ verdict' = [verdict EXCEPT ![r] = "raised"]
    /\ UNCHANGED <<nm, req, alone, smooth, todo, stale>>

\* The status and address refresh that follows a success, then the answer.
Refreshed(r) ==
    /\ pc[r] = "refreshing"
    /\ Await(r, "done")
    /\ UNCHANGED <<nm, req, alone, smooth, todo, stale, faults>>

-----------------------------------------------------------------------------

Pipeline(r) ==
    \/ IfaceKnown(r) \/ ProfilesListed(r) \/ SsidRead(r) \/ Wiped(r)
    \/ Added(r) \/ Verified(r) \/ Modified(r) \/ Rises(r) \/ Up(r)
    \/ TimesOut(r) \/ Raises(r) \/ Refreshed(r)

AllAnswered ==
    /\ \A r \in Requests : pc[r] = "done"
    /\ UNCHANGED vars

Next ==
    \/ \E r \in Requests : WriteConnect(r) \/ Pipeline(r)
    \/ AllAnswered

Spec == Init /\ [][Next]_vars

\* Every nmcli is given a time, after which it is killed.
FairSpec == Spec /\ \A r \in Requests : WF_vars(Pipeline(r))

-----------------------------------------------------------------------------
(* Properties. *)

\* The saved profiles named after a network are profiles of that network.
NoClash == \A p \in Saved : p.name \in Ssids => p.ssid = p.name

\* A profile found by the name of a network is a profile of that network:
\* what "up" and "modify" by name rely on (wifi.py:300-318).
NamesFollowSsids == \A p \in profiles : p.name \in Ssids => p.ssid = p.name

\* The interface is on the network that r asked for, with a key that works.
Joined(r) ==
    \E p \in profiles : p.by = active /\ p.ssid = req[r].ssid /\ Activates(p)

\* An ok result is pushed only when the interface is on the network the request
\* asked for, with a key that works, unless another request has changed the
\* connection since its own "up" has made it; that can be only if another one
\* has overlapped (wifi.py:225, 316-320; service.py:194-198).
OkMeansJoined ==
    [][\A r \in Requests : verdict[r] # "ok" /\ verdict'[r] = "ok" =>
         Joined(r)' \/ (holder # r /\ r \notin alone)]_vars

\* Only a request for its own network deletes or changes a profile: the
\* profiles of the other networks survive (wifi.py:253-265, 300-312).
OthersUntouched ==
    [][\A p \in profiles : p \in profiles' \/
         \E r \in Requests : pc[r] \in {"wiping", "modifying"} /\ req[r].ssid = p.ssid]_vars

\* The profiles of the network of r whose name is that of no other profile.
Distinct(r) == {p \in profiles : p.ssid = req[r].ssid /\ Named(p.name) = {p}}

\* For a request that no other has overlapped and that nmcli has listed, read and
\* deleted the profiles for, an ssid printed as it is, step 1 of the pipeline
\* leaves no profile of the network but those that share their name with another
\* one (wifi.py:170-188, 229-233, 258-265).
WipesDistinct ==
    [][\A r \in (alone \cap smooth)' :
         pc[r] # "adding" /\ pc'[r] = "adding" /\ req[r].ssid \notin Altered =>
           Distinct(r)' = {}]_vars

\* When such a request ends ok, whether or not its profile was added without a
\* key-mgmt that had to be set, or could not be read back, its fresh profile is
\* there, is the only one of the network but for those that share their name with
\* another one, and has the key that was given unless it shares its own name
\* (wifi.py:229-243, 291-320).
FreshProfileWins ==
    [][\A r \in (alone \cap smooth)' :
         verdict[r] # "ok" /\ verdict'[r] = "ok" /\ req[r].ssid \notin Altered =>
           \E p \in profiles' :
             /\ p.by = r /\ p.name = req[r].ssid /\ p.ssid = req[r].ssid
             /\ Distinct(r)' \subseteq {p}
             /\ p \in Distinct(r)' => p.key = req[r].key]_vars

\* Step 1 of the pipeline wipes every existing profile of the ssid before the
\* new one is added (wifi.py:229-233).
WipesEvery ==
    [][\A r \in Requests : pc[r] # "adding" /\ pc'[r] = "adding" =>
         \A p \in profiles' : p.ssid # req[r].ssid]_vars

\* Every write is answered: the loops of the pipeline end, whatever another
\* request does to the profiles meanwhile (wifi.py:162-188, 262-265).
ConnectAnswered == \A r \in Requests : pc[r] \in Awaits ~> pc[r] = "done"
=============================================================================
