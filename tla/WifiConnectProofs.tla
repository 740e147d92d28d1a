------------------------- MODULE WifiConnectProofs -------------------------
(***************************************************************************)
(* What TLAPS proves of WifiConnect, for every set of requests, networks,  *)
(* passwords and saved profiles, with or without overlapping writes and    *)
(* whatever fails: the variables keep their types; when no saved profile   *)
(* bears the name of another network, an ok means that the network asked   *)
(* for is joined, unless another request has since changed the connection, *)
(* and the other networks' profiles survive; and a request served alone,   *)
(* whose listing and deleting of profiles has not failed, ends ok with its *)
(* fresh profile as the only one of the network with a name of its own.    *)
(***************************************************************************)
EXTENDS WifiConnect, FiniteSetTheorems, TLAPS

\* What the pipeline knows of its request at each await.
RequestInv ==
    \A r \in Requests :
        /\ pc[r] = "idle" => stale[r] = {}
        /\ pc[r] \in Awaits => req[r].ssid \in Ssids
        /\ pc[r] \in Checked => req[r].key # Short

\* A name to be deleted is, and stays, that of profiles of the ssid only: a
\* profile added meanwhile under this name is one of the same network.
StaleInv ==
    \A r \in Requests : \A n \in stale[r] :
        /\ n \in Ssids => n = req[r].ssid
        /\ \A p \in profiles : p.name = n => p.ssid = req[r].ssid

TypeInv == TypeOK /\ RequestInv
NameInv == TypeInv /\ NamesFollowSsids /\ StaleInv

-----------------------------------------------------------------------------
(* What the commands do to NetworkManager's state keeps its type. *)

NmOK ==
    /\ profiles \subseteq Profiles
    /\ active \in {p.by : p \in profiles} \cup {NoProfile}
    /\ holder \in Requests \cup {NoProfile}

ProfileKeys == Keys \cup {Open, Broken}

LEMMA DeleteType == ASSUME NmOK, NEW n, Delete(n) PROVE NmOK'
BY DEF NmOK, Delete, Named

LEMMA AddType ==
    ASSUME NmOK, NEW r \in Requests, req[r].ssid \in Ssids,
           NEW key \in ProfileKeys, Add(r, key)
    PROVE  NmOK'
BY DEF NmOK, Add, Profiles, Names, ProfileKeys

LEMMA SetKeyType ==
    ASSUME NmOK, NEW p \in profiles, NEW key \in ProfileKeys, SetKey(p, key)
    PROVE  NmOK'
<1> DEFINE q == [p EXCEPT !.key = key]
<1>1. p \in Profiles /\ q \in Profiles /\ q.by = p.by
  BY DEF NmOK, Profiles, ProfileKeys
<1>2. profiles' = (profiles \ {p}) \cup {q} /\ active' = active
      /\ holder' \in {holder, NoProfile}
  BY DEF SetKey
<1>3. \A o \in profiles : \E o2 \in profiles' : o2.by = o.by
  BY <1>1, <1>2
<1> HIDE DEF q
<1> QED
  BY <1>1, <1>2, <1>3 DEF NmOK

LEMMA ActivateType ==
    ASSUME NmOK, NEW p \in profiles, NEW h \in Requests \cup {NoProfile}, Activate(p, h)
    PROVE  NmOK'
BY DEF NmOK, Activate

-----------------------------------------------------------------------------
(* The handlers' variables. *)

HandlerOK ==
    /\ pc \in [Requests -> {"idle", "refreshing", "done"} \cup Awaits]
    /\ req \in [Requests -> Payloads]
    /\ alone \subseteq Requests
    /\ smooth \subseteq Requests
    /\ todo \in [Requests -> SUBSET Names]
    /\ stale \in [Requests -> SUBSET Names]
    /\ verdict \in [Requests -> {"none", "ok", "failed", "raised"}]

LEMMA TypeParts ==
    TypeInv <=> NmOK /\ HandlerOK /\ RequestInv /\ faults \in 0..MaxFaults
BY DEF TypeInv, TypeOK, RequestInv, NmOK, HandlerOK

\* faults only counts up to its bound.
LEMMA FaultsType ==
    ASSUME faults \in 0..MaxFaults, Fault \/ UNCHANGED faults
    PROVE  faults' \in 0..MaxFaults
BY WifiConnectAssumption DEF Fault

\* A step of the pipeline that keeps its names and moves to an await, or ends.
LEMMA MoveType ==
    ASSUME HandlerOK, RequestInv, NEW r \in Requests, pc[r] \in Awaits,
           NEW next \in {"refreshing", "done"} \cup Awaits,
           pc' = [pc EXCEPT ![r] = next],
           next \in Checked => req[r].key # Short,
           verdict' \in [Requests -> {"none", "ok", "failed", "raised"}],
           UNCHANGED <<req, alone, smooth, todo, stale>>
    PROVE  HandlerOK' /\ RequestInv'
BY DEF HandlerOK, RequestInv, Awaits, Checked

LEMMA ProceedType ==
    ASSUME HandlerOK, RequestInv, NEW r \in Requests, pc[r] \in Awaits,
           NEW candidates \in SUBSET Names, NEW matches \in SUBSET Names,
           Proceed(r, candidates, matches), UNCHANGED <<req, alone>>,
           smooth' \subseteq smooth
    PROVE  HandlerOK' /\ RequestInv'
<1> USE DEF HandlerOK, RequestInv, Awaits, Checked
<1>1. /\ todo' = [todo EXCEPT ![r] = candidates]
      /\ stale' = [stale EXCEPT ![r] = matches]
  BY DEF Proceed
<1>2. PICK next \in {"reading", "wiping", "adding", "done"} :
        /\ pc' = [pc EXCEPT ![r] = next]
        /\ next = "adding" => req[r].key # Short
  BY DEF Proceed, Await, Fail
<1>3. verdict' \in [Requests -> {"none", "ok", "failed", "raised"}]
  BY DEF Proceed, Await, Fail
<1> QED
  BY <1>1, <1>2, <1>3

-----------------------------------------------------------------------------
(* Type correctness. *)

LEMMA TypeInit == Init => TypeInv
<1> SUFFICES ASSUME Init PROVE TypeInv
  OBVIOUS
<1>1. ASSUME NEW p \in Saved
      PROVE  p \in Profiles
  <2>1. /\ p = [by |-> p.by, name |-> p.name, ssid |-> p.ssid, key |-> p.key]
        /\ p.by \in {q.by : q \in Saved} /\ p.name \in Names /\ p.ssid \in Ssids
        /\ p.key \in ProfileKeys
    BY WifiConnectAssumption DEF Names, ProfileKeys
  <2>2. p.by \in Requests \cup {q.by : q \in Saved}
    BY <2>1
  <2>3. p.name \in Names /\ p.ssid \in Ssids /\ p.key \in ProfileKeys
    BY <2>1
  <2> QED
    BY <2>1, <2>2, <2>3 DEF Profiles, ProfileKeys
<1>2. NmOK
  BY <1>1 DEF Init, NmOK
<1>3. HandlerOK
  BY DEF Init, HandlerOK, Payloads
<1>4. faults \in 0..MaxFaults
  BY WifiConnectAssumption DEF Init
<1>5. RequestInv
  BY DEF Init, RequestInv, Awaits, Checked
<1> QED
  BY <1>2, <1>3, <1>4, <1>5, TypeParts DEF TypeInv

\* A step of the pipeline of r keeps the types and RequestInv.
LEMMA TypePipeline ==
    ASSUME TypeInv, NEW r \in Requests, Pipeline(r)
    PROVE  TypeInv'
<1>1. NmOK /\ HandlerOK /\ faults \in 0..MaxFaults /\ RequestInv
  BY TypeParts
<1>2. SUFFICES NmOK' /\ HandlerOK' /\ faults' \in 0..MaxFaults /\ RequestInv'
  BY DEF TypeInv, TypeOK, RequestInv, NmOK, HandlerOK
<1>3. faults' \in 0..MaxFaults
  BY <1>1, FaultsType DEF Pipeline, IfaceKnown, ProfilesListed, SsidRead, Wiped,
     Added, Verified, Modified, Rises, Up, TimesOut, Raises, Refreshed, NoFault,
     Missed, Smoothly
<1>4. CASE IfaceKnown(r) \/ Verified(r)
  <2>1. PICK next \in Awaits : pc' = [pc EXCEPT ![r] = next] /\
               (next \in Checked => req[r].key # Short)
    BY <1>1, <1>4 DEF IfaceKnown, Verified, Await, Awaits, Checked, RequestInv
  <2>2. UNCHANGED <<nm, verdict, req, alone, smooth, todo, stale>> /\ pc[r] \in Awaits
    BY <1>4 DEF IfaceKnown, Verified, Await, Awaits, Checked
  <2> QED
    BY <1>1, <1>3, <2>1, <2>2, MoveType DEF NmOK, nm, HandlerOK
<1>5. CASE ProfilesListed(r)
  <2>1. {p.name : p \in profiles} \in SUBSET Names /\ {} \in SUBSET Names
    BY <1>1 DEF NmOK, Profiles
  <2>2. HandlerOK' /\ RequestInv'
    BY <1>1, <1>5, <2>1, ProceedType DEF ProfilesListed, Awaits, Missed, Smoothly
  <2> QED
    BY <1>1, <1>3, <1>5, <2>2 DEF ProfilesListed, NmOK, nm
<1>6. CASE SsidRead(r)
  <2>1. PICK n \in todo[r] :
          \/ Proceed(r, todo[r] \ {n}, stale[r] \cup {n})
          \/ Proceed(r, todo[r] \ {n}, stale[r])
    BY <1>6 DEF SsidRead
  <2>2. todo[r] \ {n} \in SUBSET Names /\ stale[r] \cup {n} \in SUBSET Names
        /\ stale[r] \in SUBSET Names
    BY <1>1 DEF HandlerOK
  <2>3. HandlerOK' /\ RequestInv'
    BY <1>1, <1>6, <2>1, <2>2, ProceedType DEF SsidRead, Awaits, Missed, Smoothly
  <2> QED
    BY <1>1, <1>3, <1>6, <2>3 DEF SsidRead, NmOK, nm
<1>7. CASE Wiped(r)
  <2>1. PICK n \in stale[r] : Proceed(r, {}, stale[r] \ {n}) /\ (Delete(n) \/ UNCHANGED nm)
    BY <1>7 DEF Wiped
  <2>2. stale[r] \ {n} \in SUBSET Names
    BY <1>1 DEF HandlerOK
  <2>3. HandlerOK' /\ RequestInv'
    BY <1>1, <1>7, <2>1, <2>2, ProceedType DEF Wiped, Awaits, Missed, Smoothly
  <2>4. NmOK'
    BY <1>1, <2>1, DeleteType DEF NmOK, nm
  <2> QED
    BY <1>3, <2>3, <2>4
<1>8. CASE Added(r)
  <2>1. /\ pc[r] \in Awaits /\ req[r].ssid \in Ssids /\ req[r].key # Short
        /\ req[r].key \in Keys \cup {Open}
    BY <1>1, <1>8 DEF Added, RequestInv, HandlerOK, Awaits, Checked, Payloads
  <2>2. NmOK'
    BY <1>1, <1>8, <2>1, AddType DEF Added, ProfileKeys, NmOK, nm
  <2>3. PICK next \in {"rising", "verifying", "done"} : pc' = [pc EXCEPT ![r] = next]
    BY <1>8 DEF Added, Await, Fail
  <2>4. verdict' \in [Requests -> {"none", "ok", "failed", "raised"}]
    BY <1>1, <1>8 DEF Added, Await, Fail, HandlerOK
  <2>5. UNCHANGED <<req, alone, smooth, todo, stale>>
    BY <1>8 DEF Added
  <2>6. HandlerOK' /\ RequestInv'
    BY <1>1, <2>1, <2>3, <2>4, <2>5, MoveType DEF Awaits, Checked
  <2> QED
    BY <1>3, <2>2, <2>6
<1>9. CASE Modified(r)
  <2>1. /\ pc[r] \in Awaits /\ req[r].key # Short /\ req[r].key \in ProfileKeys
        /\ pc' = [pc EXCEPT ![r] = "rising"] /\ UNCHANGED verdict
    BY <1>1, <1>9 DEF Modified, Await, RequestInv, HandlerOK, Awaits, Checked, Payloads, ProfileKeys
  <2>2. NmOK'
    BY <1>1, <1>9, <2>1, SetKeyType DEF Modified, Named, NmOK, nm
  <2>3. UNCHANGED <<req, alone, smooth, todo, stale>>
    BY <1>9 DEF Modified
  <2>4. HandlerOK' /\ RequestInv'
    BY <1>1, <2>1, <2>3, MoveType DEF Awaits, Checked, HandlerOK
  <2> QED
    BY <1>3, <2>2, <2>4
<1>10. CASE Rises(r)
  <2>1. PICK next \in {"risen", "fallen"} : pc' = [pc EXCEPT ![r] = next]
    BY <1>10 DEF Rises, Await
  <2>2. /\ pc[r] \in Awaits /\ req[r].key # Short
        /\ UNCHANGED <<verdict, req, alone, smooth, todo, stale>>
    BY <1>1, <1>10 DEF Rises, Await, Awaits, Checked, RequestInv
  <2>3. HandlerOK' /\ RequestInv'
    BY <1>1, <2>1, <2>2, MoveType DEF Awaits, Checked, HandlerOK
  <2>4. NmOK'
    BY <1>1, <1>10, ActivateType DEF Rises, Named, NmOK, nm
  <2> QED
    BY <1>3, <2>3, <2>4
<1>11. CASE Up(r)
  <2>1. NmOK'
    BY <1>1, <1>11 DEF Up, Leaves, NmOK
  <2>2. pc[r] \in Awaits /\ UNCHANGED <<req, alone, smooth, todo, stale>>
    BY <1>11 DEF Up, Awaits, Checked
  <2>3. PICK next \in {"refreshing", "done"} : pc' = [pc EXCEPT ![r] = next]
    BY <1>11 DEF Up, Succeed, Fail
  <2>4. verdict' \in [Requests -> {"none", "ok", "failed", "raised"}]
    BY <1>1, <1>11 DEF Up, Succeed, Fail, HandlerOK
  <2>5. HandlerOK' /\ RequestInv'
    BY <1>1, <2>2, <2>3, <2>4, MoveType DEF Checked
  <2> QED
    BY <1>3, <2>1, <2>5
<1>12. CASE TimesOut(r) \/ Raises(r)
  <2>1. /\ pc[r] \in Awaits /\ UNCHANGED <<req, alone, smooth, todo, stale>>
        /\ pc' = [pc EXCEPT ![r] = "done"]
    BY <1>12 DEF TimesOut, Raises, Fail
  <2>2. verdict' \in [Requests -> {"none", "ok", "failed", "raised"}]
    BY <1>1, <1>12 DEF TimesOut, Raises, Fail, HandlerOK
  <2>3. HandlerOK' /\ RequestInv'
    BY <1>1, <2>1, <2>2, MoveType DEF Checked
  <2>4. /\ req[r].ssid \in Ssids
        /\ pc[r] \in {"adding", "modifying"} => req[r].key \in ProfileKeys
    BY <1>1, <2>1 DEF RequestInv, HandlerOK, Payloads, Checked, ProfileKeys
  <2>5. \/ UNCHANGED <<profiles, active>> /\ holder' \in {holder, NoProfile}
        \/ \E n \in stale[r] : Delete(n)
        \/ pc[r] = "adding" /\ Add(r, req[r].key)
        \/ pc[r] = "modifying" /\ \E p \in Named(req[r].ssid) : SetKey(p, req[r].key)
        \/ \E p \in Named(req[r].ssid) : Activate(p, NoProfile)
    BY <1>12 DEF TimesOut, Raises, Leaves, nm
  <2>6. NmOK'
    BY <1>1, <2>4, <2>5, DeleteType, AddType, SetKeyType, ActivateType
       DEF Named, NmOK, nm
  <2> QED
    BY <1>3, <2>3, <2>6
<1>13. CASE Refreshed(r)
  BY <1>1, <1>3, <1>13 DEF Refreshed, Await, NmOK, nm, HandlerOK, RequestInv, Awaits, Checked
<1> QED
  BY <1>4, <1>5, <1>6, <1>7, <1>8, <1>9, <1>10, <1>11, <1>12, <1>13 DEF Pipeline

LEMMA TypeStep == TypeInv /\ [Next]_vars => TypeInv'
<1> SUFFICES ASSUME TypeInv, [Next]_vars
             PROVE  TypeInv'
  OBVIOUS
<1>1. ASSUME NEW r \in Requests, WriteConnect(r)
      PROVE  TypeInv'
  <2>1. PICK p \in Payloads :
          /\ req' = [req EXCEPT ![r] = p]
          /\ IF p.ssid = Blank THEN Fail(r) ELSE Await(r, "iface")
    BY <1>1 DEF WriteConnect
  <2>2. p.ssid # Blank => p.ssid \in Ssids
    BY DEF Payloads
  <2>3. UNCHANGED <<nm, smooth, todo, stale, faults>>
    BY <1>1 DEF WriteConnect
  <2>4. alone' \subseteq Requests
    BY <1>1 DEF WriteConnect, TypeInv, TypeOK
  <2> QED
    BY <2>1, <2>2, <2>3, <2>4 DEF TypeInv, TypeOK, RequestInv, Fail, Await, Awaits, Checked, nm
<1>2. CASE UNCHANGED vars
  BY <1>2 DEF vars, nm, TypeInv, TypeOK, RequestInv
<1> QED
  BY <1>1, <1>2, TypePipeline DEF Next, AllAnswered

\* The profiles, the active profile and the handlers' variables keep their
\* types, however writes overlap and whatever nmcli does (wifi.py:220-322).
THEOREM TypeCorrect == Spec => []TypeOK
<1>1. Spec => []TypeInv
  BY TypeInit, TypeStep, PTL DEF Spec
<1>2. TypeInv => TypeOK
  BY DEF TypeInv
<1> QED
  BY <1>1, <1>2, PTL

-----------------------------------------------------------------------------
(* Names and networks. *)

\* Every profile a step leaves behind has the name and the network of one
\* there was, or is a new one named after its network.
LEMMA ProfileChange ==
    ASSUME TypeInv, NEW r \in Requests, Pipeline(r), NEW p \in profiles'
    PROVE  \/ \E o \in profiles : o.name = p.name /\ o.ssid = p.ssid
           \/ p.name \in Ssids /\ p.ssid = p.name
<1> DEFINE Known == \/ \E o \in profiles : o.name = p.name /\ o.ssid = p.ssid
                    \/ p.name \in Ssids /\ p.ssid = p.name
<1> SUFFICES Known
  OBVIOUS
<1>1. profiles \subseteq Profiles
  BY DEF TypeInv, TypeOK
<1>2. CASE UNCHANGED profiles
  BY <1>2
<1>3. ASSUME NEW n, Delete(n)
      PROVE  Known
  BY <1>3 DEF Delete
<1>4. ASSUME NEW key, pc[r] = "adding", Add(r, key)
      PROVE  Known
  <2>1. req[r].ssid \in Ssids
    BY <1>4 DEF TypeInv, RequestInv, Awaits, Checked
  <2> QED
    BY <1>4, <2>1 DEF Add
<1>5. ASSUME NEW o \in profiles, NEW key, SetKey(o, key)
      PROVE  Known
  <2>1. [o EXCEPT !.key = key].name = o.name /\ [o EXCEPT !.key = key].ssid = o.ssid
    BY <1>1 DEF Profiles
  <2> QED
    BY <1>5, <2>1 DEF SetKey
<1>6. CASE IfaceKnown(r) \/ ProfilesListed(r) \/ SsidRead(r) \/ Verified(r)
           \/ Raises(r) \/ Refreshed(r)
  BY <1>2, <1>6 DEF IfaceKnown, ProfilesListed, SsidRead, Verified, Raises, Refreshed, nm
<1>7. CASE Wiped(r)
  BY <1>2, <1>3, <1>7 DEF Wiped, nm
<1>8. CASE Added(r)
  BY <1>2, <1>4, <1>8 DEF Added, nm
<1>9. CASE Modified(r)
  BY <1>2, <1>5, <1>9 DEF Modified, Named, nm
<1>10. CASE Rises(r) \/ Up(r)
  BY <1>2, <1>10 DEF Rises, Up, Activate, nm
<1>11. CASE TimesOut(r)
  BY <1>2, <1>3, <1>4, <1>5, <1>11 DEF TimesOut, Activate, Named, nm
<1> QED
  BY <1>6, <1>7, <1>8, <1>9, <1>10, <1>11 DEF Pipeline

\* A step adds a name to those to be deleted only if it matches.
LEMMA StaleChange ==
    ASSUME TypeInv, NEW r \in Requests, Pipeline(r)
    PROVE  /\ UNCHANGED <<req, alone>>
           /\ \A q \in Requests : \A n \in stale'[q] :
                n \in stale[q] \/ (q = r /\ Matches(r, n))
<1>1. UNCHANGED <<req, alone>>
  BY DEF Pipeline, IfaceKnown, ProfilesListed, SsidRead, Wiped, Added, Verified,
     Modified, Rises, Up, TimesOut, Raises, Refreshed
<1>2. stale \in [Requests -> SUBSET Names]
  BY DEF TypeInv, TypeOK
<1>3. SUFFICES ASSUME NEW q \in Requests, NEW n \in stale'[q]
               PROVE  n \in stale[q] \/ (q = r /\ Matches(r, n))
  BY <1>1
<1>4. CASE UNCHANGED stale
  BY <1>4
<1>5. CASE ProfilesListed(r)
  <2>1. stale' = [stale EXCEPT ![r] = {}]
    BY <1>5 DEF ProfilesListed, Proceed
  <2> QED
    BY <1>2, <2>1
<1>6. CASE SsidRead(r)
  <2>1. PICK m \in todo[r] :
          \/ stale' = [stale EXCEPT ![r] =
                         IF Matches(r, m) THEN stale[r] \cup {m} ELSE stale[r]]
          \/ stale' = [stale EXCEPT ![r] = stale[r]]
    BY <1>6 DEF SsidRead, Proceed
  <2> QED
    BY <1>2, <2>1
<1>7. CASE Wiped(r)
  <2>1. PICK m \in stale[r] : stale' = [stale EXCEPT ![r] = stale[r] \ {m}]
    BY <1>7 DEF Wiped, Proceed
  <2> QED
    BY <1>2, <2>1
<1> QED
  BY <1>4, <1>5, <1>6, <1>7 DEF Pipeline, IfaceKnown, Added, Verified, Modified,
     Rises, Up, TimesOut, Raises, Refreshed

LEMMA NameInit == ASSUME NoClash PROVE Init => NameInv
BY TypeInit DEF Init, NameInv, NamesFollowSsids, StaleInv, NoClash

LEMMA NameStep == NameInv /\ [Next]_vars => NameInv'
<1> SUFFICES ASSUME NameInv, [Next]_vars
             PROVE  NameInv'
  OBVIOUS
<1>1. TypeInv /\ TypeInv'
  BY TypeStep DEF NameInv
<1>2. ASSUME NEW r \in Requests, Pipeline(r)
      PROVE  NamesFollowSsids' /\ StaleInv'
  <2>1. NamesFollowSsids'
    BY <1>1, <1>2, ProfileChange DEF NameInv, NamesFollowSsids
  <2>2. ASSUME NEW q \in Requests, NEW n \in stale'[q]
        PROVE  /\ n \in Ssids => n = req[q].ssid
               /\ \A p \in profiles : p.name = n => p.ssid = req[q].ssid
    <3>1. CASE n \in stale[q]
      BY <3>1 DEF NameInv, StaleInv
    <3>2. CASE q = r /\ Matches(r, n)
      <4>1. \A p \in Named(n) : p.ssid = req[q].ssid
        BY <3>2 DEF Matches
      <4>2. PICK p \in Named(n) : TRUE
        BY <3>2 DEF Matches
      <4> QED
        BY <4>1, <4>2 DEF Named, NameInv, NamesFollowSsids
    <3> QED
      BY <1>1, <1>2, <2>2, <3>1, <3>2, StaleChange
  <2>3. UNCHANGED <<req, alone>>
    BY <1>1, <1>2, StaleChange
  <2>4. StaleInv'
    BY <1>1, <1>2, <2>2, <2>3, ProfileChange DEF StaleInv
  <2> QED
    BY <2>1, <2>4
<1>3. ASSUME NEW r \in Requests, WriteConnect(r)
      PROVE  NamesFollowSsids' /\ StaleInv'
  <2>1. stale[r] = {} /\ UNCHANGED <<profiles, stale>>
    BY <1>1, <1>3 DEF WriteConnect, TypeInv, RequestInv, nm
  <2>2. \A q \in Requests : q # r => req'[q] = req[q]
    BY <1>1, <1>3 DEF WriteConnect, TypeInv, TypeOK
  <2> QED
    BY <2>1, <2>2 DEF NameInv, NamesFollowSsids, StaleInv
<1>4. ASSUME UNCHANGED vars
      PROVE  NamesFollowSsids' /\ StaleInv'
  BY <1>4 DEF vars, nm, NameInv, NamesFollowSsids, StaleInv
<1>5. NamesFollowSsids' /\ StaleInv'
  BY <1>2, <1>3, <1>4 DEF Next, AllAnswered
<1> QED
  BY <1>1, <1>5 DEF NameInv

LEMMA NameInvariant == ASSUME NoClash PROVE Spec => []NameInv
<1>1. Init => NameInv
  BY NameInit
<1> QED
  BY <1>1, NameStep, PTL DEF Spec

\* If no saved profile bears the name of another network, none ever does: the
\* commands that take a name reach the network asked for (wifi.py:262-318).
THEOREM NamesReachTheirNetwork == ASSUME NoClash PROVE Spec => []NamesFollowSsids
<1>1. NameInv => NamesFollowSsids
  BY DEF NameInv
<1> QED
  BY <1>1, NameInvariant, PTL

\* If no saved profile bears the name of another network, a request deletes and
\* changes profiles of its own network only (wifi.py:253-265, 300-312).
THEOREM OthersSurvive == ASSUME NoClash PROVE Spec => OthersUntouched
<1>1. NameInv /\ [Next]_vars =>
        [\A p \in profiles : p \in profiles' \/
           \E r \in Requests : pc[r] \in {"wiping", "modifying"} /\ req[r].ssid = p.ssid]_vars
  <2> SUFFICES ASSUME NameInv, Next, NEW p \in profiles, p \notin profiles'
               PROVE  \E r \in Requests :
                        pc[r] \in {"wiping", "modifying"} /\ req[r].ssid = p.ssid
    OBVIOUS
  <2>1. PICK r \in Requests : Pipeline(r)
    BY DEF Next, AllAnswered, vars, nm, WriteConnect
  <2>2. \/ pc[r] = "wiping" /\ \E n \in stale[r] : Delete(n)
        \/ pc[r] = "modifying" /\ \E o \in Named(req[r].ssid) : SetKey(o, req[r].key)
    BY <2>1 DEF Pipeline, IfaceKnown, ProfilesListed, SsidRead, Wiped, Added,
       Verified, Modified, Rises, Up, TimesOut, Raises, Refreshed, Add, Activate, nm
  <2>3. CASE pc[r] = "wiping" /\ \E n \in stale[r] : Delete(n)
    BY <2>3 DEF Delete, Named, NameInv, StaleInv
  <2>4. CASE pc[r] = "modifying" /\ \E o \in Named(req[r].ssid) : SetKey(o, req[r].key)
    <3>1. p \in Named(req[r].ssid)
      BY <2>4 DEF SetKey
    <3>2. req[r].ssid \in Ssids
      BY <2>4 DEF NameInv, TypeInv, RequestInv, Awaits, Checked
    <3> QED
      BY <2>4, <3>1, <3>2 DEF Named, NameInv, NamesFollowSsids
  <2> QED
    BY <2>2, <2>3, <2>4
<1> QED
  BY <1>1, NameInvariant, PTL DEF Spec, OthersUntouched

-----------------------------------------------------------------------------
(* What the interface is connected with. *)

BeingServed(r) == pc[r] \notin {"idle", "done"}

\* A request that none has overlapped is the only one being served.
AloneInv ==
    \A r \in alone, q \in Requests : BeingServed(r) /\ BeingServed(q) => q = r

\* A step of the pipeline of r leaves the other handlers where they are.
LEMMA PipelineMoves ==
    ASSUME HandlerOK, NEW r \in Requests, Pipeline(r)
    PROVE  /\ BeingServed(r) /\ UNCHANGED <<req, alone>>
           /\ \A q \in Requests : q # r => pc'[q] = pc[q]
           /\ smooth' \subseteq smooth
<1>1. BeingServed(r) /\ UNCHANGED <<req, alone>> /\ smooth' \subseteq smooth
  BY DEF Pipeline, IfaceKnown, ProfilesListed, SsidRead, Wiped, Added, Verified,
         Modified, Rises, Up, TimesOut, Raises, Refreshed, Awaits, Checked,
         BeingServed, Missed, Smoothly
<1>2. ASSUME NEW candidates, NEW matches, Proceed(r, candidates, matches)
      PROVE  \A q \in Requests : q # r => pc'[q] = pc[q]
  <2>1. PICK next \in {"reading", "wiping", "adding", "done"} : pc' = [pc EXCEPT ![r] = next]
    BY <1>2 DEF Proceed, Await, Fail
  <2> QED
    BY <2>1 DEF HandlerOK
<1>3. CASE ProfilesListed(r) \/ SsidRead(r) \/ Wiped(r)
  BY <1>1, <1>2, <1>3 DEF ProfilesListed, SsidRead, Wiped
<1>4. CASE IfaceKnown(r) \/ Added(r) \/ Verified(r) \/ Modified(r) \/ Rises(r) \/ Up(r)
           \/ TimesOut(r) \/ Raises(r) \/ Refreshed(r)
  <2>1. \E next : pc' = [pc EXCEPT ![r] = next]
    BY <1>4 DEF IfaceKnown, Added, Verified, Modified, Rises, Up, TimesOut, Raises,
       Refreshed, Await, Fail, Succeed
  <2> QED
    BY <1>1, <2>1 DEF HandlerOK
<1> QED
  BY <1>1, <1>3, <1>4 DEF Pipeline

\* What the arrival of a request leaves alone.
LEMMA ConnectMoves ==
    ASSUME HandlerOK, NEW r \in Requests, WriteConnect(r)
    PROVE  /\ pc[r] = "idle" /\ UNCHANGED <<nm, smooth, todo, stale, faults>>
           /\ alone' = IF Served = {} THEN alone ELSE alone \ (Served \cup {r})
           /\ \A q \in Requests : q # r => pc'[q] = pc[q] /\ req'[q] = req[q]
           /\ pc'[r] \in {"iface", "done"}
BY DEF WriteConnect, Await, Fail, HandlerOK

\* Each action keeps it.
LEMMA AloneStep == TypeInv /\ AloneInv /\ [Next]_vars => AloneInv'
<1> SUFFICES ASSUME TypeInv, AloneInv, [Next]_vars
             PROVE  AloneInv'
  OBVIOUS
<1>0. HandlerOK /\ alone \subseteq Requests
  BY TypeParts DEF HandlerOK
<1>1. ASSUME NEW r \in Requests, Pipeline(r) PROVE AloneInv'
  BY <1>0, <1>1, PipelineMoves DEF AloneInv, BeingServed
<1>2. ASSUME NEW r \in Requests, WriteConnect(r) PROVE AloneInv'
  <2>1. CASE Served = {}
    BY <1>0, <1>2, <2>1, ConnectMoves DEF AloneInv, BeingServed, Served
  <2>2. CASE Served # {}
    BY <1>0, <1>2, <2>2, ConnectMoves DEF AloneInv, BeingServed, Served
  <2> QED
    BY <2>1, <2>2
<1>3. CASE UNCHANGED vars
  BY <1>3 DEF vars, AloneInv, BeingServed
<1> QED
  BY <1>1, <1>2, <1>3 DEF Next, AllAnswered

\* While the holder is not told, the interface is as its "up" has left it; and a
\* request that none has overlapped stays the holder.
HolderInv ==
    /\ holder # NoProfile => pc[holder] = "risen" /\ Joined(holder)
    /\ \A r \in alone : pc[r] = "risen" => holder = r

JoinInv == NameInv /\ AloneInv /\ HolderInv

\* A step that leaves the holder as it is leaves its connection as it is.
LEMMA ConnectionKept ==
    ASSUME TypeInv, NEW r \in Requests, Pipeline(r), ~Rises(r),
           holder' # NoProfile
    PROVE  /\ holder' = holder /\ active' = active
           /\ \A p \in profiles : p.by = active => p \in profiles'
<1> DEFINE Kept == /\ holder' = holder /\ active' = active
                   /\ \A p \in profiles : p.by = active => p \in profiles'
<1> SUFFICES Kept
  OBVIOUS
<1>1. CASE UNCHANGED nm
  BY <1>1 DEF nm
<1>2. ASSUME NEW n, Delete(n) PROVE Kept
  BY <1>2 DEF Delete, Named
<1>3. ASSUME NEW key, Add(r, key) PROVE Kept
  BY <1>3 DEF Add
<1>4. ASSUME NEW o, NEW key, SetKey(o, key) PROVE Kept
  BY <1>4 DEF SetKey
<1>5. CASE IfaceKnown(r) \/ ProfilesListed(r) \/ SsidRead(r) \/ Verified(r)
           \/ Raises(r) \/ Refreshed(r)
  BY <1>1, <1>5 DEF IfaceKnown, ProfilesListed, SsidRead, Verified, Raises, Refreshed
<1>6. CASE Wiped(r)
  BY <1>1, <1>2, <1>6 DEF Wiped
<1>7. CASE Added(r)
  BY <1>1, <1>3, <1>7 DEF Added
<1>8. CASE Modified(r)
  BY <1>1, <1>4, <1>8 DEF Modified
<1>9. CASE Up(r)
  BY <1>9 DEF Up, Leaves
<1>10. CASE TimesOut(r)
  BY <1>2, <1>3, <1>4, <1>10 DEF TimesOut, Leaves, Activate
<1> QED
  BY <1>5, <1>6, <1>7, <1>8, <1>9, <1>10 DEF Pipeline

\* A step of a request that is told leaves no holder behind.
LEMMA HolderTold ==
    ASSUME TypeInv, NEW r \in Requests, Pipeline(r), pc[r] = "risen", holder = r
    PROVE  holder' = NoProfile
BY DEF Pipeline, IfaceKnown, ProfilesListed, SsidRead, Wiped, Added, Verified,
   Modified, Rises, Up, TimesOut, Raises, Refreshed, Leaves

\* An "up" that connects the interface makes its request the holder.
LEMMA RisesJoins ==
    ASSUME NameInv, NEW r \in Requests, Rises(r)
    PROVE  \/ holder' = r /\ pc'[r] = "risen" /\ Joined(r)'
           \/ holder' = NoProfile /\ pc'[r] = "fallen"
           \/ holder' = holder /\ pc'[r] = "fallen" /\ UNCHANGED <<profiles, active>>
<1>1. /\ pc \in [Requests -> {"idle", "refreshing", "done"} \cup Awaits]
      /\ req[r].ssid \in Ssids /\ UNCHANGED req
  BY DEF Rises, NameInv, TypeInv, TypeOK, RequestInv, Awaits, Checked
<1>2. ASSUME NEW p \in Named(req[r].ssid), Activates(p), Activate(p, r), Await(r, "risen")
      PROVE  holder' = r /\ pc'[r] = "risen" /\ Joined(r)'
  <2>1. p \in profiles' /\ active' = p.by /\ p.ssid = req'[r].ssid
    BY <1>1, <1>2 DEF Activate, Named, NameInv, NamesFollowSsids
  <2> QED
    BY <1>1, <1>2, <2>1 DEF Activate, Await, Joined, Activates
<1> QED
  BY <1>1, <1>2 DEF Rises, Activate, Await, nm

\* A step of the pipeline of r keeps what is known of the holder.
LEMMA HolderPipeline ==
    ASSUME JoinInv, NEW r \in Requests, Pipeline(r)
    PROVE  HolderInv'
<1>0. /\ TypeInv /\ HandlerOK /\ holder \in Requests \cup {NoProfile}
      /\ alone \subseteq Requests /\ NoProfile \notin Requests
  BY TypeParts, WifiConnectAssumption DEF JoinInv, NameInv, NmOK, HandlerOK
<1>1. /\ BeingServed(r) /\ UNCHANGED <<req, alone>>
      /\ \A q \in Requests : q # r => pc'[q] = pc[q]
  BY <1>0, PipelineMoves
<1>2. ASSUME NEW q \in alone, pc'[q] = "risen", q # r PROVE FALSE
  BY <1>0, <1>1, <1>2 DEF JoinInv, AloneInv, BeingServed
<1>3. CASE Rises(r)
  <2>1. CASE holder' = r /\ pc'[r] = "risen" /\ Joined(r)'
    BY <1>1, <1>2, <2>1 DEF HolderInv
  <2>2. CASE holder' = NoProfile /\ pc'[r] = "fallen"
    BY <1>1, <1>2, <2>2 DEF HolderInv
  <2>3. CASE holder' = holder /\ pc'[r] = "fallen" /\ UNCHANGED <<profiles, active>>
    <3>1. pc[r] = "rising"
      BY <1>3 DEF Rises
    <3>2. holder # NoProfile => holder # r /\ Joined(holder)'
      BY <1>1, <2>3, <3>1 DEF JoinInv, HolderInv, Joined
    <3> QED
      BY <1>0, <1>1, <1>2, <2>3, <3>2 DEF JoinInv, HolderInv
  <2> QED
    BY <1>3, <2>1, <2>2, <2>3, RisesJoins DEF JoinInv
<1>4. CASE ~Rises(r)
  <2>1. pc'[r] # "risen"
    <3>1. ASSUME NEW candidates, NEW matches, Proceed(r, candidates, matches)
          PROVE  pc'[r] # "risen"
      BY <1>0, <3>1 DEF Proceed, Await, Fail, HandlerOK
    <3> QED
      BY <1>0, <1>4, <3>1 DEF Pipeline, IfaceKnown, ProfilesListed, SsidRead, Wiped,
         Added, Verified, Modified, Up, TimesOut, Raises, Refreshed, Await, Fail,
         Succeed, HandlerOK
  <2>2. ASSUME holder' # NoProfile
        PROVE  holder' = holder /\ pc'[holder] = "risen" /\ Joined(holder)'
    <3>1. /\ holder' = holder /\ active' = active
          /\ \A p \in profiles : p.by = active => p \in profiles'
      BY <1>0, <1>4, <2>2, ConnectionKept
    <3>2. pc[holder] = "risen" /\ Joined(holder) /\ holder \in Requests
      BY <1>0, <2>2, <3>1 DEF JoinInv, HolderInv
    <3>3. holder # r
      BY <1>0, <2>2, <3>2, HolderTold
    <3>4. \E p \in profiles' : p.by = active' /\ p.ssid = req'[holder].ssid /\ Activates(p)
      BY <1>1, <3>1, <3>2 DEF Joined
    <3> QED
      BY <1>1, <3>1, <3>2, <3>3, <3>4 DEF Joined, Activates
  <2> QED
    BY <1>1, <1>2, <2>1, <2>2 DEF HolderInv
<1> QED
  BY <1>3, <1>4

\* Each action keeps it.
LEMMA JoinStep == JoinInv /\ [Next]_vars => JoinInv'
<1> SUFFICES ASSUME JoinInv, [Next]_vars
             PROVE  JoinInv'
  OBVIOUS
<1>0. TypeInv /\ HandlerOK /\ NameInv' /\ AloneInv'
      /\ holder \in Requests \cup {NoProfile} /\ alone \subseteq Requests
  BY NameStep, AloneStep, TypeParts DEF JoinInv, NameInv, NmOK, HandlerOK
<1>1. ASSUME NEW r \in Requests, WriteConnect(r) PROVE HolderInv'
  <2>1. /\ pc[r] = "idle" /\ UNCHANGED <<profiles, active, holder>> /\ alone' \subseteq alone
        /\ \A q \in Requests : q # r => pc'[q] = pc[q] /\ req'[q] = req[q]
        /\ pc'[r] # "risen"
    BY <1>0, <1>1, ConnectMoves DEF nm
  <2>2. holder # NoProfile => holder # r /\ holder \in Requests
    BY <1>0, <2>1 DEF JoinInv, HolderInv
  <2>3. holder # NoProfile => pc'[holder] = "risen" /\ Joined(holder)'
    BY <2>1, <2>2 DEF JoinInv, HolderInv, Joined
  <2> QED
    BY <1>0, <2>1, <2>3 DEF JoinInv, HolderInv
<1>2. ASSUME NEW r \in Requests, Pipeline(r) PROVE HolderInv'
  BY <1>2, HolderPipeline
<1>3. ASSUME UNCHANGED vars PROVE HolderInv'
  <2>1. UNCHANGED <<profiles, active, holder, pc, req, alone>>
    BY <1>3 DEF vars, nm
  <2>2. holder # NoProfile => Joined(holder)'
    BY <2>1 DEF JoinInv, HolderInv, Joined
  <2> QED
    BY <2>1, <2>2 DEF JoinInv, HolderInv
<1>4. HolderInv'
  BY <1>1, <1>2, <1>3 DEF Next, AllAnswered
<1> QED
  BY <1>0, <1>4 DEF JoinInv

\* If no saved profile bears the name of another network, an ok result means
\* that the network asked for is joined, unless another request has changed the
\* connection between the "up" of this one and its result (wifi.py:225, 316-320;
\* service.py:194-198).
THEOREM OkJoins == ASSUME NoClash PROVE Spec => OkMeansJoined
<1>1. Init => JoinInv
  BY NameInit, WifiConnectAssumption DEF Init, JoinInv, AloneInv, BeingServed, HolderInv
<1>2. JoinInv /\ [Next]_vars =>
        [\A r \in Requests : verdict[r] # "ok" /\ verdict'[r] = "ok" =>
           Joined(r)' \/ (holder # r /\ r \notin alone)]_vars
  <2> SUFFICES ASSUME JoinInv, Next,
                      NEW r \in Requests, verdict[r] # "ok", verdict'[r] = "ok",
                      holder = r \/ r \in alone
               PROVE  Joined(r)'
    OBVIOUS
  <2>1. verdict \in [Requests -> {"none", "ok", "failed", "raised"}]
        /\ NoProfile \notin Requests
    BY WifiConnectAssumption DEF JoinInv, NameInv, TypeInv, TypeOK
  <2>2. Up(r) /\ pc[r] = "risen"
    BY <2>1 DEF Next, AllAnswered, vars, WriteConnect, Pipeline, IfaceKnown,
       ProfilesListed, SsidRead, Wiped, Added, Verified, Modified, Rises, Up, TimesOut,
       Raises, Refreshed, Proceed, Await, Fail, Succeed
  <2>3. Joined(r)
    BY <2>1, <2>2 DEF JoinInv, HolderInv
  <2> QED
    BY <2>2, <2>3 DEF Up, Joined
<1> QED
  BY <1>1, <1>2, JoinStep, PTL DEF Spec, OkMeansJoined

-----------------------------------------------------------------------------
(* The profiles of a request that is served alone, whose listing, reading   *)
(* and deleting of profiles has not failed, and whose ssid is read as it is. *)

Undisturbed(r) == r \in alone \cap smooth /\ req[r].ssid \notin Altered

\* p is the profile that r has added, and the only one of its network that has a
\* name of its own, if even that one has.
Fresh(r, p) ==
    /\ p \in profiles /\ p.by = r /\ p.name = req[r].ssid /\ p.ssid = req[r].ssid
    /\ Distinct(r) \subseteq {p}

\* A profile of the network with a name of its own is to be read or to be wiped
\* until all of them are gone; then the fresh one is there.  It may lack its
\* key-mgmt until it is up: if it has a name of its own it is the one that
\* the "up" has taken, and then it has the key that was given.
WipeOf(r) ==
    /\ pc[r] \in {"reading", "wiping", "adding"} =>
         \A p \in Distinct(r) : p.name \in todo[r] \cup stale[r]
    /\ pc[r] \in {"wiping", "adding"} => todo[r] = {}
    /\ pc[r] = "adding" => stale[r] = {}
    /\ pc[r] \in {"verifying", "modifying", "rising"} =>
         \E p \in profiles : Fresh(r, p) /\ p.key \in {req[r].key, Broken}
    /\ pc[r] = "risen" =>
         \E p \in profiles : Fresh(r, p) /\ (p \in Distinct(r) => p.key = req[r].key)

WipeInv == TypeInv /\ AloneInv /\ \A r \in Requests : Undisturbed(r) => WipeOf(r)

\* Where Proceed goes next, and with what.
LEMMA ProceedMoves ==
    ASSUME HandlerOK, NEW r \in Requests,
           NEW candidates \in SUBSET Names, NEW matches \in SUBSET Names,
           Proceed(r, candidates, matches)
    PROVE  /\ todo'[r] = candidates /\ stale'[r] = matches
           /\ \/ candidates # {} /\ pc'[r] = "reading"
              \/ candidates = {} /\ matches # {} /\ pc'[r] = "wiping"
              \/ candidates = {} /\ matches = {} /\ pc'[r] \in {"adding", "done"}
<1>1. todo'[r] = candidates /\ stale'[r] = matches
  BY DEF Proceed, HandlerOK
<1>2. CASE candidates # {}
  <2>1. pc' = [pc EXCEPT ![r] = "reading"]
    BY <1>2 DEF Proceed, Await
  <2> QED
    BY <1>1, <1>2, <2>1 DEF HandlerOK
<1>3. CASE candidates = {} /\ matches # {}
  <2>1. pc' = [pc EXCEPT ![r] = "wiping"]
    BY <1>3 DEF Proceed, Await
  <2> QED
    BY <1>1, <1>3, <2>1 DEF HandlerOK
<1>4. CASE candidates = {} /\ matches = {}
  <2>1. pc' = [pc EXCEPT ![r] = "done"] \/ pc' = [pc EXCEPT ![r] = "adding"]
    BY <1>4 DEF Proceed, Await, Fail
  <2> QED
    BY <1>1, <1>4, <2>1 DEF HandlerOK
<1> QED
  BY <1>2, <1>3, <1>4

\* A name that distinguishes a profile of the network matches.
LEMMA DistinctMatches ==
    ASSUME NEW r \in Requests, req[r].ssid \notin Altered, NEW p \in Distinct(r)
    PROVE  Matches(r, p.name)
<1>1. Named(p.name) = {p} /\ p.ssid = req[r].ssid
  BY DEF Distinct
<1>2. Cardinality(Named(p.name)) = 1
  BY <1>1, FS_Singleton
<1> QED
  BY <1>1, <1>2 DEF Matches

\* Before anything is added, the pipeline loses sight of no such profile.
LEMMA WipeFirst ==
    ASSUME TypeInv, NEW r \in Requests, WipeOf(r), req[r].ssid \notin Altered,
           r \in smooth', ProfilesListed(r) \/ SsidRead(r) \/ Wiped(r)
    PROVE  WipeOf(r)'
<1>0. HandlerOK /\ profiles \subseteq Profiles /\ ~Missed(r)
  BY TypeParts DEF NmOK, Missed
<1>1. ASSUME NEW candidates \in SUBSET Names, NEW matches \in SUBSET Names,
             Proceed(r, candidates, matches),
             \A p \in Distinct(r)' : p.name \in candidates \cup matches
      PROVE  WipeOf(r)'
  BY <1>0, <1>1, ProceedMoves DEF WipeOf
<1>2. UNCHANGED req
  BY DEF ProfilesListed, SsidRead, Wiped
<1>3. CASE ProfilesListed(r)
  <2>1. Proceed(r, {p.name : p \in profiles}, {}) /\ UNCHANGED profiles
    BY <1>0, <1>3 DEF ProfilesListed, nm
  <2>2. {p.name : p \in profiles} \in SUBSET Names
    BY <1>0 DEF Profiles
  <2>3. \A p \in Distinct(r)' : p.name \in {q.name : q \in profiles}
    BY <2>1 DEF Distinct
  <2> QED
    BY <1>1, <2>1, <2>2, <2>3
<1>4. CASE SsidRead(r)
  <2>1. PICK n \in todo[r] :
          Proceed(r, todo[r] \ {n}, IF Matches(r, n) THEN stale[r] \cup {n} ELSE stale[r])
    BY <1>0, <1>4 DEF SsidRead
  <2>2. Distinct(r)' = Distinct(r) /\ pc[r] = "reading"
    BY <1>2, <1>4 DEF SsidRead, Distinct, Named, nm
  <2> DEFINE matches == IF Matches(r, n) THEN stale[r] \cup {n} ELSE stale[r]
  <2>3. todo[r] \ {n} \in SUBSET Names /\ matches \in SUBSET Names
    BY <1>0 DEF HandlerOK
  <2>4. ASSUME NEW p \in Distinct(r) PROVE p.name \in (todo[r] \ {n}) \cup matches
    <3>1. Matches(r, p.name) /\ p.name \in todo[r] \cup stale[r]
      BY <2>2, DistinctMatches DEF WipeOf
    <3> QED
      BY <3>1
  <2> QED
    BY <1>1, <2>1, <2>2, <2>3, <2>4
<1>5. CASE Wiped(r)
  <2>1. PICK n \in stale[r] : Proceed(r, {}, stale[r] \ {n}) /\ Delete(n)
    BY <1>0, <1>5 DEF Wiped
  <2>2. {} \in SUBSET Names /\ stale[r] \ {n} \in SUBSET Names
    BY <1>0 DEF HandlerOK
  <2>3. ASSUME NEW p \in Distinct(r)' PROVE p.name \in {} \cup (stale[r] \ {n})
    <3>1. p \in profiles /\ p.name # n /\ p.ssid = req[r].ssid
      BY <1>2, <2>1, <2>3 DEF Distinct, Delete, Named
    <3>2. Named(p.name) = {p}
      BY <2>1, <2>3, <3>1 DEF Distinct, Delete, Named
    <3> QED
      BY <1>5, <3>1, <3>2 DEF Wiped, Distinct, WipeOf
  <2> QED
    BY <1>1, <2>1, <2>2, <2>3
<1> QED
  BY <1>3, <1>4, <1>5

\* Then the fresh profile is added, with or without its key-mgmt ...
LEMMA FreshAdded ==
    ASSUME TypeInv, NEW r \in Requests, WipeOf(r), NEW key \in {req[r].key, Broken},
           pc[r] = "adding", Add(r, key), UNCHANGED req
    PROVE  \E p \in profiles' : Fresh(r, p)' /\ p.key \in {req'[r].key, Broken}
<1> DEFINE fresh == [by |-> r, name |-> req[r].ssid, ssid |-> req[r].ssid, key |-> key]
<1>1. profiles' = profiles \cup {fresh}
  BY DEF Add
<1>2. Distinct(r) = {}
  BY DEF WipeOf
<1>3. ASSUME NEW p \in Distinct(r)', p # fresh PROVE FALSE
  <2>1. p \in profiles /\ p.ssid = req[r].ssid /\ Named(p.name)' = {p}
    BY <1>1, <1>3 DEF Distinct
  <2>2. Named(p.name) = {p}
    BY <1>1, <2>1 DEF Named
  <2> QED
    BY <1>2, <2>1, <2>2 DEF Distinct
<1>4. Fresh(r, fresh)'
  BY <1>1, <1>3 DEF Fresh
<1> QED
  BY <1>1, <1>4

\* ... and repaired or not: a profile of the same name is given the key.
LEMMA FreshRepaired ==
    ASSUME TypeInv, NEW r \in Requests, WipeOf(r), pc[r] = "modifying", UNCHANGED req,
           NEW o \in Named(req[r].ssid), SetKey(o, req[r].key)
    PROVE  \E p \in profiles' : Fresh(r, p)' /\ p.key \in {req'[r].key, Broken}
<1>1. PICK p \in profiles : Fresh(r, p) /\ p.key \in {req[r].key, Broken}
  BY DEF WipeOf
<1> DEFINE q == [o EXCEPT !.key = req[r].key]
           fresh == IF o = p THEN q ELSE p
<1>2. profiles \subseteq Profiles /\ o \in profiles /\ o.name = req[r].ssid
  BY DEF TypeInv, TypeOK, Named
<1>3. q.by = o.by /\ q.name = o.name /\ q.ssid = o.ssid /\ q.key = req[r].key
  BY <1>2 DEF Profiles
<1>4. profiles' = (profiles \ {o}) \cup {q}
  BY DEF SetKey
<1> HIDE DEF q
<1>5. fresh \in profiles' /\ fresh.by = r /\ fresh.name = req[r].ssid
      /\ fresh.ssid = req[r].ssid /\ fresh.key \in {req[r].key, Broken}
  BY <1>1, <1>3, <1>4 DEF Fresh
<1> HIDE DEF fresh
<1>6. ASSUME NEW x \in Distinct(r)', x # fresh PROVE FALSE
  <2>1. x \in profiles' /\ x.ssid = req[r].ssid /\ Named(x.name)' = {x}
    BY <1>6 DEF Distinct
  <2>2. x.name # req[r].ssid
    BY <1>5, <1>6, <2>1 DEF Named
  <2>3. x \in profiles /\ Named(x.name) = {x}
    BY <1>2, <1>3, <1>4, <2>1, <2>2 DEF Named
  <2>4. x = p
    BY <1>1, <2>1, <2>3 DEF Fresh, Distinct
  <2> QED
    BY <1>1, <2>2, <2>4 DEF Fresh
<1> QED
  BY <1>5, <1>6 DEF Fresh

\* While the profiles stay as they are, so does what is fresh among them.
LEMMA FreshKept ==
    ASSUME NEW r, NEW p, UNCHANGED <<profiles, req>>
    PROVE  Fresh(r, p)' = Fresh(r, p) /\ Distinct(r)' = Distinct(r)
BY DEF Fresh, Distinct, Named

\* Whatever fails, the fresh profile is there until the handler is told.
LEMMA FreshThen ==
    ASSUME TypeInv, NEW r \in Requests, WipeOf(r),
           Added(r) \/ Verified(r) \/ Modified(r) \/ Rises(r)
    PROVE  WipeOf(r)'
<1>0. HandlerOK /\ UNCHANGED req
  BY TypeParts DEF Added, Verified, Modified, Rises
<1>1. CASE pc'[r] \in {"fallen", "done"}
  BY <1>1 DEF WipeOf
<1>2. CASE (Added(r) \/ Verified(r) \/ Modified(r)) /\ pc'[r] \notin {"fallen", "done"}
  <2>1. pc'[r] \in {"verifying", "modifying", "rising"}
    BY <1>0, <1>2 DEF Added, Verified, Modified, Await, Fail, HandlerOK
  <2>2. CASE Added(r)
    <3>1. PICK key \in {req[r].key, Broken} : pc[r] = "adding" /\ Add(r, key)
      BY <1>0, <2>1, <2>2 DEF Added, Fail, HandlerOK
    <3>2. \E p \in profiles' : Fresh(r, p)' /\ p.key \in {req'[r].key, Broken}
      BY <1>0, <3>1, FreshAdded
    <3> QED
      BY <2>1, <3>2 DEF WipeOf
  <2>3. CASE (Verified(r) \/ Modified(r)) /\ UNCHANGED profiles
    <3>1. pc[r] \in {"verifying", "modifying"}
      BY <2>3 DEF Verified, Modified
    <3>2. PICK p \in profiles : Fresh(r, p) /\ p.key \in {req[r].key, Broken}
      BY <3>1 DEF WipeOf
    <3>3. Fresh(r, p)'
      BY <1>0, <2>3, <3>2, FreshKept
    <3> QED
      BY <1>0, <2>1, <2>3, <3>2, <3>3 DEF WipeOf
  <2>4. CASE Modified(r) /\ \E o \in Named(req[r].ssid) : SetKey(o, req[r].key)
    <3>1. \E p \in profiles' : Fresh(r, p)' /\ p.key \in {req'[r].key, Broken}
      BY <1>0, <2>4, FreshRepaired DEF Modified
    <3> QED
      BY <2>1, <3>1 DEF WipeOf
  <2> QED
    BY <1>2, <2>2, <2>3, <2>4 DEF Verified, Modified, nm
<1>3. CASE Rises(r) /\ pc'[r] \notin {"fallen", "done"}
  <2>1. PICK o \in Named(req[r].ssid) : Activates(o) /\ pc'[r] = "risen"
    BY <1>0, <1>3 DEF Rises, Await, HandlerOK
  <2>2. PICK p \in profiles : Fresh(r, p) /\ p.key \in {req[r].key, Broken}
    BY <1>3 DEF Rises, WipeOf
  <2>3. UNCHANGED profiles
    BY <1>3 DEF Rises, Activate, nm
  <2>4. ASSUME p \in Distinct(r) PROVE p.key = req[r].key
    <3>1. o = p
      BY <2>1, <2>2, <2>4 DEF Fresh, Distinct, Named
    <3>2. o.ssid \in Ssids
      BY <2>1 DEF Named, TypeInv, TypeOK, Profiles
    <3>3. ApKey[o.ssid] # Broken
      BY <3>2, WifiConnectAssumption DEF Open, Broken
    <3> QED
      BY <2>1, <2>2, <3>1, <3>3 DEF Activates
  <2>5. Fresh(r, p)' /\ Distinct(r)' = Distinct(r)
    BY <1>0, <2>2, <2>3, FreshKept
  <2> QED
    BY <1>0, <2>1, <2>3, <2>4, <2>5 DEF WipeOf
<1> QED
  BY <1>1, <1>2, <1>3

\* Nobody is served at the start.
LEMMA WipeInit == Init => WipeInv
<1>1. Init => \A r \in Requests : pc[r] = "idle"
  BY DEF Init
<1> QED
  BY <1>1, TypeInit DEF WipeInv, AloneInv, BeingServed, WipeOf

\* A step of the only request being served keeps what is known of its profiles.
LEMMA WipePipeline ==
    ASSUME WipeInv, NEW r \in Requests, Pipeline(r), NEW q \in Requests, Undisturbed(q)'
    PROVE  WipeOf(q)'
<1>0. TypeInv /\ HandlerOK
  BY TypeParts DEF WipeInv
<1>1. /\ BeingServed(r) /\ UNCHANGED <<req, alone>> /\ smooth' \subseteq smooth
      /\ \A o \in Requests : o # r => pc'[o] = pc[o]
  BY <1>0, PipelineMoves
<1>2. Undisturbed(q) /\ WipeOf(q) /\ q \in alone
  BY <1>1 DEF Undisturbed, WipeInv
<1>3. CASE q # r
  <2>1. ~BeingServed(q) /\ pc'[q] = pc[q]
    BY <1>1, <1>2, <1>3 DEF WipeInv, AloneInv
  <2> QED
    BY <2>1 DEF BeingServed, WipeOf
<1>4. CASE q = r
  <2>1. CASE ProfilesListed(r) \/ SsidRead(r) \/ Wiped(r)
    BY <1>0, <1>2, <1>4, <2>1, WipeFirst DEF Undisturbed
  <2>2. CASE Added(r) \/ Verified(r) \/ Modified(r) \/ Rises(r)
    BY <1>0, <1>2, <1>4, <2>2, FreshThen
  <2>3. CASE IfaceKnown(r) \/ Up(r) \/ TimesOut(r) \/ Raises(r) \/ Refreshed(r)
    <3>1. pc'[r] \in {"listing", "refreshing", "done"}
      BY <1>0, <2>3 DEF IfaceKnown, Up, TimesOut, Raises, Refreshed, Await, Fail,
         Succeed, HandlerOK
    <3> QED
      BY <1>4, <3>1 DEF WipeOf
  <2> QED
    BY <2>1, <2>2, <2>3 DEF Pipeline
<1> QED
  BY <1>3, <1>4

\* Each action keeps it.
LEMMA WipeStep == WipeInv /\ [Next]_vars => WipeInv'
<1> SUFFICES ASSUME WipeInv, [Next]_vars
             PROVE  WipeInv'
  OBVIOUS
<1>0. TypeInv' /\ AloneInv' /\ HandlerOK
  BY TypeStep, AloneStep, TypeParts DEF WipeInv
<1>1. ASSUME NEW r \in Requests, Pipeline(r) PROVE WipeInv'
  BY <1>0, <1>1, WipePipeline DEF WipeInv
<1>2. ASSUME NEW r \in Requests, WriteConnect(r),
             NEW q \in Requests, Undisturbed(q)'
      PROVE  WipeOf(q)'
  <2>1. /\ UNCHANGED <<nm, smooth, todo, stale>> /\ alone' \subseteq alone
        /\ \A o \in Requests : o # r => pc'[o] = pc[o] /\ req'[o] = req[o]
        /\ pc'[r] \in {"iface", "done"}
    BY <1>0, <1>2, ConnectMoves
  <2>2. CASE q = r
    BY <2>1, <2>2 DEF WipeOf
  <2>3. CASE q # r
    <3>1. WipeOf(q)
      BY <1>2, <2>1, <2>3 DEF WipeInv, Undisturbed
    <3> QED
      BY <2>1, <2>3, <3>1 DEF WipeOf, Fresh, Distinct, Named, nm
  <2> QED
    BY <2>2, <2>3
<1>3. CASE UNCHANGED vars
  BY <1>0, <1>3 DEF vars, nm, WipeInv, Undisturbed, WipeOf, Fresh, Distinct, Named
<1> QED
  BY <1>0, <1>1, <1>2, <1>3 DEF Next, AllAnswered, WipeInv

\* What is known of the profiles holds throughout.
LEMMA WipeInvariant == Spec => []WipeInv
BY WipeInit, WipeStep, PTL DEF Spec

\* When a request served alone comes to add its profile, no stale one of its
\* network is left but those that share their name with another one, whatever
\* profiles were saved and however they were named (wifi.py:170-188, 258-265).
THEOREM DistinctAreWiped == Spec => WipesDistinct
<1>1. WipeInv /\ WipeInv' /\ [Next]_vars =>
        [\A r \in (alone \cap smooth)' :
           pc[r] # "adding" /\ pc'[r] = "adding" /\ req[r].ssid \notin Altered =>
             Distinct(r)' = {}]_vars
  <2> SUFFICES ASSUME WipeInv, WipeInv', Next, NEW r \in (alone \cap smooth)',
                      pc[r] # "adding", pc'[r] = "adding", req[r].ssid \notin Altered
               PROVE  Distinct(r)' = {}
    OBVIOUS
  <2>1. HandlerOK /\ r \in Requests
    BY TypeParts DEF WipeInv, TypeInv, TypeOK
  <2>2. req'[r] = req[r]
    BY <2>1, PipelineMoves, ConnectMoves DEF Next, AllAnswered, vars
  <2>3. WipeOf(r)'
    BY <2>1, <2>2 DEF WipeInv, Undisturbed
  <2> QED
    BY <2>3 DEF WipeOf
<1> QED
  BY <1>1, WipeInvariant, PTL DEF Spec, WipesDistinct

\* When a request served alone ends ok, its fresh profile is there, is the only one
\* of its network but for those that share their name with another one, and
\* has the key that was given if it has a name of its own, even when it was added
\* without a key-mgmt and had to be modified (wifi.py:229-243, 291-320).
THEOREM FreshProfileIsOnlyOne == Spec => FreshProfileWins
<1>1. WipeInv /\ [Next]_vars =>
        [\A r \in (alone \cap smooth)' :
           verdict[r] # "ok" /\ verdict'[r] = "ok" /\ req[r].ssid \notin Altered =>
             \E p \in profiles' :
               /\ p.by = r /\ p.name = req[r].ssid /\ p.ssid = req[r].ssid
               /\ Distinct(r)' \subseteq {p}
               /\ p \in Distinct(r)' => p.key = req[r].key]_vars
  <2> SUFFICES ASSUME WipeInv, Next, NEW r \in (alone \cap smooth)',
                      verdict[r] # "ok", verdict'[r] = "ok", req[r].ssid \notin Altered
               PROVE  \E p \in profiles' :
                        /\ p.by = r /\ p.name = req[r].ssid /\ p.ssid = req[r].ssid
                        /\ Distinct(r)' \subseteq {p}
                        /\ p \in Distinct(r)' => p.key = req[r].key
    OBVIOUS
  <2>1. verdict \in [Requests -> {"none", "ok", "failed", "raised"}] /\ alone \subseteq Requests
    BY DEF WipeInv, TypeInv, TypeOK
  <2>2. alone' \subseteq alone
    BY <2>1, PipelineMoves, ConnectMoves, TypeParts DEF Next, AllAnswered, vars, WipeInv
  <2>3. r \in Requests
    BY <2>1, <2>2
  <2>4. Up(r) /\ pc[r] = "risen"
    BY <2>1, <2>3 DEF Next, AllAnswered, vars, WriteConnect, Pipeline, IfaceKnown,
       ProfilesListed, SsidRead, Wiped, Added, Verified, Modified, Rises, Up, TimesOut,
       Raises, Refreshed, Proceed, Await, Fail, Succeed
  <2>5. WipeOf(r)
    BY <2>3, <2>4 DEF WipeInv, Undisturbed, Up
  <2>6. UNCHANGED <<profiles, req>>
    BY <2>4 DEF Up
  <2>7. PICK p \in profiles : Fresh(r, p) /\ (p \in Distinct(r) => p.key = req[r].key)
    BY <2>4, <2>5 DEF WipeOf
  <2> QED
    BY <2>6, <2>7, FreshKept DEF Fresh
<1> QED
  BY <1>1, WipeInvariant, PTL DEF Spec, FreshProfileWins
=============================================================================
