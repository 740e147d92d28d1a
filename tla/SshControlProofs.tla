-------------------------- MODULE SshControlProofs --------------------------
(***************************************************************************)
(* What TLAPS proves of SshControl, for every set of writes and reads and  *)
(* however many systemctl fail: the variables keep their types; and, for   *)
(* one central, an ok tells the state of the unit, a read tells the last   *)
(* ok, and the unit settles in a state that one byte can tell.             *)
(***************************************************************************)
EXTENDS SshControl, TLAPS

-----------------------------------------------------------------------------
(* The invariants.                                                          *)

AtWork(o) == pc[o] \notin {"idle", "done"}

\* No write is between its two verbs.
Whole == \A w \in Writes : pc[w] # "second"

\* With one central, one operation is at work; between its two verbs a write
\* that has not failed has done the first; outside of that the unit is, running
\* and at boot, as the last write to end wants it, if it ended with an ok; and
\* that write is over, so what it wants is settled, for a read that is under way
\* as well.
SerialInv ==
    /\ \A o, p \in Ops : AtWork(o) /\ AtWork(p) => o = p
    /\ \A w \in Writes : pc[w] = "second" /\ ~failed[w] =>
         IF want[w] THEN enabled ELSE ~active
    /\ lastOk # NoWrite => pc[lastOk] = "done"
    /\ Whole /\ lastOk # NoWrite => active = want[lastOk] /\ enabled = want[lastOk]
    /\ \A d \in Reads : pc[d] # "idle" /\ since[d] # NoWrite => pc[since[d]] = "done"
    /\ \A d \in Reads : pc[d] = "asking" => since[d] = lastOk
    /\ ReadsLastOk

-----------------------------------------------------------------------------
(* Types. *)

\* The types hold at first.
LEMMA TypeInit == Init => TypeOK
BY SshControlAssumption DEF Init, TypeOK, Ops

\* A verb leaves the unit in one of its states, and the write with a failure or
\* with none.
LEMMA AttemptType ==
    ASSUME TypeOK, NEW w \in Writes, NEW nth \in {1, 2}, Attempt(w, nth)
    PROVE  /\ active' \in BOOLEAN /\ enabled' \in BOOLEAN
           /\ faults' \in 0..MaxFaults
           /\ \/ UNCHANGED failed
              \/ failed' = [failed EXCEPT ![w] = TRUE]
           /\ failed' \in [Writes -> BOOLEAN]
<1>1. active' \in BOOLEAN /\ enabled' \in BOOLEAN
  BY DEF Attempt, Systemctl, TypeOK, unit
<1>2. faults' \in 0..MaxFaults
  BY SshControlAssumption DEF Attempt, TypeOK
<1>3. UNCHANGED failed \/ failed' = [failed EXCEPT ![w] = TRUE]
  BY DEF Attempt
<1> QED
  BY <1>1, <1>2, <1>3 DEF TypeOK

\* Every step keeps the types, however operations overlap.
LEMMA TypeStep == TypeOK /\ [Next]_vars => TypeOK'
<1> SUFFICES ASSUME TypeOK, [Next]_vars
             PROVE  TypeOK'
  OBVIOUS
<1> USE SshControlAssumption DEF TypeOK, Ops, unit
<1>1. ASSUME NEW w \in Writes, WriteSsh(w)
      PROVE  TypeOK'
  BY <1>1 DEF WriteSsh, Moves
<1>2. ASSUME NEW w \in Writes, Resolved(w)
      PROVE  TypeOK'
  BY <1>2 DEF Resolved, Moves
<1>3. ASSUME NEW w \in Writes, FirstDone(w)
      PROVE  TypeOK'
  <2>1. Attempt(w, 1) /\ pc[w] = "first" /\ pc' = [pc EXCEPT ![w] = "second"]
        /\ UNCHANGED <<want, verdict, answer, since, lastOk>>
    BY <1>3 DEF FirstDone, Moves
  <2> QED
    BY <2>1, AttemptType
<1>4. ASSUME NEW w \in Writes, SecondDone(w)
      PROVE  TypeOK'
  <2>1. /\ Attempt(w, 2) /\ pc[w] = "second" /\ pc' = [pc EXCEPT ![w] = "done"]
        /\ verdict' = [verdict EXCEPT ![w] = IF failed'[w] THEN "failed" ELSE "ok"]
        /\ lastOk' = IF failed'[w] THEN NoWrite ELSE w
        /\ UNCHANGED <<want, answer, since>>
    BY <1>4 DEF SecondDone, Moves
  <2> QED
    BY <2>1, AttemptType
<1>5. ASSUME NEW w \in Writes, WriteRaises(w)
      PROVE  TypeOK'
  <2>1. /\ pc' = [pc EXCEPT ![w] = "done"] /\ verdict' = [verdict EXCEPT ![w] = "raised"]
        /\ lastOk' = NoWrite /\ UNCHANGED <<want, failed, answer, since>>
    BY <1>5 DEF WriteRaises
  <2>2. UNCHANGED unit \/ \E verb : Systemctl(verb)
    BY <1>5 DEF WriteRaises
  <2>3. active' \in BOOLEAN /\ enabled' \in BOOLEAN
    BY <2>2 DEF Systemctl
  <2>4. faults' \in 0..MaxFaults
    BY <1>5 DEF WriteRaises
  <2> QED
    BY <2>1, <2>3, <2>4
<1>6. ASSUME NEW d \in Reads, ReadSsh(d) \/ Asked(d) \/ Answered(d) \/ ReadRaises(d)
      PROVE  TypeOK'
  BY <1>6 DEF ReadSsh, Asked, Answered, ReadRaises, Moves
<1>7. CASE UNCHANGED vars
  BY <1>7 DEF vars
<1> QED
  BY <1>1, <1>2, <1>3, <1>4, <1>5, <1>6, <1>7 DEF Next, WriteStep, ReadStep, AllAnswered

\* The variables of the SSH switch keep their types, however operations overlap
\* and whatever systemctl does (ssh.py:14-50; service.py:220-237).
THEOREM TypeCorrect == Spec => []TypeOK
BY TypeInit, TypeStep, PTL DEF Spec

-----------------------------------------------------------------------------
(* One central. *)

\* With one central an operation that begins finds no other at work.
LEMMA ArrivesAlone ==
    ASSUME ~Overlap, TypeOK, NEW o \in Ops, MayArrive(o)
    PROVE  \A p \in Ops : ~AtWork(p)
BY DEF MayArrive, AtWork

\* One that takes a step is the only one.
LEMMA OnlyAtWork ==
    ASSUME SerialInv, NEW o \in Ops, AtWork(o)
    PROVE  \A p \in Ops : p # o => ~AtWork(p)
BY DEF SerialInv

\* Nothing is at work at first, and no write has ended.
LEMMA SerialInit == Init => SerialInv
BY SshControlAssumption DEF Init, SerialInv, AtWork, Whole, ReadsLastOk, Ops, NoWrite

\* With one central every step keeps the invariant: the write that takes one is the
\* only one that can have changed the unit since it arrived.
LEMMA SerialStep ==
    ASSUME ~Overlap
    PROVE  TypeOK /\ SerialInv /\ [Next]_vars => SerialInv'
<1> SUFFICES ASSUME TypeOK, SerialInv, [Next]_vars
             PROVE  SerialInv'
  OBVIOUS
<1> USE SshControlAssumption DEF Ops
<1>1. ASSUME NEW w \in Writes, WriteSsh(w)
      PROVE  SerialInv'
  <2>1. \A p \in Ops : ~AtWork(p)
    BY <1>1, ArrivesAlone DEF WriteSsh
  <2>2. PICK on \in BOOLEAN : want' = [want EXCEPT ![w] = on]
    BY <1>1 DEF WriteSsh
  <2>3. /\ pc[w] = "idle" /\ pc' = [pc EXCEPT ![w] = "resolving"]
        /\ UNCHANGED <<active, enabled, failed, verdict, answer, since, lastOk>>
    BY <1>1 DEF WriteSsh, Moves, unit
  <2> QED
    BY <2>1, <2>2, <2>3 DEF SerialInv, TypeOK, AtWork, Whole, ReadsLastOk
<1>2. ASSUME NEW w \in Writes, Resolved(w)
      PROVE  SerialInv'
  <2>1. /\ pc[w] = "resolving" /\ pc' = [pc EXCEPT ![w] = "first"]
        /\ UNCHANGED <<active, enabled, want, failed, verdict, answer, since, lastOk>>
    BY <1>2 DEF Resolved, Moves, unit
  <2> QED
    BY <2>1 DEF SerialInv, TypeOK, AtWork, Whole, ReadsLastOk
<1>3. ASSUME NEW w \in Writes, FirstDone(w)
      PROVE  SerialInv'
  <2>1. /\ pc[w] = "first" /\ pc' = [pc EXCEPT ![w] = "second"]
        /\ UNCHANGED <<want, verdict, answer, since, lastOk>>
    BY <1>3 DEF FirstDone, Moves
  <2>2. \A p \in Ops : p # w => ~AtWork(p)
    BY <2>1, OnlyAtWork DEF AtWork
  <2>3. ~failed'[w] => IF want[w] THEN enabled' ELSE ~active'
    BY <1>3 DEF FirstDone, Attempt, Systemctl, StepOf, TypeOK
  <2>4. ~Whole'
    BY <2>1 DEF Whole, TypeOK
  <2> QED
    BY <2>1, <2>2, <2>3, <2>4 DEF SerialInv, TypeOK, AtWork, ReadsLastOk
<1>4. ASSUME NEW w \in Writes, SecondDone(w)
      PROVE  SerialInv'
  <2>1. /\ pc[w] = "second" /\ pc' = [pc EXCEPT ![w] = "done"]
        /\ verdict' = [verdict EXCEPT ![w] = IF failed'[w] THEN "failed" ELSE "ok"]
        /\ lastOk' = IF failed'[w] THEN NoWrite ELSE w
        /\ UNCHANGED <<want, answer, since>>
    BY <1>4 DEF SecondDone, Moves
  <2>2. \A p \in Ops : p # w => ~AtWork(p)
    BY <2>1, OnlyAtWork DEF AtWork
  <2>3. ~failed'[w] => active' = want[w] /\ enabled' = want[w]
    BY <1>4, <2>1 DEF SecondDone, Attempt, Systemctl, StepOf, TypeOK, SerialInv
  <2>4. ReadsLastOk'
    BY <2>1 DEF SerialInv, ReadsLastOk, TypeOK
  <2> QED
    BY <2>1, <2>2, <2>3, <2>4 DEF SerialInv, TypeOK, AtWork
<1>5. ASSUME NEW w \in Writes, WriteRaises(w)
      PROVE  SerialInv'
  <2>1. /\ pc[w] \in {"resolving", "first", "second"} /\ pc' = [pc EXCEPT ![w] = "done"]
        /\ verdict' = [verdict EXCEPT ![w] = "raised"]
        /\ lastOk' = NoWrite /\ UNCHANGED <<want, failed, answer, since>>
    BY <1>5 DEF WriteRaises
  <2>2. \A p \in Ops : p # w => ~AtWork(p)
    BY <2>1, OnlyAtWork DEF AtWork
  <2>3. ReadsLastOk'
    BY <2>1 DEF SerialInv, ReadsLastOk, TypeOK
  <2> QED
    BY <2>1, <2>2, <2>3 DEF SerialInv, TypeOK, AtWork
<1>6. ASSUME NEW d \in Reads, ReadSsh(d)
      PROVE  SerialInv'
  <2>1. \A p \in Ops : ~AtWork(p)
    BY <1>6, ArrivesAlone DEF ReadSsh
  <2>2. /\ pc[d] = "idle" /\ pc' = [pc EXCEPT ![d] = "asking"]
        /\ since' = [since EXCEPT ![d] = lastOk]
        /\ UNCHANGED <<active, enabled, want, failed, verdict, answer, lastOk>>
    BY <1>6 DEF ReadSsh, Moves, unit
  <2> QED
    BY <2>1, <2>2 DEF SerialInv, TypeOK, AtWork, Whole, ReadsLastOk
<1>7. ASSUME NEW d \in Reads, Asked(d)
      PROVE  SerialInv'
  <2>1. /\ pc[d] = "asking" /\ pc' = [pc EXCEPT ![d] = "answering"]
        /\ answer' = [answer EXCEPT ![d] = IF active THEN 1 ELSE 0]
        /\ UNCHANGED <<active, enabled, want, failed, verdict, since, lastOk>>
    BY <1>7 DEF Asked, Moves, unit
  <2>2. \A w \in Writes : ~AtWork(w)
    BY <2>1, OnlyAtWork DEF AtWork
  <2>3. Whole
    BY <2>2 DEF Whole, AtWork
  <2>4. since[d] = lastOk
    BY <2>1 DEF SerialInv
  <2>5. ReadsLastOk'
    BY <2>1, <2>3, <2>4 DEF SerialInv, ReadsLastOk, TypeOK
  <2> QED
    BY <2>1, <2>2, <2>5 DEF SerialInv, TypeOK, AtWork, Whole
<1>8. ASSUME NEW d \in Reads, Answered(d)
      PROVE  SerialInv'
  <2>1. /\ pc[d] = "answering" /\ pc' = [pc EXCEPT ![d] = "done"]
        /\ UNCHANGED <<active, enabled, want, failed, verdict, answer, since, lastOk>>
    BY <1>8 DEF Answered, Moves, unit
  <2> QED
    BY <2>1 DEF SerialInv, TypeOK, AtWork, Whole, ReadsLastOk
<1>9. ASSUME NEW d \in Reads, ReadRaises(d)
      PROVE  SerialInv'
  <2>1. /\ pc[d] \in {"asking", "answering"} /\ pc' = [pc EXCEPT ![d] = "done"]
        /\ verdict' = [verdict EXCEPT ![d] = "raised"]
        /\ UNCHANGED <<active, enabled, want, failed, answer, since, lastOk>>
    BY <1>9 DEF ReadRaises, unit
  <2>2. ReadsLastOk'
    BY <2>1 DEF SerialInv, ReadsLastOk, TypeOK
  <2> QED
    BY <2>1, <2>2 DEF SerialInv, TypeOK, AtWork, Whole
<1>10. CASE UNCHANGED vars
  BY <1>10 DEF vars, unit, SerialInv, AtWork, Whole, ReadsLastOk
<1> QED
  BY <1>1, <1>2, <1>3, <1>4, <1>5, <1>6, <1>7, <1>8, <1>9, <1>10
     DEF Next, WriteStep, ReadStep, AllAnswered

\* So it holds in every state.
LEMMA SerialInvariant == ASSUME ~Overlap PROVE Spec => [](TypeOK /\ SerialInv)
<1>1. Init => TypeOK /\ SerialInv
  BY TypeInit, SerialInit
<1>2. TypeOK /\ SerialInv /\ [Next]_vars => TypeOK' /\ SerialInv'
  BY TypeStep, SerialStep
<1> QED
  BY <1>1, <1>2, PTL DEF Spec

\* With one central, an ok tells that the unit runs, and starts at boot, as the
\* write has asked for: what its first verb did is still so after the second
\* (ssh.py:39-50; service.py:237).
THEOREM OkSwitches == ASSUME ~Overlap PROVE Spec => OkMeansSwitched
<1>1. TypeOK /\ SerialInv /\ [Next]_vars =>
        [\A w \in Writes : verdict[w] # "ok" /\ verdict'[w] = "ok" =>
           active' = want[w] /\ enabled' = want[w]]_vars
  <2> SUFFICES ASSUME TypeOK, SerialInv, Next,
                      NEW w \in Writes, verdict[w] # "ok", verdict'[w] = "ok"
               PROVE  active' = want[w] /\ enabled' = want[w]
    OBVIOUS
  <2>1. SecondDone(w)
    BY DEF Next, AllAnswered, vars, WriteSsh, WriteStep, Resolved, FirstDone, SecondDone,
       WriteRaises, ReadSsh, ReadStep, Asked, Answered, ReadRaises, Ops, TypeOK
  <2>2. pc[w] = "second" /\ ~failed'[w]
    BY <2>1 DEF SecondDone, Moves, Ops, TypeOK
  <2> QED
    BY <2>1, <2>2 DEF SecondDone, Attempt, Systemctl, StepOf, TypeOK, SerialInv
<1> QED
  BY <1>1, SerialInvariant, PTL DEF Spec, OkMeansSwitched

\* With one central, a read tells what the last write before it has asked for, if
\* that one ended with an ok, whatever earlier writes have failed or raised
\* between their verbs (service.py:220-237).
THEOREM SerialReads == ASSUME ~Overlap PROVE Spec => []ReadsLastOk
<1>1. TypeOK /\ SerialInv => ReadsLastOk
  BY DEF SerialInv
<1> QED
  BY <1>1, SerialInvariant, PTL

\* With one central, the byte of the characteristic tells the whole state once the
\* last write has ended with an ok, whatever state the unit was in at first and
\* in whatever half-way state earlier writes have left it (README.md:89;
\* ssh.py:33-50).
THEOREM SerialSettles == ASSUME ~Overlap PROVE Spec => []SettledAgrees
<1>1. TypeOK /\ SerialInv => SettledAgrees
  BY DEF SerialInv, SettledAgrees, Whole
<1> QED
  BY <1>1, SerialInvariant, PTL
=============================================================================
