---------------------------- MODULE ListingsProofs ----------------------------
(***************************************************************************)
(* Theorems about Listings: the fields of a line come back as they were,   *)
(* whatever their number and length; the legacy read fits into a value;    *)
(* two devices with different suffixes bear different names.  The first    *)
(* needs induction over the characters of a field and over the fields.     *)
(***************************************************************************)
EXTENDS Listings, WellFoundedInduction, SequenceTheorems, TLAPS

(* Every set of naturals that is not empty has a least one. *)
LEMMA LeastExists ==
    ASSUME NEW S \in SUBSET Nat, S # {}
    PROVE  \E x \in S : \A y \in S : x <= y
<1>1. PICK x \in S : \A y \in S : ~(<<y, x>> \in OpToRel(<, Nat))
  BY NatLessThanWellFounded, WFMin
<1>2. \A y \in S : ~(y < x)
  BY <1>1 DEF OpToRel
<1> QED
  BY <1>2

(* Induction for a set instead of a predicate. *)
LEMMA AllNaturals ==
    ASSUME NEW S \in SUBSET Nat, 0 \in S, \A n \in S : n + 1 \in S
    PROVE  \A n \in Nat : n \in S
<1> SUFFICES ASSUME Nat \ S # {} PROVE FALSE
  OBVIOUS
<1>1. PICK x \in Nat \ S : \A y \in Nat \ S : x <= y
  BY LeastExists
<1>2. x # 0 /\ x - 1 \in Nat
  OBVIOUS
<1>3. x - 1 \in S
  BY <1>1, <1>2
<1> QED
  BY <1>2, <1>3

\* f takes n steps from v0, each the function g has for it.
IsSteps(f, V, v0, n, g) ==
    f \in [0..n -> V] /\ f[0] = v0 /\ \A i \in 1..n : f[i] = g[i][f[i - 1]]

(* A recursive definition over 0..n has a value. *)
LEMMA StepwiseExists ==
    ASSUME NEW V, NEW v0 \in V, NEW n \in Nat, NEW g \in [1..n -> [V -> V]]
    PROVE  \E f : IsSteps(f, V, v0, n, g)
<1> DEFINE Upto(m) == \E f \in [0..m -> V] : f[0] = v0 /\ \A i \in 1..m : f[i] = g[i][f[i - 1]]
           S == {m \in Nat : m <= n => Upto(m)}
<1>1. Upto(0)
  <2> DEFINE h == [i \in 0..0 |-> v0]
  <2>1. h \in [0..0 -> V]
    OBVIOUS
  <2>2. h[0] = v0 /\ \A i \in 1..0 : h[i] = g[i][h[i - 1]]
    OBVIOUS
  <2> HIDE DEF h
  <2> QED
    BY <2>1, <2>2
<1>2. ASSUME NEW m \in Nat, m + 1 <= n, Upto(m)
      PROVE  Upto(m + 1)
  <2>1. PICK f \in [0..m -> V] : f[0] = v0 /\ \A i \in 1..m : f[i] = g[i][f[i - 1]]
    BY <1>2
  <2> DEFINE h == [i \in 0..(m + 1) |-> IF i <= m THEN f[i] ELSE g[m + 1][f[m]]]
  <2>2. g[m + 1][f[m]] \in V
    BY <1>2
  <2>3. h \in [0..(m + 1) -> V] /\ h[0] = v0
    BY <2>1, <2>2
  <2>4. \A i \in 1..(m + 1) : h[i] = g[i][h[i - 1]]
    <3> SUFFICES ASSUME NEW i \in 1..(m + 1) PROVE h[i] = g[i][h[i - 1]]
      OBVIOUS
    <3>1. CASE i <= m
      BY <2>1, <3>1
    <3>2. CASE i = m + 1
      BY <3>2
    <3> QED
      BY <3>1, <3>2
  <2> QED
    BY <2>3, <2>4
<1>3. 0 \in S /\ \A m \in S : m + 1 \in S
  <2> HIDE DEF Upto
  <2> QED BY <1>1, <1>2
<1>4. n \in S
  <2> HIDE DEF S
  <2>1. S \in SUBSET Nat
    BY DEF S
  <2> QED BY <1>3, <2>1, AllNaturals
<1> QED
  BY <1>4 DEF IsSteps

-----------------------------------------------------------------------------
(* FlattenSeq. *)

(* Concatenation, as a name of its own: the provers look into \o too soon. *)
Joined(s, t) == s \o t

(* Concatenation keeps to the sequences over a set, and <<>> adds nothing. *)
LEMMA JoinedIsSeq ==
    ASSUME NEW E
    PROVE  /\ \A s, t \in Seq(E) : Joined(s, t) \in Seq(E)
           /\ \A s \in Seq(E) : Joined(<<>>, s) = s
BY ConcatEmptySeq DEF Joined

\* F is what the recursion of FlattenSeq asks for.
IsFlat(F, n, tt) == F = [i \in 1..n |-> IF i = 1 THEN tt[i] ELSE Joined(F[i - 1], tt[i])]

(* The recursion of FlattenSeq has a value ... *)
LEMMA FlattenExists ==
    ASSUME NEW E, NEW n \in Nat \ {0}, NEW tt \in [1..n -> Seq(E)]
    PROVE  \E f : IsFlat(f, n, tt)
<1> DEFINE g == [i \in 1..n |-> [v \in Seq(E) |-> Joined(v, tt[i])]]
<1>1. g \in [1..n -> [Seq(E) -> Seq(E)]] /\ <<>> \in Seq(E)
  <2>1. \A i \in 1..n : \A v \in Seq(E) : Joined(v, tt[i]) \in Seq(E)
    BY JoinedIsSeq
  <2> QED
    BY <2>1
<1>2. \A i \in 1..n : \A v \in Seq(E) : g[i][v] = Joined(v, tt[i])
  BY Zenon
<1> HIDE DEF g
<1>3. n \in Nat
  OBVIOUS
<1>4. PICK f : IsSteps(f, Seq(E), <<>>, n, g)
  BY <1>1, <1>3, StepwiseExists, Zenon
<1>5. f \in [0..n -> Seq(E)] /\ f[0] = <<>> /\ \A i \in 1..n : f[i] = g[i][f[i - 1]]
  BY <1>4, Zenon DEF IsSteps
<1>6. \A i \in 1..n : f[i - 1] \in Seq(E) /\ f[i] = Joined(f[i - 1], tt[i])
  <2>1. \A i \in 1..n : f[i - 1] \in Seq(E)
    BY <1>5
  <2> QED
    BY <1>2, <1>5, <2>1, Zenon
<1>7. f[1] = tt[1]
  <2>1. 1 \in 1..n /\ 1 - 1 = 0
    OBVIOUS
  <2>2. tt[1] \in Seq(E) /\ f[1] = Joined(<<>>, tt[1])
    BY <1>5, <1>6, <2>1
  <2> QED
    BY <2>2, JoinedIsSeq
<1> DEFINE h == [i \in 1..n |-> f[i]]
<1>8. ASSUME NEW i \in 1..n PROVE h[i] = IF i = 1 THEN tt[i] ELSE Joined(h[i - 1], tt[i])
  BY <1>6, <1>7
<1>9. IsFlat(h, n, tt)
  BY <1>8 DEF IsFlat
<1> QED
  BY <1>9

\* ... as facts about its values.
FlatSteps(F, E, n, tt) ==
    /\ \A i \in 1..n : F[i] \in Seq(E)
    /\ F[1] = tt[1]
    /\ \A i \in 2..n : F[i] = Joined(F[i - 1], tt[i])

(* ... and it is a sequence at every step. *)
LEMMA FlattenSteps ==
    ASSUME NEW E, NEW n \in Nat \ {0}, NEW tt \in [1..n -> Seq(E)], NEW F, IsFlat(F, n, tt)
    PROVE  FlatSteps(F, E, n, tt)
<1>1. \A i \in 1..n : F[i] = IF i = 1 THEN tt[i] ELSE Joined(F[i - 1], tt[i])
  BY Zenon DEF IsFlat
<1>2. F[1] = tt[1] /\ \A i \in 2..n : F[i] = Joined(F[i - 1], tt[i])
  BY <1>1
<1>3. \A i \in 1..n : F[i] \in Seq(E)
  <2> DEFINE S == {i \in Nat : i + 1 \in 1..n => F[i + 1] \in Seq(E)}
  <2>1. 0 \in S /\ S \in SUBSET Nat
    BY <1>2
  <2>2. ASSUME NEW i \in S PROVE i + 1 \in S
    <3> SUFFICES ASSUME i + 2 \in 1..n PROVE F[i + 2] \in Seq(E)
      OBVIOUS
    <3>1. i \in Nat /\ i + 1 \in 1..n /\ F[i + 1] \in Seq(E) /\ (i + 2) - 1 = i + 1
      OBVIOUS
    <3>2. F[i + 2] = Joined(F[i + 1], tt[i + 2]) /\ tt[i + 2] \in Seq(E)
      BY <1>2, <3>1
    <3> QED
      BY <3>1, <3>2, JoinedIsSeq
  <2>3. \A i \in Nat : i \in S
    <3> HIDE DEF S
    <3> QED BY <2>1, <2>2, AllNaturals
  <2>4. ASSUME NEW i \in 1..n PROVE F[i] \in Seq(E)
    <3>1. i - 1 \in Nat /\ (i - 1) + 1 = i
      OBVIOUS
    <3> QED
      BY <2>3, <3>1
  <2> QED
    BY <2>4
<1> QED
  BY <1>2, <1>3 DEF FlatSteps

(* FlattenSeq is the last value of such a recursion. *)
LEMMA FlattenHasSteps ==
    ASSUME NEW E, NEW ss \in Seq(Seq(E)), Len(ss) > 0
    PROVE  \E F : IsFlat(F, Len(ss), ss) /\ FlattenSeq(ss) = F[Len(ss)]
<1> DEFINE F == CHOOSE f : IsFlat(f, Len(ss), ss)
<1>1. Len(ss) \in Nat \ {0} /\ ss \in [1..Len(ss) -> Seq(E)]
  OBVIOUS
<1>2. \E f : IsFlat(f, Len(ss), ss)
  BY <1>1, FlattenExists
<1>3. IsFlat(F, Len(ss), ss)
  BY <1>2, Zenon
<1>4. FlattenSeq(ss) = F[Len(ss)]
  <2>1. Len(ss) # 0
    OBVIOUS
  <2> QED
    BY <2>1, Zenon DEF FlattenSeq, IsFlat, Joined
<1> QED
  BY <1>3, <1>4, Zenon

(* Flattening a sequence of sequences, one more of them at a time. *)
LEMMA FlattenAppends ==
    ASSUME NEW E, NEW ss \in Seq(Seq(E)), NEW s \in Seq(E)
    PROVE  FlattenSeq(ss) \in Seq(E) /\ FlattenSeq(Append(ss, s)) = FlattenSeq(ss) \o s
<1> DEFINE n  == Len(ss)
           tt == Append(ss, s)
<1>1. n \in Nat /\ tt \in Seq(Seq(E)) /\ Len(tt) = n + 1 /\ tt[n + 1] = s /\ \A i \in 1..n : tt[i] = ss[i]
  OBVIOUS
<1>2. tt \in [1..(n + 1) -> Seq(E)] /\ ss \in [1..n -> Seq(E)] /\ n + 1 \in Nat \ {0} /\ Len(tt) > 0
  <2> HIDE DEF tt
  <2>1. tt \in [1..Len(tt) -> Seq(E)] /\ ss \in [1..Len(ss) -> Seq(E)]
    BY <1>1
  <2> QED
    BY <1>1, <2>1
<1> HIDE DEF tt
<1>3. PICK H : IsFlat(H, n + 1, tt) /\ FlattenSeq(tt) = H[n + 1]
  BY <1>1, <1>2, FlattenHasSteps
<1>4. H[1] = tt[1] /\ \A i \in 2..(n + 1) : H[i] = Joined(H[i - 1], tt[i])
  <2>1. FlatSteps(H, E, n + 1, tt)
    BY <1>2, <1>3, FlattenSteps
  <2> QED
    BY <2>1 DEF FlatSteps
<1>5. CASE n = 0
  <2>1. FlattenSeq(ss) = ss /\ ss = <<>>
    BY <1>5 DEF FlattenSeq
  <2>2. FlattenSeq(tt) = s
    BY <1>1, <1>3, <1>4, <1>5
  <2>3. <<>> \o s = s
    BY ConcatEmptySeq
  <2> QED
    BY <2>1, <2>2, <2>3 DEF tt
<1>6. CASE n > 0
  <2>1. PICK F : IsFlat(F, n, ss) /\ FlattenSeq(ss) = F[n]
    BY <1>6, FlattenHasSteps
  <2>2. n \in Nat \ {0}
    BY <1>1, <1>6
  <2>3. /\ \A i \in 1..n : F[i] \in Seq(E)
        /\ F[1] = ss[1]
        /\ \A i \in 2..n : F[i] = Joined(F[i - 1], ss[i])
    <3>1. FlatSteps(F, E, n, ss)
      BY <1>2, <2>1, <2>2, FlattenSteps
    <3> QED
      BY <3>1 DEF FlatSteps
  <2> HIDE DEF n
  <2> DEFINE S == {i \in Nat : i + 1 \in 1..n => H[i + 1] = F[i + 1]}
  <2>4. 0 \in S /\ S \in SUBSET Nat
    BY <1>1, <1>4, <2>2, <2>3
  <2>5. ASSUME NEW i \in S PROVE i + 1 \in S
    <3> SUFFICES ASSUME i + 2 \in 1..n PROVE H[i + 2] = F[i + 2]
      OBVIOUS
    <3>1. /\ i \in Nat /\ (i + 2) - 1 = i + 1 /\ H[i + 1] = F[i + 1]
          /\ i + 2 \in 2..n /\ i + 2 \in 2..(n + 1) /\ i + 2 \in 1..n
      BY <2>2
    <3>2. H[i + 2] = Joined(H[i + 1], tt[i + 2]) /\ F[i + 2] = Joined(F[i + 1], ss[i + 2])
      BY <1>4, <2>3, <3>1
    <3> QED
      BY <1>1, <3>1, <3>2
  <2>6. \A i \in Nat : i \in S
    <3> HIDE DEF S
    <3> QED BY <2>4, <2>5, AllNaturals
  <2>7. n - 1 \in Nat /\ (n - 1) + 1 = n /\ n \in 1..n /\ n + 1 \in 2..(n + 1) /\ (n + 1) - 1 = n
    BY <2>2
  <2>8. H[n] = F[n] /\ F[n] \in Seq(E)
    BY <2>3, <2>6, <2>7
  <2>9. H[n + 1] = Joined(F[n], s)
    BY <1>1, <1>4, <2>7, <2>8
  <2> QED
    BY <1>3, <2>1, <2>8, <2>9, Zenon DEF Joined, tt
<1> QED
  BY <1>1, <1>5, <1>6

-----------------------------------------------------------------------------
(* The loop of _parse_terse. *)

\* What the loop may have between two characters.
States == [out : Seq(Seq(Chars)), buf : Seq(Chars), escaped : BOOLEAN]

(* What one character does, as four cases. *)
LEMMA SplitCases ==
    ASSUME NEW st \in States
    PROVE  /\ \A c \in Chars : st.escaped =>
                Split(st, c) = [st EXCEPT !.buf = Append(@, c), !.escaped = FALSE]
           /\ ~st.escaped => Split(st, Backslash) = [st EXCEPT !.escaped = TRUE]
           /\ ~st.escaped => Split(st, Colon) =
                [out |-> Append(st.out, st.buf), buf |-> <<>>, escaped |-> FALSE]
           /\ ~st.escaped => Split(st, Letter) = [st EXCEPT !.buf = Append(@, Letter)]
<1>1. Colon # Backslash /\ Colon # Letter /\ Backslash # Letter
  BY DEF Colon, Backslash, Letter
<1>2. \A c \in Chars : st.escaped =>
         Split(st, c) = [st EXCEPT !.buf = Append(@, c), !.escaped = FALSE]
  BY Zenon DEF Split
<1>3. ~st.escaped => Split(st, Backslash) = [st EXCEPT !.escaped = TRUE]
  BY <1>1, Zenon DEF Split
<1>4. ~st.escaped => Split(st, Colon) =
         [out |-> Append(st.out, st.buf), buf |-> <<>>, escaped |-> FALSE]
  BY <1>1, Zenon DEF Split
<1>5. ~st.escaped => Split(st, Letter) = [st EXCEPT !.buf = Append(@, Letter)]
  BY <1>1, Zenon DEF Split
<1> QED
  BY <1>2, <1>3, <1>4, <1>5

(* A character leads from one of the States to another. *)
LEMMA SplitType ==
    ASSUME NEW st \in States, NEW c \in Chars
    PROVE  Split(st, c) \in States
<1>1. /\ [st EXCEPT !.buf = Append(@, c), !.escaped = FALSE] \in States
      /\ [st EXCEPT !.escaped = TRUE] \in States
      /\ [out |-> Append(st.out, st.buf), buf |-> <<>>, escaped |-> FALSE] \in States
      /\ [st EXCEPT !.buf = Append(@, c)] \in States
  <2>1. st.out \in Seq(Seq(Chars)) /\ st.buf \in Seq(Chars) /\ st.escaped \in BOOLEAN
    BY DEF States
  <2> DEFINE o == Append(st.out, st.buf)
             b == Append(st.buf, c)
  <2>2. o \in Seq(Seq(Chars)) /\ b \in Seq(Chars) /\ <<>> \in Seq(Chars)
    BY <2>1, AppendProperties
  <2> HIDE DEF o, b
  <2>3. /\ [st EXCEPT !.buf = b, !.escaped = FALSE] \in States
        /\ [st EXCEPT !.escaped = TRUE] \in States
        /\ [out |-> o, buf |-> <<>>, escaped |-> FALSE] \in States
        /\ [st EXCEPT !.buf = b] \in States
    BY <2>1, <2>2 DEF States
  <2> QED
    BY <2>3 DEF o, b
<1>2. c = Backslash \/ c = Colon \/ c = Letter
  BY DEF Chars
<1>3. CASE st.escaped
  BY <1>1, <1>3, SplitCases
<1>4. CASE ~st.escaped
  BY <1>1, <1>2, <1>4, SplitCases
<1> QED
  BY <1>3, <1>4

\* F is what the recursion of Loop asks for.
IsLoop(F, n, line) == F = [i \in 0..n |-> IF i = 0 THEN Started ELSE Split(F[i - 1], line[i])]

(* The recursion of Loop has a value. *)
LEMMA LoopExists ==
    ASSUME NEW n \in Nat, NEW line \in [1..n -> Chars]
    PROVE  \E f : IsLoop(f, n, line)
<1> DEFINE g == [i \in 1..n |-> [v \in States |-> Split(v, line[i])]]
<1>1. g \in [1..n -> [States -> States]] /\ Started \in States
  <2>1. \A i \in 1..n : \A v \in States : Split(v, line[i]) \in States
    BY SplitType
  <2>2. Started \in States
    BY DEF Started, States
  <2> QED
    BY <2>1, <2>2
<1>2. \A i \in 1..n : \A v \in States : g[i][v] = Split(v, line[i])
  BY Zenon
<1> HIDE DEF g
<1>3. PICK f : IsSteps(f, States, Started, n, g)
  BY <1>1, StepwiseExists, Zenon
<1>4. f \in [0..n -> States] /\ f[0] = Started /\ \A i \in 1..n : f[i] = g[i][f[i - 1]]
  BY <1>3, Zenon DEF IsSteps
<1>5. \A i \in 1..n : f[i] = Split(f[i - 1], line[i])
  <2>1. \A i \in 1..n : f[i - 1] \in States
    BY <1>4
  <2> QED
    BY <1>2, <1>4, <2>1, Zenon
<1> DEFINE h == [i \in 0..n |-> f[i]]
<1>6. ASSUME NEW i \in 0..n PROVE h[i] = IF i = 0 THEN Started ELSE Split(h[i - 1], line[i])
  BY <1>4, <1>5
<1>7. IsLoop(h, n, line)
  BY <1>6 DEF IsLoop
<1> QED
  BY <1>7

\* F as facts about its values.
LoopSteps(F, n, line) ==
    F[0] = Started /\ \A i \in 1..n : F[i] = Split(F[i - 1], line[i])

(* Loop is such a recursion. *)
LEMMA LoopHasSteps ==
    ASSUME NEW line \in Seq(Chars)
    PROVE  LoopSteps(Loop(line), Len(line), line)
<1>1. Len(line) \in Nat /\ line \in [1..Len(line) -> Chars]
  OBVIOUS
<1>2. \E f : IsLoop(f, Len(line), line)
  BY <1>1, LoopExists
<1>3. IsLoop(Loop(line), Len(line), line)
  BY <1>2, Zenon DEF IsLoop, Loop
<1> DEFINE F == Loop(line)
<1>4. \A i \in 0..Len(line) : F[i] = IF i = 0 THEN Started ELSE Split(F[i - 1], line[i])
  BY <1>3, Zenon DEF IsLoop
<1> HIDE DEF F
<1> QED
  BY <1>4 DEF LoopSteps, F

\* What the loop has at the end of a line.
End(line) == Loop(line)[Len(line)]

(* One more character is one more step from the end. *)
LEMMA EndAppends ==
    ASSUME NEW line \in Seq(Chars), NEW c \in Chars
    PROVE  End(<<>>) = Started /\ End(Append(line, c)) = Split(End(line), c)
<1>1. End(<<>>) = Started
  <2>1. <<>> \in Seq(Chars) /\ Len(<<>>) = 0
    OBVIOUS
  <2>2. LoopSteps(Loop(<<>>), Len(<<>>), <<>>)
    BY <2>1, LoopHasSteps, Zenon
  <2> QED
    BY <2>1, <2>2, Zenon DEF LoopSteps, End
<1> DEFINE more == Append(line, c)
           n == Len(line)
           F == Loop(line)
           H == Loop(more)
           S == {i \in Nat : i <= n => H[i] = F[i]}
<1>2. n \in Nat /\ more \in Seq(Chars) /\ Len(more) = n + 1 /\ more[n + 1] = c /\ \A i \in 1..n : more[i] = line[i]
  OBVIOUS
<1> HIDE DEF more
<1>3. LoopSteps(F, n, line) /\ LoopSteps(H, n + 1, more)
  BY <1>2, LoopHasSteps
<1> HIDE DEF F, H, n
<1>4. /\ F[0] = Started /\ \A i \in 1..n : F[i] = Split(F[i - 1], line[i])
      /\ H[0] = Started /\ \A i \in 1..(n + 1) : H[i] = Split(H[i - 1], more[i])
  BY <1>3 DEF LoopSteps
<1>5. 0 \in S /\ S \in SUBSET Nat
  BY <1>4
<1>6. ASSUME NEW i \in S PROVE i + 1 \in S
  <2> SUFFICES ASSUME i + 1 \in 1..n PROVE H[i + 1] = F[i + 1]
    BY <1>2
  <2>1. i \in Nat /\ (i + 1) - 1 = i /\ H[i] = F[i] /\ i + 1 \in 1..(n + 1)
    BY <1>2
  <2> QED
    BY <1>2, <1>4, <2>1
<1>7. \A i \in Nat : i \in S
  <2> HIDE DEF S
  <2> QED BY <1>5, <1>6, AllNaturals
<1>8. H[n + 1] = Split(F[n], c)
  <2>1. n + 1 \in 1..(n + 1) /\ (n + 1) - 1 = n /\ H[n] = F[n]
    BY <1>2, <1>7
  <2> QED
    BY <1>2, <1>4, <2>1
<1> QED
  BY <1>1, <1>2, <1>8 DEF End, F, H, n, more

\* These three may be joined in either order.
Associates(s, t, u) == s \o (t \o u) = (s \o t) \o u

(* ... as sequences over any set may. *)
LEMMA ConcatThree ==
    ASSUME NEW V, NEW s \in Seq(V), NEW t \in Seq(V), NEW u \in Seq(V)
    PROVE  Associates(s, t, u)
BY ConcatAssociative DEF Associates

(* One character, or two, at the end of a sequence. *)
LEMMA ConcatFew ==
    ASSUME NEW V, NEW w \in Seq(V), NEW a \in V, NEW b \in V
    PROVE  w \o <<a>> = Append(w, a) /\ w \o <<a, b>> = Append(Append(w, a), b)
OBVIOUS

\* What nmcli prints for one character.
Quoted(c) == IF c = Letter THEN <<Letter>> ELSE <<Backslash, c>>

(* ... is a line. *)
LEMMA QuotedIsLine == \A c \in Chars : Quoted(c) \in Seq(Chars)
<1>1. Letter \in Chars /\ Backslash \in Chars
  BY DEF Chars
<1> QED
  BY <1>1 DEF Quoted

(* What a field gains with a character. *)
LEMMA EscapedAppends ==
    ASSUME NEW f \in Seq(Chars), NEW c \in Chars
    PROVE  /\ Escaped(<<>>) = <<>>
           /\ Escaped(f) \in Seq(Chars)
           /\ Escaped(Append(f, c)) = Escaped(f) \o Quoted(c)
<1> DEFINE Q(g) == [i \in DOMAIN g |-> Quoted(g[i])]
<1>1. \A x \in Chars : Quoted(x) \in Seq(Chars)
  BY QuotedIsLine
<1>2. \A g : Escaped(g) = FlattenSeq(Q(g))
  BY Zenon DEF Escaped, Quoted
<1> DEFINE W == Seq(Chars)
<1>3. \A x \in Chars : Quoted(x) \in W
  BY <1>1
<1> HIDE DEF W
<1>4. Q(f) \in Seq(W) /\ Q(Append(f, c)) = Append(Q(f), Quoted(c))
  BY <1>3
<1>5. Q(<<>>) = <<>>
  OBVIOUS
<1>6. FlattenSeq(<<>>) = <<>>
  BY DEF FlattenSeq
<1> HIDE DEF Q
<1>7. FlattenSeq(Q(f)) \in Seq(Chars) /\ FlattenSeq(Append(Q(f), Quoted(c))) = FlattenSeq(Q(f)) \o Quoted(c)
  BY <1>1, <1>4, FlattenAppends, Zenon DEF W
<1> QED
  BY <1>2, <1>4, <1>5, <1>6, <1>7, Zenon

(* A quoted character ends no field and goes into it as it is. *)
LEMMA EndOfQuoted ==
    ASSUME NEW w \in Seq(Chars), NEW c \in Chars, NEW o \in Seq(Seq(Chars)), NEW b \in Seq(Chars),
           End(w) = [out |-> o, buf |-> b, escaped |-> FALSE]
    PROVE  End(w \o Quoted(c)) = [out |-> o, buf |-> Append(b, c), escaped |-> FALSE]
<1> DEFINE st == [out |-> o, buf |-> b, escaped |-> FALSE]
           es == [out |-> o, buf |-> b, escaped |-> TRUE]
<1>1. st \in States /\ es \in States /\ ~st.escaped /\ es.escaped
  BY DEF States
<1>2. CASE c = Letter
  <2>1. w \o Quoted(c) = Append(w, Letter)
    BY <1>2 DEF Quoted
  <2>2. End(Append(w, Letter)) = Split(st, Letter)
    BY <1>2, EndAppends
  <2>3. Split(st, Letter) = [st EXCEPT !.buf = Append(@, Letter)]
    BY <1>1, SplitCases
  <2> QED
    BY <1>2, <2>1, <2>2, <2>3
<1>3. CASE c # Letter
  <2>1. Backslash \in Chars /\ Append(w, Backslash) \in Seq(Chars)
    BY DEF Chars
  <2>2. w \o Quoted(c) = Append(Append(w, Backslash), c)
    <3>1. Quoted(c) = <<Backslash, c>>
      BY <1>3 DEF Quoted
    <3> QED
      BY <2>1, <3>1, ConcatFew
  <2>3. End(Append(w, Backslash)) = Split(st, Backslash)
    BY <2>1, EndAppends
  <2>4. Split(st, Backslash) = [st EXCEPT !.escaped = TRUE]
    BY <1>1, SplitCases
  <2>5. End(Append(Append(w, Backslash), c)) = Split(es, c)
    <3>1. End(Append(w, Backslash)) = es
      BY <2>3, <2>4
    <3> QED
      BY <2>1, <3>1, EndAppends
  <2>6. Split(es, c) = [es EXCEPT !.buf = Append(@, c), !.escaped = FALSE]
    BY <1>1, SplitCases
  <2> QED
    BY <2>2, <2>5, <2>6
<1> QED
  BY <1>2, <1>3

(* From the start of a field its quoted characters lead to its end. *)
LEMMA EndOfField ==
    ASSUME NEW w \in Seq(Chars), NEW o \in Seq(Seq(Chars)),
           End(w) = [out |-> o, buf |-> <<>>, escaped |-> FALSE]
    PROVE  \A f \in Seq(Chars) : End(w \o Escaped(f)) = [out |-> o, buf |-> f, escaped |-> FALSE]
<1> DEFINE Reached(f) == End(w \o Escaped(f)) = [out |-> o, buf |-> f, escaped |-> FALSE]
           S == {n \in Nat : \A f \in Seq(Chars) : Len(f) = n => Reached(f)}
<1>1. Reached(<<>>)
  <2>1. Escaped(<<>>) = <<>> /\ w \o <<>> = w
    <3>1. <<>> \in Seq(Chars) /\ Letter \in Chars
      BY DEF Chars
    <3> QED
      BY <3>1, EscapedAppends, ConcatEmptySeq, Zenon
  <2> QED
    BY <2>1
<1>2. ASSUME NEW f \in Seq(Chars), NEW c \in Chars, Reached(f)
      PROVE  Reached(Append(f, c))
  <2> DEFINE e == Escaped(f)
             q == Quoted(c)
  <2>1. e \in Seq(Chars) /\ q \in Seq(Chars) /\ Escaped(Append(f, c)) = e \o q
    BY EscapedAppends, QuotedIsLine, Zenon
  <2> HIDE DEF e, q
  <2>2. w \o (e \o q) = (w \o e) \o q /\ w \o e \in Seq(Chars)
    BY <2>1, ConcatAssociative, ConcatProperties
  <2>3. End((w \o e) \o q) = [out |-> o, buf |-> Append(f, c), escaped |-> FALSE]
    BY <1>2, <2>2, EndOfQuoted DEF e, q
  <2> QED
    BY <2>1, <2>2, <2>3
<1> HIDE DEF Reached
<1>3. 0 \in S /\ S \in SUBSET Nat
  BY <1>1
<1>4. ASSUME NEW n \in S PROVE n + 1 \in S
  <2> SUFFICES ASSUME NEW f \in Seq(Chars), Len(f) = n + 1 PROVE Reached(f)
    OBVIOUS
  <2>1. f # <<>>
    OBVIOUS
  <2>2. PICK g \in Seq(Chars), c \in Chars : f = Append(g, c)
    BY <2>1, SequenceEmptyOrAppend
  <2>3. Len(g) = n
    BY <2>2
  <2> QED
    BY <1>2, <2>2, <2>3
<1>5. \A n \in Nat : n \in S
  <2> HIDE DEF S
  <2> QED BY <1>3, <1>4, AllNaturals
<1>6. ASSUME NEW f \in Seq(Chars) PROVE Reached(f)
  <2>1. Len(f) \in Nat
    OBVIOUS
  <2> QED
    BY <1>5, <2>1
<1> QED
  BY <1>6 DEF Reached

(* What a line gains with a field. *)
LEMMA PrintedAppends ==
    ASSUME NEW fs \in Seq(Seq(Chars)), NEW f \in Seq(Chars)
    PROVE  /\ Printed(fs) \in Seq(Chars)
           /\ Printed(Append(fs, f)) =
                IF fs = <<>> THEN Escaped(f) ELSE Append(Printed(fs), Colon) \o Escaped(f)
<1> DEFINE W == Seq(Chars)
           part(i, g) == (IF i = 1 THEN <<>> ELSE <<Colon>>) \o Escaped(g)
           P(gs) == [i \in DOMAIN gs |-> part(i, gs[i])]
<1>1. ASSUME NEW g \in W, NEW i PROVE part(i, g) \in W
  <2> DEFINE e == Escaped(g)
             sep == IF i = 1 THEN <<>> ELSE <<Colon>>
  <2>1. e \in Seq(Chars)
    <3>1. Letter \in Chars
      BY DEF Chars
    <3> QED
      BY <3>1, EscapedAppends, Zenon
  <2>2. sep \in Seq(Chars)
    <3>1. Colon \in Chars
      BY DEF Chars
    <3> QED
      BY <3>1
  <2> HIDE DEF e, sep
  <2>3. sep \o e \in Seq(Chars)
    BY <2>1, <2>2, ConcatProperties
  <2> QED
    BY <2>3 DEF e, sep
<1>2. \A gs : Printed(gs) = FlattenSeq(P(gs))
  BY Zenon DEF Printed
<1> HIDE DEF part, W
<1>3. fs \in Seq(W) /\ f \in W
  BY DEF W
<1>4. part(Len(fs) + 1, f) \in W
  BY <1>1, <1>3
<1>5. P(fs) \in Seq(W) /\ P(Append(fs, f)) = Append(P(fs), part(Len(fs) + 1, f))
  <2> DEFINE n    == Len(fs)
             more == Append(fs, f)
             last == part(n + 1, f)
  <2>1. n \in Nat /\ DOMAIN fs = 1..n /\ \A i \in 1..n : fs[i] \in W
    BY <1>3
  <2>2. P(fs) \in Seq(W) /\ Len(P(fs)) = n
    BY <1>1, <2>1
  <2>3. DOMAIN more = 1..(n + 1) /\ more[n + 1] = f /\ \A i \in 1..n : more[i] = fs[i]
    BY <1>3
  <2>4. last \in W
    BY <1>4
  <2> HIDE DEF n, more, last
  <2>5. P(more) \in Seq(W) /\ Len(P(more)) = n + 1
    BY <1>1, <1>3, <2>1, <2>3
  <2> DEFINE app == Append(P(fs), last)
  <2>6. app \in Seq(W) /\ Len(app) = n + 1 /\ app[n + 1] = last /\ \A i \in 1..n : app[i] = P(fs)[i]
    <3> HIDE DEF P
    <3> QED BY <2>1, <2>2, <2>4
  <2> HIDE DEF app
  <2>7. ASSUME NEW i \in 1..(n + 1) PROVE P(more)[i] = app[i]
    <3>1. CASE i \in 1..n
      BY <2>1, <2>3, <2>6, <3>1
    <3>2. CASE i = n + 1
      BY <2>1, <2>3, <2>6, <3>2 DEF last
    <3> QED
      BY <2>1, <3>1, <3>2
  <2> HIDE DEF P
  <2>8. P(more) = app
    BY <2>5, <2>6, <2>7, SeqEqual
  <2> QED
    BY <2>2, <2>8 DEF app, more, last, n
<1> HIDE DEF P
<1>6. /\ FlattenSeq(P(fs)) \in Seq(Chars)
      /\ FlattenSeq(Append(P(fs), part(Len(fs) + 1, f))) = FlattenSeq(P(fs)) \o part(Len(fs) + 1, f)
  BY <1>4, <1>5, FlattenAppends, Zenon DEF W
<1>7. Printed(fs) \in Seq(Chars) /\ Printed(Append(fs, f)) = Printed(fs) \o part(Len(fs) + 1, f)
  BY <1>2, <1>5, <1>6, Zenon
<1> DEFINE e == Escaped(f)
           p == Printed(fs)
<1>8. e \in Seq(Chars) /\ Colon \in Chars /\ p \in Seq(Chars)
  <2>1. Letter \in Chars /\ Colon \in Chars
    BY DEF Chars
  <2> QED
    BY <1>7, <2>1, EscapedAppends, Zenon
<1> HIDE DEF e, p
<1>9. CASE fs = <<>>
  <2>1. p = <<>>
    <3>1. P(fs) = <<>>
      BY <1>9 DEF P
    <3> QED
      BY <1>2, <3>1 DEF FlattenSeq, p
  <2>2. part(Len(fs) + 1, f) = <<>> \o e
    <3>1. Len(fs) + 1 = 1
      BY <1>9
    <3> QED
      BY <3>1, Zenon DEF part, e
  <2>3. p \o part(Len(fs) + 1, f) = e
    BY <1>8, <2>1, <2>2, ConcatEmptySeq
  <2> QED
    BY <1>7, <1>9, <2>3, Zenon DEF e, p
<1>10. CASE fs # <<>>
  <2>1. part(Len(fs) + 1, f) = <<Colon>> \o e
    <3>1. Len(fs) + 1 # 1
      BY <1>3, <1>10
    <3> QED
      BY <3>1, Zenon DEF part, e
  <2>2. p \o (<<Colon>> \o e) = (p \o <<Colon>>) \o e /\ p \o <<Colon>> = Append(p, Colon)
    <3> DEFINE sep == <<Colon>>
    <3>1. sep \in Seq(Chars)
      BY <1>8
    <3> HIDE DEF sep
    <3>2. p \o (sep \o e) = (p \o sep) \o e
      <4>1. Associates(p, sep, e)
        BY <1>8, <3>1, ConcatThree, Zenon
      <4> QED
        BY <4>1, Zenon DEF Associates
    <3>3. p \o <<Colon>> = Append(p, Colon)
      BY <1>8, ConcatFew
    <3> QED
      BY <3>2, <3>3 DEF sep
  <2> QED
    BY <1>7, <1>10, <2>1, <2>2, Zenon DEF e, p
<1> QED
  BY <1>7, <1>9, <1>10

(* The loop over a printed line has all its fields, the last one open. *)
LEMMA EndOfPrinted ==
    \A fs \in Seq(Seq(Chars)), f \in Seq(Chars) :
        End(Printed(Append(fs, f))) = [out |-> fs, buf |-> f, escaped |-> FALSE]
<1> DEFINE W == Seq(Chars)
           Reached(fs) == \A f \in W :
               End(Printed(Append(fs, f))) = [out |-> fs, buf |-> f, escaped |-> FALSE]
           S == {n \in Nat : \A fs \in Seq(W) : Len(fs) = n => Reached(fs)}
<1>1. Reached(<<>>)
  <2> SUFFICES ASSUME NEW f \in Seq(Chars)
               PROVE  End(Printed(Append(<<>>, f))) = [out |-> <<>>, buf |-> f, escaped |-> FALSE]
    OBVIOUS
  <2>1. <<>> \in Seq(Seq(Chars)) /\ <<>> \in Seq(Chars)
    OBVIOUS
  <2>2. Printed(Append(<<>>, f)) = Escaped(f)
    BY <2>1, PrintedAppends, Zenon
  <2>3. Colon \in Chars /\ Letter \in Chars
    BY DEF Chars
  <2>4. End(<<>>) = [out |-> <<>>, buf |-> <<>>, escaped |-> FALSE]
    BY <2>1, <2>3, EndAppends, Zenon DEF Started
  <2>5. End(<<>> \o Escaped(f)) = [out |-> <<>>, buf |-> f, escaped |-> FALSE]
    BY <2>1, <2>4, EndOfField, Zenon
  <2>6. <<>> \o Escaped(f) = Escaped(f)
    BY <2>3, EscapedAppends, ConcatEmptySeq, Zenon
  <2> QED
    BY <2>2, <2>5, <2>6, Zenon
<1>2. ASSUME NEW gs \in Seq(W), NEW g \in W, Reached(gs)
      PROVE  Reached(Append(gs, g))
  <2> DEFINE fs == Append(gs, g)
             w  == Append(Printed(fs), Colon)
  <2>1. fs \in Seq(W) /\ fs # <<>>
    BY AppendProperties
  <2>2. Colon \in Chars
    BY DEF Chars
  <2>3. Printed(fs) \in Seq(Chars) /\ w \in Seq(Chars)
    <3> HIDE DEF fs
    <3>1. Printed(fs) \in Seq(Chars)
      BY <1>2, <2>1, PrintedAppends, Zenon
    <3> QED
      BY <2>2, <3>1, AppendProperties
  <2>4. End(w) = [out |-> fs, buf |-> <<>>, escaped |-> FALSE]
    <3> DEFINE st == [out |-> gs, buf |-> g, escaped |-> FALSE]
    <3>1. End(Printed(fs)) = st
      BY <1>2, Zenon
    <3>2. End(w) = Split(st, Colon)
      BY <2>2, <2>3, <3>1, EndAppends, Zenon
    <3>3. st \in States
      BY <1>2 DEF States
    <3>4. ~st.escaped => Split(st, Colon) = [out |-> Append(st.out, st.buf), buf |-> <<>>, escaped |-> FALSE]
      BY <3>3, SplitCases, Zenon
    <3>5. ~st.escaped /\ st.out = gs /\ st.buf = g
      OBVIOUS
    <3> HIDE DEF st
    <3> QED
      BY <3>2, <3>4, <3>5, Zenon
  <2>5. ASSUME NEW f \in W
        PROVE  End(Printed(Append(fs, f))) = [out |-> fs, buf |-> f, escaped |-> FALSE]
    <3>1. Printed(Append(fs, f)) = w \o Escaped(f)
      BY <2>1, <2>5, PrintedAppends, Zenon
    <3>2. End(w \o Escaped(f)) = [out |-> fs, buf |-> f, escaped |-> FALSE]
      <4> HIDE DEF w, fs
      <4> QED BY <2>1, <2>3, <2>4, EndOfField, Zenon
    <3> QED
      BY <3>1, <3>2, Zenon
  <2> QED
    BY <2>5, Zenon
<1> HIDE DEF Reached, W
<1>3. 0 \in S /\ S \in SUBSET Nat
  BY <1>1
<1>4. ASSUME NEW n \in S PROVE n + 1 \in S
  <2> SUFFICES ASSUME NEW fs \in Seq(W), Len(fs) = n + 1 PROVE Reached(fs)
    OBVIOUS
  <2>1. fs # <<>>
    OBVIOUS
  <2>2. PICK gs \in Seq(W), g \in W : fs = Append(gs, g)
    BY <2>1, SequenceEmptyOrAppend
  <2>3. Len(gs) = n
    BY <2>2
  <2> QED
    BY <1>2, <2>2, <2>3
<1>5. \A n \in Nat : n \in S
  <2> HIDE DEF S
  <2> QED BY <1>3, <1>4, AllNaturals
<1>6. ASSUME NEW fs \in Seq(W) PROVE Reached(fs)
  <2>1. Len(fs) \in Nat
    OBVIOUS
  <2> QED
    BY <1>5, <2>1
<1> QED
  BY <1>6, Zenon DEF Reached, W

-----------------------------------------------------------------------------
(* The theorems. *)

(* An input of a kind is one of those that Init gives of it. *)
LEMMA Kinds ==
    ASSUME Init
    PROVE  /\ input[1] = "fields" => GivenFields
           /\ input[1] = "sizes" => GivenSizes
           /\ input[1] = "devices" => GivenDevices
           /\ input[1] = "nics" => GivenNics
           /\ input[1] = "lines" => GivenLines
<1>1. GivenFields => input[1] = "fields"
  BY DEF GivenFields
<1>2. GivenLines => input[1] = "lines"
  BY DEF GivenLines
<1>3. GivenSizes => input[1] = "sizes"
  BY DEF GivenSizes
<1>4. GivenNics => input[1] = "nics"
  BY DEF GivenNics
<1>5. GivenDevices => input[1] = "devices"
  BY DEF GivenDevices
<1> QED
  BY <1>1, <1>2, <1>3, <1>4, <1>5 DEF Init

(* What UpTo gives are sequences. *)
LEMMA UpToIsSeq ==
    ASSUME NEW E, NEW n
    PROVE  UpTo(E, n) \subseteq Seq(E)
BY DEF UpTo

(* TerseRoundTrip: what nmcli has escaped and joined comes back field by field, *)
(* for every number and length of the fields (wifi.py:52-71).                   *)
THEOREM FieldsComeBack == Spec => []TerseRoundTrip
<1>1. Init => TerseRoundTrip
  <2> SUFFICES ASSUME Init, input[1] = "fields" PROVE ParseTerse(Printed(input[2])) = input[2]
    BY DEF TerseRoundTrip
  <2>1. PICK n \in 1..LineLen : \E fields \in [1..n -> UpTo(Chars, FieldLen)] :
           input = <<"fields", fields>>
    BY Kinds DEF GivenFields
  <2>2. PICK fields \in [1..n -> UpTo(Chars, FieldLen)] : input = <<"fields", fields>>
    BY <2>1
  <2>3. fields \in Seq(Seq(Chars)) /\ fields # <<>>
    <3>1. n \in Nat /\ n >= 1 /\ \A i \in 1..n : fields[i] \in Seq(Chars)
      BY UpToIsSeq, ListingsAssumption
    <3> DEFINE W == Seq(Chars)
    <3>2. n \in Nat /\ n >= 1 /\ fields \in [1..n -> W]
      BY <3>1
    <3> HIDE DEF W
    <3>3. fields \in Seq(W) /\ Len(fields) = n
      BY <3>2
    <3> QED
      BY <3>2, <3>3 DEF W
  <2>4. PICK fs \in Seq(Seq(Chars)), f \in Seq(Chars) : fields = Append(fs, f)
    <3> DEFINE W == Seq(Chars)
    <3>1. fields \in Seq(W) /\ fields # <<>>
      BY <2>3
    <3> HIDE DEF W
    <3>2. \E fs \in Seq(W), f \in W : fields = Append(fs, f)
      BY <3>1, SequenceEmptyOrAppend
    <3> QED
      BY <3>2, Zenon DEF W
  <2>5. End(Printed(fields)) = [out |-> fs, buf |-> f, escaped |-> FALSE]
    BY <2>4, EndOfPrinted, Zenon
  <2>6. ParseTerse(Printed(fields)) = Append(fs, f)
    <3> DEFINE end == End(Printed(fields))
    <3>1. end.out = fs /\ end.buf = f /\ ~end.escaped
      BY <2>5
    <3>2. ParseTerse(Printed(fields)) = Append(end.out, IF end.escaped THEN Append(end.buf, Backslash) ELSE end.buf)
      BY Zenon DEF ParseTerse, End
    <3> HIDE DEF end
    <3> QED
      BY <3>1, <3>2, Zenon
  <2> QED
    BY <2>2, <2>4, <2>6, Zenon
<1>2. TerseRoundTrip /\ [Next]_input => TerseRoundTrip'
  BY Zenon DEF TerseRoundTrip, Next
<1> QED
  BY <1>1, <1>2, PTL DEF Spec

(* What an ssid takes in a JSON string is a number of bytes.                    *)
LEMMA CodedSizeType ==
    ASSUME NEW n \in 1..32, NEW strange \in 0..n, NEW width \in {1, 2, 3, 6}
    PROVE  CodedSize(n, strange, width) \in Nat
<1>1. CASE width = 1
  BY <1>1 DEF CodedSize
<1>2. CASE width = 2
  BY <1>2 DEF CodedSize
<1>3. CASE width = 3
  BY <1>3 DEF CodedSize
<1>4. CASE width = 6
  BY <1>4 DEF CodedSize
<1> QED BY <1>1, <1>2, <1>3, <1>4

(* LegacyReadFits: networks whose coded ssid and security have 48 bytes fit    *)
(* into a value, five that take more do not (service.py:25-27, 109-122).       *)
THEOREM LegacyFits == Spec => []LegacyReadFits
<1>1. Init => LegacyReadFits
  <2> SUFFICES ASSUME Init, input[1] = "sizes" PROVE LegacyReadFits
    BY DEF LegacyReadFits
  <2>1. PICK n \in 0..LegacyLimit, ssid \in 1..32, signal \in 1..3, security \in Securities :
           \E strange \in 0..ssid, width \in {1, 2, 3, 6} :
               input = <<"sizes", n, CodedSize(ssid, strange, width), signal, security>>
    BY Kinds, Zenon DEF GivenSizes
  <2>2. PICK coded \in Nat : input = <<"sizes", n, coded, signal, security>>
    BY <2>1, CodedSizeType, Zenon
  <2>3. n \in {0, 1, 2, 3, 4, 5} /\ security \in Nat /\ signal \in {1, 2, 3}
    BY DEF LegacyLimit, Securities
  <2>4. coded + security <= 48 => ListSize(n, EntrySize(coded, signal, security, FALSE)) <= 512
    BY <2>3 DEF ListSize, EntrySize
  <2>5. (n = 5 /\ signal = 3 /\ ListSize(n, EntrySize(coded, signal, security, FALSE)) <= 512)
           => coded + security <= 48
    BY <2>3 DEF ListSize, EntrySize
  <2> QED BY <2>2, <2>4, <2>5 DEF LegacyReadFits, LegacyLimit, MaxValue
<1>2. LegacyReadFits /\ [Next]_input => LegacyReadFits'
  BY DEF LegacyReadFits, Next
<1> QED BY <1>1, <1>2, PTL DEF Spec

(* The suffix is the end of one of the MACs, or empty. *)
LEMMA MacSuffixType ==
    ASSUME NEW m \in Seq(MacEnds \cup {<<>>})
    PROVE  MacSuffix(m) \in MacEnds \cup {<<>>}
<1> DEFINE read == {i \in DOMAIN m : m[i] # <<>>}
<1>1. CASE read = {}
  BY <1>1, Zenon DEF MacSuffix
<1>2. CASE read # {}
  <2>1. read \in SUBSET Nat
    OBVIOUS
  <2>2. \E x \in read : \A y \in read : x <= y
    <3> HIDE DEF read
    <3> QED BY <1>2, <2>1, LeastExists
  <2>3. Min(read) \in read
    <3> HIDE DEF read
    <3> QED BY <2>2, Zenon DEF Min
  <2>4. MacSuffix(m) = m[Min(read)]
    BY <1>2, Zenon DEF MacSuffix
  <2>5. \A i \in DOMAIN m : m[i] \in MacEnds \cup {<<>>}
    OBVIOUS
  <2> QED
    BY <2>3, <2>4, <2>5, Zenon
<1> QED
  BY <1>1, <1>2

\* The characters of a name.
Alphabet == {"P", "i", "C", "f", "g", "-", "h", "1", "A", "D"}

(* What a name is made of is made of them. *)
LEMMA Characters ==
    /\ Prefix \in Seq(Alphabet) /\ Len(Prefix) = 6
    /\ <<"-">> \in Seq(Alphabet) /\ Len(<<"-">>) = 1
    /\ \A s \in MacEnds : s \in Seq(Alphabet) /\ Len(s) = 4
    /\ \A n \in Nat : [i \in 1..n |-> "h"] \in Seq(Alphabet)
<1>1. {"P", "i", "C", "f", "g", "-", "h", "1", "A", "D"} \subseteq Alphabet
  BY DEF Alphabet
<1>2. Prefix \in Seq(Alphabet) /\ Len(Prefix) = 6
  BY <1>1 DEF Prefix
<1>3. <<"-">> \in Seq(Alphabet) /\ Len(<<"-">>) = 1
  BY <1>1
<1>4. \A s \in MacEnds : s \in Seq(Alphabet) /\ Len(s) = 4
  <2>1. <<"1", "A", "1", "C">> \in Seq(Alphabet) /\ <<"1", "A", "1", "D">> \in Seq(Alphabet)
    BY <1>1
  <2> QED
    BY <2>1, Zenon DEF MacEnds
<1>5. \A n \in Nat : [i \in 1..n |-> "h"] \in Seq(Alphabet)
  BY <1>1
<1> QED
  BY <1>2, <1>3, <1>4, <1>5, Zenon

(* The length of a concatenation. *)
LEMMA ConcatLen ==
    ASSUME NEW V, NEW s \in Seq(V), NEW t \in Seq(V)
    PROVE  s \o t \in Seq(V) /\ Len(s \o t) = Len(s) + Len(t)
BY ConcatProperties

(* Clipping leaves at most so many characters. *)
LEMMA ClipType ==
    ASSUME NEW host \in Seq(Alphabet), NEW n \in Nat
    PROVE  /\ Clip(host, n) \in Seq(Alphabet)
           /\ Len(Clip(host, n)) <= n
<1>1. CASE n >= Len(host)
  BY <1>1 DEF Clip
<1>2. CASE n < Len(host)
  <2>1. Clip(host, n) = SubSeq(host, 1, n)
    BY <1>2 DEF Clip
  <2>2. 1 \in Int /\ n \in Int /\ \A i \in 1..n : host[i] \in Alphabet
    BY <1>2
  <2>3. /\ SubSeq(host, 1, n) \in Seq(Alphabet)
        /\ Len(SubSeq(host, 1, n)) = IF 1 <= n THEN n - 1 + 1 ELSE 0
    BY <2>2, SubSeqProperties
  <2> QED
    BY <2>1, <2>3
<1> QED
  BY <1>1, <1>2

(* A name with a suffix has a head that the suffix does not choose. *)
LEMMA LocalNameSplits ==
    ASSUME NEW host \in Seq(Alphabet)
    PROVE  /\ Len(LocalName(host, <<>>)) <= MaxName
           /\ \E head \in Seq(Alphabet) : Len(head) <= MaxName - 4
                /\ \A s \in Seq(Alphabet) : Len(s) = 4 => LocalName(host, s) = head \o s
<1>1. Prefix \in Seq(Alphabet) /\ Len(Prefix) = 6 /\ <<"-">> \in Seq(Alphabet) /\ Len(<<"-">>) = 1
  BY Characters
<1> DEFINE clip == Clip(host, 17)
           head == (Prefix \o clip) \o <<"-">>
<1>2. clip \in Seq(Alphabet) /\ Len(clip) <= 17
  BY ClipType
<1>3. head \in Seq(Alphabet) /\ Len(head) <= MaxName - 4
  <2> HIDE DEF clip
  <2>1. Prefix \o clip \in Seq(Alphabet) /\ Len(Prefix \o clip) = 6 + Len(clip)
    <3>1. Prefix \o clip \in Seq(Alphabet) /\ Len(Prefix \o clip) = Len(Prefix) + Len(clip)
      BY <1>1, <1>2, ConcatLen, Zenon
    <3> QED
      BY <1>1, <3>1, Zenon
  <2> DEFINE front == Prefix \o clip
             dash  == <<"-">>
  <2>2. front \in Seq(Alphabet) /\ dash \in Seq(Alphabet) /\ Len(front) = 6 + Len(clip) /\ Len(dash) = 1
    BY <1>1, <2>1
  <2> HIDE DEF front, dash
  <2>3. front \o dash \in Seq(Alphabet) /\ Len(front \o dash) = Len(front) + 1
    <3>1. front \o dash \in Seq(Alphabet) /\ Len(front \o dash) = Len(front) + Len(dash)
      BY <2>2, ConcatLen, Zenon
    <3> QED
      BY <2>2, <3>1, Zenon
  <2> QED
    BY <1>2, <2>2, <2>3 DEF front, dash, MaxName
<1>4. ASSUME NEW s \in Seq(Alphabet), Len(s) = 4
      PROVE  LocalName(host, s) = head \o s
  <2>1. s # <<>> /\ MaxName - (Len(Prefix) + 1 + Len(s)) = 17
    <3>1. Len(<<>>) = 0 /\ 28 - (6 + 1 + 4) = 17 /\ 4 # 0
      OBVIOUS
    <3> QED
      BY <1>1, <1>4, <3>1, Zenon DEF MaxName
  <2> QED
    BY <2>1, Zenon DEF LocalName
<1>5. Len(LocalName(host, <<>>)) <= MaxName
  <2>1. Prefix \o host \in Seq(Alphabet)
    BY <1>1, ConcatLen, Zenon
  <2>2. LocalName(host, <<>>) = Clip(Prefix \o host, MaxName)
    BY Zenon DEF LocalName
  <2>3. MaxName \in Nat
    BY DEF MaxName
  <2> QED
    BY <2>1, <2>2, <2>3, ClipType
<1> HIDE DEF head
<1> QED
  BY <1>3, <1>4, <1>5

(* NamesTellApart: two devices of one hostname advertise different names when   *)
(* their suffixes differ, for every hostname and any number of interfaces that  *)
(* cannot be read (service.py:39-96).                                           *)
THEOREM NamesDiffer == Spec => []NamesTellApart
<1>1. Init => NamesTellApart
  <2> SUFFICES ASSUME Init, input[1] = "devices" PROVE NamesTellApart
    BY DEF NamesTellApart
  <2>1. PICK k \in 0..HostLen, m1, m2 \in UpTo(MacEnds \cup {<<>>}, LineLen) :
           input = <<"devices", [i \in 1..k |-> "h"], m1, m2>>
    BY Kinds DEF GivenDevices
  <2> DEFINE host == [i \in 1..k |-> "h"]
             s1   == MacSuffix(m1)
             s2   == MacSuffix(m2)
  <2>2. host \in Seq(Alphabet)
    <3>1. k \in Nat
      BY ListingsAssumption
    <3> QED
      BY <3>1, Characters, Zenon
  <2>3. s1 \in MacEnds \cup {<<>>} /\ s2 \in MacEnds \cup {<<>>}
    BY UpToIsSeq, MacSuffixType
  <2>4. \A s \in MacEnds : s \in Seq(Alphabet) /\ Len(s) = 4
    BY Characters
  <2> HIDE DEF host, s1, s2
  <2>5. PICK head \in Seq(Alphabet) : Len(head) <= MaxName - 4
           /\ \A s \in Seq(Alphabet) : Len(s) = 4 => LocalName(host, s) = head \o s
    BY <2>2, LocalNameSplits
  <2>6. \A s \in MacEnds : LocalName(host, s) = head \o s /\ Len(head \o s) <= MaxName
    <3> SUFFICES ASSUME NEW s \in MacEnds
                 PROVE  LocalName(host, s) = head \o s /\ Len(head \o s) <= MaxName
      OBVIOUS
    <3>1. s \in Seq(Alphabet) /\ Len(s) = 4
      BY <2>4
    <3>2. Len(head \o s) = Len(head) + 4
      BY <3>1, ConcatLen, Zenon
    <3> QED
      BY <2>5, <3>1, <3>2 DEF MaxName
  <2>7. Len(LocalName(host, s1)) <= MaxName
    BY <2>2, <2>3, <2>6, LocalNameSplits
  <2>8. ASSUME s1 # s2, s1 # <<>>, s2 # <<>> PROVE LocalName(host, s1) # LocalName(host, s2)
    <3>1. s1 \in MacEnds /\ s2 \in MacEnds
      BY <2>3, <2>8
    <3>2. s1 \in Seq(Alphabet) /\ s2 \in Seq(Alphabet)
      BY <2>4, <3>1
    <3>3. head \o s1 = head \o s2 => s1 = s2
      BY <2>5, <3>2, ConcatSimplifications
    <3> QED
      BY <2>6, <2>8, <3>1, <3>3
  <2>9. input[2] = host /\ MacSuffix(input[3]) = s1 /\ MacSuffix(input[4]) = s2
    BY <2>1 DEF host, s1, s2
  <2> QED
    BY <2>7, <2>8, <2>9, Zenon DEF NamesTellApart
<1>2. NamesTellApart /\ [Next]_input => NamesTellApart'
  BY Zenon DEF NamesTellApart, Next
<1> QED
  BY <1>1, <1>2, PTL DEF Spec
===============================================================================
