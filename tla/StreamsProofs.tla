---------------------------- MODULE StreamsProofs ----------------------------
(***************************************************************************)
(* Proofs about a generation request, for any requests, replies and scripts*)
(* of the backend, any way the connection cuts them, any capacity of the   *)
(* channel and any moment the client hangs up.                             *)
(*                                                                         *)
(* First what the operators of the model compute: joins of sequences, the  *)
(* parser, what a piece of a chunk does to the state of a response.  Then  *)
(* the invariants, each resting on those before it: Shape (which parts of  *)
(* the state exist), Following (the parser handed out what the backend     *)
(* finished), Direct and Relayed (the events are those of what it handed   *)
(* out), Requested.  What every generation promises follows from them.     *)
(***************************************************************************)
EXTENDS Streams, FiniteSetsExt, FiniteSetTheorems, FunctionTheorems, WellFoundedInduction,
        SequenceTheorems, TLAPS

-----------------------------------------------------------------------------
(* Induction *)

\* A set of naturals that is not empty has a least element.
LEMMA LeastNatural ==
  ASSUME NEW S \in SUBSET Nat, S # {}
  PROVE  \E n \in S : \A m \in S : n <= m
<1>1. PICK top \in S : TRUE
  OBVIOUS
<1> DEFINE D == 0 .. top
           T == {0 .. k : k \in {k \in S : k <= top}}
<1>2. IsFiniteSet(D)
  BY <1>1, FS_Interval
<1>3. T \subseteq SUBSET D
  BY <1>1
<1>4. SUBSET D = FiniteSubsetsOf(D)
  BY <1>2, FS_FiniteSubsetsOfFinite
<1>5. 0 .. top \in T
  BY <1>1
<1> HIDE DEF T
<1>6. \E x \in T : \A y \in T : ~ (<<y, x>> \in StrictSubsetOrdering(D))
  <2>1. IsWellFoundedOn(StrictSubsetOrdering(D), SUBSET D)
    BY <1>4, FS_StrictSubsetOrderingWellFounded
  <2>2. T # {}
    BY <1>5
  <2> HIDE DEF D
  <2>3. QED BY <2>1, <2>2, <1>3, WFMin
<1>7. PICK x \in T : \A y \in T : ~ (<<y, x>> \in StrictSubsetOrdering(D))
  BY <1>6
<1>8. PICK n \in S : n <= top /\ x = 0 .. n
  BY DEF T
<1>9. ASSUME NEW m \in S PROVE n <= m
  <2>1. SUFFICES ASSUME m < n PROVE FALSE
    BY <1>8, <1>9
  <2>2. 0 .. m \in T
    BY <2>1, <1>8, <1>1 DEF T
  <2>3. 0 .. m \subseteq 0 .. n /\ n \in 0 .. n /\ n \notin 0 .. m
    BY <2>1, <1>8
  <2>4. <<0 .. m, 0 .. n>> \in StrictSubsetOrdering(D)
    BY <2>2, <2>3, <1>3, <1>8 DEF StrictSubsetOrdering
  <2>5. QED BY <2>2, <2>4, <1>7, <1>8
<1>10. QED BY <1>9

\* Induction up to N, for a property given as the set of the numbers that have it.
LEMMA Climb ==
  ASSUME NEW N \in Nat, NEW S, 0 \in S, \A k \in 1..N : k - 1 \in S => k \in S
  PROVE  \A k \in 0..N : k \in S
<1> DEFINE Bad == {k \in 0..N : k \notin S}
<1>1. SUFFICES ASSUME Bad # {} PROVE FALSE
  OBVIOUS
<1>2. PICK k \in Bad : \A j \in Bad : k <= j
  <2>1. Bad \in SUBSET Nat
    OBVIOUS
  <2> HIDE DEF Bad
  <2>2. QED BY <1>1, <2>1, LeastNatural
<1>3. k \in 1..N /\ k - 1 \in 0..N /\ k - 1 \notin Bad
  BY <1>2
<1>4. QED BY <1>2, <1>3

\* Induction over a sequence, likewise.
LEMMA SeqClimb ==
  ASSUME NEW E, NEW T, <<>> \in T,
         \A s \in Seq(E), e \in E : s \in T => Append(s, e) \in T
  PROVE  \A s \in Seq(E) : s \in T
<1> TAKE s \in Seq(E)
<1> DEFINE S == {k \in 0..Len(s) : SubSeq(s, 1, k) \in T}
<1>1. Len(s) \in Nat
  OBVIOUS
<1>2. 0 \in S
  <2>1. SubSeq(s, 1, 0) = <<>>
    OBVIOUS
  <2>2. SubSeq(s, 1, 0) \in T
    BY <2>1
  <2>3. QED BY <2>2, <1>1
<1>3. \A k \in 1..Len(s) : k - 1 \in S => k \in S
  <2> TAKE k \in 1..Len(s)
  <2> HAVE k - 1 \in S
  <2>1. /\ SubSeq(s, 1, k - 1) \in Seq(E) /\ s[k] \in E
        /\ SubSeq(s, 1, k) = Append(SubSeq(s, 1, k - 1), s[k])
    BY <1>1
  <2>2. SubSeq(s, 1, k - 1) \in T
    OBVIOUS
  <2>3. SubSeq(s, 1, k) \in T
    BY <2>1, <2>2
  <2>4. QED BY <2>3, <1>1
<1> HIDE DEF S
<1>4. Len(s) \in S
  BY <1>1, <1>2, <1>3, Climb
<1>5. SubSeq(s, 1, Len(s)) = s
  OBVIOUS
<1>6. QED BY <1>4, <1>5 DEF S

\* A finite set of naturals that is not empty has a greatest element.
LEMMA GreatestNatural ==
  ASSUME NEW N \in Nat, NEW S \in SUBSET (0..N), S # {}
  PROVE  Max(S) \in S /\ \A n \in S : n <= Max(S)
<1> DEFINE T == {N - n : n \in S}
<1>1. T \in SUBSET Nat /\ T # {}
  OBVIOUS
<1>2. PICK t \in T : \A u \in T : t <= u
  <2> HIDE DEF T
  <2>1. QED BY <1>1, LeastNatural
<1>3. PICK m \in S : t = N - m
  BY <1>2
<1>4. \A n \in S : n <= m
  <2> TAKE n \in S
  <2>1. N - m <= N - n
    BY <1>2, <1>3
  <2>2. n \in Int /\ m \in Int
    BY <1>3
  <2>3. QED BY <2>1, <2>2
<1>5. \E x \in S : \A y \in S : x >= y
  BY <1>3, <1>4
<1>6. QED BY <1>5 DEF Max

-----------------------------------------------------------------------------
(* Joining sequences *)

\* The recursive function in FlattenSeq exists.
LEMMA FlattenUnfolds ==
  ASSUME NEW S, NEW ss \in Seq(Seq(S)), ss # <<>>
  PROVE  \E f : /\ f = [i \in 1..Len(ss) |-> IF i = 1 THEN ss[i] ELSE f[i - 1] \o ss[i]]
                /\ FlattenSeq(ss) = f[Len(ss)]
<1> DEFINE Next1(f, i) == IF i = 1 THEN ss[i] ELSE f[i - 1] \o ss[i]
           Has(k) == \E f : f = [i \in 1..k |-> Next1(f, i)]
<1>1. Len(ss) \in Nat /\ Len(ss) # 0
  OBVIOUS
<1>2. Has(0)
  <2> DEFINE f == [i \in 1..0 |-> 0]
  <2>1. f = [i \in 1..0 |-> Next1(f, i)]
    <3> HIDE DEF Next1
    <3>1. QED OBVIOUS
  <2>2. QED BY <2>1
<1>3. ASSUME NEW k \in 1..Len(ss), Has(k - 1) PROVE Has(k)
  <2>1. PICK f : f = [i \in 1..(k - 1) |-> Next1(f, i)]
    BY <1>3
  <2> DEFINE g == [i \in 1..k |-> Next1(f, i)]
  <2>2. \A i \in 1..(k - 1) : g[i] = f[i]
    <3> HIDE DEF Next1
    <3>1. \A i \in 1..(k - 1) : i \in 1..k
      BY <1>1
    <3>2. \A i \in 1..(k - 1) : f[i] = Next1(f, i)
      BY <2>1
    <3>3. QED BY <3>1, <3>2
  <2>3. \A i \in 1..k : Next1(g, i) = Next1(f, i)
    <3> HIDE DEF g
    <3>1. QED BY <2>2, <1>1
  <2>4. g = [i \in 1..k |-> Next1(g, i)]
    <3>1. g = [i \in 1..k |-> Next1(f, i)]
      OBVIOUS
    <3> HIDE DEF g, Next1
    <3>2. QED BY <2>3, <3>1
  <2>5. QED BY <2>4
<1>4. Has(Len(ss))
  <2> HIDE DEF Has
  <2> DEFINE Good == {k \in 0..Len(ss) : Has(k)}
  <2>1. 0 \in Good
    BY <1>1, <1>2
  <2>2. \A k \in 1..Len(ss) : k - 1 \in Good => k \in Good
    BY <1>1, <1>3
  <2>3. \A k \in 0..Len(ss) : k \in Good
    <3> HIDE DEF Good
    <3>1. QED BY <1>1, <2>1, <2>2, Climb
  <2>4. QED BY <2>3, <1>1
<1>5. PICK f : f = [i \in 1..Len(ss) |-> Next1(f, i)]
  BY <1>4
<1> DEFINE F == CHOOSE g : g = [i \in 1..Len(ss) |-> Next1(g, i)]
<1>6. F = [i \in 1..Len(ss) |-> Next1(F, i)]
  <2> HIDE DEF Next1
  <2>1. QED BY <1>5
<1>7. FlattenSeq(ss) = F[Len(ss)]
  BY <1>1 DEF FlattenSeq
<1>8. QED BY <1>6, <1>7

\* Joining nothing gives nothing; one sequence more is appended.
LEMMA FlattenEmpty == FlattenSeq(<<>>) = <<>>
  BY DEF FlattenSeq

\* One sequence more is appended.
LEMMA FlattenAppend ==
  ASSUME NEW S, NEW ss \in Seq(Seq(S)), NEW t \in Seq(S)
  PROVE  FlattenSeq(ss) \in Seq(S) /\ FlattenSeq(Append(ss, t)) = FlattenSeq(ss) \o t
<1> DEFINE N == Len(ss)
           tt == Append(ss, t)
<1>1. N \in Nat /\ \A i \in 1..N : ss[i] \in Seq(S)
  OBVIOUS
<1>2. tt \in Seq(Seq(S)) /\ Len(tt) = N + 1 /\ tt[N + 1] = t
  OBVIOUS
<1>3. \A i \in 1..N : tt[i] = ss[i]
  OBVIOUS
<1>4. PICK g : /\ g = [i \in 1..Len(tt) |-> IF i = 1 THEN tt[i] ELSE g[i - 1] \o tt[i]]
               /\ FlattenSeq(tt) = g[Len(tt)]
  <2>1. tt # <<>>
    BY <1>1, <1>2
  <2> HIDE DEF tt
  <2>2. QED BY <1>2, <2>1, FlattenUnfolds
<1> HIDE DEF tt, N
<1>5. \A i \in 1..(N + 1) : g[i] = IF i = 1 THEN tt[i] ELSE g[i - 1] \o tt[i]
  BY <1>2, <1>4
<1>6. FlattenSeq(tt) = g[N + 1]
  BY <1>2, <1>4
<1>7. CASE N = 0
  <2>1. ss = <<>>
    BY <1>7 DEF N
  <2>2. FlattenSeq(tt) = t
    BY <1>2, <1>5, <1>6, <1>7
  <2>3. <<>> \in Seq(S) /\ <<>> \o t = t
    OBVIOUS
  <2>4. QED BY <2>1, <2>2, <2>3, FlattenEmpty DEF tt
<1>8. CASE N # 0
  <2>1. PICK f : /\ f = [i \in 1..N |-> IF i = 1 THEN ss[i] ELSE f[i - 1] \o ss[i]]
                 /\ FlattenSeq(ss) = f[N]
    <3>1. ss # <<>>
      BY <1>8 DEF N
    <3> USE DEF N
    <3>2. QED BY <3>1, FlattenUnfolds
  <2>2. \A i \in 1..N : f[i] = IF i = 1 THEN ss[i] ELSE f[i - 1] \o ss[i]
    BY <2>1
  <2> DEFINE Good == {k \in 0..N : k # 0 => f[k] = g[k] /\ f[k] \in Seq(S)}
  <2>3. 0 \in Good
    BY <1>1
  <2>4. \A k \in 1..N : k - 1 \in Good => k \in Good
    <3> TAKE k \in 1..N
    <3> HAVE k - 1 \in Good
    <3>1. CASE k = 1
      BY <3>1, <1>1, <1>3, <1>5, <2>2
    <3>2. CASE k # 1
      <4>1. k - 1 \in 1..N /\ k \in 1..(N + 1)
        BY <3>2, <1>1
      <4>2. f[k] = f[k - 1] \o ss[k] /\ g[k] = g[k - 1] \o tt[k] /\ tt[k] = ss[k]
        BY <3>2, <4>1, <1>3, <1>5, <2>2
      <4>3. f[k - 1] = g[k - 1] /\ f[k - 1] \in Seq(S)
        BY <4>1
      <4>4. f[k] = g[k] /\ f[k] \in Seq(S)
        BY <4>2, <4>3, <1>1
      <4>5. QED BY <4>4, <1>1
    <3>3. QED BY <3>1, <3>2
  <2>5. N \in Good
    <3> HIDE DEF Good
    <3>1. \A k \in 0..N : k \in Good
      BY <1>1, <2>3, <2>4, Climb
    <3>2. QED BY <3>1, <1>1
  <2>6. f[N] = g[N] /\ f[N] \in Seq(S)
    BY <1>8, <2>5
  <2>7. g[N + 1] = g[N] \o t
    <3>1. N + 1 \in 1..(N + 1) /\ N + 1 # 1 /\ (N + 1) - 1 = N
      BY <1>1, <1>8
    <3>2. QED BY <3>1, <1>2, <1>5
  <2>8. QED BY <1>6, <2>1, <2>6, <2>7 DEF tt
<1>9. QED BY <1>7, <1>8

\* A join of sequences over S is one.
LEMMA FlattenType ==
  ASSUME NEW S, NEW ss \in Seq(Seq(S))
  PROVE  FlattenSeq(ss) \in Seq(S)
<1>1. <<>> \in Seq(S)
  OBVIOUS
<1>2. QED BY <1>1, FlattenAppend

\* The join of two lists is the joins, joined.
LEMMA FlattenConcat ==
  ASSUME NEW S, NEW ss \in Seq(Seq(S)), NEW tt \in Seq(Seq(S))
  PROVE  FlattenSeq(ss \o tt) = FlattenSeq(ss) \o FlattenSeq(tt)
<1> DEFINE T == {uu \in Seq(Seq(S)) : FlattenSeq(ss \o uu) = FlattenSeq(ss) \o FlattenSeq(uu)}
<1>1. <<>> \in T
  <2>1. ss \o <<>> = ss /\ <<>> \in Seq(Seq(S))
    OBVIOUS
  <2>2. FlattenSeq(ss) \o <<>> = FlattenSeq(ss)
    BY FlattenType
  <2>3. QED BY <2>1, <2>2, FlattenEmpty
<1>2. \A uu \in Seq(Seq(S)), u \in Seq(S) : uu \in T => Append(uu, u) \in T
  <2> TAKE uu \in Seq(Seq(S)), u \in Seq(S)
  <2> HAVE uu \in T
  <2>1. ss \o Append(uu, u) = Append(ss \o uu, u) /\ ss \o uu \in Seq(Seq(S))
        /\ Append(uu, u) \in Seq(Seq(S))
    OBVIOUS
  <2>2. FlattenSeq(ss \o Append(uu, u)) = FlattenSeq(ss \o uu) \o u
    BY <2>1, FlattenAppend
  <2>3. FlattenSeq(Append(uu, u)) = FlattenSeq(uu) \o u
    BY FlattenAppend
  <2>4. FlattenSeq(ss) \in Seq(S) /\ FlattenSeq(uu) \in Seq(S)
    BY FlattenType
  <2>5. (FlattenSeq(ss) \o FlattenSeq(uu)) \o u = FlattenSeq(ss) \o (FlattenSeq(uu) \o u)
    BY <2>4
  <2>6. QED BY <2>1, <2>2, <2>3, <2>5
<1> HIDE DEF T
<1>3. tt \in T
  BY <1>1, <1>2, SeqClimb
<1>4. QED BY <1>3 DEF T

\* A single sequence is its own join.
LEMMA FlattenOne ==
  ASSUME NEW S, NEW t \in Seq(S)
  PROVE  FlattenSeq(<<t>>) = t
<1>1. <<t>> = Append(<<>>, t) /\ <<>> \in Seq(Seq(S))
  OBVIOUS
<1>2. FlattenSeq(Append(<<>>, t)) = FlattenSeq(<<>>) \o t
  BY <1>1, FlattenAppend
<1>3. QED BY <1>1, <1>2, FlattenEmpty

\* Where all but nothing is joined, nothing comes out.
LEMMA FlattenNothing ==
  ASSUME NEW ss, NEW N \in Nat, ss \in [1..N -> {<<>>}]
  PROVE  FlattenSeq(ss) = <<>>
<1> DEFINE T == {uu \in Seq({<<>>}) : FlattenSeq(uu) = <<>>}
<1>1. {<<>>} \subseteq Seq({}) /\ Seq({<<>>}) \subseteq Seq(Seq({}))
  <2>1. <<>> \in Seq({})
    OBVIOUS
  <2>2. {<<>>} \subseteq Seq({})
    BY <2>1
  <2> DEFINE A == {<<>>}
             B == Seq({})
  <2>3. A \subseteq B => Seq(A) \subseteq Seq(B)
    <3> HIDE DEF A, B
    <3>1. QED OBVIOUS
  <2>4. QED BY <2>2, <2>3
<1>2. <<>> \in T
  BY FlattenEmpty
<1>3. \A s \in Seq({<<>>}), e \in {<<>>} : s \in T => Append(s, e) \in T
  <2> TAKE s \in Seq({<<>>}), e \in {<<>>}
  <2> HAVE s \in T
  <2>1. s \in Seq(Seq({})) /\ e \in Seq({}) /\ e = <<>>
    BY <1>1
  <2>2. FlattenSeq(Append(s, e)) = FlattenSeq(s) \o e
    BY <2>1, FlattenAppend
  <2>3. QED BY <2>1, <2>2
<1>4. ss \in Seq({<<>>})
  BY SeqDef
<1> HIDE DEF T
<1>5. ss \in T
  BY <1>2, <1>3, <1>4, SeqClimb
<1>6. QED BY <1>5 DEF T

-----------------------------------------------------------------------------
(* Joining what a function makes of each element *)

Joined(f, s) == FlattenSeq([i \in DOMAIN s |-> f[s[i]]])

\* The list that is joined.
LEMMA JoinedList ==
  ASSUME NEW E, NEW S, NEW f \in [E -> Seq(S)], NEW s \in Seq(E)
  PROVE  [i \in DOMAIN s |-> f[s[i]]] \in Seq(Seq(S))
<1>1. DOMAIN s = 1..Len(s) /\ Len(s) \in Nat /\ \A i \in 1..Len(s) : s[i] \in E
  OBVIOUS
<1>2. \A i \in 1..Len(s) : f[s[i]] \in Seq(S)
  BY <1>1
<1>3. [i \in DOMAIN s |-> f[s[i]]] \in [1..Len(s) -> Seq(S)]
  BY <1>1, <1>2
<1>4. QED BY <1>1, <1>3, SeqDef

\* Its type.
LEMMA JoinedType ==
  ASSUME NEW E, NEW S, NEW f \in [E -> Seq(S)], NEW s \in Seq(E)
  PROVE  Joined(f, s) \in Seq(S)
<1> DEFINE m == [i \in DOMAIN s |-> f[s[i]]]
<1>1. m \in Seq(Seq(S))
  BY JoinedList
<1>2. FlattenSeq(m) \in Seq(S)
  <2> HIDE DEF m
  <2>1. QED BY <1>1, FlattenType
<1>3. QED BY <1>2 DEF Joined

\* One element more.
LEMMA JoinedAppend ==
  ASSUME NEW E, NEW S, NEW f \in [E -> Seq(S)], NEW s \in Seq(E), NEW e \in E
  PROVE  Joined(f, Append(s, e)) = Joined(f, s) \o f[e]
<1> DEFINE m == [i \in DOMAIN s |-> f[s[i]]]
           n == [i \in DOMAIN Append(s, e) |-> f[Append(s, e)[i]]]
<1>1. m \in Seq(Seq(S)) /\ f[e] \in Seq(S)
  BY JoinedList
<1>2. n = Append(m, f[e])
  <2>1. /\ Len(s) \in Nat /\ DOMAIN s = 1..Len(s)
        /\ DOMAIN Append(s, e) = 1..(Len(s) + 1)
        /\ \A i \in 1..Len(s) : Append(s, e)[i] = s[i]
        /\ Append(s, e)[Len(s) + 1] = e
    OBVIOUS
  <2>2. n = [i \in 1..(Len(s) + 1) |-> IF i = Len(s) + 1 THEN f[e] ELSE f[s[i]]]
    BY <2>1
  <2>3. DOMAIN m = 1..Len(s) /\ \A i \in 1..Len(s) : m[i] = f[s[i]]
    BY <2>1
  <2> HIDE DEF m, n
  <2>4. Len(m) = Len(s)
    BY <1>1, <2>1, <2>3
  <2>5. Append(m, f[e]) = [i \in 1..(Len(m) + 1) |-> IF i = Len(m) + 1 THEN f[e] ELSE m[i]]
    BY <1>1
  <2>6. \A i \in 1..(Len(s) + 1) : i # Len(s) + 1 => i \in 1..Len(s)
    BY <2>1
  <2>7. QED BY <2>2, <2>3, <2>4, <2>5, <2>6
<1>3. FlattenSeq(Append(m, f[e])) = FlattenSeq(m) \o f[e]
  <2> HIDE DEF m
  <2>1. QED BY <1>1, FlattenAppend
<1>4. QED BY <1>2, <1>3 DEF Joined

\* Nothing.
LEMMA JoinedEmpty == \A f : Joined(f, <<>>) = <<>>
<1> TAKE f
<1>1. [i \in DOMAIN <<>> |-> f[<<>>[i]]] = <<>>
  OBVIOUS
<1>2. QED BY <1>1, FlattenEmpty DEF Joined

\* One element.
LEMMA JoinedOne ==
  ASSUME NEW E, NEW S, NEW f \in [E -> Seq(S)], NEW e \in E
  PROVE  Joined(f, <<e>>) = f[e]
<1>1. <<e>> = Append(<<>>, e) /\ <<>> \in Seq(E)
  OBVIOUS
<1>2. Joined(f, <<e>>) = Joined(f, <<>>) \o f[e]
  BY <1>1, JoinedAppend
<1>3. Joined(f, <<>>) = <<>>
  BY JoinedEmpty
<1>4. <<>> \o f[e] = f[e]
  <2>1. f[e] \in Seq(S)
    OBVIOUS
  <2>2. QED BY <2>1
<1>5. QED BY <1>1, <1>2, <1>3, <1>4

\* Two sequences.  (The provers find the instance of a named statement only.)
JoinsInParts(f, s, t) == Joined(f, s \o t) = Joined(f, s) \o Joined(f, t)
LEMMA JoinedConcat ==
  ASSUME NEW E, NEW S, NEW f \in [E -> Seq(S)], NEW s \in Seq(E), NEW t \in Seq(E)
  PROVE  JoinsInParts(f, s, t)
<1> DEFINE T == {u \in Seq(E) : Joined(f, s \o u) = Joined(f, s) \o Joined(f, u)}
<1>1. <<>> \in T
  <2>1. s \o <<>> = s /\ Joined(f, s) \in Seq(S) /\ <<>> \in Seq(E)
    BY JoinedType
  <2>2. Joined(f, s) \o <<>> = Joined(f, s)
    BY <2>1
  <2>3. QED BY <2>1, <2>2, JoinedEmpty
<1>2. \A u \in Seq(E), e \in E : u \in T => Append(u, e) \in T
  <2> TAKE u \in Seq(E), e \in E
  <2> HAVE u \in T
  <2>1. s \o Append(u, e) = Append(s \o u, e) /\ s \o u \in Seq(E) /\ Append(u, e) \in Seq(E)
    OBVIOUS
  <2>2. Joined(f, Append(s \o u, e)) = Joined(f, s \o u) \o f[e]
    BY <2>1, JoinedAppend
  <2>3. Joined(f, Append(u, e)) = Joined(f, u) \o f[e]
    BY JoinedAppend
  <2>4. Joined(f, s) \in Seq(S) /\ Joined(f, u) \in Seq(S) /\ f[e] \in Seq(S)
    BY JoinedType
  <2>5. (Joined(f, s) \o Joined(f, u)) \o f[e] = Joined(f, s) \o (Joined(f, u) \o f[e])
    BY <2>4
  <2>6. QED BY <2>1, <2>2, <2>3, <2>5
<1> HIDE DEF T
<1>3. t \in T
  BY <1>1, <1>2, SeqClimb
<1>4. QED BY <1>3 DEF T, JoinsInParts

\* What is joined already can be joined part by part.
LEMMA JoinedJoin ==
  ASSUME NEW E, NEW S, NEW f \in [E -> Seq(S)], NEW ee \in Seq(Seq(E))
  PROVE  Joined(f, FlattenSeq(ee)) = FlattenSeq([j \in DOMAIN ee |-> Joined(f, ee[j])])
<1>1. \A v, u \in Seq(E) : Joined(f, v \o u) = Joined(f, v) \o Joined(f, u)
  <2> TAKE v, u \in Seq(E)
  <2>1. JoinsInParts(f, v, u)
    BY JoinedConcat
  <2>2. QED BY <2>1 DEF JoinsInParts
<1> DEFINE g == [s \in Seq(E) |-> Joined(f, s)]
           T == {uu \in Seq(Seq(E)) : Joined(f, FlattenSeq(uu)) = Joined(g, uu)}
<1>2. g \in [Seq(E) -> Seq(S)]
  BY JoinedType
<1>3. \A s \in Seq(E) : g[s] = Joined(f, s)
  OBVIOUS
<1> HIDE DEF g
<1>4. <<>> \in T
  BY FlattenEmpty, JoinedEmpty
<1>5. \A uu \in Seq(Seq(E)), u \in Seq(E) : uu \in T => Append(uu, u) \in T
  <2> TAKE uu \in Seq(Seq(E)), u \in Seq(E)
  <2> HAVE uu \in T
  <2>1. FlattenSeq(uu) \in Seq(E) /\ FlattenSeq(Append(uu, u)) = FlattenSeq(uu) \o u
    BY FlattenAppend
  <2>2. Joined(f, FlattenSeq(uu) \o u) = Joined(f, FlattenSeq(uu)) \o Joined(f, u)
    BY <1>1, <2>1
  <2>3. Joined(g, Append(uu, u)) = Joined(g, uu) \o g[u]
    BY <1>2, JoinedAppend
  <2>4. Append(uu, u) \in Seq(Seq(E))
    OBVIOUS
  <2>5. QED BY <1>3, <2>1, <2>2, <2>3, <2>4
<1> HIDE DEF T
<1>6. ee \in T
  BY <1>4, <1>5, SeqClimb
<1>7. Joined(f, FlattenSeq(ee)) = Joined(g, ee)
  BY <1>6 DEF T
<1>8. [j \in DOMAIN ee |-> g[ee[j]]] = [j \in DOMAIN ee |-> Joined(f, ee[j])]
  <2>1. \A j \in DOMAIN ee : ee[j] \in Seq(E)
    OBVIOUS
  <2>2. QED BY <1>3, <2>1
<1>9. QED BY <1>7, <1>8 DEF Joined

\* Two functions that agree on the elements.
LEMMA JoinedSame ==
  ASSUME NEW f, NEW g, NEW s, \A i \in DOMAIN s : f[s[i]] = g[s[i]]
  PROVE  Joined(f, s) = Joined(g, s)
BY DEF Joined

-----------------------------------------------------------------------------
(* The pieces of a chunk *)

PieceSet ==
    [kind : {"text"}, text : Seq(STRING)] \cup [kind : {"call"}, key : Nat, call : CallParts]

PieceWords == [p \in PieceSet |-> IF p.kind = "call" THEN <<>> ELSE p.text]
DeltaPieces == [d \in Deltas |-> PiecesOf(d)]
DeltaText == [d \in Deltas |-> IF d.index = 0 THEN d.text ELSE <<>>]
ChunkPieces == [c \in Chunks |-> Pieces(c)]

\* What the fields of a delta and of a chunk are.
LEMMA DeltaFields ==
  ASSUME NEW d \in Deltas
  PROVE  /\ d.index \in Nat /\ d.role \in BOOLEAN /\ d.text \in Seq(STRING)
         /\ d.reasoning \in Seq(STRING) /\ d.calls \in Seq(CallParts)
         /\ d.finish \in STRING \cup {None}
BY DEF Deltas

\* A chunk is a list of deltas and a count of tokens.
LEMMA ChunkFields ==
  ASSUME NEW c \in Chunks
  PROVE  c.choices \in Seq(Deltas) /\ c.usage \in Nat
BY DEF Chunks

\* The words of a piece.
LEMMA PieceWordsType == PieceWords \in [PieceSet -> Seq(STRING)]
<1>1. <<>> \in Seq(STRING)
  OBVIOUS
<1>2. \A p \in PieceSet : (IF p.kind = "call" THEN <<>> ELSE p.text) \in Seq(STRING)
  BY <1>1 DEF PieceSet
<1>3. QED BY <1>2 DEF PieceWords

\* A delta is cut into pieces, whose words are its text.
LEMMA PiecesOfType ==
  ASSUME NEW d \in Deltas
  PROVE  /\ PiecesOf(d) \in Seq(PieceSet)
         /\ Joined(PieceWords, PiecesOf(d)) = DeltaText[d]
<1> DEFINE first == [kind |-> "text", text |-> d.text]
           rest  == [i \in DOMAIN d.calls |->
                       [kind |-> "call", key |-> Key(d.calls, i), call |-> d.calls[i]]]
<1>1. /\ d.index \in Nat /\ d.text \in Seq(STRING)
      /\ DOMAIN d.calls = 1..Len(d.calls) /\ Len(d.calls) \in Nat
      /\ \A i \in 1..Len(d.calls) : d.calls[i] \in CallParts
  BY DeltaFields
<1>2. first \in PieceSet
  BY <1>1 DEF PieceSet
<1>3. \A i \in 1..Len(d.calls) : Key(d.calls, i) \in Nat
  BY <1>1 DEF Key, CallParts
<1>4. \A i \in 1..Len(d.calls) :
        [kind |-> "call", key |-> Key(d.calls, i), call |-> d.calls[i]] \in PieceSet
  BY <1>1, <1>3 DEF PieceSet
<1>5. rest \in [1..Len(d.calls) -> PieceSet]
  BY <1>1, <1>4
<1>6. rest \in Seq(PieceSet) /\ DOMAIN rest = 1..Len(d.calls)
  BY <1>1, <1>5, SeqDef
<1>7. \A i \in DOMAIN rest : rest[i].kind = "call"
  OBVIOUS
<1>8. PiecesOf(d) = IF d.index # 0 THEN <<>> ELSE <<first>> \o rest
  BY DEF PiecesOf
<1>9. PieceWords[first] = d.text
  BY <1>2 DEF PieceWords
<1> HIDE DEF first, rest
<1>10. Joined(PieceWords, rest) = <<>>
  <2> DEFINE m == [i \in DOMAIN rest |-> PieceWords[rest[i]]]
  <2>1. \A i \in DOMAIN rest : rest[i] \in PieceSet /\ PieceWords[rest[i]] = <<>>
    BY <1>5, <1>6, <1>7 DEF PieceWords
  <2>2. m \in [1..Len(d.calls) -> {<<>>}]
    BY <1>6, <2>1
  <2>3. FlattenSeq(m) = <<>>
    <3> HIDE DEF m
    <3>1. QED BY <1>1, <2>2, FlattenNothing
  <2>4. QED BY <2>3 DEF Joined
<1>11. Joined(PieceWords, <<first>>) = d.text
  BY <1>2, <1>9, PieceWordsType, JoinedOne
<1>12. <<first>> \in Seq(PieceSet)
  BY <1>2
<1>13. JoinsInParts(PieceWords, <<first>>, rest)
  BY <1>6, <1>12, PieceWordsType, JoinedConcat
<1>14. d.text \o <<>> = d.text
  BY <1>1
<1>15. CASE d.index # 0
  BY <1>8, <1>15, JoinedEmpty DEF DeltaText
<1>16. CASE d.index = 0
  <2>1. PiecesOf(d) = <<first>> \o rest
    BY <1>8, <1>16
  <2>2. Joined(PieceWords, <<first>> \o rest) = d.text
    BY <1>10, <1>11, <1>13, <1>14 DEF JoinsInParts
  <2>3. <<first>> \o rest \in Seq(PieceSet)
    BY <1>6, <1>12
  <2>4. QED BY <2>1, <2>2, <2>3, <1>16 DEF DeltaText
<1>17. QED BY <1>15, <1>16

\* So is a chunk.
LEMMA PiecesType ==
  ASSUME NEW c \in Chunks
  PROVE  /\ Pieces(c) \in Seq(PieceSet)
         /\ Joined(PieceWords, Pieces(c)) = Text0(c)
         /\ Text0(c) \in Seq(STRING)
<1> DEFINE cs == c.choices
           pp == [i \in DOMAIN cs |-> DeltaPieces[cs[i]]]
<1>1. cs \in Seq(Deltas) /\ \A i \in DOMAIN cs : cs[i] \in Deltas
  BY ChunkFields
<1>2. DeltaPieces \in [Deltas -> Seq(PieceSet)]
  BY PiecesOfType DEF DeltaPieces
<1>3. pp \in Seq(Seq(PieceSet))
  BY <1>1, <1>2, JoinedList
<1>4. Pieces(c) = FlattenSeq(pp)
  <2>1. pp = [i \in DOMAIN cs |-> PiecesOf(cs[i])]
    BY <1>1 DEF DeltaPieces
  <2>2. QED BY <2>1 DEF Pieces
<1>5. Text0(c) = FlattenSeq([i \in DOMAIN cs |-> DeltaText[cs[i]]])
  <2>1. [i \in DOMAIN cs |-> DeltaText[cs[i]]]
          = [i \in DOMAIN cs |-> IF cs[i].index = 0 THEN cs[i].text ELSE <<>>]
    BY <1>1 DEF DeltaText
  <2>2. QED BY <2>1 DEF Text0
<1>6. [j \in DOMAIN pp |-> Joined(PieceWords, pp[j])] = [i \in DOMAIN cs |-> DeltaText[cs[i]]]
  <2>1. \A i \in DOMAIN cs : Joined(PieceWords, DeltaPieces[cs[i]]) = DeltaText[cs[i]]
    BY <1>1, PiecesOfType DEF DeltaPieces
  <2>2. QED BY <2>1
<1> HIDE DEF pp, cs
<1>7. Joined(PieceWords, FlattenSeq(pp)) = FlattenSeq([j \in DOMAIN pp |-> Joined(PieceWords, pp[j])])
  BY <1>3, PieceWordsType, JoinedJoin
<1>8. FlattenSeq(pp) \in Seq(PieceSet)
  BY <1>3, FlattenType
<1>9. Joined(PieceWords, FlattenSeq(pp)) \in Seq(STRING)
  BY <1>8, PieceWordsType, JoinedType
<1>10. QED BY <1>4, <1>5, <1>6, <1>7, <1>8, <1>9

-----------------------------------------------------------------------------
(* The keys in order *)

\* The keys below n, as InOrder lists them.
Below(keys, n) == FlattenSeq([i \in 1..n |-> IF i - 1 \in keys THEN <<i - 1>> ELSE <<>>])

Rising(s, keys, n) ==
    /\ s \in Seq(Nat)
    /\ \A i \in 1..Len(s) : s[i] \in keys /\ s[i] < n
    /\ \A i, j \in 1..Len(s) : i < j => s[i] < s[j]
    /\ \A k \in keys : k < n => \E i \in 1..Len(s) : s[i] = k

\* They are those below n, each once, in order.
LEMMA BelowRising ==
  ASSUME NEW keys \in SUBSET Nat, NEW N \in Nat
  PROVE  Rising(Below(keys, N), keys, N)
<1> DEFINE piece(i) == IF i - 1 \in keys THEN <<i - 1>> ELSE <<>>
           list(n) == [i \in 1..n |-> piece(i)]
           Good == {n \in 0..N : Rising(Below(keys, n), keys, n)}
<1>1. \A i \in Nat \ {0} : piece(i) \in Seq(Nat)
  OBVIOUS
<1>2. \A n \in Nat : list(n) \in Seq(Seq(Nat))
  <2> TAKE n \in Nat
  <2>1. list(n) \in [1..n -> Seq(Nat)]
    <3> HIDE DEF piece
    <3>1. \A i \in 1..n : i \in Nat \ {0}
      OBVIOUS
    <3>2. QED BY <1>1, <3>1
  <2> HIDE DEF list
  <2>2. QED BY <2>1, SeqDef
<1>3. \A n \in Nat : Below(keys, n) = FlattenSeq(list(n))
  BY DEF Below
<1>4. 0 \in Good
  <2>1. list(0) = <<>>
    <3> HIDE DEF piece
    <3>1. QED OBVIOUS
  <2>2. Below(keys, 0) = <<>>
    BY <1>3, <2>1, FlattenEmpty
  <2>3. Rising(<<>>, keys, 0)
    BY DEF Rising
  <2>4. QED BY <2>2, <2>3
<1>5. \A n \in 1..N : n - 1 \in Good => n \in Good
  <2> TAKE n \in 1..N
  <2> HAVE n - 1 \in Good
  <2> DEFINE s == Below(keys, n - 1)
             t == Below(keys, n)
  <2>1. Rising(s, keys, n - 1) /\ n - 1 \in Nat /\ n \in Nat \ {0}
    OBVIOUS
  <2>2. list(n) = Append(list(n - 1), piece(n))
    <3> HIDE DEF piece
    <3>1. list(n - 1) \in Seq(Seq(Nat)) /\ Len(list(n - 1)) = n - 1
      BY <1>2, <2>1
    <3>2. QED BY <2>1, <3>1
  <2>3. t = s \o piece(n)
    <3> HIDE DEF list, piece
    <3>1. FlattenSeq(Append(list(n - 1), piece(n))) = FlattenSeq(list(n - 1)) \o piece(n)
      BY <1>1, <1>2, <2>1, FlattenAppend
    <3>2. QED BY <1>3, <2>1, <2>2, <3>1
  <2> HIDE DEF s, t
  <2>4. CASE n - 1 \notin keys
    <3>1. t = s
      <4>1. s \in Seq(Nat)
        BY <2>1 DEF Rising
      <4>2. QED BY <2>3, <2>4, <4>1
    <3>2. Rising(s, keys, n)
      BY <2>1, <2>4 DEF Rising
    <3>3. QED BY <3>1, <3>2 DEF t
  <2>5. CASE n - 1 \in keys
    <3>1. t = Append(s, n - 1)
      <4>1. s \in Seq(Nat)
        BY <2>1 DEF Rising
      <4>2. QED BY <2>1, <2>3, <2>5, <4>1
    <3>2. Rising(t, keys, n)
      <4>1. /\ s \in Seq(Nat) /\ Len(s) \in Nat
            /\ \A i \in 1..Len(s) : s[i] \in keys /\ s[i] < n - 1 /\ s[i] \in Nat
            /\ \A i, j \in 1..Len(s) : i < j => s[i] < s[j]
            /\ \A k \in keys : k < n - 1 => \E i \in 1..Len(s) : s[i] = k
        BY <2>1 DEF Rising
      <4>2. /\ t \in Seq(Nat) /\ Len(t) = Len(s) + 1 /\ t[Len(s) + 1] = n - 1
            /\ \A i \in 1..Len(s) : t[i] = s[i]
        BY <2>1, <3>1, <4>1
      <4>3. \A i \in 1..Len(t) : t[i] \in keys /\ t[i] < n
        <5> TAKE i \in 1..Len(t)
        <5>1. i \in 1..Len(s) \/ i = Len(s) + 1
          BY <4>1, <4>2
        <5>2. CASE i \in 1..Len(s)
          <6>1. t[i] = s[i] /\ s[i] \in keys /\ s[i] < n - 1 /\ s[i] \in Nat
            BY <4>1, <4>2, <5>2
          <6>2. QED BY <2>1, <6>1
        <5>3. CASE i = Len(s) + 1
          <6>1. t[i] = n - 1
            BY <4>2, <5>3
          <6>2. QED BY <2>1, <2>5, <6>1
        <5>4. QED BY <5>1, <5>2, <5>3
      <4>4. \A i, j \in 1..Len(t) : i < j => t[i] < t[j]
        <5> TAKE i, j \in 1..Len(t)
        <5> HAVE i < j
        <5>1. i \in 1..Len(s) /\ (j \in 1..Len(s) \/ j = Len(s) + 1)
          BY <4>1, <4>2
        <5>2. t[i] = s[i] /\ s[i] < n - 1 /\ s[i] \in Nat
          BY <4>1, <4>2, <5>1
        <5>3. CASE j \in 1..Len(s)
          BY <4>1, <4>2, <5>1, <5>2, <5>3
        <5>4. CASE j = Len(s) + 1
          BY <4>2, <5>2, <5>4
        <5>5. QED BY <5>1, <5>3, <5>4
      <4>5. \A k \in keys : k < n => \E i \in 1..Len(t) : t[i] = k
        <5> TAKE k \in keys
        <5> HAVE k < n
        <5>1. k < n - 1 \/ k = n - 1
          BY <2>1
        <5>2. QED BY <4>1, <4>2, <5>1
      <4>6. QED BY <4>2, <4>3, <4>4, <4>5 DEF Rising
    <3>3. QED BY <3>2 DEF t
  <2>6. QED BY <2>4, <2>5
<1> HIDE DEF Good
<1>6. N \in Good
  BY <1>4, <1>5, Climb
<1>7. QED BY <1>6 DEF Good

\* InOrder lists every key once.
LEMMA InOrderLists ==
  ASSUME NEW N \in Nat, NEW keys \in SUBSET (0..N)
  PROVE  /\ InOrder(keys) \in Seq(keys) /\ Len(InOrder(keys)) \in Nat
         /\ \A i, j \in 1..Len(InOrder(keys)) : InOrder(keys)[i] = InOrder(keys)[j] => i = j
         /\ \A k \in keys : \E i \in 1..Len(InOrder(keys)) : InOrder(keys)[i] = k
<1>1. keys \in SUBSET Nat
  OBVIOUS
<1>2. CASE keys = {}
  <2>1. InOrder(keys) = <<>>
    BY <1>2 DEF InOrder
  <2>2. Len(<<>>) = 0 /\ <<>> \in Seq(keys) /\ 1..0 = {}
    OBVIOUS
  <2>3. QED BY <1>2, <2>1, <2>2
<1>3. CASE keys # {}
  <2> DEFINE top == Max(keys)
             s == InOrder(keys)
  <2>1. top \in keys /\ \A k \in keys : k <= top
    BY <1>3, GreatestNatural
  <2>2. top \in Nat
    BY <1>1, <2>1
  <2>3. s = Below(keys, top + 1)
    BY <1>3 DEF InOrder, Below
  <2> HIDE DEF s, top
  <2>4. Rising(s, keys, top + 1)
    BY <1>1, <2>2, <2>3, BelowRising
  <2>5. /\ s \in Seq(Nat) /\ Len(s) \in Nat
        /\ \A i \in 1..Len(s) : s[i] \in keys /\ s[i] \in Nat
        /\ \A i, j \in 1..Len(s) : i < j => s[i] < s[j]
    BY <2>4 DEF Rising
  <2>6. \A k \in keys : \E i \in 1..Len(s) : s[i] = k
    <3> TAKE k \in keys
    <3>1. k < top + 1
      BY <1>1, <2>1, <2>2
    <3>2. QED BY <2>4, <3>1 DEF Rising
  <2>7. s \in Seq(keys)
    <3>1. s = [i \in 1..Len(s) |-> s[i]]
      BY <2>5
    <3>2. s \in [1..Len(s) -> keys]
      BY <2>5, <3>1
    <3>3. QED BY <2>5, <3>2, SeqDef
  <2>8. \A i, j \in 1..Len(s) : s[i] = s[j] => i = j
    <3> TAKE i, j \in 1..Len(s)
    <3> HAVE s[i] = s[j]
    <3>1. ~(i < j) /\ ~(j < i)
      BY <2>5
    <3>2. QED BY <2>5, <3>1
  <2>9. QED BY <2>5, <2>6, <2>7, <2>8 DEF s
<1>4. QED BY <1>2, <1>3

-----------------------------------------------------------------------------
(* The parser *)

Connections ==
    [script : Seq(Lines), n : Nat, buf : Seq(Lines), tail : Lines \cup {NoTail, Fragment},
     end : {"open", "eof", "reset", "over"}, broke : BOOLEAN, heard : Seq(Chunks)]

\* The lines that were taken from the buffer, and with them the last one.
Taken(u) == u.n - Len(u.buf)
Used(u) == SubSeq(u.script, 1, Taken(u)) \o LastInPart(u)

ParserOK(u) ==
    /\ u \in Connections
    /\ u.n <= Len(u.script) /\ Len(u.buf) <= u.n
    /\ \A i \in 1..Len(u.buf) : u.buf[i] = u.script[Taken(u) + i]
    /\ u.end = "over" => u.buf = <<>>

NoDone(lines) == \A i \in DOMAIN lines : lines[i].kind # "done"
Junk(lines) == \A i \in DOMAIN lines : lines[i].kind = "junk"

LineWords == [l \in Lines |-> LineText(l)]

\* A chunk keeps its shape and its usage when reasoning becomes text.
LEMMA NormalizedType ==
  ASSUME NEW c \in Chunks
  PROVE  Normalized(c) \in Chunks /\ Normalized(c).usage = c.usage
<1>1. c.choices \in Seq(Deltas) /\ c.usage \in Nat
  BY ChunkFields
<1> DEFINE cs == [i \in DOMAIN c.choices |-> NormalizeDelta(c.choices[i])]
<1>2. \A d \in Deltas : NormalizeDelta(d) \in Deltas
  <2> TAKE d \in Deltas
  <2>1. d.reasoning \in Seq(STRING)
    BY DeltaFields
  <2>2. [d EXCEPT !.text = d.reasoning] \in Deltas
    BY <2>1 DEF Deltas
  <2>3. QED BY <2>2 DEF NormalizeDelta
<1>3. cs \in Seq(Deltas)
  <2>1. DOMAIN c.choices = 1..Len(c.choices) /\ Len(c.choices) \in Nat
        /\ \A i \in 1..Len(c.choices) : c.choices[i] \in Deltas
    BY <1>1
  <2>2. cs \in [1..Len(c.choices) -> Deltas]
    BY <1>2, <2>1
  <2>3. QED BY <2>1, <2>2, SeqDef
<1> HIDE DEF cs
<1>4. [c EXCEPT !.choices = cs] \in Chunks /\ [c EXCEPT !.choices = cs].usage = c.usage
  BY <1>3 DEF Chunks
<1>5. QED BY <1>4 DEF Normalized, cs

\* Every line holds a text, if an empty one.
LEMMA LineFields ==
  ASSUME NEW l \in Lines
  PROVE  /\ l.kind \in {"done", "junk", "data"}
         /\ l.kind = "data" => l.chunk \in Chunks
         /\ LineWords[l] = LineText(l)
         /\ LineText(l) \in Seq(STRING)
<1>1. l.kind \in {"done", "junk", "data"} /\ (l.kind = "data" => l.chunk \in Chunks)
  BY DEF Lines
<1>2. LineWords[l] = LineText(l)
  BY DEF LineWords
<1>3. CASE l.kind = "data"
  <2>1. Normalized(l.chunk) \in Chunks
    BY <1>1, <1>3, NormalizedType
  <2>2. Text0(Normalized(l.chunk)) \in Seq(STRING)
    BY <2>1, PiecesType
  <2>3. QED BY <1>1, <1>2, <1>3, <2>2 DEF LineText
<1>4. CASE l.kind # "data"
  <2>1. LineText(l) = <<>>
    BY <1>4 DEF LineText
  <2>2. QED BY <1>1, <1>2, <1>4, <2>1
<1>5. QED BY <1>3, <1>4

\* Their type.
LEMMA LineWordsType == LineWords \in [Lines -> Seq(STRING)]
<1>1. \A l \in Lines : LineText(l) \in Seq(STRING)
  BY LineFields
<1>2. QED BY <1>1 DEF LineWords

\* The text of lines, as a join.
LEMMA TextOfJoined ==
  ASSUME NEW s \in Seq(Lines)
  PROVE  TextOf(s) = Joined(LineWords, s) /\ TextOf(s) \in Seq(STRING)
<1>1. \A i \in DOMAIN s : LineWords[s[i]] = LineText(s[i])
  <2>1. \A i \in DOMAIN s : s[i] \in Lines
    OBVIOUS
  <2>2. QED BY <2>1, LineFields
<1>2. [i \in DOMAIN s |-> LineText(s[i])] = [i \in DOMAIN s |-> LineWords[s[i]]]
  BY <1>1
<1>3. TextOf(s) = Joined(LineWords, s)
  BY <1>2 DEF TextOf, Joined
<1>4. QED BY <1>3, LineWordsType, JoinedType

\* The usage that lines report is that of the last one that reports any.
LEMMA UsageAppend ==
  ASSUME NEW s \in Seq(Lines), NEW l \in Lines
  PROVE  LastUsage(Append(s, l)) = IF l.kind = "data" /\ l.chunk.usage # 0 THEN l.chunk.usage
                                   ELSE LastUsage(s)
<1> DEFINE R(t) == {i \in DOMAIN t : t[i].kind = "data" /\ t[i].chunk.usage # 0}
           N == Len(s)
           t == Append(s, l)
<1>1. /\ N \in Nat /\ DOMAIN s = 1..N /\ DOMAIN t = 1..(N + 1)
      /\ \A i \in 1..N : t[i] = s[i]
      /\ t[N + 1] = l
  OBVIOUS
<1> HIDE DEF t, N
<1>2. R(s) \subseteq 0..N /\ R(t) \subseteq 0..(N + 1)
  BY <1>1
<1>3. \A i \in 1..N : i \in R(t) <=> i \in R(s)
  BY <1>1
<1>4. CASE l.kind = "data" /\ l.chunk.usage # 0
  <2>1. N + 1 \in R(t)
    BY <1>1, <1>4
  <2>2. Max(R(t)) = N + 1
    <3>1. Max(R(t)) \in R(t) /\ \A i \in R(t) : i <= Max(R(t))
      <4> HIDE DEF R
      <4>1. QED BY <1>1, <1>2, <2>1, GreatestNatural
    <3>2. Max(R(t)) \in 0..(N + 1) /\ N + 1 <= Max(R(t))
      <4> HIDE DEF R
      <4>1. QED BY <1>2, <2>1, <3>1
    <3>3. QED BY <1>1, <3>2
  <2>3. QED BY <1>1, <1>4, <2>1, <2>2 DEF LastUsage, t
<1>5. CASE ~(l.kind = "data" /\ l.chunk.usage # 0)
  <2>1. R(t) = R(s)
    <3>1. N + 1 \notin R(t)
      BY <1>1, <1>5
    <3> HIDE DEF R
    <3>2. \A i \in R(t) \cup R(s) : i \in 1..(N + 1)
      <4>1. R(t) \subseteq DOMAIN t /\ R(s) \subseteq DOMAIN s
        BY DEF R
      <4>2. QED BY <1>1, <4>1
    <3>3. N + 1 \notin R(s)
      <4>1. R(s) \subseteq DOMAIN s
        BY DEF R
      <4>2. QED BY <1>1, <4>1
    <3>4. \A i \in 1..(N + 1) : i \in R(t) <=> i \in R(s)
      BY <1>1, <1>3, <3>1, <3>3
    <3>5. QED BY <3>2, <3>4
  <2>2. R(s) # {} => t[Max(R(s))] = s[Max(R(s))]
    <3>1. R(s) # {} => Max(R(s)) \in R(s)
      <4> HIDE DEF R
      <4>1. QED BY <1>1, <1>2, GreatestNatural
    <3>2. QED BY <1>1, <3>1
  <2>3. LastUsage(t) = IF R(t) = {} THEN 0 ELSE t[Max(R(t))].chunk.usage
    BY DEF LastUsage
  <2>4. LastUsage(s) = IF R(s) = {} THEN 0 ELSE s[Max(R(s))].chunk.usage
    BY DEF LastUsage
  <2> HIDE DEF R
  <2>5. QED BY <1>5, <2>1, <2>2, <2>3, <2>4 DEF t
<1>6. QED BY <1>4, <1>5

\* Lines that hold no chunk add nothing to what lines say.
SaysNoMore(s, t) ==
    /\ s \o t \in Seq(Lines)
    /\ TextOf(s \o t) = TextOf(s) /\ LastUsage(s \o t) = LastUsage(s)

\* Junk is such.
LEMMA JunkSaysNothing ==
  ASSUME NEW s \in Seq(Lines), NEW t \in Seq(Lines), Junk(t)
  PROVE  SaysNoMore(s, t)
<1> DEFINE J == {l \in Lines : l.kind = "junk"}
           T == {u \in Seq(J) : SaysNoMore(s, u)}
<1>1. Seq(J) \subseteq Seq(Lines)
  <2>1. J \subseteq Lines
    OBVIOUS
  <2> HIDE DEF J
  <2>2. QED BY <2>1
<1>2. <<>> \in T
  <2>1. s \o <<>> = s
    OBVIOUS
  <2>2. SaysNoMore(s, <<>>)
    BY <2>1 DEF SaysNoMore
  <2>3. QED BY <2>2
<1>3. \A u \in Seq(J), l \in J : u \in T => Append(u, l) \in T
  <2> TAKE u \in Seq(J), l \in J
  <2> HAVE u \in T
  <2>1. SaysNoMore(s, u) /\ u \in Seq(Lines) /\ l \in Lines /\ l.kind = "junk"
    BY <1>1
  <2> DEFINE v == s \o u
  <2>2. s \o Append(u, l) = Append(v, l) /\ v \in Seq(Lines) /\ Append(v, l) \in Seq(Lines)
    BY <2>1
  <2>3. TextOf(v) = TextOf(s) /\ LastUsage(v) = LastUsage(s)
    BY <2>1 DEF SaysNoMore
  <2> HIDE DEF v
  <2>4. LastUsage(Append(v, l)) = LastUsage(v)
    BY <2>1, <2>2, UsageAppend
  <2>5. Joined(LineWords, Append(v, l)) = Joined(LineWords, v) \o LineWords[l]
    BY <2>1, <2>2, LineWordsType, JoinedAppend
  <2>6. LineWords[l] = <<>>
    BY <2>1, LineFields DEF LineText
  <2>7. TextOf(Append(v, l)) = TextOf(v)
    <3>1. TextOf(v) = Joined(LineWords, v) /\ TextOf(v) \in Seq(STRING)
          /\ TextOf(Append(v, l)) = Joined(LineWords, Append(v, l))
      BY <2>2, TextOfJoined
    <3>2. TextOf(v) \o <<>> = TextOf(v)
      BY <3>1
    <3>3. QED BY <2>5, <2>6, <3>1, <3>2
  <2>8. SaysNoMore(s, Append(u, l))
    BY <2>2, <2>3, <2>4, <2>7 DEF SaysNoMore
  <2>9. Append(u, l) \in Seq(J)
    OBVIOUS
  <2>10. QED BY <2>8, <2>9
<1>4. t \in Seq(J)
  <2>1. \A i \in 1..Len(t) : t[i] \in J
    BY DEF Junk
  <2> HIDE DEF J
  <2>2. QED BY <2>1
<1> HIDE DEF T, J
<1>5. t \in T
  BY <1>2, <1>3, <1>4, SeqClimb
<1>6. QED BY <1>5 DEF T

\* A line that holds a chunk adds the text and the usage of that chunk.
SaysChunk(s, t, c) ==
    /\ t \in Seq(Lines)
    /\ TextOf(t) = TextOf(s) \o Text0(c)
    /\ LastUsage(t) = IF c.usage = 0 THEN LastUsage(s) ELSE c.usage

\* One such line.
LEMMA LineSays ==
  ASSUME NEW s \in Seq(Lines), NEW l \in Lines, l.kind = "data"
  PROVE  SaysChunk(s, Append(s, l), Normalized(l.chunk))
<1>1. Append(s, l) \in Seq(Lines)
  OBVIOUS
<1>2. Normalized(l.chunk) \in Chunks /\ Normalized(l.chunk).usage = l.chunk.usage
  BY LineFields, NormalizedType
<1>3. LastUsage(Append(s, l)) = IF l.chunk.usage = 0 THEN LastUsage(s) ELSE l.chunk.usage
  BY UsageAppend
<1>4. Joined(LineWords, Append(s, l)) = Joined(LineWords, s) \o LineWords[l]
  BY LineWordsType, JoinedAppend
<1>5. LineWords[l] = Text0(Normalized(l.chunk))
  BY LineFields DEF LineText
<1>6. TextOf(s) = Joined(LineWords, s) /\ TextOf(Append(s, l)) = Joined(LineWords, Append(s, l))
  BY <1>1, TextOfJoined
<1>7. TextOf(Append(s, l)) = TextOf(s) \o Text0(Normalized(l.chunk))
  BY <1>4, <1>5, <1>6
<1>8. QED BY <1>1, <1>2, <1>3, <1>7 DEF SaysChunk

\* Once it is settled what came, more that comes changes nothing.
Settled(u) ==
    \/ u.end # "open"
    \/ \E m \in 1..u.n : /\ u.script[m].kind = "done"
                         /\ \A i \in 1..(m - 1) : u.script[i].kind # "done"

\* What came up to [DONE].
LEMMA CameDone ==
  ASSUME NEW u, ParserOK(u), NEW m \in 1..u.n, u.script[m].kind = "done",
         \A i \in 1..(m - 1) : u.script[i].kind # "done"
  PROVE  Came(u) = SubSeq(u.script, 1, m - 1)
<1> DEFINE came == SubSeq(u.script, 1, u.n) \o LastInPart(u)
           stops == {i \in DOMAIN came : came[i].kind = "done"}
<1>1. u.script \in Seq(Lines) /\ u.n \in Nat /\ u.n <= Len(u.script) /\ Len(u.script) \in Nat
      /\ m \in Nat \ {0} /\ m <= u.n
  BY DEF ParserOK, Connections
<1>2. LastInPart(u) \in Seq(Lines)
  BY DEF ParserOK, Connections, LastInPart, NoTail, Fragment
<1>3. /\ came \in Seq(Lines) /\ Len(came) \in Nat /\ u.n <= Len(came) /\ DOMAIN came = 1..Len(came)
      /\ \A i \in 1..u.n : came[i] = u.script[i]
  BY <1>1, <1>2
<1> HIDE DEF came
<1>4. m \in stops /\ \A i \in stops : m <= i
  BY <1>1, <1>3
<1>5. stops \in SUBSET Nat
  BY <1>3
<1>6. Min(stops) = m
  BY <1>1, <1>4, <1>5 DEF Min
<1>7. Came(u) = SubSeq(came, 1, m - 1)
  BY <1>4, <1>6 DEF Came, came
<1>8. SubSeq(came, 1, m - 1) = SubSeq(u.script, 1, m - 1)
  BY <1>1, <1>3
<1>9. QED BY <1>7, <1>8

\* What came where there was none.
LEMMA CameAll ==
  ASSUME NEW u, NoDone(SubSeq(u.script, 1, u.n) \o LastInPart(u))
  PROVE  Came(u) = SubSeq(u.script, 1, u.n) \o LastInPart(u)
BY DEF Came, NoDone

\* What is skipped on the way to the first line that counts is junk.
LEMMA FirstKeptIs ==
  ASSUME NEW buf \in Seq(Lines)
  PROVE  /\ FirstKept(buf) \in 0..Len(buf)
         /\ FirstKept(buf) = 0 => Junk(buf)
         /\ FirstKept(buf) # 0 =>
                /\ buf[FirstKept(buf)].kind # "junk"
                /\ \A j \in 1..(FirstKept(buf) - 1) : buf[j].kind = "junk"
<1> DEFINE kept == {i \in DOMAIN buf : buf[i].kind # "junk"}
<1>1. Len(buf) \in Nat /\ DOMAIN buf = 1..Len(buf)
  OBVIOUS
<1>2. CASE kept = {}
  <2>1. FirstKept(buf) = 0
    BY <1>2 DEF FirstKept
  <2>2. QED BY <1>1, <1>2, <2>1 DEF Junk
<1>3. CASE kept # {}
  <2> DEFINE i == FirstKept(buf)
  <2>1. i = CHOOSE k \in kept : \A j \in kept : k <= j
    BY <1>3 DEF FirstKept
  <2>2. \E k \in kept : \A j \in kept : k <= j
    <3>1. kept \in SUBSET Nat
      BY <1>1
    <3> HIDE DEF kept
    <3>2. QED BY <1>3, <3>1, LeastNatural
  <2>3. i \in kept /\ \A j \in kept : i <= j
    <3> HIDE DEF kept
    <3>1. QED BY <2>1, <2>2
  <2> HIDE DEF i
  <2>4. i \in 1..Len(buf) /\ buf[i].kind # "junk"
    BY <1>1, <2>3
  <2>5. \A j \in 1..(i - 1) : buf[j].kind = "junk"
    BY <1>1, <2>3, <2>4
  <2>6. QED BY <2>4, <2>5, <1>1 DEF i
<1>4. QED BY <1>2, <1>3

\* A poll that hands out a chunk has taken the line that holds it.
Consumes(u, v, c) ==
    /\ ParserOK(v) /\ NoDone(Used(v))
    /\ c \in Chunks /\ v.heard = Append(u.heard, c) /\ v.broke = u.broke
    /\ SaysChunk(Used(u), Used(v), c)

\* One that ends or breaks off has taken all that came.
Quits(u, v) ==
    /\ ParserOK(v) /\ Settled(v) /\ v.heard = u.heard
    /\ TextOf(Came(v)) = TextOf(Used(u)) /\ LastUsage(Came(v)) = LastUsage(Used(u))

\* After a read error the parser can still be asked.
Breaks(u, v) ==
    /\ Quits(u, v) /\ v.broke /\ NoDone(Used(v)) /\ v.end # "open" /\ Came(v) = Used(v)

PolledWell(u, p) ==
    \/ p.got = "pending" /\ p.up = u
    \/ p.got = "chunk" /\ Consumes(u, p.up, Last(p.up.heard))
    \/ p.got = "error" /\ Breaks(u, p.up)
    \/ p.got = "end" /\ Quits(u, p.up) /\ p.up.broke = u.broke

\* The lines a parser has used are lines.
LEMMA UsedType ==
  ASSUME NEW u, ParserOK(u)
  PROVE  /\ Used(u) \in Seq(Lines) /\ Taken(u) \in 0..u.n /\ LastInPart(u) \in Seq(Lines)
         /\ u.script \in Seq(Lines) /\ u.n \in 0..Len(u.script) /\ u.buf \in Seq(Lines)
         /\ Len(u.script) \in Nat /\ Len(u.buf) \in Nat
<1>1. /\ u.script \in Seq(Lines) /\ u.n \in 0..Len(u.script) /\ u.buf \in Seq(Lines)
      /\ Len(u.script) \in Nat /\ Len(u.buf) \in Nat /\ Len(u.buf) <= u.n
  BY DEF ParserOK, Connections
<1>2. LastInPart(u) \in Seq(Lines)
  BY DEF ParserOK, Connections, LastInPart, NoTail, Fragment
<1>3. Taken(u) \in 0..u.n
  BY <1>1 DEF Taken
<1>4. SubSeq(u.script, 1, Taken(u)) \in Seq(Lines)
  BY <1>1, <1>3
<1>5. QED BY <1>1, <1>2, <1>3, <1>4 DEF Used

\* The parser after hearing a line.
LEMMA HearFields ==
  ASSUME NEW u \in Connections, NEW l \in Lines, l.kind = "data"
  PROVE  /\ Hear(u, l) \in Connections
         /\ Hear(u, l).heard = Append(u.heard, Normalized(l.chunk))
         /\ Last(Hear(u, l).heard) = Normalized(l.chunk)
         /\ Hear(u, l).script = u.script /\ Hear(u, l).n = u.n /\ Hear(u, l).buf = u.buf
         /\ Hear(u, l).tail = u.tail /\ Hear(u, l).end = u.end /\ Hear(u, l).broke = u.broke
         /\ Normalized(l.chunk) \in Chunks
<1>1. Normalized(l.chunk) \in Chunks
  BY LineFields, NormalizedType
<1> DEFINE c == Normalized(l.chunk)
           h == Append(u.heard, c)
<1>2. h \in Seq(Chunks) /\ h[Len(h)] = c
  BY <1>1 DEF Connections
<1> HIDE DEF c
<1>3. Last(h) = c
  BY <1>2 DEF Last
<1> HIDE DEF h
<1>4. Hear(u, l) = [u EXCEPT !.heard = h]
  BY DEF Hear, h, c
<1>5. QED BY <1>1, <1>2, <1>3, <1>4 DEF Connections, h, c

\* A prefix and what follows it make a longer prefix.
Grows(s, k, b) == SubSeq(s, 1, k + Len(b)) = SubSeq(s, 1, k) \o b

\* Where b is what follows.
LEMMA PrefixGrows ==
  ASSUME NEW S, NEW s \in Seq(S), NEW k \in Nat, NEW b \in Seq(S), k + Len(b) <= Len(s),
         \A j \in 1..Len(b) : b[j] = s[k + j]
  PROVE  Grows(s, k, b)
<1> DEFINE a == SubSeq(s, 1, k)
           c == SubSeq(s, 1, k + Len(b))
<1>1. Len(b) \in Nat /\ Len(s) \in Nat
  OBVIOUS
<1>2. a \in Seq(S) /\ Len(a) = k /\ \A j \in 1..k : a[j] = s[j]
  BY <1>1
<1>3. c \in Seq(S) /\ Len(c) = k + Len(b) /\ \A j \in 1..(k + Len(b)) : c[j] = s[j]
  BY <1>1
<1> HIDE DEF a, c
<1> DEFINE d == a \o b
<1>4. /\ d \in Seq(S) /\ Len(d) = k + Len(b)
      /\ \A j \in 1..k : d[j] = a[j]
      /\ \A j \in 1..Len(b) : d[k + j] = b[j]
  <2>1. /\ d \in Seq(S) /\ Len(d) = Len(a) + Len(b)
        /\ \A j \in 1..(Len(a) + Len(b)) : d[j] = IF j <= Len(a) THEN a[j] ELSE b[j - Len(a)]
    BY <1>2, ConcatProperties
  <2> HIDE DEF d
  <2>2. \A j \in 1..Len(b) : /\ k + j \in 1..(k + Len(b)) /\ ~(k + j <= k) /\ (k + j) - k = j
    BY <1>1
  <2>3. \A j \in 1..k : j \in 1..(k + Len(b)) /\ j <= k
    BY <1>1
  <2>4. QED BY <1>2, <2>1, <2>2, <2>3
<1> HIDE DEF d
<1>5. \A j \in 1..(k + Len(b)) : c[j] = d[j]
  <2> TAKE j \in 1..(k + Len(b))
  <2>1. CASE j \in 1..k
    BY <1>2, <1>3, <1>4, <2>1
  <2>2. CASE j \notin 1..k
    <3>1. j - k \in 1..Len(b) /\ k + (j - k) = j
      BY <1>1, <2>2
    <3>2. d[j] = b[j - k] /\ b[j - k] = s[j]
      BY <1>4, <3>1
    <3>3. QED BY <1>3, <3>2
  <2>3. QED BY <2>1, <2>2
<1>6. c = d
  BY <1>3, <1>4, <1>5
<1>7. QED BY <1>6 DEF Grows, a, c, d

\* What is left and right of the line at i.
Cuts(S, b, i) ==
    /\ SubSeq(b, i + 1, Len(b)) \in Seq(S) /\ Len(SubSeq(b, i + 1, Len(b))) = Len(b) - i
    /\ \A j \in 1..(Len(b) - i) : SubSeq(b, i + 1, Len(b))[j] = b[i + j]
    /\ SubSeq(b, 1, i - 1) \in Seq(S) /\ Len(SubSeq(b, 1, i - 1)) = i - 1
    /\ \A j \in 1..(i - 1) : SubSeq(b, 1, i - 1)[j] = b[j]
    /\ b[i] \in S

\* A buffer cut at one of its lines.
LEMMA CutBuffer ==
  ASSUME NEW S, NEW b \in Seq(S), NEW i \in 1..Len(b)
  PROVE  Cuts(S, b, i)
<1>1. Len(b) \in Nat
  OBVIOUS
<1>2. QED BY <1>1 DEF Cuts

\* One element more.
OneMore(s, n) == SubSeq(s, 1, n) = Append(SubSeq(s, 1, n - 1), s[n])

\* It is the last of the longer prefix.
LEMMA TakeOne ==
  ASSUME NEW S, NEW s \in Seq(S), NEW n \in 1..Len(s)
  PROVE  OneMore(s, n)
BY DEF OneMore

\* One element after two lists.
ThenOne(s, t, x) == s \o (t \o <<x>>) = Append(s \o t, x)

\* It goes to the end.
LEMMA AppendLast ==
  ASSUME NEW S, NEW s \in Seq(S), NEW t \in Seq(S), NEW x \in S
  PROVE  ThenOne(s, t, x)
<1>1. t \o <<x>> = Append(t, x)
  OBVIOUS
<1>2. s \o Append(t, x) = Append(s \o t, x)
  OBVIOUS
<1>3. QED BY <1>1, <1>2 DEF ThenOne

\* Taking more of the script is appending what was in the buffer.
LEMMA TakeMore ==
  ASSUME NEW u, ParserOK(u), NEW i \in 0..Len(u.buf)
  PROVE  SubSeq(u.script, 1, Taken(u) + i)
             = SubSeq(u.script, 1, Taken(u)) \o SubSeq(u.buf, 1, i)
<1> DEFINE k == Taken(u)
           b == SubSeq(u.buf, 1, i)
<1>1. /\ u.script \in Seq(Lines) /\ u.n \in 0..Len(u.script) /\ u.buf \in Seq(Lines)
      /\ Len(u.script) \in Nat /\ Len(u.buf) \in Nat /\ k \in 0..u.n
  BY UsedType
<1>2. k + Len(u.buf) = u.n /\ \A j \in 1..Len(u.buf) : u.buf[j] = u.script[k + j]
  BY <1>1 DEF ParserOK, Taken
<1> HIDE DEF k
<1>3. b \in Seq(Lines) /\ Len(b) = i /\ \A j \in 1..i : b[j] = u.buf[j]
  BY <1>1
<1> HIDE DEF b
<1>4. k \in Nat /\ k + Len(b) <= Len(u.script)
  BY <1>1, <1>2, <1>3
<1>5. \A j \in 1..Len(b) : b[j] = u.script[k + j]
  BY <1>1, <1>2, <1>3
<1>6. Grows(u.script, k, b)
  BY <1>1, <1>3, <1>4, <1>5, PrefixGrows
<1>7. QED BY <1>3, <1>6 DEF Grows, k, b

\* What taking the line at i from the buffer makes of the parser.
AsksBuffer(u, i, v) ==
    /\ ParserOK(v) /\ Taken(v) = Taken(u) + i /\ Taken(v) <= u.n
    /\ v.script = u.script /\ v.n = u.n /\ v.heard = u.heard /\ v.broke = u.broke
    /\ v.end = u.end /\ v.end # "over" /\ u.buf[i] \in Lines /\ u.buf[i].kind # "junk"
    /\ u.script[Taken(v)] = u.buf[i]
    /\ SubSeq(u.buf, 1, i - 1) \in Seq(Lines) /\ Junk(SubSeq(u.buf, 1, i - 1))
    /\ SubSeq(u.script, 1, Taken(v) - 1) = Used(u) \o SubSeq(u.buf, 1, i - 1)
    /\ Used(v) = Append(SubSeq(u.script, 1, Taken(v) - 1), u.buf[i])

\* Where no more than the buffer is looked at.
LEMMA AskBuffer ==
  ASSUME NEW u, ParserOK(u), NoDone(Used(u)), NEW i, i = FirstKept(u.buf), i # 0,
         NEW v, v = [u EXCEPT !.buf = SubSeq(u.buf, i + 1, Len(u.buf))]
  PROVE  AsksBuffer(u, i, v)
<1>1. /\ u \in Connections /\ u.script \in Seq(Lines) /\ u.n \in 0..Len(u.script)
      /\ u.buf \in Seq(Lines)
      /\ Len(u.script) \in Nat /\ Len(u.buf) \in Nat /\ Taken(u) \in 0..u.n
      /\ Taken(u) + Len(u.buf) = u.n
      /\ \A j \in 1..Len(u.buf) : u.buf[j] = u.script[Taken(u) + j]
      /\ u.end = "over" => u.buf = <<>>
  BY UsedType DEF ParserOK, Taken
<1>2. i \in 1..Len(u.buf) /\ u.buf[i].kind # "junk" /\ \A j \in 1..(i - 1) : u.buf[j].kind = "junk"
  BY <1>1, FirstKeptIs
<1>3. u.end # "over"
  BY <1>1, <1>2
<1> DEFINE b == SubSeq(u.buf, i + 1, Len(u.buf))
           junk == SubSeq(u.buf, 1, i - 1)
<1>4. /\ b \in Seq(Lines) /\ Len(b) = Len(u.buf) - i
      /\ \A j \in 1..(Len(u.buf) - i) : b[j] = u.buf[i + j]
      /\ junk \in Seq(Lines) /\ Len(junk) = i - 1 /\ \A j \in 1..(i - 1) : junk[j] = u.buf[j]
      /\ u.buf[i] \in Lines
  <2>1. u.buf \in Seq(Lines)
    BY <1>1
  <2>2. Cuts(Lines, u.buf, i)
    BY ONLY <1>2, <2>1, CutBuffer
  <2>3. QED BY ONLY <2>2 DEF Cuts, b, junk
<1>5. Junk(junk)
  <2> HIDE DEF junk
  <2>1. DOMAIN junk = 1..(i - 1)
    BY <1>4
  <2>2. QED BY <1>2, <1>4, <2>1 DEF Junk
<1>6. v = [u EXCEPT !.buf = b]
  OBVIOUS
<1> HIDE DEF b, junk
<1>7. /\ v \in Connections /\ v.script = u.script /\ v.n = u.n /\ v.heard = u.heard
      /\ v.broke = u.broke /\ v.end = u.end /\ v.buf = b /\ v.tail = u.tail
  BY <1>1, <1>4, <1>6 DEF Connections
<1>8. Taken(v) = Taken(u) + i /\ Taken(v) <= u.n
  <2>1. i \in Nat /\ i <= Len(u.buf) /\ Len(u.buf) - (Len(u.buf) - i) = i
    BY <1>1, <1>2
  <2>2. Taken(v) = u.n - (Len(u.buf) - i) /\ Taken(u) = u.n - Len(u.buf)
    BY <1>4, <1>7 DEF Taken
  <2>3. u.n \in Nat
    BY <1>1
  <2>4. QED BY <1>1, <2>1, <2>2, <2>3
<1>9. ParserOK(v)
  <2>1. \A j \in 1..Len(v.buf) : v.buf[j] = v.script[Taken(v) + j]
    <3> TAKE j \in 1..Len(v.buf)
    <3>1. j \in 1..(Len(u.buf) - i) /\ v.buf[j] = u.buf[i + j]
      BY <1>4, <1>7
    <3>2. i + j \in 1..Len(u.buf) /\ Taken(u) + (i + j) = (Taken(u) + i) + j
      <4>1. Len(u.buf) \in Nat /\ Taken(u) \in Nat /\ i \in 1..Len(u.buf)
        BY <1>1, <1>2
      <4>2. QED BY ONLY <3>1, <4>1
    <3>3. u.buf[i + j] = u.script[Taken(u) + (i + j)]
      BY <1>1, <3>2
    <3>4. QED BY <1>7, <1>8, <3>1, <3>2, <3>3
  <2>2. Len(v.buf) <= v.n /\ v.n <= Len(v.script)
    <3>1. Len(v.buf) = Len(u.buf) - i
      BY <1>4, <1>7
    <3>2. QED BY <1>1, <1>2, <1>7, <3>1
  <2>3. QED BY <1>3, <1>7, <2>1, <2>2 DEF ParserOK
<1>10. LastInPart(u) = <<>> /\ LastInPart(v) = <<>>
  BY <1>3, <1>7 DEF LastInPart
<1>11. Used(u) = SubSeq(u.script, 1, Taken(u)) /\ Used(v) = SubSeq(u.script, 1, Taken(v))
  <2>1. Taken(u) \in 0..Len(u.script) /\ Taken(v) \in 0..Len(u.script)
    BY <1>1, <1>2, <1>8
  <2>2. SubSeq(u.script, 1, Taken(u)) \in Seq(Lines) /\ SubSeq(u.script, 1, Taken(v)) \in Seq(Lines)
    <3>1. u.script \in Seq(Lines) /\ Len(u.script) \in Nat
      BY <1>1
    <3>2. QED BY ONLY <2>1, <3>1
  <2>3. Used(u) = SubSeq(u.script, 1, Taken(u)) \o <<>> /\ Used(v) = SubSeq(u.script, 1, Taken(v)) \o <<>>
    BY <1>7, <1>10 DEF Used
  <2>4. QED BY ONLY <2>2, <2>3
<1>12. SubSeq(u.script, 1, Taken(v) - 1) = Used(u) \o junk
  <2>1. Taken(v) - 1 = Taken(u) + (i - 1) /\ i - 1 \in 0..Len(u.buf)
    BY <1>1, <1>2, <1>8
  <2>2. QED BY <1>11, <2>1, TakeMore DEF junk
<1>13. u.script[Taken(v)] = u.buf[i] /\ u.buf[i] \in Lines
  BY <1>1, <1>2, <1>8
<1>14. SubSeq(u.script, 1, Taken(v)) = Append(SubSeq(u.script, 1, Taken(v) - 1), u.script[Taken(v)])
  <2>1. Taken(v) \in 1..Len(u.script)
    BY <1>1, <1>2, <1>8
  <2>2. OneMore(u.script, Taken(v))
    BY ONLY <1>1, <2>1, TakeOne
  <2>3. QED BY ONLY <2>2 DEF OneMore
<1>15. Used(v) = Append(SubSeq(u.script, 1, Taken(v) - 1), u.buf[i])
  BY ONLY <1>11, <1>13, <1>14
<1>16. QED BY <1>2, <1>3, <1>4, <1>5, <1>7, <1>8, <1>9, <1>12, <1>13, <1>15 DEF junk, AsksBuffer

\* Where the buffer holds nothing that counts.
LEMMA AskEmpty ==
  ASSUME NEW u, ParserOK(u), NoDone(Used(u)), FirstKept(u.buf) = 0,
         NEW v, v = [u EXCEPT !.buf = <<>>]
  PROVE  /\ ParserOK(v)
         /\ v.script = u.script /\ v.n = u.n /\ v.heard = u.heard /\ v.broke = u.broke
         /\ v.end = u.end /\ v.tail = u.tail /\ v.buf = <<>> /\ Taken(v) = u.n
         /\ NoDone(Used(v)) /\ SaysNoMore(Used(u), IF v.end = "over" THEN <<>> ELSE u.buf)
         /\ Used(v) = Used(u) \o (IF v.end = "over" THEN <<>> ELSE u.buf)
<1>1. /\ u \in Connections /\ u.script \in Seq(Lines) /\ u.n \in 0..Len(u.script)
      /\ u.buf \in Seq(Lines) /\ Used(u) \in Seq(Lines)
      /\ Len(u.script) \in Nat /\ Len(u.buf) \in Nat /\ Taken(u) \in 0..u.n
      /\ Taken(u) + Len(u.buf) = u.n
      /\ \A j \in 1..Len(u.buf) : u.buf[j] = u.script[Taken(u) + j]
      /\ u.end = "over" => u.buf = <<>>
  BY UsedType DEF ParserOK, Taken
<1>2. Junk(u.buf)
  BY <1>1, FirstKeptIs
<1>3. /\ v \in Connections /\ v.script = u.script /\ v.n = u.n /\ v.heard = u.heard
      /\ v.broke = u.broke /\ v.end = u.end /\ v.tail = u.tail /\ v.buf = <<>>
  <2>1. <<>> \in Seq(Lines)
    OBVIOUS
  <2>2. u \in Connections
    BY <1>1
  <2> HIDE DEF Lines
  <2>3. QED BY <2>1, <2>2 DEF Connections
<1>4. Taken(v) = u.n
  BY <1>1, <1>3 DEF Taken
<1>5. ParserOK(v)
  BY <1>1, <1>3 DEF ParserOK
<1>6. CASE u.end = "over"
  <2>1. u.buf = <<>> /\ v = u
    BY <1>1, <1>3, <1>6 DEF Connections
  <2>2. Used(u) \o <<>> = Used(u) /\ Junk(<<>>) /\ <<>> \in Seq(Lines)
    BY <1>1 DEF Junk
  <2>3. SaysNoMore(Used(u), <<>>)
    BY <1>1, <2>2, JunkSaysNothing
  <2>4. QED BY <1>3, <1>4, <1>5, <1>6, <2>1, <2>2, <2>3
<1>7. CASE u.end # "over"
  <2>1. LastInPart(u) = <<>> /\ LastInPart(v) = <<>>
    BY <1>3, <1>7 DEF LastInPart
  <2>2. Used(u) = SubSeq(u.script, 1, Taken(u)) /\ Used(v) = SubSeq(u.script, 1, u.n)
    <3>1. SubSeq(u.script, 1, Taken(u)) \in Seq(Lines) /\ SubSeq(u.script, 1, u.n) \in Seq(Lines)
      BY <1>1
    <3>2. QED BY <1>3, <1>4, <2>1, <3>1 DEF Used
  <2>3. Used(v) = Used(u) \o u.buf
    <3>1. Len(u.buf) \in 0..Len(u.buf) /\ SubSeq(u.buf, 1, Len(u.buf)) = u.buf
      BY <1>1
    <3>2. SubSeq(u.script, 1, Taken(u) + Len(u.buf))
              = SubSeq(u.script, 1, Taken(u)) \o SubSeq(u.buf, 1, Len(u.buf))
      BY <3>1, TakeMore
    <3>3. QED BY <1>1, <2>2, <3>1, <3>2
  <2>4. SaysNoMore(Used(u), u.buf)
    BY <1>1, <1>2, JunkSaysNothing
  <2>5. NoDone(Used(v))
    <3>1. \A j \in 1..Len(Used(u)) : Used(u)[j].kind # "done"
      BY <1>1 DEF NoDone
    <3>2. \A j \in 1..Len(u.buf) : u.buf[j].kind # "done"
      BY <1>1, <1>2 DEF Junk
    <3>3. Len(Used(u)) \in Nat /\ DOMAIN Used(v) = 1..(Len(Used(u)) + Len(u.buf))
          /\ \A j \in 1..(Len(Used(u)) + Len(u.buf)) :
                Used(v)[j] = IF j <= Len(Used(u)) THEN Used(u)[j] ELSE u.buf[j - Len(Used(u))]
      <4>1. Used(u) \in Seq(Lines) /\ u.buf \in Seq(Lines)
        BY <1>1
      <4>2. QED BY ONLY <2>3, <4>1, ConcatProperties
    <3>4. \A j \in 1..(Len(Used(u)) + Len(u.buf)) : Used(v)[j].kind # "done"
      <4> TAKE j \in 1..(Len(Used(u)) + Len(u.buf))
      <4>1. CASE j <= Len(Used(u))
        BY <3>1, <3>3, <4>1
      <4>2. CASE ~(j <= Len(Used(u)))
        <5>1. j - Len(Used(u)) \in 1..Len(u.buf)
          BY <1>1, <3>3, <4>2
        <5>2. QED BY <3>2, <3>3, <4>2, <5>1
      <4>3. QED BY <4>1, <4>2
    <3>5. QED BY <3>3, <3>4 DEF NoDone
  <2>6. QED BY <1>3, <1>4, <1>5, <1>7, <2>3, <2>4, <2>5
<1>8. QED BY <1>6, <1>7

\* An answer of LastLine, once nothing is left in the buffer.
LEMMA LastLineWell ==
  ASSUME NEW u, ParserOK(u), NEW r, ParserOK(r), NoDone(Used(r)), r.buf = <<>>, Taken(r) = r.n,
         r.end # "open", r.heard = u.heard, r.broke = u.broke,
         TextOf(Used(r)) = TextOf(Used(u)), LastUsage(Used(r)) = LastUsage(Used(u))
  PROVE  PolledWell(u, LastLine(r))
<1> DEFINE over == [r EXCEPT !.end = "over"]
           v == LastLine(r).up
<1>1. r \in Connections /\ r.tail \in Lines \cup {NoTail, Fragment}
  BY DEF ParserOK, Connections
<1>2. /\ over \in Connections /\ over.end = "over" /\ over.tail = r.tail /\ over.buf = <<>>
      /\ over.n = r.n /\ over.script = r.script /\ over.heard = u.heard /\ over.broke = u.broke
  BY <1>1 DEF Connections
<1>3. r.script \in Seq(Lines) /\ r.n \in 0..Len(r.script) /\ Len(r.script) \in Nat
      /\ SubSeq(r.script, 1, r.n) \in Seq(Lines)
  <2>1. r.script \in Seq(Lines) /\ r.n \in 0..Len(r.script) /\ Len(r.script) \in Nat
    BY UsedType
  <2>2. QED BY ONLY <2>1
<1> HIDE DEF over
<1>4. CASE r.tail.kind = "data" /\ r.end # "over"
  <2>1. r.tail \in Lines
    BY <1>1, <1>4 DEF NoTail, Fragment
  <2> DEFINE w == Hear(over, r.tail)
             c == Normalized(r.tail.chunk)
  <2>2. LastLine(r) = [got |-> "chunk", up |-> w]
    BY <1>4 DEF LastLine, over
  <2>3. /\ w \in Connections /\ w.heard = Append(u.heard, c) /\ Last(w.heard) = c
        /\ w.script = r.script /\ w.n = r.n /\ w.buf = <<>> /\ w.tail = r.tail /\ w.end = "over"
        /\ w.broke = u.broke /\ c \in Chunks
    BY <1>2, <1>4, <2>1, HearFields
  <2> HIDE DEF w
  <2>4. ParserOK(w) /\ Taken(w) = r.n
    BY <1>3, <2>3 DEF ParserOK, Taken
  <2>5. Used(r) = SubSeq(r.script, 1, r.n)
    <3>1. LastInPart(r) = <<>>
      BY <1>4 DEF LastInPart
    <3>2. Used(r) = SubSeq(r.script, 1, r.n) \o <<>>
      BY <3>1 DEF Used
    <3>3. QED BY ONLY <1>3, <3>2
  <2>6. Used(w) = Append(Used(r), r.tail)
    <3>1. LastInPart(w) = <<r.tail>>
      BY <1>4, <2>3 DEF LastInPart
    <3>2. Used(w) = Used(r) \o <<r.tail>>
      BY <2>3, <2>4, <2>5, <3>1 DEF Used
    <3>3. Used(r) \in Seq(Lines)
      BY <1>3, <2>5
    <3>4. QED BY ONLY <2>1, <3>2, <3>3
  <2>7. SaysChunk(Used(r), Used(w), c)
    <3>1. Used(r) \in Seq(Lines)
      BY <1>3, <2>5
    <3>2. QED BY <1>4, <2>1, <2>6, <3>1, LineSays
  <2>8. SaysChunk(Used(u), Used(w), c)
    BY <2>7 DEF SaysChunk
  <2>9. NoDone(Used(w))
    <3>1. Used(r) \in Seq(Lines) /\ r.tail.kind # "done"
      BY <1>3, <1>4, <2>5
    <3>2. \A i \in 1..Len(Used(r)) : Used(r)[i].kind # "done"
      BY <3>1 DEF NoDone
    <3> DEFINE s == Used(r)
    <3>3. DOMAIN Append(s, r.tail) = 1..(Len(s) + 1) /\ Append(s, r.tail)[Len(s) + 1] = r.tail
          /\ \A i \in 1..Len(s) : Append(s, r.tail)[i] = s[i]
      BY ONLY <2>1, <3>1
    <3>4. \A i \in 1..(Len(s) + 1) : i \in 1..Len(s) \/ i = Len(s) + 1
      <4>1. Len(s) \in Nat
        BY <3>1
      <4>2. QED BY ONLY <4>1
    <3> HIDE DEF s
    <3>5. \A i \in 1..(Len(s) + 1) : Append(s, r.tail)[i].kind # "done"
      BY <3>1, <3>2, <3>3, <3>4 DEF s
    <3>6. QED BY <2>6, <3>3, <3>5 DEF NoDone, s
  <2>10. Consumes(u, w, c)
    BY <2>3, <2>4, <2>8, <2>9 DEF Consumes
  <2>11. LastLine(r).got = "chunk" /\ LastLine(r).up = w
    BY <2>2
  <2>12. QED BY <2>3, <2>10, <2>11 DEF PolledWell
<1>5. CASE ~(r.tail.kind = "data" /\ r.end # "over")
  <2>1. LastLine(r) = [got |-> "end", up |-> over]
    BY <1>5 DEF LastLine, over
  <2>2. ParserOK(over) /\ Taken(over) = r.n
    BY <1>2, <1>3 DEF ParserOK, Taken
  <2>3. Used(over) = Used(r)
    <3>1. LastInPart(over) = LastInPart(r)
      BY <1>2, <1>5 DEF LastInPart
    <3>2. QED BY <1>2, <2>2, <3>1 DEF Used
  <2>4. Came(over) = Used(over)
    <3>1. Used(over) = SubSeq(over.script, 1, over.n) \o LastInPart(over)
      BY <1>2, <2>2 DEF Used
    <3>2. NoDone(SubSeq(over.script, 1, over.n) \o LastInPart(over))
      BY <2>3, <3>1
    <3>3. QED BY <3>1, <3>2, CameAll
  <2>5. Quits(u, over)
    BY <1>2, <2>2, <2>3, <2>4 DEF Quits, Settled
  <2>6. QED BY <1>2, <2>1, <2>5 DEF PolledWell
<1>6. QED BY <1>4, <1>5

\* What a poll does, in terms of what the lines say.
LEMMA PolledGives ==
  ASSUME NEW u, ParserOK(u), NoDone(Used(u))
  PROVE  PolledWell(u, Polled(u))
<1> DEFINE i == FirstKept(u.buf)
           b == SubSeq(u.buf, i + 1, Len(u.buf))
           took == [u EXCEPT !.buf = b]
           none == [u EXCEPT !.buf = <<>>]
<1>1. u.buf \in Seq(Lines) /\ Used(u) \in Seq(Lines)
  BY UsedType
<1> HIDE DEF b
<1>2. CASE i # 0
  <2> DEFINE t == SubSeq(u.buf, 1, i - 1)
             s == SubSeq(u.script, 1, Taken(took) - 1)
             line == u.buf[i]
  <2>1. /\ ParserOK(took) /\ Taken(took) = Taken(u) + i /\ Taken(took) <= u.n
        /\ took.script = u.script /\ took.n = u.n /\ took.heard = u.heard /\ took.broke = u.broke
        /\ took.end = u.end /\ took.end # "over" /\ line \in Lines /\ line.kind # "junk"
        /\ u.script[Taken(took)] = line
        /\ t \in Seq(Lines) /\ Junk(t)
        /\ s = Used(u) \o t
        /\ Used(took) = Append(s, line)
    <3>1. took = [u EXCEPT !.buf = SubSeq(u.buf, i + 1, Len(u.buf))]
      BY DEF b
    <3> HIDE DEF took, i
    <3>2. AsksBuffer(u, i, took)
      BY <1>2, <3>1, AskBuffer DEF i
    <3>3. QED BY <3>2 DEF AsksBuffer
  <2> HIDE DEF took, i, t, s, line
  <2>2. SaysNoMore(Used(u), t) /\ s \in Seq(Lines) /\ TextOf(s) = TextOf(Used(u))
        /\ LastUsage(s) = LastUsage(Used(u))
    <3>1. SaysNoMore(Used(u), t)
      BY <1>1, <2>1, JunkSaysNothing
    <3>2. QED BY <2>1, <3>1 DEF SaysNoMore
  <2>3. NoDone(s)
    <3>1. /\ Len(s) = Len(Used(u)) + Len(t) /\ Len(Used(u)) \in Nat /\ Len(t) \in Nat
          /\ \A j \in 1..(Len(Used(u)) + Len(t)) :
                s[j] = IF j <= Len(Used(u)) THEN Used(u)[j] ELSE t[j - Len(Used(u))]
      BY <1>1, <2>1, ConcatProperties
    <3>2. \A j \in 1..Len(Used(u)) : Used(u)[j].kind # "done"
      BY <1>1 DEF NoDone
    <3>3. \A j \in 1..Len(t) : t[j].kind # "done"
      BY <2>1 DEF Junk
    <3>4. \A j \in 1..(Len(Used(u)) + Len(t)) : s[j].kind # "done"
      <4> TAKE j \in 1..(Len(Used(u)) + Len(t))
      <4>1. CASE j <= Len(Used(u))
        BY <3>1, <3>2, <4>1
      <4>2. CASE ~(j <= Len(Used(u)))
        <5>1. j - Len(Used(u)) \in 1..Len(t)
          BY <3>1, <4>2
        <5>2. QED BY <3>1, <3>3, <4>2, <5>1
      <4>3. QED BY <4>1, <4>2
    <3>5. QED BY <2>2, <3>1, <3>4 DEF NoDone
  <2>4. CASE line.kind = "done"
    <3>1. Polled(u) = [got |-> "end", up |-> took]
      BY <1>2, <2>4 DEF Polled, took, b, i, line
    <3>2. Taken(took) \in 1..took.n /\ took.script[Taken(took)].kind = "done"
          /\ \A j \in 1..(Taken(took) - 1) : took.script[j].kind # "done"
      <4>1. Taken(u) \in 0..u.n /\ i \in 0..Len(u.buf) /\ u.n \in 0..Len(u.script)
            /\ u.script \in Seq(Lines) /\ Len(u.script) \in Nat /\ Len(u.buf) \in Nat
        <5>1. i \in 0..Len(u.buf)
          BY <1>1, FirstKeptIs DEF i
        <5>2. QED BY <5>1, UsedType
      <4>2. Taken(took) \in 1..u.n
        BY <1>2, <2>1, <4>1
      <4>3. Taken(took) - 1 \in 0..Len(u.script)
        BY <4>1, <4>2
      <4>4. Len(s) = Taken(took) - 1 /\ \A j \in 1..(Taken(took) - 1) : s[j] = u.script[j]
        BY ONLY <4>1, <4>3 DEF s
      <4>5. \A j \in 1..(Taken(took) - 1) : s[j].kind # "done"
        <5>1. DOMAIN s = 1..Len(s)
          BY <2>2
        <5>2. QED BY <2>3, <4>4, <5>1 DEF NoDone
      <4>6. QED BY <2>1, <2>4, <4>2, <4>4, <4>5
    <3>3. Came(took) = s
      BY <2>1, <3>2, CameDone DEF s
    <3>4. Settled(took)
      BY <3>2 DEF Settled
    <3>5. Quits(u, took)
      BY <2>1, <2>2, <3>3, <3>4 DEF Quits
    <3>6. QED BY <2>1, <3>1, <3>5 DEF PolledWell
  <2>5. CASE line.kind # "done"
    <3>1. line.kind = "data"
      BY <2>1, <2>5, LineFields
    <3> DEFINE w == Hear(took, line)
               c == Normalized(line.chunk)
    <3>2. Polled(u) = [got |-> "chunk", up |-> w]
      BY <1>2, <2>5 DEF Polled, took, b, i, line
    <3>3. took \in Connections
      BY <2>1 DEF ParserOK
    <3>4. /\ w \in Connections /\ w.heard = Append(u.heard, c) /\ Last(w.heard) = c
          /\ w.script = took.script /\ w.n = took.n /\ w.buf = took.buf /\ w.tail = took.tail
          /\ w.end = took.end /\ w.broke = u.broke /\ c \in Chunks
      BY <2>1, <3>1, <3>3, HearFields
    <3> HIDE DEF w
    <3>5. Taken(w) = Taken(took) /\ LastInPart(w) = LastInPart(took)
      BY <3>4 DEF Taken, LastInPart
    <3>6. ParserOK(w) /\ Used(w) = Used(took)
      BY <2>1, <3>4, <3>5 DEF ParserOK, Used
    <3>7. SaysChunk(Used(u), Used(w), c)
      <4>1. SaysChunk(s, Used(w), c)
        BY <2>1, <2>2, <3>1, <3>6, LineSays
      <4>2. QED BY <2>2, <4>1 DEF SaysChunk
    <3>8. NoDone(Used(w))
      <4>1. DOMAIN Append(s, line) = 1..(Len(s) + 1) /\ Append(s, line)[Len(s) + 1] = line
            /\ Len(s) \in Nat /\ \A j \in 1..Len(s) : Append(s, line)[j] = s[j]
        BY <2>1, <2>2
      <4>2. \A j \in 1..Len(s) : s[j].kind # "done"
        BY <2>2, <2>3 DEF NoDone
      <4>3. \A j \in 1..(Len(s) + 1) : j \in 1..Len(s) \/ j = Len(s) + 1
        BY <4>1
      <4>4. QED BY <2>1, <2>5, <3>6, <4>1, <4>2, <4>3 DEF NoDone
    <3>9. Consumes(u, w, c)
      BY <3>4, <3>6, <3>7, <3>8 DEF Consumes
    <3>10. Polled(u).got = "chunk" /\ Polled(u).up = w
      BY <3>2
    <3>11. QED BY <3>4, <3>9, <3>10 DEF PolledWell
  <2>6. QED BY <2>4, <2>5
<1>3. CASE i = 0
  <2>1. /\ ParserOK(none) /\ none.script = u.script /\ none.n = u.n /\ none.heard = u.heard
        /\ none.broke = u.broke /\ none.end = u.end /\ none.tail = u.tail /\ none.buf = <<>>
        /\ Taken(none) = u.n /\ NoDone(Used(none))
        /\ SaysNoMore(Used(u), IF none.end = "over" THEN <<>> ELSE u.buf)
        /\ Used(none) = Used(u) \o (IF none.end = "over" THEN <<>> ELSE u.buf)
    BY <1>3, AskEmpty
  <2> HIDE DEF none, i
  <2>2. TextOf(Used(none)) = TextOf(Used(u)) /\ LastUsage(Used(none)) = LastUsage(Used(u))
    BY <2>1 DEF SaysNoMore
  <2>3. u.end \in {"open", "eof", "reset", "over"}
    BY DEF ParserOK, Connections
  <2>4. CASE u.end = "open"
    <3>1. Polled(u) = [got |-> "pending", up |-> u]
      BY <1>3, <2>4 DEF Polled, i
    <3>2. QED BY <3>1 DEF PolledWell
  <2>5. CASE u.end = "reset"
    <3> DEFINE v == [none EXCEPT !.end = "eof", !.broke = TRUE]
    <3>1. Polled(u) = [got |-> "error", up |-> v]
      BY <1>3, <2>5 DEF Polled, i, none
    <3>2. none \in Connections
      BY <2>1 DEF ParserOK
    <3>3. /\ v \in Connections /\ v.script = none.script /\ v.n = none.n /\ v.heard = none.heard
          /\ v.broke /\ v.end = "eof" /\ v.tail = none.tail /\ v.buf = none.buf
      BY <3>2 DEF Connections
    <3> HIDE DEF v
    <3>4. Taken(v) = Taken(none) /\ LastInPart(v) = <<>> /\ LastInPart(none) = <<>>
      BY <2>1, <2>5, <3>3 DEF Taken, LastInPart
    <3>5. Used(v) = Used(none) /\ ParserOK(v)
      BY <2>1, <3>3, <3>4 DEF Used, ParserOK
    <3>6. Used(v) = SubSeq(v.script, 1, v.n) \o LastInPart(v)
      BY <2>1, <3>3, <3>4 DEF Used
    <3>7. Came(v) = Used(v)
      <4>1. NoDone(SubSeq(v.script, 1, v.n) \o LastInPart(v))
        BY <2>1, <3>5, <3>6
      <4>2. QED BY <3>6, <4>1, CameAll
    <3>8. Quits(u, v)
      BY <2>1, <2>2, <3>3, <3>5, <3>7 DEF Quits, Settled
    <3>9. Breaks(u, v)
      BY <2>1, <3>3, <3>5, <3>7, <3>8 DEF Breaks
    <3>10. QED BY <3>1, <3>9 DEF PolledWell
  <2>6. CASE u.end \in {"eof", "over"}
    <3>1. Polled(u) = LastLine(none)
      BY <1>3, <2>6 DEF Polled, i, none
    <3>2. PolledWell(u, LastLine(none))
      BY <2>1, <2>2, <2>6, LastLineWell
    <3>3. QED BY <3>1, <3>2
  <2>7. QED BY <2>3, <2>4, <2>5, <2>6
<1>4. QED BY <1>2, <1>3

-----------------------------------------------------------------------------
(* The events of a response *)

DataSet == Seq(STRING) \cup Chunks \cup {None, "message", "function_call"} \cup Nat \cup Seq(OutputItems)
Types ==
    {"created", "in_progress", "added", "part", "delta", "args_delta", "text_done", "part_done",
     "args_done", "item_done", "completed", "error", "chunk", "done", "message_start", "ping",
     "message_delta", "message_stop"}
\* (An event of /v1/messages holds the reason a stream stopped where others have an index.)
Outs == Nat \cup {None} \cup STRING \cup {"end_turn", "max_tokens", "tool_use"}
AnyEvents == [type : Types, seq : Nat \cup {None}, out : Outs, data : DataSet]
EventSet ==
    {e \in AnyEvents : /\ e.type = "delta" => e.data \in Seq(STRING)
                       /\ e.type = "chunk" => e.data \in Chunks}
SaidWords == [e \in EventSet |-> SaidBy(e)]

\* What an event says.
LEMMA SaidWordsType == SaidWords \in [EventSet -> Seq(STRING)]
<1>1. \A e \in EventSet : SaidBy(e) \in Seq(STRING)
  <2> TAKE e \in EventSet
  <2>1. CASE e.type = "delta"
    <3>1. e.data \in Seq(STRING) /\ <<>> \in Seq(STRING)
      BY <2>1 DEF EventSet
    <3>2. e.type # "chunk"
      BY <2>1
    <3>3. QED BY <3>1, <3>2 DEF SaidBy
  <2>2. CASE e.type = "chunk"
    <3>1. e.data \in Chunks
      BY <2>2 DEF EventSet
    <3>2. Text0(e.data) \in Seq(STRING)
      BY <3>1, PiecesType
    <3>3. SaidBy(e) = Text0(e.data)
      BY <2>2 DEF SaidBy
    <3>4. QED BY <3>2, <3>3
  <2>3. CASE e.type \notin {"delta", "chunk"}
    <3>1. SaidBy(e) = <<>>
      BY <2>3 DEF SaidBy
    <3>2. QED BY <3>1
  <2>4. QED BY <2>1, <2>2, <2>3
<1>2. QED BY <1>1 DEF SaidWords

\* What events say, as a join.
LEMMA TextInJoined ==
  ASSUME NEW s \in Seq(EventSet)
  PROVE  TextIn(s) = Joined(SaidWords, s) /\ TextIn(s) \in Seq(STRING)
<1>1. \A i \in DOMAIN s : SaidWords[s[i]] = SaidBy(s[i])
  <2>1. \A i \in DOMAIN s : s[i] \in EventSet
    OBVIOUS
  <2>2. QED BY <2>1 DEF SaidWords
<1>2. [i \in DOMAIN s |-> SaidBy(s[i])] = [i \in DOMAIN s |-> SaidWords[s[i]]]
  BY <1>1
<1>3. TextIn(s) = Joined(SaidWords, s)
  BY <1>2 DEF TextIn, Joined
<1>4. QED BY <1>3, SaidWordsType, JoinedType

\* Events after events.
TextJoins(s, t) == TextIn(s \o t) = TextIn(s) \o TextIn(t) /\ s \o t \in Seq(EventSet)

\* They say one after the other.
LEMMA TextInConcat ==
  ASSUME NEW s \in Seq(EventSet), NEW t \in Seq(EventSet)
  PROVE  TextJoins(s, t)
<1>1. JoinsInParts(SaidWords, s, t)
  BY SaidWordsType, JoinedConcat
<1> DEFINE v == s \o t
<1>2. v \in Seq(EventSet)
  OBVIOUS
<1>3. Joined(SaidWords, v) = Joined(SaidWords, s) \o Joined(SaidWords, t)
  BY <1>1 DEF JoinsInParts
<1> HIDE DEF v
<1>4. TextIn(v) = Joined(SaidWords, v)
  BY <1>2, TextInJoined
<1>5. TextIn(s) = Joined(SaidWords, s) /\ TextIn(t) = Joined(SaidWords, t)
  BY TextInJoined
<1>6. QED BY <1>2, <1>3, <1>4, <1>5 DEF TextJoins, v

\* How many items events have opened.
Opened(e, i) == Cardinality({j \in 1..i : e[j].type = "added"})

\* Events so far, of a response whose next item has the output index n.
Open(e, n) ==
    /\ e \in Seq(EventSet)
    /\ n = Opened(e, Len(e))
    /\ \A i \in DOMAIN e :
          /\ e[i].seq = i - 1
          /\ e[i].type \notin {"error", "completed", "item_done"}
          /\ e[i].type = "added" => e[i].out = Opened(e, i - 1) /\ e[i].out \in 0..(n - 1)
          /\ e[i].out # None => \E j \in 1..i : e[j].type = "added" /\ e[j].out = e[i].out
    /\ \A o \in 0..(n - 1) : \E j \in DOMAIN e : e[j].type = "added" /\ e[j].out = o

\* The items opened by a prefix do not depend on what follows it.
LEMMA OpenedPrefix ==
  ASSUME NEW e, NEW f, NEW n \in Nat, \A i \in 1..n : f[i] = e[i]
  PROVE  /\ Opened(e, n) \in Nat /\ \A i \in 0..n : Opened(f, i) = Opened(e, i)
         /\ e[n + 1].type = "added" => Opened(e, n + 1) = Opened(e, n) + 1
         /\ e[n + 1].type # "added" => Opened(e, n + 1) = Opened(e, n)
<1> DEFINE A(i) == {j \in 1..i : e[j].type = "added"}
           B(i) == {j \in 1..i : f[j].type = "added"}
<1>1. IsFiniteSet(A(n)) /\ Cardinality(A(n)) \in Nat
  <2>1. IsFiniteSet(1..n)
    <3>1. 1 \in Int /\ n \in Int
      OBVIOUS
    <3> HIDE DEF A
    <3>2. QED BY <3>1, FS_Interval
  <2>2. A(n) \subseteq 1..n
    OBVIOUS
  <2> HIDE DEF A
  <2>3. IsFiniteSet(A(n))
    BY <2>1, <2>2, FS_Subset
  <2>4. QED BY <2>3, FS_CardinalityType
<1>2. \A i \in 0..n : A(i) = B(i)
  OBVIOUS
<1>3. e[n + 1].type = "added" => A(n + 1) = A(n) \cup {n + 1} /\ n + 1 \notin A(n)
  OBVIOUS
<1>4. e[n + 1].type # "added" => A(n + 1) = A(n)
  <2> HAVE e[n + 1].type # "added"
  <2>1. \A j \in 1..(n + 1) : j \in 1..n \/ j = n + 1
    OBVIOUS
  <2>2. QED BY <2>1
<1>5. \A i : Opened(e, i) = Cardinality(A(i)) /\ Opened(f, i) = Cardinality(B(i))
  BY DEF Opened
<1> HIDE DEF A, B
<1>6. e[n + 1].type = "added" => Cardinality(A(n + 1)) = Cardinality(A(n)) + 1
  BY <1>1, <1>3, FS_AddElement
<1>7. QED BY <1>1, <1>2, <1>4, <1>5, <1>6

\* One event more: it opens the next item, or is about one that is open.
Follows(x, e, n) ==
    /\ x \in EventSet /\ x.seq = Len(e)
    /\ x.type \notin {"error", "completed", "item_done"}
    /\ x.type = "added" => x.out = n
    /\ x.type # "added" => x.out \in {None} \cup 0..(n - 1)

\* The events stay in order.
LEMMA OpenGrows ==
  ASSUME NEW e, NEW n \in Nat, Open(e, n), NEW x, Follows(x, e, n),
         NEW m, m = IF x.type = "added" THEN n + 1 ELSE n
  PROVE  Open(Append(e, x), m)
<1> DEFINE f == Append(e, x)
           N == Len(e)
<1>1. /\ e \in Seq(EventSet) /\ x \in EventSet /\ N \in Nat /\ DOMAIN e = 1..N
      /\ f \in Seq(EventSet) /\ Len(f) = N + 1 /\ DOMAIN f = 1..(N + 1)
      /\ \A i \in 1..N : f[i] = e[i]
      /\ f[N + 1] = x
  BY DEF Open, Follows
<1> HIDE DEF f, N
<1>2. \A i \in 0..N : Opened(f, i) = Opened(e, i)
  BY <1>1, OpenedPrefix
<1>3. Opened(f, N) = n
  BY <1>1, <1>2 DEF Open, N
<1>4. m = Opened(f, N + 1)
  BY <1>1, <1>3, OpenedPrefix
<1>5. /\ x.seq = N /\ x.type \notin {"error", "completed", "item_done"}
      /\ x.type = "added" => x.out = n
      /\ x.type # "added" => x.out \in {None} \cup 0..(n - 1)
  BY DEF Follows, N
<1>6. \A o \in 0..(n - 1) : \E j \in 1..N : f[j].type = "added" /\ f[j].out = o
  <2> TAKE o \in 0..(n - 1)
  <2>1. PICK j \in DOMAIN e : e[j].type = "added" /\ e[j].out = o
    BY DEF Open
  <2>2. QED BY <1>1, <2>1
<1>7. ASSUME NEW i \in 1..(N + 1)
      PROVE  /\ f[i].seq = i - 1
             /\ f[i].type \notin {"error", "completed", "item_done"}
             /\ f[i].type = "added" => f[i].out = Opened(f, i - 1) /\ f[i].out \in 0..(m - 1)
             /\ f[i].out # None => \E j \in 1..i : f[j].type = "added" /\ f[j].out = f[i].out
  <2>1. CASE i \in 1..N
    <3>1. /\ e[i].seq = i - 1
          /\ e[i].type \notin {"error", "completed", "item_done"}
          /\ e[i].type = "added" => e[i].out = Opened(e, i - 1) /\ e[i].out \in 0..(n - 1)
          /\ e[i].out # None => \E j \in 1..i : e[j].type = "added" /\ e[j].out = e[i].out
      BY <1>1, <2>1 DEF Open
    <3>2. i - 1 \in 0..N /\ \A j \in 1..i : f[j] = e[j]
      BY <1>1, <2>1
    <3>3. f[i] = e[i] /\ Opened(f, i - 1) = Opened(e, i - 1)
      BY <1>1, <1>2, <2>1, <3>2
    <3>4. 0..(n - 1) \subseteq 0..(m - 1)
      OBVIOUS
    <3>5. QED BY <3>1, <3>2, <3>3, <3>4
  <2>2. CASE i = N + 1
    <3>1. f[i] = x /\ i - 1 = N
      BY <1>1, <2>2
    <3>2. x.type = "added" => x.out = Opened(f, N) /\ x.out \in 0..(m - 1)
      BY <1>3, <1>5
    <3>3. x.out # None => \E j \in 1..i : f[j].type = "added" /\ f[j].out = x.out
      <4>1. CASE x.type = "added"
        BY <1>1, <2>2, <4>1
      <4>2. CASE x.type # "added"
        <5>1. x.out # None => \E j \in 1..N : f[j].type = "added" /\ f[j].out = x.out
          BY <1>5, <1>6, <4>2
        <5>2. 1..N \subseteq 1..i
          BY <1>1, <2>2
        <5>3. QED BY <5>1, <5>2
      <4>3. QED BY <4>1, <4>2
    <3>4. QED BY <1>5, <3>1, <3>2, <3>3
  <2>3. QED BY <1>1, <2>1, <2>2
<1>8. \A o \in 0..(m - 1) : \E j \in 1..(N + 1) : f[j].type = "added" /\ f[j].out = o
  <2> TAKE o \in 0..(m - 1)
  <2>1. CASE o \in 0..(n - 1)
    <3>1. 1..N \subseteq 1..(N + 1)
      BY <1>1
    <3>2. QED BY <1>6, <2>1, <3>1
  <2>2. CASE o \notin 0..(n - 1)
    <3>1. x.type = "added" /\ o = n
      BY <2>2
    <3>2. N + 1 \in 1..(N + 1)
      BY <1>1
    <3>3. QED BY <1>1, <1>5, <3>1, <3>2
  <2>3. QED BY <2>1, <2>2
<1>9. Open(f, m)
  BY <1>1, <1>4, <1>7, <1>8 DEF Open
<1>10. QED BY <1>9 DEF f

-----------------------------------------------------------------------------
(* The state of a response *)

States ==
    [seq : Nat, next : Nat, text : {None} \cup TextItems,
     tools : UNION {[K -> ToolItems] : K \in SUBSET Nat}]

\* The open items have the output indices below the next one, each its own.
ItemsOK(st) ==
    /\ \E N \in Nat : DOMAIN st.tools \subseteq 0..N
    /\ st.next = Cardinality(DOMAIN st.tools) + (IF st.text = None THEN 0 ELSE 1)
    /\ st.text # None => st.text.out < st.next
    /\ \A k \in DOMAIN st.tools :
          st.tools[k].out < st.next /\ (st.text # None => st.tools[k].out # st.text.out)
    /\ \A k, l \in DOMAIN st.tools : st.tools[k].out = st.tools[l].out => k = l
    /\ \A o \in 0..(st.next - 1) :
          \/ st.text # None /\ st.text.out = o
          \/ \E k \in DOMAIN st.tools : st.tools[k].out = o
StateOK(st) == st \in States /\ ItemsOK(st)

\* What the fields of a state are.
LEMMA StateFields ==
  ASSUME NEW st \in States
  PROVE  /\ st.seq \in Nat /\ st.next \in Nat /\ st.text \in {None} \cup TextItems
         /\ st.text # None => /\ st.text \in TextItems /\ st.text.out \in Nat
                              /\ st.text.text \in Seq(STRING)
         /\ st.tools \in [DOMAIN st.tools -> ToolItems] /\ DOMAIN st.tools \subseteq Nat
         /\ \A k \in DOMAIN st.tools :
               /\ st.tools[k] \in ToolItems /\ st.tools[k].out \in Nat
               /\ st.tools[k].id \in STRING /\ st.tools[k].name \in STRING
               /\ st.tools[k].args \in Seq(STRING)
<1>1. st.seq \in Nat /\ st.next \in Nat /\ st.text \in {None} \cup TextItems
      /\ st.tools \in UNION {[K -> ToolItems] : K \in SUBSET Nat}
  BY DEF States
<1>2. PICK K \in SUBSET Nat : st.tools \in [K -> ToolItems]
  BY <1>1
<1>3. DOMAIN st.tools = K
  BY <1>2
<1>4. \A i \in ToolItems : /\ i.out \in Nat /\ i.id \in STRING /\ i.name \in STRING
                           /\ i.args \in Seq(STRING)
  BY DEF ToolItems
<1>5. st.text # None => /\ st.text \in TextItems /\ st.text.out \in Nat
                        /\ st.text.text \in Seq(STRING)
  BY <1>1 DEF TextItems
<1>6. QED BY <1>1, <1>2, <1>3, <1>4, <1>5

\* No item is absent.
LEMMA ItemsAreNotAbsent == None \notin TextItems
BY AbsentAssumption

\* The keys of a state are finitely many.
LEMMA KeysFinite ==
  ASSUME NEW st, ItemsOK(st)
  PROVE  IsFiniteSet(DOMAIN st.tools) /\ Cardinality(DOMAIN st.tools) \in Nat
<1>1. PICK N \in Nat : DOMAIN st.tools \subseteq 0..N
  BY DEF ItemsOK
<1>2. IsFiniteSet(0..N)
  <2>1. 0 \in Int /\ N \in Int
    OBVIOUS
  <2>2. QED BY <2>1, FS_Interval
<1>3. QED BY <1>1, <1>2, FS_Subset, FS_CardinalityType

\* The items do not depend on the sequence number, nor on what they hold.
SameItems(s, t) ==
    /\ t.next = s.next /\ (t.text = None <=> s.text = None)
    /\ s.text # None => t.text.out = s.text.out
    /\ DOMAIN t.tools = DOMAIN s.tools
    /\ \A k \in DOMAIN s.tools : t.tools[k].out = s.tools[k].out

\* Such a state is as good.
LEMMA SameItemsOK ==
  ASSUME NEW s, StateOK(s), NEW t \in States, SameItems(s, t)
  PROVE  StateOK(t)
<1>1. ItemsOK(t)
  <2> USE DEF StateOK, SameItems
  <2>1. \E N \in Nat : DOMAIN t.tools \subseteq 0..N
    BY DEF ItemsOK
  <2>2. t.next = Cardinality(DOMAIN t.tools) + (IF t.text = None THEN 0 ELSE 1)
    BY DEF ItemsOK
  <2>3. /\ t.text # None => t.text.out < t.next
        /\ \A k \in DOMAIN t.tools :
              t.tools[k].out < t.next /\ (t.text # None => t.tools[k].out # t.text.out)
    BY DEF ItemsOK
  <2>4. \A k, l \in DOMAIN t.tools : t.tools[k].out = t.tools[l].out => k = l
    BY DEF ItemsOK
  <2>5. \A o \in 0..(t.next - 1) :
          \/ t.text # None /\ t.text.out = o
          \/ \E k \in DOMAIN t.tools : t.tools[k].out = o
    BY DEF ItemsOK
  <2>6. QED BY <2>1, <2>2, <2>3, <2>4, <2>5 DEF ItemsOK
<1>2. QED BY <1>1 DEF StateOK

\* The text item is opened.
LEMMA TextOpens ==
  ASSUME NEW s, StateOK(s), s.text = None, NEW t \in States,
         t.next = s.next + 1, t.text # None, t.text.out = s.next, t.tools = s.tools
  PROVE  StateOK(t)
<1>1. s \in States /\ ItemsOK(s) /\ s.next \in Nat
  BY StateFields DEF StateOK
<1>2. /\ Cardinality(DOMAIN s.tools) \in Nat /\ s.next = Cardinality(DOMAIN s.tools)
      /\ \A k \in DOMAIN s.tools : s.tools[k].out \in Nat /\ s.tools[k].out < s.next
  BY <1>1, KeysFinite, StateFields DEF ItemsOK
<1>3. \E N \in Nat : DOMAIN t.tools \subseteq 0..N
  BY <1>1 DEF ItemsOK
<1>4. \A k, l \in DOMAIN t.tools : t.tools[k].out = t.tools[l].out => k = l
  BY <1>1 DEF ItemsOK
<1>5. \A k \in DOMAIN t.tools : t.tools[k].out < t.next /\ t.tools[k].out # t.text.out
  BY <1>1, <1>2
<1>6. \A o \in 0..(t.next - 1) : t.text.out = o \/ \E k \in DOMAIN t.tools : t.tools[k].out = o
  <2> TAKE o \in 0..(t.next - 1)
  <2>1. o = s.next \/ o \in 0..(s.next - 1)
    BY <1>1
  <2>2. QED BY <1>1, <2>1 DEF ItemsOK
<1>7. QED BY <1>1, <1>2, <1>3, <1>4, <1>5, <1>6 DEF StateOK, ItemsOK

\* A tool item is opened.
LEMMA ToolOpens ==
  ASSUME NEW s, StateOK(s), NEW key \in Nat, key \notin DOMAIN s.tools, NEW t \in States,
         t.next = s.next + 1, t.text = s.text, DOMAIN t.tools = DOMAIN s.tools \cup {key},
         t.tools[key].out = s.next,
         \A k \in DOMAIN s.tools : t.tools[k] = s.tools[k]
  PROVE  StateOK(t)
<1>1. s \in States /\ ItemsOK(s) /\ s.next \in Nat
  BY StateFields DEF StateOK
<1>2. /\ IsFiniteSet(DOMAIN s.tools) /\ Cardinality(DOMAIN s.tools) \in Nat
      /\ s.next = Cardinality(DOMAIN s.tools) + (IF s.text = None THEN 0 ELSE 1)
      /\ \A k \in DOMAIN s.tools :
            /\ s.tools[k].out \in Nat /\ s.tools[k].out < s.next
            /\ s.text # None => s.tools[k].out # s.text.out
      /\ s.text # None => s.text.out \in Nat /\ s.text.out < s.next
  BY <1>1, KeysFinite, StateFields DEF ItemsOK
<1>3. \E N \in Nat : DOMAIN t.tools \subseteq 0..N
  <2>1. PICK N \in Nat : DOMAIN s.tools \subseteq 0..N
    BY <1>1 DEF ItemsOK
  <2>2. DOMAIN t.tools \subseteq 0..(N + key) /\ N + key \in Nat
    BY <2>1
  <2>3. QED BY <2>2
<1>4. Cardinality(DOMAIN t.tools) = Cardinality(DOMAIN s.tools) + 1
  BY <1>2, FS_AddElement
<1>5. t.next = Cardinality(DOMAIN t.tools) + (IF t.text = None THEN 0 ELSE 1)
  BY <1>1, <1>2, <1>4
<1>6. \A k, l \in DOMAIN t.tools : t.tools[k].out = t.tools[l].out => k = l
  <2> TAKE k, l \in DOMAIN t.tools
  <2> HAVE t.tools[k].out = t.tools[l].out
  <2>1. CASE k = key /\ l # key
    BY <1>1, <1>2, <2>1
  <2>2. CASE k # key /\ l = key
    BY <1>1, <1>2, <2>2
  <2>3. CASE k # key /\ l # key
    <3>1. k \in DOMAIN s.tools /\ l \in DOMAIN s.tools /\ s.tools[k].out = s.tools[l].out
      BY <2>3
    <3>2. QED BY <1>1, <3>1 DEF ItemsOK
  <2>4. QED BY <2>1, <2>2, <2>3
<1>7. \A k \in DOMAIN t.tools : t.tools[k].out < t.next /\ (t.text # None => t.tools[k].out # t.text.out)
  <2> TAKE k \in DOMAIN t.tools
  <2>1. CASE k = key
    BY <1>1, <1>2, <2>1
  <2>2. CASE k # key
    BY <1>1, <1>2, <2>2
  <2>3. QED BY <2>1, <2>2
<1>8. \A o \in 0..(t.next - 1) :
         \/ t.text # None /\ t.text.out = o
         \/ \E k \in DOMAIN t.tools : t.tools[k].out = o
  <2> TAKE o \in 0..(t.next - 1)
  <2>1. o = s.next \/ o \in 0..(s.next - 1)
    BY <1>1
  <2>2. CASE o = s.next
    BY <2>2
  <2>3. CASE o \in 0..(s.next - 1)
    <3>1. \/ s.text # None /\ s.text.out = o
          \/ \E k \in DOMAIN s.tools : s.tools[k].out = o
      BY <1>1, <2>3 DEF ItemsOK
    <3>2. QED BY <3>1
  <2>4. QED BY <2>1, <2>2, <2>3
<1>9. t.text # None => t.text.out < t.next
  BY <1>1, <1>2
<1>10. QED BY <1>3, <1>5, <1>6, <1>7, <1>8, <1>9 DEF StateOK, ItemsOK

\* What was produced so far: the events before this chunk and those in acc.
AccOK(e, acc) ==
    /\ StateOK(acc.st) /\ e \in Seq(EventSet) /\ acc.ev \in Seq(EventSet)
    /\ Open(e \o acc.ev, acc.st.next) /\ acc.st.seq = Len(e \o acc.ev)

\* One event is emitted once the state has changed from s to t.
Emits(e, acc, t, event) ==
    /\ AccOK(e, acc) /\ StateOK(t) /\ t.seq = acc.st.seq
    /\ event \in EventSet /\ event.type \notin {"error", "completed", "item_done"}
    /\ event.type = "added" => event.out = acc.st.next /\ t.next = acc.st.next + 1
    /\ event.type # "added" => /\ event.out \in {None} \cup 0..(acc.st.next - 1)
                               /\ t.next = acc.st.next

Emitted(e, acc, t, event, new) ==
    /\ AccOK(e, new) /\ SameItems(t, new.st)
    /\ new.st.text = t.text /\ new.st.tools = t.tools
    /\ TextIn(new.ev) = TextIn(acc.ev) \o SaidBy(event)

\* The events stay in order, and what they say is appended.
LEMMA EmitOK ==
  ASSUME NEW e, NEW acc, NEW t, NEW event, Emits(e, acc, t, event),
         NEW new, new = Emit([st |-> t, ev |-> acc.ev], event)
  PROVE  Emitted(e, acc, t, event, new)
<1> DEFINE x == [event EXCEPT !.seq = acc.st.seq]
           u == [t EXCEPT !.seq = @ + 1]
           all == e \o acc.ev
<1>1. /\ AccOK(e, acc) /\ StateOK(t) /\ t.seq = acc.st.seq /\ event \in EventSet
      /\ e \in Seq(EventSet) /\ acc.ev \in Seq(EventSet) /\ acc.st \in States /\ t \in States
      /\ acc.st.seq \in Nat /\ acc.st.next \in Nat
  BY StateFields DEF Emits, AccOK, StateOK
<1>2. /\ x \in EventSet /\ x.seq = acc.st.seq /\ x.type = event.type /\ x.out = event.out
      /\ x.data = event.data
  <2> HIDE DEF DataSet
  <2>1. event \in AnyEvents /\ acc.st.seq \in Nat
        /\ (event.type = "delta" => event.data \in Seq(STRING))
        /\ (event.type = "chunk" => event.data \in Chunks)
    BY <1>1 DEF EventSet
  <2>2. /\ x \in AnyEvents /\ x.seq = acc.st.seq /\ x.type = event.type /\ x.out = event.out
        /\ x.data = event.data
    BY <2>1 DEF AnyEvents
  <2> HIDE DEF x
  <2>3. QED BY <2>1, <2>2 DEF EventSet
<1>3. /\ u \in States /\ u.seq = acc.st.seq + 1 /\ u.next = t.next /\ u.text = t.text
      /\ u.tools = t.tools
  BY <1>1 DEF States
<1>4. Numbered(<<event>>, t.seq) = <<x>>
  <2>1. DOMAIN <<event>> = {1} /\ <<event>>[1] = event
    OBVIOUS
  <2>2. t.seq + 1 - 1 = t.seq
    BY <1>1
  <2>3. Numbered(<<event>>, t.seq) = [i \in {1} |-> [event EXCEPT !.seq = t.seq]]
    BY <2>1, <2>2 DEF Numbered
  <2>4. <<x>> = [i \in {1} |-> x]
    OBVIOUS
  <2>5. QED BY <1>1, <2>3, <2>4
<1>5. new = [st |-> u, ev |-> acc.ev \o <<x>>]
  BY <1>4 DEF Emit
<1> HIDE DEF x, u
<1>6. new.st = u /\ new.ev = acc.ev \o <<x>>
  BY <1>5
<1>7. <<x>> \in Seq(EventSet)
  BY <1>2
<1>8. TextJoins(acc.ev, <<x>>)
  BY <1>1, <1>7, TextInConcat
<1>9. TextIn(<<x>>) = SaidBy(event)
  <2>1. TextIn(<<x>>) = Joined(SaidWords, <<x>>)
    BY <1>7, TextInJoined
  <2>2. Joined(SaidWords, <<x>>) = SaidWords[x]
    BY <1>2, SaidWordsType, JoinedOne
  <2>3. SaidWords[x] = SaidBy(x)
    BY <1>2 DEF SaidWords
  <2>4. SaidBy(x) = SaidBy(event)
    BY <1>2 DEF SaidBy
  <2>5. QED BY <2>1, <2>2, <2>3, <2>4
<1>10. new.ev \in Seq(EventSet) /\ TextIn(new.ev) = TextIn(acc.ev) \o SaidBy(event)
  BY <1>6, <1>8, <1>9 DEF TextJoins
<1>11. all \in Seq(EventSet) /\ e \o new.ev = Append(all, x)
  <2>1. ThenOne(e, acc.ev, x)
    BY ONLY <1>1, <1>2, AppendLast
  <2>2. all \in Seq(EventSet)
    BY ONLY <1>1
  <2>3. QED BY ONLY <1>6, <2>1, <2>2 DEF ThenOne
<1>12. Open(all, acc.st.next) /\ Len(all) = acc.st.seq
  BY <1>1 DEF AccOK
<1> HIDE DEF all
<1>13. Follows(x, all, acc.st.next)
  BY <1>1, <1>2, <1>12 DEF Follows, Emits
<1>14. Open(Append(all, x), u.next)
  <2>1. u.next = IF x.type = "added" THEN acc.st.next + 1 ELSE acc.st.next
    BY <1>2, <1>3 DEF Emits
  <2>2. QED BY <1>1, <1>12, <1>13, <2>1, OpenGrows
<1>15. Len(Append(all, x)) = u.seq
  BY <1>3, <1>11, <1>12
<1>16. SameItems(t, u)
  BY <1>3 DEF SameItems
<1>17. StateOK(u)
  BY <1>1, <1>3, <1>16, SameItemsOK
<1>18. AccOK(e, new)
  BY <1>1, <1>6, <1>10, <1>11, <1>14, <1>15, <1>17 DEF AccOK
<1>19. QED BY <1>3, <1>6, <1>10, <1>16, <1>18 DEF Emitted

\* An event as the state writes it.
LEMMA EventFields ==
  ASSUME NEW type \in Types, NEW out \in Outs, NEW data \in DataSet,
         type = "delta" => data \in Seq(STRING), type # "chunk",
         NEW x, x = Event(type, out, data)
  PROVE  x \in EventSet /\ x.type = type /\ x.out = out /\ x.data = data
<1> HIDE DEF DataSet, Types, Outs
<1>1. QED BY DEF Event, EventSet, AnyEvents

\* The kinds of data there are.
LEMMA DataTypes ==
  /\ Seq(STRING) \subseteq DataSet /\ Chunks \subseteq DataSet /\ Nat \subseteq DataSet
  /\ None \in DataSet /\ "message" \in DataSet /\ "function_call" \in DataSet
  /\ Seq(OutputItems) \subseteq DataSet
BY DEF DataSet

\* An event that opens an item says nothing, nor does one that opens a part.
LEMMA AddedEvent ==
  ASSUME NEW out \in Nat, NEW what \in {"message", "function_call"},
         NEW x, x = Event("added", out, what)
  PROVE  x \in EventSet /\ x.type = "added" /\ x.out = out /\ SaidBy(x) = <<>>
<1>1. out \in Outs /\ what \in DataSet /\ "added" \in Types
  BY DataTypes DEF Types, Outs
<1>2. x \in EventSet /\ x.type = "added" /\ x.out = out
  BY <1>1, EventFields
<1>3. QED BY <1>2 DEF SaidBy

\* One that opens a part.
LEMMA PartEvent ==
  ASSUME NEW out \in Nat, NEW x, x = Event("part", out, None)
  PROVE  x \in EventSet /\ x.type = "part" /\ x.out = out /\ SaidBy(x) = <<>>
<1>1. out \in Outs /\ None \in DataSet /\ "part" \in Types
  BY DataTypes DEF Types, Outs
<1>2. x \in EventSet /\ x.type = "part" /\ x.out = out
  BY <1>1, EventFields
<1>3. QED BY <1>2 DEF SaidBy

\* A text is said, arguments are not.
LEMMA DeltaEvent ==
  ASSUME endpoint = "responses", NEW type \in {"delta", "args_delta"}, NEW out \in Nat,
         NEW words \in Seq(STRING), NEW x, x = Event(type, out, words)
  PROVE  /\ x \in EventSet /\ x.type = type /\ x.out = out
         /\ SaidBy(x) = IF type = "delta" THEN words ELSE <<>>
<1>1. out \in Outs /\ words \in DataSet /\ type \in Types /\ type # "chunk"
  BY DataTypes DEF Types, Outs
<1>2. x \in EventSet /\ x.type = type /\ x.out = out /\ x.data = words
  BY <1>1, EventFields
<1>3. QED BY <1>1, <1>2 DEF SaidBy

-----------------------------------------------------------------------------
(* What a piece does to the state *)

TextBefore(st) == IF st.text = None THEN <<>> ELSE st.text.text

\* What a fragment of a call leaves of its tool item, whatever was there.
ToolAfter(s, piece, item) ==
    LET key == piece.key
        call == piece.call
        known == key \in DOMAIN s.tools
    IN  /\ item.args = (IF known THEN s.tools[key].args ELSE <<>>) \o call.args
        /\ item.id = IF call.id # "" THEN call.id ELSE IF known THEN s.tools[key].id ELSE ""
        /\ item.name = IF call.name # "" THEN call.name ELSE IF known THEN s.tools[key].name ELSE ""

PieceApplied(s, piece, t) ==
    /\ piece.kind = "text" =>
          /\ t.tools = s.tools
          /\ t.text = None <=> s.text = None /\ piece.text = <<>>
          /\ TextBefore(t) = TextBefore(s) \o piece.text
    /\ piece.kind = "call" =>
          /\ t.text = s.text
          /\ DOMAIN t.tools = DOMAIN s.tools \cup {piece.key}
          /\ \A k \in DOMAIN s.tools : k # piece.key => t.tools[k] = s.tools[k]
          /\ ToolAfter(s, piece, t.tools[piece.key])

Steps(e, acc, piece, new) ==
    /\ AccOK(e, new) /\ PieceApplied(acc.st, piece, new.st)
    /\ TextIn(new.ev) = TextIn(acc.ev) \o PieceWords[piece]

WithText(s, n, item, t) ==
    t \in States /\ t.next = n /\ t.text = item /\ t.tools = s.tools /\ t.seq = s.seq

\* A state whose text item is another.
LEMMA WithTextFields ==
  ASSUME NEW s \in States, NEW n \in Nat, NEW item \in TextItems,
         NEW t, t = [s EXCEPT !.next = n, !.text = item]
  PROVE  WithText(s, n, item, t)
<1> HIDE DEF TextItems, ToolItems
<1>1. QED BY DEF States, WithText

\* The text item of a state that has none yet.
LEMMA OpenTextOK ==
  ASSUME endpoint = "responses", NEW e, NEW acc, AccOK(e, acc), NEW new, new = OpenText(acc)
  PROVE  /\ AccOK(e, new) /\ new.st.tools = acc.st.tools /\ new.st.text # None
         /\ new.st.text.text = TextBefore(acc.st) /\ TextIn(new.ev) = TextIn(acc.ev)
<1>1. StateOK(acc.st) /\ acc.st \in States /\ acc.ev \in Seq(EventSet) /\ acc.st.next \in Nat
      /\ TextIn(acc.ev) \in Seq(STRING)
  BY StateFields, TextInJoined DEF AccOK, StateOK
<1>2. CASE acc.st.text # None
  BY <1>1, <1>2 DEF OpenText, TextBefore
<1>3. CASE acc.st.text = None
  <2> DEFINE out == acc.st.next
             item == [out |-> out, text |-> <<>>]
             s == [acc.st EXCEPT !.next = out + 1, !.text = item]
             added == Event("added", out, "message")
             part == Event("part", out, None)
             first == Emit([st |-> s, ev |-> acc.ev], added)
  <2>1. new = Emit(first, part)
    BY <1>3 DEF OpenText
  <2>2. item \in TextItems /\ item.out = out /\ item.text = <<>> /\ item # None
    <3>1. item \in TextItems /\ item.out = out /\ item.text = <<>>
      BY <1>1 DEF TextItems
    <3>2. QED BY <3>1, ItemsAreNotAbsent
  <2>3. /\ s = [acc.st EXCEPT !.next = out + 1, !.text = item]
        /\ added = Event("added", out, "message") /\ part = Event("part", out, None)
        /\ acc.st \in States /\ out \in Nat /\ out + 1 \in Nat /\ out = acc.st.next
    BY <1>1
  <2> HIDE DEF item, s, added, part, first, out
  <2>4. /\ s \in States /\ s.next = out + 1 /\ s.text = item /\ s.tools = acc.st.tools
        /\ s.seq = acc.st.seq
    <3>1. WithText(acc.st, out + 1, item, s)
      BY <2>2, <2>3, WithTextFields
    <3>2. QED BY <3>1 DEF WithText
  <2>5. StateOK(s)
    BY <1>1, <1>3, <2>2, <2>3, <2>4, TextOpens
  <2>6. added \in EventSet /\ added.type = "added" /\ added.out = out /\ SaidBy(added) = <<>>
    BY ONLY <2>3, AddedEvent
  <2>7. part \in EventSet /\ part.type = "part" /\ part.out = out /\ SaidBy(part) = <<>>
    BY ONLY <2>3, PartEvent
  <2>8. Emits(e, acc, s, added)
    BY <1>1, <2>3, <2>4, <2>5, <2>6 DEF Emits
  <2>9. Emitted(e, acc, s, added, first)
    BY <2>8, EmitOK DEF first
  <2>10. /\ AccOK(e, first) /\ first.st.next = out + 1 /\ first.st.text = item
         /\ first.st.tools = acc.st.tools /\ TextIn(first.ev) = TextIn(acc.ev)
    BY <1>1, <2>4, <2>6, <2>9 DEF Emitted, SameItems
  <2>11. first = [st |-> first.st, ev |-> first.ev]
    BY DEF first, Emit
  <2>12. Emits(e, first, first.st, part)
    <3>1. out \in 0..((out + 1) - 1)
      BY <2>3
    <3>2. QED BY <2>3, <2>7, <2>10, <3>1 DEF Emits, AccOK
  <2>13. Emitted(e, first, first.st, part, new)
    BY <2>1, <2>11, <2>12, EmitOK
  <2>14. TextIn(new.ev) = TextIn(acc.ev)
    BY <1>1, <2>7, <2>10, <2>13 DEF Emitted
  <2>15. new.st.text = item /\ new.st.tools = acc.st.tools /\ AccOK(e, new)
    BY <2>10, <2>13 DEF Emitted
  <2>16. QED BY <1>3, <2>2, <2>14, <2>15 DEF TextBefore
<1>4. QED BY <1>2, <1>3

\* A text is said.
LEMMA ApplyTextOK ==
  ASSUME endpoint = "responses", NEW e, NEW acc, AccOK(e, acc), NEW words \in Seq(STRING),
         NEW piece, piece = [kind |-> "text", text |-> words],
         NEW new, new = ApplyText(acc, words)
  PROVE  Steps(e, acc, piece, new)
<1>1. /\ StateOK(acc.st) /\ acc.st \in States /\ acc.ev \in Seq(EventSet) /\ acc.st.next \in Nat
      /\ TextIn(acc.ev) \in Seq(STRING) /\ TextBefore(acc.st) \in Seq(STRING)
  <2>1. StateOK(acc.st) /\ acc.st \in States /\ acc.ev \in Seq(EventSet)
    BY DEF AccOK, StateOK
  <2>2. acc.st.next \in Nat /\ TextIn(acc.ev) \in Seq(STRING)
    BY <2>1, StateFields, TextInJoined
  <2>3. <<>> \in Seq(STRING)
    OBVIOUS
  <2>4. TextBefore(acc.st) \in Seq(STRING)
    BY <2>1, <2>3, StateFields DEF TextBefore
  <2>5. QED BY <2>1, <2>2, <2>4
<1>2. /\ piece \in PieceSet /\ piece.kind = "text" /\ piece.kind # "call" /\ piece.text = words
      /\ PieceWords[piece] = words
  BY DEF PieceSet, PieceWords
<1>3. CASE words = <<>>
  <2>1. new = acc
    BY <1>3 DEF ApplyText
  <2>2. TextBefore(acc.st) \o words = TextBefore(acc.st) /\ TextIn(acc.ev) \o words = TextIn(acc.ev)
    BY <1>1, <1>3
  <2>3. PieceApplied(acc.st, piece, new.st)
    BY <1>2, <1>3, <2>1, <2>2 DEF PieceApplied
  <2>4. QED BY <1>2, <2>1, <2>2, <2>3 DEF Steps
<1>4. CASE words # <<>>
  <2> DEFINE opened == OpenText(acc)
             old == opened.st.text
             item == [old EXCEPT !.text = @ \o words]
             s == [opened.st EXCEPT !.text = item]
             event == Event("delta", old.out, words)
  <2>1. new = Emit([st |-> s, ev |-> opened.ev], event)
    BY <1>4 DEF ApplyText
  <2>2. /\ AccOK(e, opened) /\ opened.st.tools = acc.st.tools /\ old # None
        /\ old.text = TextBefore(acc.st) /\ TextIn(opened.ev) = TextIn(acc.ev)
    BY OpenTextOK
  <2> HIDE DEF opened
  <2>3. /\ StateOK(opened.st) /\ opened.st \in States /\ old \in TextItems /\ old.out \in Nat
        /\ opened.st.next \in Nat /\ old.out < opened.st.next
    BY <2>2, StateFields DEF AccOK, StateOK, ItemsOK
  <2>4. item \in TextItems /\ item.out = old.out /\ item.text = old.text \o words /\ item # None
    <3>1. old.text \o words \in Seq(STRING)
      BY <1>1, <2>2
    <3>2. item \in TextItems /\ item.out = old.out /\ item.text = old.text \o words
      BY <2>3, <3>1 DEF TextItems
    <3>3. QED BY <3>2, ItemsAreNotAbsent
  <2>5. s = [opened.st EXCEPT !.text = item] /\ event = Event("delta", old.out, words)
    OBVIOUS
  <2> HIDE DEF item, s, event
  <2>6. /\ s \in States /\ s.next = opened.st.next /\ s.text = item
        /\ s.tools = opened.st.tools /\ s.seq = opened.st.seq
    <3>1. s = [opened.st EXCEPT !.next = opened.st.next, !.text = item]
      BY <2>3, <2>5 DEF States
    <3>2. WithText(opened.st, opened.st.next, item, s)
      BY <2>3, <2>4, <3>1, WithTextFields
    <3>3. QED BY <3>2 DEF WithText
  <2>7. StateOK(s)
    <3>1. SameItems(opened.st, s)
      BY <2>2, <2>4, <2>6 DEF SameItems
    <3>2. QED BY <2>3, <2>6, <3>1, SameItemsOK
  <2>8. event \in EventSet /\ event.type = "delta" /\ event.out = old.out /\ SaidBy(event) = words
    BY <2>3, <2>5, DeltaEvent
  <2>9. Emits(e, opened, s, event)
    <3>1. old.out \in 0..(opened.st.next - 1)
      BY <2>3
    <3>2. QED BY <2>2, <2>6, <2>7, <2>8, <3>1 DEF Emits
  <2>10. Emitted(e, opened, s, event, new)
    BY <2>1, <2>9, EmitOK
  <2>11. /\ AccOK(e, new) /\ new.st.text = item /\ new.st.tools = acc.st.tools
         /\ TextIn(new.ev) = TextIn(acc.ev) \o words
    BY <2>2, <2>6, <2>8, <2>10 DEF Emitted
  <2>12. PieceApplied(acc.st, piece, new.st)
    BY <1>2, <1>4, <2>2, <2>4, <2>11 DEF PieceApplied, TextBefore
  <2>13. QED BY <1>2, <2>11, <2>12 DEF Steps
<1>5. QED BY <1>3, <1>4

\* A state with a tool item that is new, or another.
WithToolItem(s, key, item, t) ==
    /\ t \in States /\ t.next = s.next /\ t.text = s.text /\ t.seq = s.seq
    /\ DOMAIN t.tools = DOMAIN s.tools \cup {key} /\ t.tools[key] = item
    /\ \A k \in DOMAIN s.tools : k # key => t.tools[k] = s.tools[k]

\* That is what WithTool makes.
LEMMA WithToolFields ==
  ASSUME NEW s \in States, NEW key \in Nat, NEW item \in ToolItems, NEW t, t = WithTool(s, key, item)
  PROVE  WithToolItem(s, key, item, t)
<1> DEFINE D == DOMAIN s.tools \cup {key}
           f == [k \in D |-> IF k = key THEN item ELSE s.tools[k]]
<1>1. D \in SUBSET Nat /\ \A k \in DOMAIN s.tools : s.tools[k] \in ToolItems
  BY StateFields
<1>2. f \in [D -> ToolItems]
  BY <1>1
<1>3. f \in UNION {[K -> ToolItems] : K \in SUBSET Nat}
  BY <1>1, <1>2
<1>4. DOMAIN f = D /\ f[key] = item /\ \A k \in DOMAIN s.tools : k # key => f[k] = s.tools[k]
  OBVIOUS
<1> HIDE DEF f
<1>5. t = [s EXCEPT !.tools = f]
  BY DEF WithTool, f
<1>6. t \in States /\ t.next = s.next /\ t.text = s.text /\ t.seq = s.seq /\ t.tools = f
  BY <1>3, <1>5 DEF States
<1>7. QED BY <1>4, <1>6 DEF WithToolItem

\* The tool item of a key that has none yet.
LEMMA OpenToolOK ==
  ASSUME endpoint = "responses", NEW e, NEW acc, AccOK(e, acc), NEW key \in Nat, NEW call \in CallParts,
         NEW new, new = OpenTool(acc, key, call)
  PROVE  /\ AccOK(e, new) /\ new.st.text = acc.st.text
         /\ DOMAIN new.st.tools = DOMAIN acc.st.tools \cup {key}
         /\ \A k \in DOMAIN acc.st.tools : new.st.tools[k] = acc.st.tools[k]
         /\ key \notin DOMAIN acc.st.tools =>
                /\ new.st.tools[key].args = <<>> /\ new.st.tools[key].id = call.id
                /\ new.st.tools[key].name = call.name
         /\ TextIn(new.ev) = TextIn(acc.ev)
<1>1. StateOK(acc.st) /\ acc.st \in States /\ acc.ev \in Seq(EventSet) /\ acc.st.next \in Nat
      /\ TextIn(acc.ev) \in Seq(STRING)
  BY StateFields, TextInJoined DEF AccOK, StateOK
<1>2. CASE key \in DOMAIN acc.st.tools
  BY <1>1, <1>2 DEF OpenTool
<1>3. CASE key \notin DOMAIN acc.st.tools
  <2> DEFINE out == acc.st.next
             item == [out |-> out, id |-> call.id, name |-> call.name, args |-> <<>>]
             s == WithTool(acc.st, key, item)
             t == [s EXCEPT !.next = out + 1]
             event == Event("added", out, "function_call")
  <2>1. new = Emit([st |-> t, ev |-> acc.ev], event)
    BY <1>3 DEF OpenTool
  <2>2. /\ item \in ToolItems /\ item.out = out /\ item.id = call.id /\ item.name = call.name
        /\ item.args = <<>>
    BY <1>1 DEF ToolItems, CallParts
  <2>3. s = WithTool(acc.st, key, item) /\ t = [s EXCEPT !.next = out + 1] /\ out \in Nat
        /\ event = Event("added", out, "function_call") /\ out = acc.st.next /\ out + 1 \in Nat
    BY <1>1
  <2> HIDE DEF item, s, t, event, out
  <2>4. WithToolItem(acc.st, key, item, s)
    BY <1>1, <2>2, <2>3, WithToolFields
  <2>5. t \in States /\ t.next = out + 1 /\ t.text = s.text /\ t.tools = s.tools /\ t.seq = s.seq
    <3>1. s \in States
      BY <2>4 DEF WithToolItem
    <3>2. QED BY ONLY <2>3, <3>1 DEF States
  <2>6. /\ t.text = acc.st.text /\ t.seq = acc.st.seq
        /\ DOMAIN t.tools = DOMAIN acc.st.tools \cup {key} /\ t.tools[key] = item
        /\ \A k \in DOMAIN acc.st.tools : t.tools[k] = acc.st.tools[k]
    BY <1>3, <2>4, <2>5 DEF WithToolItem
  <2>7. StateOK(t)
    <3>1. /\ t.next = acc.st.next + 1 /\ t.tools[key].out = acc.st.next /\ t \in States
          /\ t.text = acc.st.text /\ DOMAIN t.tools = DOMAIN acc.st.tools \cup {key}
          /\ \A k \in DOMAIN acc.st.tools : t.tools[k] = acc.st.tools[k]
          /\ StateOK(acc.st) /\ key \in Nat /\ key \notin DOMAIN acc.st.tools
      BY <1>1, <1>3, <2>2, <2>3, <2>5, <2>6
    <3>2. QED BY ONLY <3>1, ToolOpens
  <2>8. event \in EventSet /\ event.type = "added" /\ event.out = out /\ SaidBy(event) = <<>>
    BY <2>3, AddedEvent
  <2>9. Emits(e, acc, t, event)
    BY <2>3, <2>5, <2>6, <2>7, <2>8 DEF Emits
  <2>10. Emitted(e, acc, t, event, new)
    BY <2>1, <2>9, EmitOK
  <2>11. TextIn(acc.ev) \o <<>> = TextIn(acc.ev)
    BY <1>1
  <2>12. AccOK(e, new) /\ new.st.text = t.text /\ new.st.tools = t.tools /\ TextIn(new.ev) = TextIn(acc.ev)
    BY <2>8, <2>10, <2>11 DEF Emitted
  <2>13. QED BY <1>3, <2>2, <2>6, <2>12
<1>4. QED BY <1>2, <1>3

\* A fragment of a call.
LEMMA ApplyCallOK ==
  ASSUME endpoint = "responses", NEW e, NEW acc, AccOK(e, acc), NEW key \in Nat, NEW call \in CallParts,
         NEW piece, piece = [kind |-> "call", key |-> key, call |-> call],
         NEW new, new = ApplyCall(acc, key, call)
  PROVE  Steps(e, acc, piece, new)
<1> DEFINE opened == OpenTool(acc, key, call)
           old == opened.st.tools[key]
           item == Merged(old, call)
           s == WithTool(opened.st, key, item)
           merged == [st |-> s, ev |-> opened.ev]
           event == Event("args_delta", old.out, call.args)
<1>1. /\ StateOK(acc.st) /\ acc.st \in States /\ acc.ev \in Seq(EventSet)
      /\ TextIn(acc.ev) \in Seq(STRING)
      /\ call.id \in STRING /\ call.name \in STRING /\ call.args \in Seq(STRING)
  BY TextInJoined DEF AccOK, StateOK, CallParts
<1>2. /\ piece \in PieceSet /\ piece.kind = "call" /\ piece.key = key /\ piece.call = call
      /\ piece.kind # "text" /\ PieceWords[piece] = <<>>
  BY DEF PieceSet, PieceWords
<1>3. new = IF call.args = <<>> THEN merged ELSE Emit(merged, event)
  <2>1. [out |-> old.out, args |-> call.args].out = old.out
    OBVIOUS
  <2>2. item.out = old.out
    BY DEF Merged
  <2>3. QED BY <2>2 DEF ApplyCall
<1>4. /\ AccOK(e, opened) /\ opened.st.text = acc.st.text
      /\ DOMAIN opened.st.tools = DOMAIN acc.st.tools \cup {key}
      /\ \A k \in DOMAIN acc.st.tools : opened.st.tools[k] = acc.st.tools[k]
      /\ key \notin DOMAIN acc.st.tools => old.args = <<>> /\ old.id = call.id /\ old.name = call.name
      /\ TextIn(opened.ev) = TextIn(acc.ev)
  BY OpenToolOK
<1> HIDE DEF opened
<1>5. /\ StateOK(opened.st) /\ opened.st \in States /\ opened.ev \in Seq(EventSet)
      /\ opened.st.next \in Nat /\ old \in ToolItems /\ old.out \in Nat /\ old.id \in STRING
      /\ old.name \in STRING /\ old.args \in Seq(STRING) /\ old.out < opened.st.next
  <2>1. key \in DOMAIN opened.st.tools
    BY <1>4
  <2>2. QED BY <1>4, <2>1, StateFields DEF AccOK, StateOK, ItemsOK
<1>6. /\ item \in ToolItems /\ item.out = old.out /\ item.args = old.args \o call.args
      /\ item.id = Newer(old.id, call.id) /\ item.name = Newer(old.name, call.name)
  <2>1. Newer(old.id, call.id) \in STRING /\ Newer(old.name, call.name) \in STRING
    BY <1>1, <1>5 DEF Newer
  <2>2. old.args \o call.args \in Seq(STRING)
    BY <1>1, <1>5
  <2> HIDE DEF old
  <2>3. QED BY <1>5, <2>1, <2>2 DEF ToolItems, Merged
<1>7. s = WithTool(opened.st, key, item) /\ merged = [st |-> s, ev |-> opened.ev]
      /\ event = Event("args_delta", old.out, call.args)
  OBVIOUS
<1> HIDE DEF item, s, event
<1>8. WithToolItem(opened.st, key, item, s)
  BY <1>5, <1>6, <1>7, WithToolFields
<1>9. /\ s \in States /\ s.next = opened.st.next /\ s.text = acc.st.text /\ s.seq = opened.st.seq
      /\ DOMAIN s.tools = DOMAIN acc.st.tools \cup {key} /\ s.tools[key] = item
      /\ \A k \in DOMAIN acc.st.tools : k # key => s.tools[k] = acc.st.tools[k]
  BY <1>4, <1>8 DEF WithToolItem
<1>10. SameItems(opened.st, s)
  BY <1>4, <1>6, <1>8, <1>9 DEF SameItems, WithToolItem
<1>11. StateOK(s)
  BY <1>5, <1>9, <1>10, SameItemsOK
<1>12. ToolAfter(acc.st, piece, item)
  <2>1. key \in DOMAIN acc.st.tools => old = acc.st.tools[key]
    BY <1>4
  <2>2. <<>> \o call.args = call.args
    BY <1>1
  <2> HIDE DEF old
  <2>3. CASE key \in DOMAIN acc.st.tools
    BY <1>2, <1>6, <2>1, <2>3 DEF ToolAfter, Newer
  <2>4. CASE key \notin DOMAIN acc.st.tools
    BY <1>2, <1>4, <1>6, <2>2, <2>4 DEF ToolAfter, Newer, old
  <2>5. QED BY <2>3, <2>4
<1>13. \A t : t.text = s.text /\ t.tools = s.tools => PieceApplied(acc.st, piece, t)
  BY <1>2, <1>9, <1>12 DEF PieceApplied
<1>14. TextIn(acc.ev) \o <<>> = TextIn(acc.ev)
  BY <1>1
<1>15. CASE call.args = <<>>
  <2>1. new = merged /\ new.st = s /\ new.ev = opened.ev
    BY <1>3, <1>15
  <2>2. AccOK(e, new)
    <3>1. s.next = opened.st.next /\ s.seq = opened.st.seq
      BY <1>9
    <3>2. QED BY <1>4, <1>11, <2>1, <3>1 DEF AccOK
  <2>3. QED BY <1>2, <1>4, <1>13, <1>14, <2>1, <2>2 DEF Steps
<1>16. CASE call.args # <<>>
  <2>1. new = Emit([st |-> s, ev |-> opened.ev], event)
    BY <1>3, <1>16
  <2>2. event \in EventSet /\ event.type = "args_delta" /\ event.out = old.out /\ SaidBy(event) = <<>>
    BY <1>1, <1>5, <1>7, DeltaEvent
  <2>3. Emits(e, opened, s, event)
    <3>1. old.out \in 0..(opened.st.next - 1)
      BY <1>5
    <3>2. QED BY <1>4, <1>9, <1>11, <2>2, <3>1 DEF Emits
  <2>4. Emitted(e, opened, s, event, new)
    BY <2>1, <2>3, EmitOK
  <2>5. AccOK(e, new) /\ new.st.text = s.text /\ new.st.tools = s.tools /\ TextIn(new.ev) = TextIn(acc.ev)
    BY <1>4, <1>14, <2>2, <2>4 DEF Emitted
  <2>6. QED BY <1>2, <1>13, <1>14, <2>5 DEF Steps
<1>17. QED BY <1>15, <1>16

-----------------------------------------------------------------------------
(* What pieces come to *)

\* The last of the words that f makes of s, where "" is no word.
LastWord(f, none, s) ==
    LET given == {i \in DOMAIN s : f[s[i]] # none}
    IN  IF given = {} THEN none ELSE f[s[Max(given)]]
LastOf(f, s) == LastWord(f, "", s)

LastGrows(f, none, s, e) ==
    LastWord(f, none, Append(s, e)) = IF f[e] # none THEN f[e] ELSE LastWord(f, none, s)

\* One element more.
LEMMA LastWordAppend ==
  ASSUME NEW E, NEW f, NEW none, NEW s \in Seq(E), NEW e \in E
  PROVE  LastGrows(f, none, s, e)
<1> DEFINE R(t) == {i \in DOMAIN t : f[t[i]] # none}
           N == Len(s)
           t == Append(s, e)
<1>1. /\ N \in Nat /\ DOMAIN s = 1..N /\ DOMAIN t = 1..(N + 1)
      /\ \A i \in 1..N : t[i] = s[i]
      /\ t[N + 1] = e
  OBVIOUS
<1> HIDE DEF t, N
<1>2. R(s) \subseteq 0..N /\ R(t) \subseteq 0..(N + 1)
  BY <1>1
<1>3. \A i \in 1..N : i \in R(t) <=> i \in R(s)
  BY <1>1
<1>4. f[e] # none => LastWord(f, none, t) = f[e]
  <2> HAVE f[e] # none
  <2>1. N + 1 \in R(t)
    BY <1>1
  <2>2. Max(R(t)) = N + 1
    <3>1. Max(R(t)) \in R(t) /\ \A i \in R(t) : i <= Max(R(t))
      <4> HIDE DEF R
      <4>1. N + 1 \in Nat
        BY <1>1
      <4>2. QED BY <1>2, <2>1, <4>1, GreatestNatural
    <3>2. Max(R(t)) \in 0..(N + 1) /\ N + 1 <= Max(R(t))
      <4> HIDE DEF R
      <4>1. QED BY <1>2, <2>1, <3>1
    <3>3. QED BY <1>1, <3>2
  <2>3. QED BY <1>1, <2>1, <2>2 DEF LastWord
<1>5. f[e] = none => LastWord(f, none, t) = LastWord(f, none, s)
  <2> HAVE f[e] = none
  <2>1. R(t) = R(s)
    <3>1. N + 1 \notin R(t)
      BY <1>1
    <3>2. R(t) \subseteq 1..(N + 1) /\ R(s) \subseteq 1..N
      BY <1>1
    <3> HIDE DEF R
    <3>3. \A i \in 1..(N + 1) : i # N + 1 => i \in 1..N
      BY <1>1
    <3>4. R(t) \subseteq 1..N
      BY <3>1, <3>2, <3>3
    <3>5. QED BY <1>3, <3>2, <3>4
  <2>2. R(s) # {} => t[Max(R(s))] = s[Max(R(s))]
    <3>1. R(s) # {} => Max(R(s)) \in R(s)
      <4> HIDE DEF R
      <4>1. QED BY <1>1, <1>2, GreatestNatural
    <3>2. QED BY <1>1, <3>1
  <2>3. LastWord(f, none, t) = IF R(t) = {} THEN none ELSE f[t[Max(R(t))]]
    BY DEF LastWord
  <2>4. LastWord(f, none, s) = IF R(s) = {} THEN none ELSE f[s[Max(R(s))]]
    BY DEF LastWord
  <2> HIDE DEF R
  <2>5. QED BY <2>1, <2>2, <2>3, <2>4
<1>6. QED BY <1>4, <1>5 DEF LastGrows, t

\* So it is with words.
LEMMA LastOfAppend ==
  ASSUME NEW E, NEW f, NEW s \in Seq(E), NEW e \in E
  PROVE  LastOf(f, Append(s, e)) = IF f[e] # "" THEN f[e] ELSE LastOf(f, s)
<1>1. LastGrows(f, "", s, e)
  BY LastWordAppend
<1>2. QED BY <1>1 DEF LastGrows, LastOf

OfCall(p, k) == p.kind = "call" /\ p.key = k
ArgsOf(k) == [p \in PieceSet |-> IF OfCall(p, k) THEN p.call.args ELSE <<>>]
IdOf(k) == [p \in PieceSet |-> IF OfCall(p, k) THEN p.call.id ELSE ""]
NameOf(k) == [p \in PieceSet |-> IF OfCall(p, k) THEN p.call.name ELSE ""]
KeysOf(pp) == {pp[i].key : i \in {j \in DOMAIN pp : pp[j].kind = "call"}}

\* What the fields of a piece are.
LEMMA PieceFields ==
  ASSUME NEW p \in PieceSet
  PROVE  /\ p.kind \in {"text", "call"}
         /\ p.kind = "text" => p.text \in Seq(STRING) /\ PieceWords[p] = p.text
                               /\ p = [kind |-> "text", text |-> p.text]
         /\ p.kind = "call" => /\ p.key \in Nat /\ p.call \in CallParts /\ PieceWords[p] = <<>>
                               /\ p.call.id \in STRING /\ p.call.name \in STRING
                               /\ p.call.args \in Seq(STRING)
                               /\ p = [kind |-> "call", key |-> p.key, call |-> p.call]
<1> HIDE DEF CallParts
<1>1. CASE p \in [kind : {"text"}, text : Seq(STRING)]
  BY <1>1 DEF PieceWords, PieceSet
<1>2. CASE p \in [kind : {"call"}, key : Nat, call : CallParts]
  <2>1. /\ p.kind = "call" /\ p.key \in Nat /\ p.call \in CallParts
        /\ p = [kind |-> "call", key |-> p.key, call |-> p.call]
    BY <1>2
  <2>2. PieceWords[p] = <<>>
    BY <2>1 DEF PieceWords
  <2>3. p.call.id \in STRING /\ p.call.name \in STRING /\ p.call.args \in Seq(STRING)
    BY <2>1 DEF CallParts
  <2>4. QED BY <2>1, <2>2, <2>3
<1>3. QED BY <1>1, <1>2 DEF PieceSet

\* The arguments in a piece.
LEMMA ArgsOfType ==
  ASSUME NEW k
  PROVE  ArgsOf(k) \in [PieceSet -> Seq(STRING)]
<1>1. <<>> \in Seq(STRING)
  OBVIOUS
<1>2. \A p \in PieceSet : (IF OfCall(p, k) THEN p.call.args ELSE <<>>) \in Seq(STRING)
  BY <1>1, PieceFields DEF OfCall
<1>3. QED BY <1>2 DEF ArgsOf

\* The keys in one piece more.
LEMMA KeysAppend ==
  ASSUME NEW pp \in Seq(PieceSet), NEW p \in PieceSet
  PROVE  KeysOf(Append(pp, p)) = KeysOf(pp) \cup (IF p.kind = "call" THEN {p.key} ELSE {})
<1> DEFINE N == Len(pp)
           qq == Append(pp, p)
<1>1. /\ N \in Nat /\ DOMAIN pp = 1..N /\ DOMAIN qq = 1..(N + 1)
      /\ \A i \in 1..N : qq[i] = pp[i]
      /\ qq[N + 1] = p /\ N + 1 \in 1..(N + 1)
      /\ \A i \in 1..(N + 1) : i \in 1..N \/ i = N + 1
      /\ 1..N \subseteq 1..(N + 1)
  OBVIOUS
<1> HIDE DEF N, qq
<1>2. QED BY <1>1 DEF KeysOf, qq

\* The state of a response is what the pieces so far come to.
Assembles(st, pp) ==
    /\ st.text = None <=> Joined(PieceWords, pp) = <<>>
    /\ TextBefore(st) = Joined(PieceWords, pp)
    /\ DOMAIN st.tools = KeysOf(pp)
    /\ \A k \in KeysOf(pp) :
          /\ st.tools[k].args = Joined(ArgsOf(k), pp)
          /\ st.tools[k].id = LastOf(IdOf(k), pp)
          /\ st.tools[k].name = LastOf(NameOf(k), pp)

\* What a tool that no piece was about comes to.
LEMMA NoPieceOf ==
  ASSUME NEW pp \in Seq(PieceSet), NEW k, k \notin KeysOf(pp)
  PROVE  Joined(ArgsOf(k), pp) = <<>> /\ LastOf(IdOf(k), pp) = "" /\ LastOf(NameOf(k), pp) = ""
<1>1. /\ Len(pp) \in Nat /\ DOMAIN pp = 1..Len(pp)
      /\ \A i \in DOMAIN pp : pp[i] \in PieceSet /\ ~OfCall(pp[i], k)
  BY DEF KeysOf, OfCall
<1>2. \A i \in DOMAIN pp : IdOf(k)[pp[i]] = "" /\ NameOf(k)[pp[i]] = "" /\ ArgsOf(k)[pp[i]] = <<>>
  BY <1>1 DEF IdOf, NameOf, ArgsOf
<1>3. LastOf(IdOf(k), pp) = "" /\ LastOf(NameOf(k), pp) = ""
  BY <1>2 DEF LastOf, LastWord
<1>4. [i \in DOMAIN pp |-> ArgsOf(k)[pp[i]]] \in [1..Len(pp) -> {<<>>}]
  BY <1>1, <1>2
<1>5. FlattenSeq([i \in DOMAIN pp |-> ArgsOf(k)[pp[i]]]) = <<>>
  BY <1>1, <1>4, FlattenNothing
<1>6. QED BY <1>3, <1>5 DEF Joined

\* It stays so, piece by piece.
LEMMA AssemblesStep ==
  ASSUME NEW pp \in Seq(PieceSet), NEW p \in PieceSet, NEW s, Assembles(s, pp),
         NEW t, PieceApplied(s, p, t)
  PROVE  Assembles(t, Append(pp, p))
<1> DEFINE qq == Append(pp, p)
<1>1. /\ Joined(PieceWords, qq) = Joined(PieceWords, pp) \o PieceWords[p]
      /\ Joined(PieceWords, pp) \in Seq(STRING) /\ PieceWords[p] \in Seq(STRING)
  BY PieceWordsType, JoinedAppend, JoinedType
<1>2. KeysOf(qq) = KeysOf(pp) \cup (IF p.kind = "call" THEN {p.key} ELSE {})
  BY KeysAppend
<1>3. ASSUME NEW k
      PROVE  /\ Joined(ArgsOf(k), qq) = Joined(ArgsOf(k), pp) \o ArgsOf(k)[p]
             /\ Joined(ArgsOf(k), pp) \in Seq(STRING) /\ ArgsOf(k)[p] \in Seq(STRING)
             /\ LastOf(IdOf(k), qq) = IF IdOf(k)[p] # "" THEN IdOf(k)[p] ELSE LastOf(IdOf(k), pp)
             /\ LastOf(NameOf(k), qq) = IF NameOf(k)[p] # "" THEN NameOf(k)[p] ELSE LastOf(NameOf(k), pp)
  <2>1. ArgsOf(k) \in [PieceSet -> Seq(STRING)]
    BY ArgsOfType
  <2>2. QED BY <2>1, JoinedAppend, JoinedType, LastOfAppend
<1>4. ASSUME NEW k, ~OfCall(p, k)
      PROVE  /\ Joined(ArgsOf(k), qq) = Joined(ArgsOf(k), pp)
             /\ LastOf(IdOf(k), qq) = LastOf(IdOf(k), pp)
             /\ LastOf(NameOf(k), qq) = LastOf(NameOf(k), pp)
  <2>1. ArgsOf(k)[p] = <<>> /\ IdOf(k)[p] = "" /\ NameOf(k)[p] = ""
    BY <1>4 DEF ArgsOf, IdOf, NameOf
  <2>2. Joined(ArgsOf(k), pp) \o <<>> = Joined(ArgsOf(k), pp)
    <3>1. Joined(ArgsOf(k), pp) \in Seq(STRING)
      BY <1>3
    <3> DEFINE j == Joined(ArgsOf(k), pp)
    <3> HIDE DEF j
    <3>2. j \in Seq(STRING) => j \o <<>> = j
      OBVIOUS
    <3>3. QED BY <3>1, <3>2 DEF j
  <2>3. QED BY <1>3, <2>1, <2>2
<1> HIDE DEF qq
<1>5. CASE p.kind = "text"
  <2>1. /\ t.tools = s.tools /\ (t.text = None <=> s.text = None /\ p.text = <<>>)
        /\ TextBefore(t) = TextBefore(s) \o p.text /\ PieceWords[p] = p.text
    BY <1>5, PieceFields DEF PieceApplied
  <2>2. KeysOf(qq) = KeysOf(pp) /\ \A k : ~OfCall(p, k)
    BY <1>2, <1>5 DEF OfCall
  <2>3. t.text = None <=> Joined(PieceWords, qq) = <<>>
    <3>1. Joined(PieceWords, pp) \o p.text = <<>> <=> Joined(PieceWords, pp) = <<>> /\ p.text = <<>>
      BY <1>1, <2>1
    <3>2. QED BY <1>1, <2>1, <3>1 DEF Assembles
  <2>4. \A k \in KeysOf(qq) :
          /\ t.tools[k].args = Joined(ArgsOf(k), qq)
          /\ t.tools[k].id = LastOf(IdOf(k), qq)
          /\ t.tools[k].name = LastOf(NameOf(k), qq)
    BY <1>4, <2>1, <2>2 DEF Assembles
  <2>5. QED BY <1>1, <2>1, <2>2, <2>3, <2>4 DEF Assembles, qq
<1>6. CASE p.kind = "call"
  <2>1. /\ t.text = s.text /\ DOMAIN t.tools = DOMAIN s.tools \cup {p.key}
        /\ \A k \in DOMAIN s.tools : k # p.key => t.tools[k] = s.tools[k]
        /\ ToolAfter(s, p, t.tools[p.key])
    BY <1>6 DEF PieceApplied
  <2>2. KeysOf(qq) = KeysOf(pp) \cup {p.key} /\ PieceWords[p] = <<>>
    BY <1>2, <1>6, PieceFields
  <2>3. Joined(PieceWords, qq) = Joined(PieceWords, pp)
    BY <1>1, <2>2
  <2>4. /\ t.tools[p.key].args = Joined(ArgsOf(p.key), qq)
        /\ t.tools[p.key].id = LastOf(IdOf(p.key), qq)
        /\ t.tools[p.key].name = LastOf(NameOf(p.key), qq)
    <3> DEFINE k == p.key
    <3>1. ArgsOf(k)[p] = p.call.args /\ IdOf(k)[p] = p.call.id /\ NameOf(k)[p] = p.call.name
      BY <1>6 DEF ArgsOf, IdOf, NameOf, OfCall
    <3>2. CASE k \in DOMAIN s.tools
      <4>1. /\ s.tools[k].args = Joined(ArgsOf(k), pp) /\ s.tools[k].id = LastOf(IdOf(k), pp)
            /\ s.tools[k].name = LastOf(NameOf(k), pp)
        BY <3>2 DEF Assembles
      <4>2. /\ t.tools[k].args = s.tools[k].args \o p.call.args
            /\ t.tools[k].id = IF p.call.id # "" THEN p.call.id ELSE s.tools[k].id
            /\ t.tools[k].name = IF p.call.name # "" THEN p.call.name ELSE s.tools[k].name
        BY <2>1, <3>2 DEF ToolAfter
      <4>3. QED BY <1>3, <3>1, <4>1, <4>2
    <3>3. CASE k \notin DOMAIN s.tools
      <4>1. Joined(ArgsOf(k), pp) = <<>> /\ LastOf(IdOf(k), pp) = "" /\ LastOf(NameOf(k), pp) = ""
        BY <3>3, NoPieceOf DEF Assembles
      <4>2. QED BY <1>3, <2>1, <3>1, <3>3, <4>1 DEF ToolAfter
    <3>4. QED BY <3>2, <3>3
  <2>5. \A k \in KeysOf(pp) : k # p.key =>
          /\ t.tools[k].args = Joined(ArgsOf(k), qq)
          /\ t.tools[k].id = LastOf(IdOf(k), qq)
          /\ t.tools[k].name = LastOf(NameOf(k), qq)
    <3>1. \A k : k # p.key => ~OfCall(p, k)
      BY DEF OfCall
    <3>2. QED BY <1>4, <2>1, <3>1 DEF Assembles
  <2>6. QED BY <2>1, <2>2, <2>3, <2>4, <2>5 DEF Assembles, TextBefore, qq
<1>7. QED BY <1>5, <1>6, PieceFields

\* A step of ApplyChunk, which the CHOOSE there only names.
LEMMA OnlyOne ==
  ASSUME NEW a, NEW piece
  PROVE  (CHOOSE next \in {ApplyPiece(acc, piece) : acc \in {a}} : TRUE) = ApplyPiece(a, piece)
<1>1. {ApplyPiece(acc, piece) : acc \in {a}} = {ApplyPiece(a, piece)}
  OBVIOUS
<1> DEFINE x == ApplyPiece(a, piece)
<1> HIDE DEF x
<1>2. (CHOOSE next \in {x} : TRUE) = x
  OBVIOUS
<1>3. QED BY <1>1, <1>2 DEF x

\* The function that ApplyChunk is defined by exists.
LEMMA ApplyUnfolds ==
  ASSUME NEW st, NEW chunk \in Chunks
  PROVE  \E f : /\ f[0] = [st |-> st, ev |-> <<>>]
                /\ \A i \in 1..Len(Pieces(chunk)) : f[i] = ApplyPiece(f[i - 1], Pieces(chunk)[i])
                /\ ApplyChunk(st, chunk) = f[Len(Pieces(chunk))]
<1> DEFINE pieces == Pieces(chunk)
           N == Len(pieces)
           first == [st |-> st, ev |-> <<>>]
           After(f, i) == IF i = 0 THEN first
                          ELSE CHOOSE next \in {ApplyPiece(acc, pieces[i]) : acc \in {f[i - 1]}} : TRUE
           Has(k) == \E f : f = [i \in 0..k |-> After(f, i)]
<1>1. N \in Nat
  <2>1. pieces \in Seq(PieceSet)
    BY PiecesType
  <2> HIDE DEF pieces
  <2>2. QED BY <2>1
<1> HIDE DEF N
<1>2. Has(0)
  <2> DEFINE f == [i \in 0..0 |-> first]
  <2>1. \A i \in 0..0 : After(f, i) = first
    <3>1. \A i \in 0..0 : i = 0
      OBVIOUS
    <3>2. QED BY <3>1
  <2>2. f = [i \in 0..0 |-> After(f, i)]
    <3> HIDE DEF After
    <3>1. QED BY <2>1
  <2>3. QED BY <2>2
<1>3. ASSUME NEW k \in 1..N, Has(k - 1) PROVE Has(k)
  <2>1. PICK f : f = [i \in 0..(k - 1) |-> After(f, i)]
    BY <1>3
  <2> DEFINE g == [i \in 0..k |-> After(f, i)]
  <2>2. \A i \in 0..(k - 1) : g[i] = f[i]
    <3> HIDE DEF After
    <3>1. \A i \in 0..(k - 1) : i \in 0..k
      BY <1>1
    <3>2. \A i \in 0..(k - 1) : f[i] = After(f, i)
      BY <2>1
    <3>3. QED BY <3>1, <3>2
  <2>3. \A i \in 0..k : After(g, i) = After(f, i)
    <3> HIDE DEF g
    <3>1. \A i \in 0..k : i # 0 => i - 1 \in 0..(k - 1)
      BY <1>1
    <3>2. \A i \in 0..k : i # 0 => g[i - 1] = f[i - 1]
      BY <2>2, <3>1
    <3>3. QED BY <3>2
  <2>4. g = [i \in 0..k |-> After(g, i)]
    <3>1. g = [i \in 0..k |-> After(f, i)]
      OBVIOUS
    <3> HIDE DEF g, After
    <3>2. QED BY <2>3, <3>1
  <2>5. QED BY <2>4
<1>4. Has(N)
  <2> HIDE DEF Has
  <2> DEFINE Good == {k \in 0..N : Has(k)}
  <2>1. 0 \in Good
    BY <1>1, <1>2
  <2>2. \A k \in 1..N : k - 1 \in Good => k \in Good
    BY <1>1, <1>3
  <2>3. \A k \in 0..N : k \in Good
    <3> HIDE DEF Good
    <3>1. QED BY <1>1, <2>1, <2>2, Climb
  <2>4. QED BY <2>3, <1>1
<1>5. PICK f : f = [i \in 0..N |-> After(f, i)]
  BY <1>4
<1> DEFINE F == CHOOSE g : g = [i \in 0..N |-> After(g, i)]
<1>6. F = [i \in 0..N |-> After(F, i)]
  <2> HIDE DEF After
  <2>1. QED BY <1>5
<1>7. ApplyChunk(st, chunk) = F[N]
  BY DEF ApplyChunk, N
<1> HIDE DEF F
<1>8. \A i \in 0..N : F[i] = After(F, i)
  <2> HIDE DEF After
  <2>1. QED BY <1>6
<1>9. F[0] = first
  BY <1>1, <1>8
<1>10. ASSUME NEW i \in 1..N PROVE F[i] = ApplyPiece(F[i - 1], pieces[i])
  <2>1. i \in 0..N /\ i # 0
    BY <1>1
  <2>2. F[i] = CHOOSE next \in {ApplyPiece(acc, pieces[i]) : acc \in {F[i - 1]}} : TRUE
    BY <1>8, <2>1
  <2>3. QED BY <2>2, OnlyOne
<1>11. QED BY <1>7, <1>9, <1>10 DEF N

\* A piece.
LEMMA ApplyPieceOK ==
  ASSUME endpoint = "responses", NEW e, NEW acc, AccOK(e, acc), NEW piece \in PieceSet,
         NEW new, new = ApplyPiece(acc, piece)
  PROVE  Steps(e, acc, piece, new)
<1>1. CASE piece.kind = "text"
  <2>1. new = ApplyText(acc, piece.text) /\ piece.text \in Seq(STRING)
        /\ piece = [kind |-> "text", text |-> piece.text]
    BY <1>1, PieceFields DEF ApplyPiece
  <2>2. QED BY <2>1, ApplyTextOK
<1>2. CASE piece.kind = "call"
  <2>1. new = ApplyCall(acc, piece.key, piece.call) /\ piece.key \in Nat /\ piece.call \in CallParts
        /\ piece = [kind |-> "call", key |-> piece.key, call |-> piece.call]
    BY <1>2, PieceFields DEF ApplyPiece
  <2>2. QED BY <2>1, ApplyCallOK
<1>3. QED BY <1>1, <1>2, PieceFields

\* What a chunk makes of a response: its events follow, they say its text, and
\* the state is what the pieces so far come to.
ChunkApplied(e, pp, chunk, r) ==
    /\ AccOK(e, r) /\ Assembles(r.st, pp \o Pieces(chunk)) /\ TextIn(r.ev) = Text0(chunk)
    /\ pp \o Pieces(chunk) \in Seq(PieceSet)

\* One chunk.
LEMMA ApplyChunkOK ==
  ASSUME endpoint = "responses", NEW e, NEW st, NEW pp \in Seq(PieceSet), Assembles(st, pp),
         AccOK(e, [st |-> st, ev |-> <<>>]), NEW chunk \in Chunks
  PROVE  ChunkApplied(e, pp, chunk, ApplyChunk(st, chunk))
<1> DEFINE q == Pieces(chunk)
           N == Len(q)
           upto(i) == SubSeq(q, 1, i)
<1>1. q \in Seq(PieceSet) /\ Joined(PieceWords, q) = Text0(chunk) /\ Text0(chunk) \in Seq(STRING)
  BY PiecesType
<1>2. PICK f : /\ f[0] = [st |-> st, ev |-> <<>>]
               /\ \A i \in 1..N : f[i] = ApplyPiece(f[i - 1], q[i])
               /\ ApplyChunk(st, chunk) = f[N]
  BY ApplyUnfolds
<1> HIDE DEF q
<1>3. N \in Nat /\ \A i \in 1..N : q[i] \in PieceSet
  BY <1>1
<1> DEFINE Good == {i \in 0..N : /\ AccOK(e, f[i]) /\ Assembles(f[i].st, pp \o upto(i))
                                 /\ TextIn(f[i].ev) = Joined(PieceWords, upto(i))}
<1>4. 0 \in Good
  <2>1. upto(0) = <<>> /\ pp \o <<>> = pp /\ 0 \in 0..N
    BY <1>1, <1>3
  <2>2. TextIn(<<>>) = Joined(PieceWords, <<>>)
    <3>1. <<>> \in Seq(EventSet)
      OBVIOUS
    <3>2. QED BY <3>1, TextInJoined, JoinedEmpty
  <2> HIDE DEF N
  <2>3. f[0].st = st /\ f[0].ev = <<>>
    BY <1>2
  <2> HIDE DEF upto
  <2>4. QED BY <1>2, <2>1, <2>2, <2>3
<1>5. \A i \in 1..N : i - 1 \in Good => i \in Good
  <2> SUFFICES ASSUME NEW i \in 1..N, i - 1 \in Good PROVE i \in Good
    OBVIOUS
  <2> DEFINE old == upto(i - 1)
  <2>1. AccOK(e, f[i - 1]) /\ Assembles(f[i - 1].st, pp \o old)
        /\ TextIn(f[i - 1].ev) = Joined(PieceWords, old)
    OBVIOUS
  <2>2. q[i] \in PieceSet /\ i \in 0..N
    BY <1>3
  <2>3. old \in Seq(PieceSet) /\ upto(i) = Append(old, q[i])
    <3>1. i \in 1..Len(q)
      OBVIOUS
    <3>2. OneMore(q, i)
      BY ONLY <1>1, <3>1, TakeOne
    <3>3. upto(i) = Append(old, q[i])
      BY <3>2 DEF OneMore
    <3>4. old \in Seq(PieceSet)
      BY <1>1, <1>3
    <3>5. QED BY <3>3, <3>4
  <2> DEFINE new == f[i]
  <2>4. Steps(e, f[i - 1], q[i], new)
    <3>1. new = ApplyPiece(f[i - 1], q[i])
      BY <1>2
    <3> HIDE DEF Good, new, N, old, upto
    <3>2. QED BY <2>1, <2>2, <3>1, ApplyPieceOK
  <2> HIDE DEF N, old, upto
  <2>5. pp \o upto(i) = Append(pp \o old, q[i]) /\ pp \o old \in Seq(PieceSet)
    BY ONLY <2>2, <2>3, pp \in Seq(PieceSet)
  <2>6. Assembles(new.st, Append(pp \o old, q[i]))
    BY <2>1, <2>2, <2>4, <2>5, AssemblesStep DEF Steps
  <2>7. Joined(PieceWords, upto(i)) = Joined(PieceWords, old) \o PieceWords[q[i]]
    BY <2>2, <2>3, PieceWordsType, JoinedAppend
  <2>8. AccOK(e, new) /\ TextIn(new.ev) = Joined(PieceWords, upto(i))
    BY <2>1, <2>4, <2>7 DEF Steps
  <2>9. QED BY <2>2, <2>5, <2>6, <2>8
<1>6. N \in Good
  <2> HIDE DEF Good, N
  <2>1. \A i \in 0..N : i \in Good
    BY <1>3, <1>4, <1>5, Climb
  <2>2. QED BY <1>3, <2>1
<1>7. upto(N) = q
  BY <1>1
<1>8. pp \o q \in Seq(PieceSet)
  BY <1>1
<1>9. QED BY <1>1, <1>2, <1>6, <1>7, <1>8 DEF ChunkApplied, q

-----------------------------------------------------------------------------
(* The end of a response *)

ClosingTypes == {"text_done", "part_done", "args_done", "item_done"}

\* Closing events of a response with n items, of which those in C are closed.
Ending(x, n, C) ==
    /\ x \in Seq(EventSet)
    /\ \A i \in 1..Len(x) : x[i].type \in ClosingTypes /\ x[i].out \in 0..(n - 1)
    /\ \A i, j \in 1..Len(x) : x[j].type = "item_done" /\ x[j].out = x[i].out => i <= j
    /\ C = {x[i].out : i \in {j \in 1..Len(x) : x[j].type = "item_done"}}

\* One closing event more.
LEMMA EndingGrows ==
  ASSUME NEW x, NEW n \in Nat, NEW C, Ending(x, n, C), NEW y \in EventSet, y.type \in ClosingTypes,
         y.out \in 0..(n - 1), y.out \notin C
  PROVE  Ending(Append(x, y), n, IF y.type = "item_done" THEN C \cup {y.out} ELSE C)
<1> DEFINE N == Len(x)
           z == Append(x, y)
           D == IF y.type = "item_done" THEN C \cup {y.out} ELSE C
<1>1. /\ N \in Nat /\ z \in Seq(EventSet) /\ Len(z) = N + 1
      /\ \A i \in 1..N : z[i] = x[i]
      /\ z[N + 1] = y /\ N + 1 \in 1..(N + 1)
      /\ \A i \in 1..(N + 1) : i \in 1..N \/ i = N + 1
      /\ 1..N \subseteq 1..(N + 1)
  BY DEF Ending
<1>2. /\ \A i \in 1..N : x[i].type \in ClosingTypes /\ x[i].out \in 0..(n - 1)
      /\ \A i, j \in 1..N : x[j].type = "item_done" /\ x[j].out = x[i].out => i <= j
      /\ C = {x[i].out : i \in {j \in 1..N : x[j].type = "item_done"}}
  BY DEF Ending
<1> HIDE DEF N, z
<1>3. \A i \in 1..(N + 1) : z[i].type \in ClosingTypes /\ z[i].out \in 0..(n - 1)
  <2> HIDE DEF ClosingTypes
  <2>1. QED BY <1>1, <1>2
<1>4. ASSUME NEW i \in 1..(N + 1), NEW j \in 1..(N + 1), z[j].type = "item_done", z[j].out = z[i].out
      PROVE  i <= j
  <2>1. CASE i \in 1..N /\ j \in 1..N
    BY <1>1, <1>2, <1>4, <2>1
  <2>2. CASE j = N + 1
    BY <1>1, <2>2
  <2>3. CASE i = N + 1 /\ j \in 1..N
    <3>1. x[j].type = "item_done" /\ x[j].out = y.out
      BY <1>1, <1>4, <2>3
    <3>2. y.out \in C
      BY <1>2, <2>3, <3>1
    <3>3. QED BY <3>2
  <2>4. QED BY <1>1, <2>1, <2>2, <2>3
<1>5. D = {z[i].out : i \in {j \in 1..(N + 1) : z[j].type = "item_done"}}
  <2> DEFINE E == {z[i].out : i \in {j \in 1..(N + 1) : z[j].type = "item_done"}}
  <2>1. \A o \in C : o \in E
    <3> TAKE o \in C
    <3>1. PICK i \in 1..N : x[i].type = "item_done" /\ o = x[i].out
      BY <1>2
    <3>2. i \in 1..(N + 1) /\ z[i].type = "item_done" /\ o = z[i].out
      BY <1>1, <3>1
    <3>3. QED BY <3>2
  <2>2. y.type = "item_done" => y.out \in E
    BY <1>1
  <2>3. \A o \in E : o \in D
    <3> TAKE o \in E
    <3>1. PICK i \in 1..(N + 1) : z[i].type = "item_done" /\ o = z[i].out
      OBVIOUS
    <3>2. CASE i \in 1..N
      BY <1>1, <1>2, <3>1, <3>2
    <3>3. CASE i = N + 1
      BY <1>1, <3>1, <3>3
    <3>4. QED BY <1>1, <3>2, <3>3
  <2>4. \A o \in D : o \in E
    BY <2>1, <2>2
  <2> HIDE DEF D, E
  <2>5. D = E
    BY <2>3, <2>4
  <2>6. QED BY <2>5 DEF E
<1> HIDE DEF D
<1>6. Ending(z, n, D)
  BY <1>1, <1>3, <1>4, <1>5 DEF Ending
<1>7. QED BY <1>6 DEF z, D

\* Events that close an item, and one that closes a response.
LEMMA ClosingEvent ==
  ASSUME NEW type \in ClosingTypes, NEW out \in Nat, NEW data \in Seq(STRING) \cup {None},
         NEW x, x = Event(type, out, data)
  PROVE  x \in EventSet /\ x.type = type /\ x.out = out
<1>1. out \in Outs /\ data \in DataSet /\ type \in Types /\ type # "chunk" /\ type # "delta"
  BY DataTypes DEF Types, ClosingTypes, Outs
<1>2. QED BY <1>1, EventFields

\* Two closing events more, the second of which closes the item.
LEMMA EndingCloses ==
  ASSUME NEW x, NEW n \in Nat, NEW C, Ending(x, n, C), NEW o \in 0..(n - 1), o \notin C,
         NEW y \in EventSet, y.type \in ClosingTypes, y.type # "item_done", y.out = o,
         NEW z \in EventSet, z.type = "item_done", z.out = o,
         NEW w, w = x \o <<y, z>>
  PROVE  Ending(w, n, C \cup {o})
<1>1. Ending(Append(x, y), n, C)
  BY EndingGrows
<1>2. z.type \in ClosingTypes
  BY DEF ClosingTypes
<1>3. Ending(Append(Append(x, y), z), n, C \cup {o})
  BY <1>1, <1>2, EndingGrows
<1>4. w = Append(Append(x, y), z)
  <2>1. x \in Seq(EventSet)
    BY DEF Ending
  <2>2. QED BY ONLY <2>1, y \in EventSet, z \in EventSet, w = x \o <<y, z>>
<1>5. QED BY <1>3, <1>4

TextClosing(st) ==
    IF st.text = None THEN <<>>
    ELSE <<Event("text_done", st.text.out, st.text.text), Event("part_done", st.text.out, None),
           Event("item_done", st.text.out, None)>>
TextOut(st) == IF st.text = None THEN {} ELSE {st.text.out}
CloseTool(tool) == <<Event("args_done", tool.out, tool.args), Event("item_done", tool.out, None)>>
ToolsClosing(st) ==
    LET keys == InOrder(DOMAIN st.tools)
    IN  FlattenSeq([i \in DOMAIN keys |-> CloseTool(st.tools[keys[i]])])

\* The text is closed first.
LEMMA TextCloses ==
  ASSUME NEW st, StateOK(st)
  PROVE  Ending(TextClosing(st), st.next, TextOut(st))
<1>1. st \in States /\ ItemsOK(st) /\ st.next \in Nat
  BY StateFields DEF StateOK
<1>2. Ending(<<>>, st.next, {})
  <2>1. <<>> \in Seq(EventSet) /\ Len(<<>>) = 0
    OBVIOUS
  <2>2. QED BY <2>1 DEF Ending
<1>3. CASE st.text = None
  BY <1>2, <1>3 DEF TextClosing, TextOut
<1>4. CASE st.text # None
  <2> DEFINE o == st.text.out
             x == Event("text_done", o, st.text.text)
             y == Event("part_done", o, None)
             z == Event("item_done", o, None)
  <2>1. o \in Nat /\ o \in 0..(st.next - 1) /\ st.text.text \in Seq(STRING)
    BY <1>1, <1>4, StateFields DEF ItemsOK
  <2>2. x \in EventSet /\ x.type = "text_done" /\ x.out = o
    <3>1. "text_done" \in ClosingTypes /\ st.text.text \in Seq(STRING) \cup {None}
      BY <2>1 DEF ClosingTypes
    <3> HIDE DEF ClosingTypes
    <3>2. QED BY <2>1, <3>1, ClosingEvent
  <2>3. y \in EventSet /\ y.type = "part_done" /\ y.out = o
    <3>1. "part_done" \in ClosingTypes /\ None \in Seq(STRING) \cup {None}
      BY DEF ClosingTypes
    <3>2. QED BY <2>1, <3>1, ClosingEvent
  <2>4. z \in EventSet /\ z.type = "item_done" /\ z.out = o
    <3>1. "item_done" \in ClosingTypes /\ None \in Seq(STRING) \cup {None}
      BY DEF ClosingTypes
    <3>2. QED BY <2>1, <3>1, ClosingEvent
  <2>5. TextClosing(st) = <<x, y, z>> /\ TextOut(st) = {o}
    BY <1>4 DEF TextClosing, TextOut
  <2> HIDE DEF x, y, z, o
  <2>6. Ending(Append(<<>>, x), st.next, {})
    BY <1>1, <1>2, <2>1, <2>2, EndingGrows DEF ClosingTypes
  <2>7. <<x, y, z>> = Append(<<>>, x) \o <<y, z>>
    BY <2>2, <2>3, <2>4
  <2>8. y.type \in ClosingTypes
    BY <2>3 DEF ClosingTypes
  <2>9. Ending(<<x, y, z>>, st.next, {} \cup {o})
    BY <1>1, <2>1, <2>3, <2>4, <2>6, <2>7, <2>8, EndingCloses
  <2>10. QED BY <2>5, <2>9
<1>5. QED BY <1>3, <1>4

\* Then the tool calls, each under its own output index.
LEMMA ToolsClose ==
  ASSUME NEW st, StateOK(st)
  PROVE  Ending(TextClosing(st) \o ToolsClosing(st), st.next, 0..(st.next - 1))
<1> DEFINE keys == InOrder(DOMAIN st.tools)
           N == Len(keys)
           tool(i) == st.tools[keys[i]]
           close(i) == CloseTool(tool(i))
           list(n) == [i \in 1..n |-> close(i)]
           x(n) == TextClosing(st) \o FlattenSeq(list(n))
           C(n) == TextOut(st) \cup {tool(i).out : i \in 1..n}
           Good == {n \in 0..N : Ending(x(n), st.next, C(n))}
<1>1. st \in States /\ ItemsOK(st) /\ st.next \in Nat
  BY StateFields DEF StateOK
<1>2. /\ keys \in Seq(DOMAIN st.tools) /\ N \in Nat /\ DOMAIN keys = 1..N
      /\ \A i \in 1..N : keys[i] \in DOMAIN st.tools
      /\ \A i, j \in 1..N : keys[i] = keys[j] => i = j
      /\ \A k \in DOMAIN st.tools : \E i \in 1..N : keys[i] = k
  <2>1. PICK M \in Nat : DOMAIN st.tools \subseteq 0..M
    BY <1>1 DEF ItemsOK
  <2>2. /\ keys \in Seq(DOMAIN st.tools) /\ N \in Nat
        /\ \A i, j \in 1..N : keys[i] = keys[j] => i = j
        /\ \A k \in DOMAIN st.tools : \E i \in 1..N : keys[i] = k
    BY <2>1, InOrderLists
  <2> HIDE DEF keys
  <2>3. DOMAIN keys = 1..N /\ \A i \in 1..N : keys[i] \in DOMAIN st.tools
    BY <2>2
  <2>4. QED BY <2>2, <2>3
<1> HIDE DEF keys, N
<1>3. \A i \in 1..N : /\ tool(i).out \in 0..(st.next - 1) /\ tool(i).args \in Seq(STRING)
                      /\ tool(i).out \in Nat /\ tool(i).out \notin TextOut(st)
                      /\ \A j \in 1..N : tool(i).out = tool(j).out => i = j
  <2>1. \A k \in DOMAIN st.tools :
          /\ st.tools[k].out \in 0..(st.next - 1) /\ st.tools[k].args \in Seq(STRING)
          /\ st.tools[k].out \in Nat /\ st.tools[k].out \notin TextOut(st)
    BY <1>1, StateFields DEF ItemsOK, TextOut
  <2>2. \A k, l \in DOMAIN st.tools : st.tools[k].out = st.tools[l].out => k = l
    BY <1>1 DEF ItemsOK
  <2>3. QED BY <1>2, <2>1, <2>2
<1>4. ASSUME NEW i \in 1..N
      PROVE  \E y, z \in EventSet :
               /\ close(i) = <<y, z>> /\ y.type = "args_done" /\ z.type = "item_done"
               /\ y.out = tool(i).out /\ z.out = tool(i).out
  <2> DEFINE y == Event("args_done", tool(i).out, tool(i).args)
             z == Event("item_done", tool(i).out, None)
  <2>1. close(i) = <<y, z>>
    BY DEF CloseTool
  <2>2. tool(i).out \in Nat /\ tool(i).args \in Seq(STRING) \cup {None} /\ None \in Seq(STRING) \cup {None}
    BY <1>3
  <2>3. "args_done" \in ClosingTypes /\ "item_done" \in ClosingTypes
    BY DEF ClosingTypes
  <2> HIDE DEF tool
  <2>4. y \in EventSet /\ y.type = "args_done" /\ y.out = tool(i).out
    BY <2>2, <2>3, ClosingEvent
  <2>5. z \in EventSet /\ z.type = "item_done" /\ z.out = tool(i).out
    BY <2>2, <2>3, ClosingEvent
  <2> HIDE DEF y, z, close
  <2>6. QED BY <2>1, <2>4, <2>5
<1>5. \A i \in 1..N : close(i) \in Seq(EventSet)
  <2> TAKE i \in 1..N
  <2>1. PICK y \in EventSet, z \in EventSet : close(i) = <<y, z>>
    BY <1>4
  <2>2. QED BY <2>1
<1> HIDE DEF close
<1>6. \A n \in 0..N : list(n) \in Seq(Seq(EventSet))
  <2> TAKE n \in 0..N
  <2>1. \A i \in 1..n : i \in 1..N
    BY <1>2
  <2>2. list(n) \in [1..n -> Seq(EventSet)]
    BY <1>5, <2>1
  <2> HIDE DEF list
  <2>3. QED BY <1>2, <2>2
<1>7. Ending(TextClosing(st), st.next, TextOut(st)) /\ TextClosing(st) \in Seq(EventSet)
  BY TextCloses DEF Ending
<1>8. 0 \in Good
  <2>1. list(0) = <<>>
    OBVIOUS
  <2>2. x(0) = TextClosing(st)
    BY <1>7, <2>1, FlattenEmpty
  <2>3. C(0) = TextOut(st)
    OBVIOUS
  <2> HIDE DEF x, C
  <2>4. QED BY <1>2, <1>7, <2>2, <2>3
<1>9. \A n \in 1..N : n - 1 \in Good => n \in Good
  <2> SUFFICES ASSUME NEW n \in 1..N, n - 1 \in Good PROVE n \in Good
    OBVIOUS
  <2> DEFINE o == tool(n).out
             before == FlattenSeq(list(n - 1))
  <2>1. Ending(x(n - 1), st.next, C(n - 1)) /\ n - 1 \in 0..N /\ n \in 0..N
    BY <1>2
  <2>2. before \in Seq(EventSet) /\ FlattenSeq(list(n)) = before \o close(n)
    <3>1. list(n) = Append(list(n - 1), close(n))
      BY <1>2
    <3>2. list(n - 1) \in Seq(Seq(EventSet)) /\ close(n) \in Seq(EventSet)
      BY <1>5, <1>6, <2>1
    <3> HIDE DEF list
    <3>3. QED BY <3>1, <3>2, FlattenAppend
  <2>3. PICK y \in EventSet, z \in EventSet :
          /\ close(n) = <<y, z>> /\ y.type = "args_done" /\ z.type = "item_done"
          /\ y.out = o /\ z.out = o
    BY <1>4
  <2>4. x(n) = x(n - 1) \o <<y, z>>
    <3> HIDE DEF before, list
    <3>1. TextClosing(st) \o (before \o <<y, z>>) = (TextClosing(st) \o before) \o <<y, z>>
      BY <1>7, <2>2
    <3>2. QED BY <2>2, <2>3, <3>1 DEF before
  <2>5. o \in 0..(st.next - 1) /\ o \notin C(n - 1)
    <3>1. o \notin TextOut(st) /\ o \in 0..(st.next - 1) /\ \A j \in 1..N : o = tool(j).out => n = j
      BY <1>3
    <3>2. \A i \in 1..(n - 1) : i \in 1..N /\ i # n
      BY <1>2
    <3>3. QED BY <3>1, <3>2
  <2>6. C(n) = C(n - 1) \cup {o}
    <3>1. \A i \in 1..n : i \in 1..(n - 1) \/ i = n
      BY <1>2
    <3>2. 1..(n - 1) \subseteq 1..n /\ n \in 1..n
      BY <1>2
    <3> HIDE DEF tool
    <3>3. QED BY <3>1, <3>2
  <2>7. y.type \in ClosingTypes /\ y.type # "item_done"
    BY <2>3 DEF ClosingTypes
  <2> DEFINE x0 == x(n - 1)
             C0 == C(n - 1)
  <2>8. Ending(x0, st.next, C0) /\ x(n) = x0 \o <<y, z>> /\ C(n) = C0 \cup {o} /\ o \notin C0
    BY <2>1, <2>4, <2>5, <2>6
  <2> HIDE DEF x, C, o, x0, C0
  <2>9. Ending(x(n), st.next, C0 \cup {o})
    BY <1>1, <2>3, <2>5, <2>7, <2>8, EndingCloses
  <2>10. QED BY <2>1, <2>8, <2>9
<1>10. N \in Good
  <2> HIDE DEF Good
  <2>1. N \in Nat
    BY <1>2
  <2>2. \A k \in 0..N : k \in Good
    BY ONLY <1>8, <1>9, <2>1, Climb
  <2>3. QED BY <2>1, <2>2
<1>11. C(N) = 0..(st.next - 1)
  <2>1. C(N) \subseteq 0..(st.next - 1)
    <3>1. TextOut(st) \subseteq 0..(st.next - 1)
      BY <1>1, StateFields DEF TextOut, ItemsOK
    <3>2. QED BY <1>3, <3>1
  <2>2. ASSUME NEW o \in 0..(st.next - 1) PROVE o \in C(N)
    <3>1. CASE st.text # None /\ st.text.out = o
      BY <3>1 DEF TextOut
    <3>2. CASE \E k \in DOMAIN st.tools : st.tools[k].out = o
      BY <1>2, <3>2
    <3>3. QED BY <1>1, <3>1, <3>2 DEF ItemsOK
  <2> HIDE DEF C
  <2>3. QED BY <2>1, <2>2
<1>12. FlattenSeq(list(N)) = ToolsClosing(st)
  BY <1>2 DEF ToolsClosing, close, keys
<1>13. Ending(x(N), st.next, C(N))
  BY <1>10
<1> HIDE DEF C, list
<1>14. QED BY <1>11, <1>12, <1>13

\* Events, numbered.
Numbers(x, from, y) ==
    /\ y \in Seq(EventSet) /\ Len(y) = Len(x)
    /\ \A i \in 1..Len(x) : /\ y[i].type = x[i].type /\ y[i].out = x[i].out /\ y[i].data = x[i].data
                            /\ y[i].seq = from + i - 1

\* Nothing but their number changes.
LEMMA NumberedOK ==
  ASSUME NEW x \in Seq(EventSet), NEW from \in Nat
  PROVE  Numbers(x, from, Numbered(x, from))
<1> DEFINE y == Numbered(x, from)
           n(i) == from + i - 1
<1>1. DOMAIN x = 1..Len(x) /\ Len(x) \in Nat /\ \A i \in 1..Len(x) : x[i] \in EventSet
  OBVIOUS
<1>2. DOMAIN y = 1..Len(x) /\ \A i \in 1..Len(x) : y[i] = [x[i] EXCEPT !.seq = n(i)]
  BY <1>1 DEF Numbered
<1>3. ASSUME NEW i \in 1..Len(x)
      PROVE  /\ y[i] \in EventSet /\ y[i].type = x[i].type /\ y[i].out = x[i].out
             /\ y[i].data = x[i].data /\ y[i].seq = n(i)
  <2> DEFINE event == x[i]
             number == n(i)
             z == [event EXCEPT !.seq = number]
  <2>1. event \in AnyEvents /\ number \in Nat
        /\ (event.type = "delta" => event.data \in Seq(STRING))
        /\ (event.type = "chunk" => event.data \in Chunks)
    BY <1>1 DEF EventSet
  <2>2. y[i] = z
    BY <1>2
  <2> HIDE DEF event, number, y
  <2>3. /\ z \in AnyEvents /\ z.seq = number /\ z.type = event.type /\ z.out = event.out
        /\ z.data = event.data
    <3> HIDE DEF DataSet, Outs
    <3>1. QED BY <2>1 DEF AnyEvents
  <2> HIDE DEF z
  <2>4. z \in EventSet
    BY <2>1, <2>3 DEF EventSet
  <2>5. QED BY <2>2, <2>3, <2>4 DEF event, number
<1> HIDE DEF y
<1>4. y \in Seq(EventSet) /\ Len(y) = Len(x)
  <2>1. y = [i \in 1..Len(x) |-> y[i]]
    <3>1. y = [i \in DOMAIN x |-> y[i]]
      BY DEF y, Numbered
    <3>2. QED BY <1>1, <3>1
  <2>2. y \in [1..Len(x) -> EventSet]
    BY <1>3, <2>1
  <2>3. QED BY <1>1, <2>2
<1>5. QED BY <1>3, <1>4 DEF Numbers, y

\* The output of a response.
OutputOf(st) == [i \in 1..st.next |-> OutputItem(st, i - 1)]

\* Every item of the output is the text or a call, whichever has its index.
LEMMA OutputItemIs ==
  ASSUME NEW st, StateOK(st), NEW o \in 0..(st.next - 1)
  PROVE  \/ st.text # None /\ st.text.out = o /\ OutputItem(st, o) = MessageItem(st.text.text)
         \/ \E k \in DOMAIN st.tools :
               /\ st.tools[k].out = o
               /\ OutputItem(st, o)
                     = CallItem(Call(st.tools[k].id, st.tools[k].name, st.tools[k].args))
<1>1. CASE st.text # None /\ st.text.out = o
  BY <1>1 DEF OutputItem
<1>2. CASE ~(st.text # None /\ st.text.out = o)
  <2> DEFINE k == CHOOSE k \in DOMAIN st.tools : st.tools[k].out = o
  <2>1. \E l \in DOMAIN st.tools : st.tools[l].out = o
    BY <1>2 DEF StateOK, ItemsOK
  <2>2. k \in DOMAIN st.tools /\ st.tools[k].out = o
    BY <2>1
  <2>3. OutputItem(st, o) = CallItem(Call(st.tools[k].id, st.tools[k].name, st.tools[k].args))
    BY <1>2 DEF OutputItem
  <2> HIDE DEF k
  <2>4. QED BY <2>2, <2>3
<1>3. QED BY <1>1, <1>2

\* The items of an output.
LEMMA ItemTypes ==
  /\ \A text \in Seq(STRING) : MessageItem(text) \in OutputItems
  /\ \A id, name \in STRING, args \in Seq(STRING) : CallItem(Call(id, name, args)) \in OutputItems
<1>1. \A text \in Seq(STRING) : MessageItem(text) \in OutputItems
  BY DEF MessageItem, OutputItems
<1>2. ASSUME NEW id \in STRING, NEW name \in STRING, NEW args \in Seq(STRING)
      PROVE  CallItem(Call(id, name, args)) \in OutputItems
  <2> DEFINE c == Call(id, name, args)
  <2>1. c \in Calls
    BY DEF Call, Calls
  <2>2. CallItem(c) = [type |-> "function_call", call |-> c]
    BY DEF CallItem
  <2> HIDE DEF c
  <2>3. CallItem(c) \in OutputItems
    BY <2>1, <2>2 DEF OutputItems
  <2>4. QED BY <2>3 DEF c
<1>3. QED BY <1>1, <1>2

\* They are a list of such items.
LEMMA OutputType ==
  ASSUME NEW st, StateOK(st)
  PROVE  OutputOf(st) \in Seq(OutputItems) /\ Len(OutputOf(st)) = st.next
<1>1. st \in States /\ st.next \in Nat
  BY StateFields DEF StateOK
<1>2. ASSUME NEW o \in 0..(st.next - 1) PROVE OutputItem(st, o) \in OutputItems
  <2>1. CASE st.text # None /\ st.text.out = o /\ OutputItem(st, o) = MessageItem(st.text.text)
    BY <1>1, <2>1, StateFields, ItemTypes
  <2>2. CASE \E k \in DOMAIN st.tools :
               /\ st.tools[k].out = o
               /\ OutputItem(st, o)
                     = CallItem(Call(st.tools[k].id, st.tools[k].name, st.tools[k].args))
    BY <1>1, <2>2, StateFields, ItemTypes
  <2>3. QED BY <2>1, <2>2, OutputItemIs
<1>3. \A i \in 1..st.next : i - 1 \in 0..(st.next - 1)
  BY <1>1
<1>4. OutputOf(st) \in [1..st.next -> OutputItems]
  BY <1>2, <1>3 DEF OutputOf
<1>5. QED BY <1>1, <1>4

Completed(st) == Event("completed", None, OutputOf(st))

\* The event that completes a response.
LEMMA CompletedEvent ==
  ASSUME NEW st, StateOK(st)
  PROVE  /\ Completed(st) \in EventSet /\ Completed(st).type = "completed"
         /\ Completed(st).out = None /\ Completed(st).data = OutputOf(st)
<1>1. OutputOf(st) \in DataSet /\ None \in Outs /\ "completed" \in Types
  BY OutputType, DataTypes DEF Outs, Types
<1>2. QED BY <1>1, EventFields DEF Completed

\* One that tells of an error.
LEMMA ErrorFields ==
  /\ ErrorEvent \in EventSet /\ ErrorEvent.type = "error" /\ ErrorEvent.out = None
  /\ ErrorEvent.seq = None /\ SaidBy(ErrorEvent) = <<>>
<1>1. None \in DataSet /\ None \in Outs /\ "error" \in Types
  BY DataTypes DEF Outs, Types
<1>2. /\ ErrorEvent \in EventSet /\ ErrorEvent.type = "error" /\ ErrorEvent.out = None
      /\ ErrorEvent.data = None
  BY <1>1, EventFields DEF ErrorEvent
<1>3. ErrorEvent.seq = None
  BY DEF ErrorEvent, Event
<1>4. QED BY <1>2, <1>3 DEF SaidBy

\* The events that end a response.
LEMMA FinishIs ==
  ASSUME NEW st
  PROVE  FinishEvents(st) = (TextClosing(st) \o ToolsClosing(st)) \o <<Completed(st)>>
BY DEF FinishEvents, TextClosing, ToolsClosing, CloseTool, Completed, OutputOf

-----------------------------------------------------------------------------
(* The grammar of a response *)

\* Where an event stands among the others.
PlacedOK(e, i) ==
    /\ e[i].type # "error" => e[i].seq = i - 1
    /\ e[i].type \in {"error", "completed"} => i = Len(e)
    /\ e[i].type = "added" => e[i].out = Opened(e, i - 1)
    /\ e[i].out # None =>
          /\ \E j \in DOMAIN e : e[j].type = "added" /\ e[j].out = e[i].out /\ j <= i
          /\ \A j \in DOMAIN e : e[j].type = "item_done" /\ e[j].out = e[i].out => i <= j
    /\ e[i].type = "completed" =>
          \A k \in DOMAIN e : e[k].type = "added" =>
             \E j \in DOMAIN e : e[j].type = "item_done" /\ e[j].out = e[k].out
GrammarOf(e) == \A i \in DOMAIN e : PlacedOK(e, i)

\* That is the grammar of what was produced.
LEMMA GrammarIs ==
  Grammar <=> (endpoint = "responses" /\ stream /\ phase # "gone" => GrammarOf(Produced))
<1> DEFINE e == Produced
           opens(o) == {i \in DOMAIN e : e[i].type = "added" /\ e[i].out = o}
           ends(o)  == {i \in DOMAIN e : e[i].type = "item_done" /\ e[i].out = o}
           outs == {e[i].out : i \in {j \in DOMAIN e : e[j].type = "added"}}
           Placed(i) ==
               /\ e[i].type # "error" => e[i].seq = i - 1
               /\ e[i].type \in {"error", "completed"} => i = Len(e)
               /\ e[i].type = "added" => e[i].out = Cardinality({j \in 1..(i - 1) : e[j].type = "added"})
               /\ e[i].out # None =>
                      /\ \E j \in opens(e[i].out) : j <= i
                      /\ \A j \in ends(e[i].out) : i <= j
               /\ e[i].type = "completed" => \A o \in outs : ends(o) # {}
<1>1. Grammar <=> (endpoint = "responses" /\ stream /\ phase # "gone" => \A i \in DOMAIN e : Placed(i))
  BY DEF Grammar
<1>2. ASSUME NEW i \in DOMAIN e PROVE Placed(i) <=> PlacedOK(e, i)
  <2> HIDE DEF e
  <2>1. (\E j \in opens(e[i].out) : j <= i)
          <=> \E j \in DOMAIN e : e[j].type = "added" /\ e[j].out = e[i].out /\ j <= i
    OBVIOUS
  <2>2. (\A j \in ends(e[i].out) : i <= j)
          <=> \A j \in DOMAIN e : e[j].type = "item_done" /\ e[j].out = e[i].out => i <= j
    OBVIOUS
  <2>3. (\A o \in outs : ends(o) # {})
          <=> \A k \in DOMAIN e : e[k].type = "added" =>
                 \E j \in DOMAIN e : e[j].type = "item_done" /\ e[j].out = e[k].out
    <3>1. \A o : ends(o) # {} <=> \E j \in DOMAIN e : e[j].type = "item_done" /\ e[j].out = o
      OBVIOUS
    <3> HIDE DEF ends
    <3>2. QED BY <3>1
  <2> HIDE DEF opens, ends, outs
  <2>4. QED BY <2>1, <2>2, <2>3 DEF PlacedOK, Opened
<1> HIDE DEF Placed
<1>3. QED BY <1>1, <1>2 DEF GrammarOf, e

\* What a prefix that is still open says of its events.
LEMMA OpenSays ==
  ASSUME NEW e, NEW n \in Nat, Open(e, n)
  PROVE  /\ Len(e) \in Nat /\ DOMAIN e = 1..Len(e) /\ e \in Seq(EventSet)
         /\ \A i \in 1..Len(e) :
               /\ e[i].seq = i - 1
               /\ e[i].type \notin {"error", "completed", "item_done"}
               /\ e[i].type = "added" => e[i].out = Opened(e, i - 1) /\ e[i].out \in 0..(n - 1)
               /\ e[i].out # None => \E j \in 1..i : e[j].type = "added" /\ e[j].out = e[i].out
         /\ \A o \in 0..(n - 1) : \E j \in 1..Len(e) : e[j].type = "added" /\ e[j].out = o
<1>1. Len(e) \in Nat /\ DOMAIN e = 1..Len(e) /\ e \in Seq(EventSet)
  BY DEF Open
<1>2. QED BY <1>1 DEF Open

\* A response that is still open is in the grammar.
LEMMA OpenInGrammar ==
  ASSUME NEW e, NEW n \in Nat, Open(e, n)
  PROVE  GrammarOf(e)
<1>1. SUFFICES ASSUME NEW i \in DOMAIN e PROVE PlacedOK(e, i)
  BY DEF GrammarOf
<1>2. /\ Len(e) \in Nat /\ DOMAIN e = 1..Len(e) /\ e \in Seq(EventSet)
      /\ e[i].seq = i - 1
      /\ e[i].type \notin {"error", "completed", "item_done"}
      /\ e[i].type = "added" => e[i].out = Opened(e, i - 1)
      /\ e[i].out # None => \E j \in 1..i : e[j].type = "added" /\ e[j].out = e[i].out
      /\ \A j \in 1..Len(e) : e[j].type # "item_done"
  BY OpenSays
<1>3. \A j \in 1..i : j \in DOMAIN e /\ j <= i
  BY <1>2
<1>4. QED BY <1>2, <1>3 DEF PlacedOK

\* So is an open response after which more is said: the open part stays well placed.
LEMMA PrefixPlaced ==
  ASSUME NEW e, NEW n \in Nat, Open(e, n), NEW g, NEW M \in Nat, DOMAIN g = 1..M, Len(e) <= M,
         \A i \in 1..Len(e) : g[i] = e[i], NEW i \in 1..Len(e)
  PROVE  PlacedOK(g, i)
<1>1. /\ Len(e) \in Nat /\ DOMAIN e = 1..Len(e)
      /\ e[i].seq = i - 1
      /\ e[i].type \notin {"error", "completed", "item_done"}
      /\ e[i].type = "added" => e[i].out = Opened(e, i - 1)
      /\ e[i].out # None => \E j \in 1..i : e[j].type = "added" /\ e[j].out = e[i].out
      /\ \A j \in 1..Len(e) : e[j].type # "item_done"
  BY OpenSays
<1>2. \A j \in 1..i : j \in 1..M /\ j <= i /\ j \in 1..Len(e)
  BY <1>1
<1>3. Opened(g, i - 1) = Opened(e, i - 1)
  <2>1. i - 1 \in Nat /\ \A j \in 1..(i - 1) : g[j] = e[j]
    BY <1>1
  <2>2. QED BY <2>1, OpenedPrefix
<1>4. e[i].out # None => \E j \in 1..M : g[j].type = "added" /\ g[j].out = g[i].out /\ j <= i
  <2> HAVE e[i].out # None
  <2>1. PICK j \in 1..i : e[j].type = "added" /\ e[j].out = e[i].out
    BY <1>1
  <2>2. j \in 1..M /\ j <= i /\ g[j] = e[j]
    BY <1>2
  <2>3. QED BY <2>1, <2>2
<1>5. \A j \in 1..M : g[j].type = "item_done" => i <= j
  BY <1>1
<1>6. QED BY <1>1, <1>3, <1>4, <1>5 DEF PlacedOK

\* An error may follow at any time.
LEMMA ErrorInGrammar ==
  ASSUME NEW e, NEW n \in Nat, Open(e, n)
  PROVE  GrammarOf(Append(e, ErrorEvent))
<1> DEFINE g == Append(e, ErrorEvent)
           N == Len(e)
<1>1. /\ N \in Nat /\ g \in Seq(EventSet) /\ Len(g) = N + 1 /\ DOMAIN g = 1..(N + 1)
      /\ \A i \in 1..N : g[i] = e[i]
      /\ g[N + 1] = ErrorEvent
  BY OpenSays, ErrorFields
<1> HIDE DEF g, ErrorEvent
<1>2. \A i \in 1..N : PlacedOK(g, i)
  <2>1. N <= N + 1 /\ N + 1 \in Nat
    BY <1>1
  <2>2. QED BY <1>1, <2>1, PrefixPlaced
<1>3. PlacedOK(g, N + 1)
  BY <1>1, ErrorFields DEF PlacedOK
<1>4. \A i \in DOMAIN g : i \in 1..N \/ i = N + 1
  BY <1>1
<1>5. QED BY <1>2, <1>3, <1>4 DEF GrammarOf, g

\* So may the closing events of every item and the one that completes it all.
LEMMA ClosedInGrammar ==
  ASSUME NEW e, NEW n \in Nat, Open(e, n), NEW x, Ending(x, n, 0..(n - 1)),
         NEW last \in EventSet, last.type = "completed", last.out = None,
         NEW y, Numbers(x \o <<last>>, Len(e), y)
  PROVE  GrammarOf(e \o y)
<1> DEFINE g == e \o y
           N == Len(e)
           L == Len(x)
           M == N + L + 1
           z == x \o <<last>>
<1>1. /\ N \in Nat /\ e \in Seq(EventSet) /\ x \in Seq(EventSet) /\ L \in Nat
      /\ \A i \in 1..N : e[i].type \notin {"error", "completed", "item_done"}
  BY OpenSays DEF Ending
<1>2. z \in Seq(EventSet) /\ Len(z) = L + 1 /\ z[L + 1] = last /\ \A i \in 1..L : z[i] = x[i]
  BY <1>1
<1> HIDE DEF z
<1>3. /\ y \in Seq(EventSet) /\ Len(y) = L + 1
      /\ \A i \in 1..(L + 1) : y[i].type = z[i].type /\ y[i].out = z[i].out /\ y[i].seq = N + i - 1
  BY <1>2 DEF Numbers, z
<1>4. /\ g \in Seq(EventSet) /\ Len(g) = M /\ DOMAIN g = 1..M /\ M \in Nat /\ N <= M
      /\ \A i \in 1..N : g[i] = e[i]
      /\ \A p \in 1..(L + 1) : g[N + p] = y[p]
  <2>1. g \in Seq(EventSet) /\ Len(g) = Len(e) + Len(y)
    BY <1>1, <1>3
  <2>2. \A i \in 1..(Len(e) + Len(y)) : g[i] = IF i <= Len(e) THEN e[i] ELSE y[i - Len(e)]
    BY <1>1, <1>3
  <2> HIDE DEF g
  <2>3. DOMAIN g = 1..Len(g)
    BY <2>1
  <2>4. \A i \in 1..N : g[i] = e[i]
    BY <1>1, <1>3, <2>2
  <2>5. \A p \in 1..(L + 1) : g[N + p] = y[p]
    <3> TAKE p \in 1..(L + 1)
    <3>1. N + p \in 1..(Len(e) + Len(y)) /\ ~(N + p <= Len(e)) /\ (N + p) - Len(e) = p
      BY <1>1, <1>3
    <3>2. QED BY <2>2, <3>1
  <2>6. QED BY <1>1, <1>3, <2>1, <2>3, <2>4, <2>5
<1>5. \A p \in 1..L : /\ g[N + p].type = x[p].type /\ g[N + p].out = x[p].out
                      /\ g[N + p].seq = (N + p) - 1
                      /\ x[p].type \in ClosingTypes /\ x[p].out \in 0..(n - 1)
  <2> TAKE p \in 1..L
  <2>1. p \in 1..(L + 1) /\ N + p - 1 = (N + p) - 1
    BY <1>1
  <2>2. x[p].type \in ClosingTypes /\ x[p].out \in 0..(n - 1)
    BY DEF Ending
  <2>3. QED BY <1>2, <1>3, <1>4, <2>1, <2>2
<1>6. g[M].type = "completed" /\ g[M].out = None /\ g[M].seq = M - 1
  <2>1. L + 1 \in 1..(L + 1) /\ N + (L + 1) = M
    BY <1>1
  <2>2. QED BY <1>2, <1>3, <1>4, <2>1
<1> HIDE DEF g
<1>7. /\ \A o \in 0..(n - 1) : \E j \in 1..N : e[j].type = "added" /\ e[j].out = o
      /\ \A i \in 1..N : e[i].type = "added" => e[i].out \in 0..(n - 1)
  BY OpenSays
<1>8. N \in Nat /\ L \in Nat /\ M = N + L + 1
  BY <1>1
<1>9. /\ \A q \in 1..L : x[q].out \in 0..(n - 1)
      /\ \A p, q \in 1..L : x[q].type = "item_done" /\ x[q].out = x[p].out => p <= q
      /\ \A o \in 0..(n - 1) : \E q \in 1..L : x[q].type = "item_done" /\ x[q].out = o
  BY DEF Ending
<1>10. \A i \in 1..N : PlacedOK(g, i)
  BY <1>4, PrefixPlaced
<1> HIDE DEF N, L, M
<1>11. \A i \in 1..M : i \in 1..N \/ i = M \/ \E p \in 1..L : i = N + p
  <2> TAKE i \in 1..M
  <2>1. ~(i \in 1..N) /\ i # M => i - N \in 1..L /\ i = N + (i - N)
    BY ONLY <1>8, i \in 1..M
  <2>2. QED BY <2>1
<1>12. \A o \in 0..(n - 1) : \E j \in 1..N : g[j].type = "added" /\ g[j].out = o
  <2> TAKE o \in 0..(n - 1)
  <2>1. PICK j \in 1..N : e[j].type = "added" /\ e[j].out = o
    BY <1>7
  <2>2. QED BY <1>4, <2>1
<1>13. \A j \in 1..M : g[j].type = "item_done" => \E q \in 1..L : j = N + q /\ x[q].type = "item_done"
  <2> TAKE j \in 1..M
  <2> HAVE g[j].type = "item_done"
  <2>1. ~(j \in 1..N) /\ j # M
    BY <1>1, <1>4, <1>6
  <2>2. PICK q \in 1..L : j = N + q
    BY <1>11, <2>1
  <2>3. QED BY <1>5, <2>2
<1>14. ASSUME NEW p \in 1..L PROVE PlacedOK(g, N + p)
  <2>1. g[N + p].type \notin {"error", "completed", "added"} /\ g[N + p].out \in 0..(n - 1)
    BY <1>5 DEF ClosingTypes
  <2>2. \E j \in 1..M : g[j].type = "added" /\ g[j].out = g[N + p].out /\ j <= N + p
    <3>1. PICK j \in 1..N : g[j].type = "added" /\ g[j].out = g[N + p].out
      BY <1>12, <2>1
    <3>2. j \in 1..M /\ j <= N + p
      BY <1>8
    <3>3. QED BY <3>1, <3>2
  <2>3. ASSUME NEW j \in 1..M, g[j].type = "item_done", g[j].out = g[N + p].out
        PROVE  N + p <= j
    <3>1. PICK q \in 1..L : j = N + q /\ x[q].type = "item_done"
      BY <1>13, <2>3
    <3>2. x[q].out = x[p].out
      BY <1>5, <2>3, <3>1
    <3>3. p <= q
      BY <1>9, <3>1, <3>2
    <3>4. QED BY <1>8, <3>1, <3>3
  <2>4. QED BY <1>4, <1>5, <2>1, <2>2, <2>3 DEF PlacedOK
<1>15. PlacedOK(g, M)
  <2>1. ASSUME NEW k \in 1..M, g[k].type = "added"
        PROVE  \E j \in 1..M : g[j].type = "item_done" /\ g[j].out = g[k].out
    <3>1. k \in 1..N
      BY <1>5, <1>6, <1>11, <2>1 DEF ClosingTypes
    <3>2. g[k] = e[k]
      BY <1>4, <3>1
    <3>3. e[k].out \in 0..(n - 1)
      BY <1>7, <2>1, <3>1, <3>2
    <3>4. PICK q \in 1..L : x[q].type = "item_done" /\ x[q].out = e[k].out
      BY <1>9, <3>3
    <3>5. N + q \in 1..M
      BY <1>8
    <3>6. QED BY <1>5, <3>2, <3>4, <3>5
  <2>2. QED BY <1>4, <1>6, <2>1 DEF PlacedOK
<1>16. \A i \in 1..M : PlacedOK(g, i)
  BY <1>11, <1>10, <1>14, <1>15
<1>17. QED BY <1>4, <1>16 DEF GrammarOf, g

-----------------------------------------------------------------------------
(* What a reply comes to *)

CallOf(pp, k) == Call(LastOf(IdOf(k), pp), LastOf(NameOf(k), pp), Joined(ArgsOf(k), pp))
Reply(pp) ==
    LET keys == InOrder(KeysOf(pp))
    IN  [content |-> Joined(PieceWords, pp), calls |-> [i \in DOMAIN keys |-> CallOf(pp, keys[i])]]

\* The keys of pieces are bounded.
LEMMA KeysBounded ==
  ASSUME NEW pp \in Seq(PieceSet)
  PROVE  \E N \in Nat : KeysOf(pp) \subseteq 0..N
<1> DEFINE T == {s \in Seq(PieceSet) : \E N \in Nat : KeysOf(s) \subseteq 0..N}
<1>1. <<>> \in T
  <2>1. KeysOf(<<>>) = {}
    BY DEF KeysOf
  <2>2. QED BY <2>1
<1>2. \A s \in Seq(PieceSet), p \in PieceSet : s \in T => Append(s, p) \in T
  <2> SUFFICES ASSUME NEW s \in Seq(PieceSet), NEW p \in PieceSet, s \in T
               PROVE  Append(s, p) \in T
    OBVIOUS
  <2>1. PICK N \in Nat : KeysOf(s) \subseteq 0..N
    OBVIOUS
  <2>2. KeysOf(Append(s, p)) = KeysOf(s) \cup (IF p.kind = "call" THEN {p.key} ELSE {})
    BY KeysAppend
  <2>3. p.kind = "call" => p.key \in Nat
    BY PieceFields
  <2>4. \E M \in Nat : KeysOf(Append(s, p)) \subseteq 0..M
    <3>1. CASE p.kind = "call"
      <4>1. KeysOf(Append(s, p)) \subseteq 0..(N + p.key) /\ N + p.key \in Nat
        BY <2>1, <2>2, <2>3, <3>1
      <4>2. QED BY <4>1
    <3>2. CASE p.kind # "call"
      BY <2>1, <2>2, <3>2
    <3>3. QED BY <3>1, <3>2
  <2>5. Append(s, p) \in Seq(PieceSet)
    OBVIOUS
  <2>6. QED BY <2>4, <2>5
<1> HIDE DEF T
<1>3. pp \in T
  BY <1>1, <1>2, SeqClimb
<1>4. QED BY <1>3 DEF T

\* What was said, put together, is the reply that the pieces come to.
LEMMA AssembledIs ==
  ASSUME NEW chunks \in Seq(Chunks)
  PROVE  Assembled(chunks) = Reply(Joined(ChunkPieces, chunks))
<1> DEFINE parts == FlattenSeq([n \in DOMAIN chunks |-> Pieces(chunks[n])])
           calls == {i \in DOMAIN parts : parts[i].kind = "call"}
           keys == InOrder({parts[i].key : i \in calls})
           texts == FlattenSeq([i \in DOMAIN parts |-> IF i \in calls THEN <<>> ELSE parts[i].text])
           args(k) == FlattenSeq([i \in DOMAIN parts |->
                          IF i \in calls /\ parts[i].key = k THEN parts[i].call.args ELSE <<>>])
           ids(k)   == {i \in calls : parts[i].key = k /\ parts[i].call.id # ""}
           names(k) == {i \in calls : parts[i].key = k /\ parts[i].call.name # ""}
           id(k)   == IF ids(k) = {} THEN "" ELSE parts[Max(ids(k))].call.id
           name(k) == IF names(k) = {} THEN "" ELSE parts[Max(names(k))].call.name
<1>1. Assembled(chunks)
        = [content |-> texts, calls |-> [i \in DOMAIN keys |-> Call(id(keys[i]), name(keys[i]), args(keys[i]))]]
  BY DEF Assembled
<1>2. parts = Joined(ChunkPieces, chunks)
  <2>1. \A n \in DOMAIN chunks : chunks[n] \in Chunks
    OBVIOUS
  <2>2. [n \in DOMAIN chunks |-> Pieces(chunks[n])] = [n \in DOMAIN chunks |-> ChunkPieces[chunks[n]]]
    BY <2>1 DEF ChunkPieces
  <2>3. QED BY <2>2 DEF Joined
<1>3. parts \in Seq(PieceSet)
  <2>1. ChunkPieces \in [Chunks -> Seq(PieceSet)]
    BY PiecesType DEF ChunkPieces
  <2>2. QED BY <1>2, <2>1, JoinedType
<1> HIDE DEF parts
<1>4. DOMAIN parts = 1..Len(parts) /\ Len(parts) \in Nat /\ \A i \in DOMAIN parts : parts[i] \in PieceSet
  BY <1>3
<1>5. texts = Joined(PieceWords, parts)
  <2>1. \A i \in DOMAIN parts : (IF i \in calls THEN <<>> ELSE parts[i].text) = PieceWords[parts[i]]
    BY <1>4, PieceFields DEF PieceWords
  <2>2. [i \in DOMAIN parts |-> IF i \in calls THEN <<>> ELSE parts[i].text]
          = [i \in DOMAIN parts |-> PieceWords[parts[i]]]
    BY <2>1
  <2>3. QED BY <2>2 DEF Joined
<1>6. keys = InOrder(KeysOf(parts))
  BY DEF KeysOf
<1>7. ASSUME NEW k PROVE args(k) = Joined(ArgsOf(k), parts)
  <2>1. \A i \in DOMAIN parts :
          (IF i \in calls /\ parts[i].key = k THEN parts[i].call.args ELSE <<>>) = ArgsOf(k)[parts[i]]
    BY <1>4 DEF ArgsOf, OfCall
  <2>2. [i \in DOMAIN parts |-> IF i \in calls /\ parts[i].key = k THEN parts[i].call.args ELSE <<>>]
          = [i \in DOMAIN parts |-> ArgsOf(k)[parts[i]]]
    BY <2>1
  <2>3. QED BY <2>2 DEF Joined
<1>8. ASSUME NEW k PROVE id(k) = LastOf(IdOf(k), parts)
  <2> DEFINE given == {i \in DOMAIN parts : IdOf(k)[parts[i]] # ""}
  <2>1. \A i \in DOMAIN parts : IdOf(k)[parts[i]]
                                 = IF OfCall(parts[i], k) THEN parts[i].call.id ELSE ""
    BY <1>4 DEF IdOf
  <2>2. ids(k) = given
    BY <2>1 DEF OfCall
  <2>3. given # {} => Max(given) \in given
    <3>1. given \in SUBSET (0..Len(parts))
      <4>1. given \subseteq DOMAIN parts
        OBVIOUS
      <4> HIDE DEF given
      <4>2. DOMAIN parts \subseteq 0..Len(parts)
        BY <1>4
      <4>3. QED BY <4>1, <4>2
    <3> HIDE DEF given
    <3>2. QED BY <1>4, <3>1, GreatestNatural
  <2>4. given # {} => IdOf(k)[parts[Max(given)]] = parts[Max(given)].call.id
    BY <2>1, <2>3
  <2>5. LastOf(IdOf(k), parts) = IF given = {} THEN "" ELSE IdOf(k)[parts[Max(given)]]
    BY DEF LastOf, LastWord
  <2>6. id(k) = IF given = {} THEN "" ELSE parts[Max(given)].call.id
    BY <2>2
  <2> HIDE DEF given, id
  <2>7. QED BY <2>4, <2>5, <2>6
<1>9. ASSUME NEW k PROVE name(k) = LastOf(NameOf(k), parts)
  <2> DEFINE given == {i \in DOMAIN parts : NameOf(k)[parts[i]] # ""}
  <2>1. \A i \in DOMAIN parts : NameOf(k)[parts[i]]
                                 = IF OfCall(parts[i], k) THEN parts[i].call.name ELSE ""
    BY <1>4 DEF NameOf
  <2>2. names(k) = given
    BY <2>1 DEF OfCall
  <2>3. given # {} => Max(given) \in given
    <3>1. given \in SUBSET (0..Len(parts))
      <4>1. given \subseteq DOMAIN parts
        OBVIOUS
      <4> HIDE DEF given
      <4>2. DOMAIN parts \subseteq 0..Len(parts)
        BY <1>4
      <4>3. QED BY <4>1, <4>2
    <3> HIDE DEF given
    <3>2. QED BY <1>4, <3>1, GreatestNatural
  <2>4. given # {} => NameOf(k)[parts[Max(given)]] = parts[Max(given)].call.name
    BY <2>1, <2>3
  <2>5. LastOf(NameOf(k), parts) = IF given = {} THEN "" ELSE NameOf(k)[parts[Max(given)]]
    BY DEF LastOf, LastWord
  <2>6. name(k) = IF given = {} THEN "" ELSE parts[Max(given)].call.name
    BY <2>2
  <2> HIDE DEF given, name
  <2>7. QED BY <2>4, <2>5, <2>6
<1> HIDE DEF id, name, args, texts, keys
<1>10. \A i \in DOMAIN keys : Call(id(keys[i]), name(keys[i]), args(keys[i])) = CallOf(parts, keys[i])
  BY <1>7, <1>8, <1>9 DEF CallOf
<1>11. QED BY <1>1, <1>2, <1>5, <1>6, <1>10 DEF Reply

\* The keys in order are as many as there are.
LEMMA InOrderCounts ==
  ASSUME NEW N \in Nat, NEW keys \in SUBSET (0..N)
  PROVE  Len(InOrder(keys)) = Cardinality(keys)
<1> DEFINE s == InOrder(keys)
           L == Len(s)
<1>1. /\ s \in Seq(keys) /\ L \in Nat
      /\ \A i, j \in 1..L : s[i] = s[j] => i = j
      /\ \A k \in keys : \E i \in 1..L : s[i] = k
  BY InOrderLists
<1> HIDE DEF s
<1>2. s \in [1..L -> keys]
  BY <1>1
<1>3. s \in Bijection(1..L, keys)
  BY <1>1, <1>2 DEF Bijection, Injection, IsInjective, Surjection
<1>4. ExistsBijection(1..L, keys)
  BY <1>3 DEF ExistsBijection
<1>5. IsFiniteSet(1..L) /\ Cardinality(1..L) = L
  <2>1. 1 \in Int /\ L \in Int
    BY <1>1
  <2>2. Cardinality(1..L) = IF 1 > L THEN 0 ELSE L - 1 + 1
    BY <2>1, FS_Interval
  <2>3. QED BY <1>1, <2>1, <2>2, FS_Interval
<1>6. Cardinality(keys) = Cardinality(1..L)
  BY <1>4, <1>5, FS_Bijection
<1>7. QED BY <1>5, <1>6 DEF s

\* A complete output is what the reply is turned into, if that can be done.
Agrees(st, want) ==
    /\ want = None <=> \E k \in DOMAIN st.tools : Malformed(st.tools[k])
    /\ want # None => ToSet(OutputOf(st)) = ToSet(want) /\ Len(OutputOf(st)) = Len(want)

\* So it is for the state the pieces come to.
LEMMA OutputAgrees ==
  ASSUME NEW st, StateOK(st), NEW pp \in Seq(PieceSet), Assembles(st, pp)
  PROVE  Agrees(st, ToResponseOutput(Reply(pp)))
<1> DEFINE keys == InOrder(KeysOf(pp))
           L == Len(keys)
           content == Joined(PieceWords, pp)
           calls == [i \in DOMAIN keys |-> CallOf(pp, keys[i])]
           want == ToResponseOutput(Reply(pp))
           first == IF content = <<>> THEN <<>> ELSE <<MessageItem(content)>>
           rest == [i \in DOMAIN calls |-> CallItem(calls[i])]
           bad == \E k \in DOMAIN st.tools : Malformed(st.tools[k])
<1>1. st \in States /\ ItemsOK(st) /\ st.next \in Nat
  BY StateFields DEF StateOK
<1>2. /\ keys \in Seq(KeysOf(pp)) /\ L \in Nat /\ DOMAIN keys = 1..L
      /\ \A i \in 1..L : keys[i] \in KeysOf(pp)
      /\ \A k \in KeysOf(pp) : \E i \in 1..L : keys[i] = k
      /\ L = Cardinality(KeysOf(pp))
  <2>1. PICK N \in Nat : KeysOf(pp) \subseteq 0..N
    BY KeysBounded
  <2>2. /\ keys \in Seq(KeysOf(pp)) /\ L \in Nat
        /\ \A k \in KeysOf(pp) : \E i \in 1..L : keys[i] = k
    BY <2>1, InOrderLists
  <2>3. L = Cardinality(KeysOf(pp))
    BY <2>1, InOrderCounts
  <2> HIDE DEF keys
  <2>4. DOMAIN keys = 1..L /\ \A i \in 1..L : keys[i] \in KeysOf(pp)
    BY <2>2
  <2>5. QED BY <2>2, <2>3, <2>4
<1> HIDE DEF keys, L
<1>3. DOMAIN calls = 1..L /\ \A i \in 1..L : calls[i] = CallOf(pp, keys[i])
  BY <1>2
<1>4. Reply(pp).content = content /\ Reply(pp).calls = calls
  BY DEF Reply, keys
<1> HIDE DEF calls
<1>5. /\ content \in Seq(STRING) /\ content # None
      /\ (st.text = None <=> content = <<>>) /\ (st.text # None => st.text.text = content)
      /\ DOMAIN st.tools = KeysOf(pp)
  <2>1. content \in Seq(STRING)
    BY PieceWordsType, JoinedType
  <2> HIDE DEF content
  <2>2. content # None
    BY <2>1, AbsentAssumption
  <2>3. QED BY <2>1, <2>2 DEF Assembles, TextBefore, content
<1> HIDE DEF content
<1>6. \A k \in DOMAIN st.tools :
        Call(st.tools[k].id, st.tools[k].name, st.tools[k].args) = CallOf(pp, k)
  BY <1>5 DEF Assembles, CallOf
<1>7. \A k \in DOMAIN st.tools : Malformed(CallOf(pp, k)) <=> Malformed(st.tools[k])
  <2>1. \A k \in DOMAIN st.tools : CallOf(pp, k).id = st.tools[k].id /\ CallOf(pp, k).name = st.tools[k].name
    BY <1>5 DEF CallOf, Call, Assembles
  <2>2. QED BY <2>1 DEF Malformed
<1>8. calls # None
  <2>1. \A k \in KeysOf(pp) : CallOf(pp, k) \in Calls
    BY <1>1, <1>5, <1>6, StateFields DEF Call, Calls
  <2>2. calls \in Seq(Calls)
    <3>1. \A i \in 1..L : calls[i] \in Calls
      BY <1>2, <1>3, <2>1
    <3>2. calls = [i \in 1..L |-> calls[i]]
      <4>1. calls = [i \in DOMAIN keys |-> calls[i]]
        BY DEF calls
      <4>2. QED BY <1>2, <4>1
    <3>3. calls \in [1..L -> Calls]
      BY <3>1, <3>2
    <3>4. QED BY <1>2, <3>3
  <2>3. QED BY <2>2, AbsentAssumption
<1>9. (\E i \in DOMAIN calls : Malformed(calls[i])) <=> bad
  <2>1. \A i \in 1..L : keys[i] \in DOMAIN st.tools /\ calls[i] = CallOf(pp, keys[i])
    BY <1>2, <1>3, <1>5
  <2>2. \A i \in 1..L : Malformed(calls[i]) <=> Malformed(st.tools[keys[i]])
    BY <1>7, <2>1
  <2>3. \A k \in DOMAIN st.tools : \E i \in 1..L : keys[i] = k
    BY <1>2, <1>5
  <2>4. QED BY <1>3, <2>1, <2>2, <2>3
<1>10. want = IF bad THEN None ELSE first \o rest
  <2>1. want = IF calls # None /\ \E i \in DOMAIN calls : Malformed(calls[i]) THEN None
               ELSE (IF content \in {None, <<>>} THEN <<>> ELSE <<MessageItem(content)>>)
                        \o (IF calls = None THEN <<>> ELSE [i \in DOMAIN calls |-> CallItem(calls[i])])
    BY <1>4 DEF ToResponseOutput
  <2> HIDE DEF bad
  <2>2. QED BY <1>5, <1>8, <1>9, <2>1
<1>11. first \in Seq(OutputItems) /\ rest \in Seq(OutputItems) /\ Len(rest) = L
  <2>1. first \in Seq(OutputItems)
    BY <1>5, ItemTypes
  <2>2. \A i \in 1..L : rest[i] = CallItem(calls[i]) /\ calls[i] = CallOf(pp, keys[i])
                        /\ keys[i] \in DOMAIN st.tools
    BY <1>2, <1>3, <1>5
  <2>3. \A k \in DOMAIN st.tools : CallItem(CallOf(pp, k)) \in OutputItems
    <3>1. \A k \in DOMAIN st.tools :
            CallItem(Call(st.tools[k].id, st.tools[k].name, st.tools[k].args)) \in OutputItems
      BY <1>1, StateFields, ItemTypes
    <3>2. QED BY <1>6, <3>1
  <2>4. rest = [i \in 1..L |-> rest[i]]
    BY <1>3
  <2> HIDE DEF rest
  <2>5. rest \in [1..L -> OutputItems]
    BY <2>2, <2>3, <2>4
  <2>6. QED BY <1>2, <2>1, <2>5
<1>12. ~bad => want # None
  <2>1. first \o rest \in Seq(OutputItems)
    BY <1>11
  <2> HIDE DEF first, rest, bad
  <2>2. QED BY <1>10, <2>1, AbsentAssumption
<1>13. Len(first \o rest) = Len(OutputOf(st))
  <2>1. Len(first) = IF st.text = None THEN 0 ELSE 1
    BY <1>5
  <2> HIDE DEF first, rest
  <2>2. Len(first \o rest) = Len(first) + L
    BY <1>11
  <2>3. st.next = L + (IF st.text = None THEN 0 ELSE 1) /\ Len(OutputOf(st)) = st.next
    BY <1>1, <1>2, <1>5, OutputType DEF ItemsOK
  <2>4. QED BY <1>2, <2>1, <2>2, <2>3
<1>14. ToSet(OutputOf(st)) = ToSet(first \o rest)
  <2> DEFINE items == (IF st.text = None THEN {} ELSE {MessageItem(st.text.text)})
                         \cup {CallItem(CallOf(pp, k)) : k \in DOMAIN st.tools}
  <2>1. ToSet(first \o rest) = ToSet(first) \cup ToSet(rest)
    <3> HIDE DEF first, rest
    <3>1. \A s, t \in Seq(OutputItems) : ToSet(s \o t) = ToSet(s) \cup ToSet(t)
      <4> TAKE s, t \in Seq(OutputItems)
      <4> DEFINE u == s \o t
      <4>1. /\ DOMAIN u = 1..(Len(s) + Len(t)) /\ DOMAIN s = 1..Len(s) /\ DOMAIN t = 1..Len(t)
            /\ Len(s) \in Nat /\ Len(t) \in Nat
        OBVIOUS
      <4>2. \A i \in 1..(Len(s) + Len(t)) : u[i] = IF i <= Len(s) THEN s[i] ELSE t[i - Len(s)]
        OBVIOUS
      <4> HIDE DEF u
      <4>3. \A i \in DOMAIN u : u[i] \in ToSet(s) \cup ToSet(t)
        <5> TAKE i \in DOMAIN u
        <5>1. CASE i <= Len(s)
          BY <4>1, <4>2, <5>1 DEF ToSet
        <5>2. CASE ~(i <= Len(s))
          <6>1. i - Len(s) \in DOMAIN t /\ u[i] = t[i - Len(s)]
            BY <4>1, <4>2, <5>2
          <6>2. QED BY <6>1 DEF ToSet
        <5>3. QED BY <5>1, <5>2
      <4>4. \A i \in DOMAIN s : s[i] \in ToSet(u)
        <5> TAKE i \in DOMAIN s
        <5>1. i \in DOMAIN u /\ u[i] = s[i]
          BY <4>1, <4>2
        <5>2. QED BY <5>1 DEF ToSet
      <4>5. \A i \in DOMAIN t : t[i] \in ToSet(u)
        <5> TAKE i \in DOMAIN t
        <5>1. i + Len(s) \in DOMAIN u /\ u[i + Len(s)] = t[i]
          BY <4>1, <4>2
        <5>2. QED BY <5>1 DEF ToSet
      <4>6. ToSet(u) = ToSet(s) \cup ToSet(t)
        BY <4>3, <4>4, <4>5 DEF ToSet
      <4>7. QED BY <4>6 DEF u
    <3>2. QED BY <1>11, <3>1
  <2>2. ToSet(first) = IF st.text = None THEN {} ELSE {MessageItem(st.text.text)}
    BY <1>5 DEF ToSet
  <2>3. ToSet(rest) = {CallItem(CallOf(pp, k)) : k \in DOMAIN st.tools}
    <3>1. DOMAIN rest = 1..L /\ \A i \in 1..L : rest[i] = CallItem(CallOf(pp, keys[i])) /\ keys[i] \in DOMAIN st.tools
      BY <1>2, <1>3, <1>5
    <3>2. \A k \in DOMAIN st.tools : \E i \in 1..L : keys[i] = k
      BY <1>2, <1>5
    <3> HIDE DEF rest
    <3>3. \A x \in ToSet(rest) : x \in {CallItem(CallOf(pp, k)) : k \in DOMAIN st.tools}
      BY <3>1 DEF ToSet
    <3>4. \A k \in DOMAIN st.tools : CallItem(CallOf(pp, k)) \in ToSet(rest)
      BY <3>1, <3>2 DEF ToSet
    <3>5. QED BY <3>3, <3>4
  <2>4. ToSet(OutputOf(st)) = items
    <3>1. \A i \in 1..st.next : OutputOf(st)[i] = OutputItem(st, i - 1) /\ i - 1 \in 0..(st.next - 1)
      BY <1>1 DEF OutputOf
    <3>2. DOMAIN OutputOf(st) = 1..st.next
      BY DEF OutputOf
    <3>3. \A o \in 0..(st.next - 1) : OutputItem(st, o) \in items
      <4> TAKE o \in 0..(st.next - 1)
      <4>1. \/ st.text # None /\ OutputItem(st, o) = MessageItem(st.text.text)
            \/ \E k \in DOMAIN st.tools :
                  OutputItem(st, o) = CallItem(Call(st.tools[k].id, st.tools[k].name, st.tools[k].args))
        BY OutputItemIs
      <4>2. QED BY <1>6, <4>1
    <3>4. st.text # None => MessageItem(st.text.text) \in ToSet(OutputOf(st))
      <4> HAVE st.text # None
      <4>1. st.text.out \in 0..(st.next - 1) /\ st.text.out \in Nat
        BY <1>1, StateFields DEF ItemsOK
      <4>2. OutputItem(st, st.text.out) = MessageItem(st.text.text)
        BY DEF OutputItem
      <4>3. st.text.out + 1 \in 1..st.next /\ (st.text.out + 1) - 1 = st.text.out
        BY <1>1, <4>1
      <4>4. OutputOf(st)[st.text.out + 1] = MessageItem(st.text.text)
        BY <3>1, <4>2, <4>3
      <4>5. QED BY <3>2, <4>3, <4>4 DEF ToSet
    <3>5. \A k \in DOMAIN st.tools : CallItem(CallOf(pp, k)) \in ToSet(OutputOf(st))
      <4> TAKE k \in DOMAIN st.tools
      <4> DEFINE o == st.tools[k].out
      <4>1. o \in Nat /\ o \in 0..(st.next - 1) /\ (st.text # None => st.text.out # o)
            /\ \A l \in DOMAIN st.tools : st.tools[l].out = o => l = k
        BY <1>1, StateFields DEF ItemsOK
      <4>2. OutputItem(st, o) = CallItem(Call(st.tools[k].id, st.tools[k].name, st.tools[k].args))
        BY <4>1, OutputItemIs
      <4> HIDE DEF o
      <4>3. o + 1 \in 1..st.next /\ (o + 1) - 1 = o
        BY <1>1, <4>1
      <4>4. OutputOf(st)[o + 1] = CallItem(CallOf(pp, k))
        BY <1>6, <3>1, <4>2, <4>3
      <4>5. QED BY <3>2, <4>3, <4>4 DEF ToSet
    <3>6. ToSet(OutputOf(st)) \subseteq items
      BY <3>1, <3>2, <3>3 DEF ToSet
    <3>7. items \subseteq ToSet(OutputOf(st))
      BY <3>4, <3>5
    <3> HIDE DEF items
    <3>8. QED BY <3>6, <3>7
  <2>5. QED BY <2>1, <2>2, <2>3, <2>4
<1>15. want # None => want = first \o rest
  <2> HIDE DEF first, rest, bad
  <2>1. QED BY <1>10
<1>16. want = None <=> bad
  <2> HIDE DEF first, rest, bad
  <2>1. QED BY <1>10, <1>12
<1> HIDE DEF first, rest, want
<1>17. Agrees(st, want)
  BY <1>13, <1>14, <1>15, <1>16 DEF Agrees
<1>18. QED BY <1>17 DEF want

\* Events that hold no text say nothing.
LEMMA SaysNothing ==
  ASSUME NEW x \in Seq(EventSet), \A i \in 1..Len(x) : x[i].type \notin {"delta", "chunk"}
  PROVE  TextIn(x) = <<>>
<1>1. DOMAIN x = 1..Len(x) /\ Len(x) \in Nat /\ \A i \in 1..Len(x) : SaidBy(x[i]) = <<>>
  BY DEF SaidBy
<1>2. [i \in DOMAIN x |-> SaidBy(x[i])] \in [1..Len(x) -> {<<>>}]
  BY <1>1
<1>3. QED BY <1>1, <1>2, FlattenNothing DEF TextIn

\* What is said when a response completes agrees with what the reply comes to.
Completes(c, want) ==
    \A i \in DOMAIN c : c[i].type = "completed" =>
        /\ want # None
        /\ ToSet(c[i].data) = ToSet(want) /\ Len(c[i].data) = Len(want)
HasCompleted(c) == \E i \in DOMAIN c : c[i].type = "completed"

ClosedWell(e, c, want) ==
    /\ c \in Seq(EventSet) /\ TextIn(c) = <<>> /\ GrammarOf(e \o c)
    /\ Completes(c, want) /\ (want # None => HasCompleted(c))

\* The events that end a response that nothing interrupted.
LEMMA ClosingOK ==
  ASSUME NEW e, NEW st, AccOK(e, [st |-> st, ev |-> <<>>]), NEW pp \in Seq(PieceSet), Assembles(st, pp)
  PROVE  ClosedWell(e, Closing(st), ToResponseOutput(Reply(pp)))
<1> DEFINE want == ToResponseOutput(Reply(pp))
           bad == \E k \in DOMAIN st.tools : Malformed(st.tools[k])
           c == Closing(st)
<1>1. StateOK(st) /\ e \in Seq(EventSet) /\ Open(e, st.next) /\ st.seq = Len(e)
      /\ st.next \in Nat /\ st.seq \in Nat
  <2> DEFINE acc == [st |-> st, ev |-> <<>>]
  <2>1. acc.st = st /\ acc.ev = <<>>
    OBVIOUS
  <2>2. StateOK(acc.st) /\ e \in Seq(EventSet) /\ Open(e \o acc.ev, acc.st.next) /\ acc.st.seq = Len(e \o acc.ev)
    BY DEF AccOK
  <2> HIDE DEF acc
  <2>3. e \o <<>> = e
    BY <2>2
  <2>4. StateOK(st) /\ e \in Seq(EventSet) /\ Open(e, st.next) /\ st.seq = Len(e)
    BY <2>1, <2>2, <2>3
  <2>5. QED BY <2>4, StateFields DEF StateOK
<1>2. /\ want = None <=> bad
      /\ want # None => ToSet(OutputOf(st)) = ToSet(want) /\ Len(OutputOf(st)) = Len(want)
  BY <1>1, OutputAgrees DEF Agrees
<1> HIDE DEF want
<1>3. CASE bad
  <2>1. c = <<ErrorEvent>>
    BY <1>3 DEF Closing
  <2>2. c \in Seq(EventSet) /\ Len(c) = 1 /\ DOMAIN c = {1} /\ c[1] = ErrorEvent
    BY <2>1, ErrorFields
  <2>3. e \o c = Append(e, ErrorEvent)
    <3> HIDE DEF c, ErrorEvent
    <3>1. QED BY <1>1, <2>1, ErrorFields
  <2>4. GrammarOf(e \o c)
    BY <1>1, <2>3, ErrorInGrammar
  <2> HIDE DEF c, ErrorEvent, bad
  <2>5. TextIn(c) = <<>>
    <3>1. \A i \in 1..Len(c) : c[i].type \notin {"delta", "chunk"}
      BY <2>2, ErrorFields
    <3>2. QED BY <2>2, <3>1, SaysNothing
  <2>6. Completes(c, want)
    BY <2>2, ErrorFields DEF Completes
  <2>7. QED BY <1>2, <1>3, <2>2, <2>4, <2>5, <2>6 DEF ClosedWell, want, c
<1>4. CASE ~bad
  <2> DEFINE x == TextClosing(st) \o ToolsClosing(st)
             last == Completed(st)
             L == Len(x)
             z == x \o <<last>>
  <2>1. Ending(x, st.next, 0..(st.next - 1))
    BY <1>1, ToolsClose
  <2>2. /\ last \in EventSet /\ last.type = "completed" /\ last.out = None
        /\ last.data = OutputOf(st)
    BY <1>1, CompletedEvent
  <2>3. x \in Seq(EventSet) /\ L \in Nat /\ \A i \in 1..L : x[i].type \in ClosingTypes
    BY <2>1 DEF Ending
  <2>4. c = Numbered(z, Len(e))
    BY <1>1, <1>4, FinishIs DEF Closing
  <2> HIDE DEF x, last, c, bad
  <2>5. z \in Seq(EventSet) /\ Len(z) = L + 1 /\ z[L + 1] = last /\ \A i \in 1..L : z[i] = x[i]
    BY <2>2, <2>3
  <2> HIDE DEF z
  <2>6. Numbers(z, Len(e), c)
    <3>1. Len(e) \in Nat
      BY <1>1
    <3>2. QED BY <2>4, <2>5, <3>1, NumberedOK
  <2>7. /\ c \in Seq(EventSet) /\ Len(c) = L + 1 /\ DOMAIN c = 1..(L + 1)
        /\ \A i \in 1..(L + 1) : c[i].type = z[i].type /\ c[i].data = z[i].data
    <3>1. c \in Seq(EventSet) /\ Len(c) = L + 1
          /\ \A i \in 1..(L + 1) : c[i].type = z[i].type /\ c[i].data = z[i].data
      BY <2>5, <2>6 DEF Numbers
    <3>2. QED BY <3>1
  <2>8. \A i \in 1..(L + 1) : i \in 1..L \/ i = L + 1
    BY <2>3
  <2>9. L + 1 \in 1..(L + 1) /\ c[L + 1].type = "completed" /\ c[L + 1].data = OutputOf(st)
    <3>1. L + 1 \in 1..(L + 1)
      BY <2>3
    <3>2. QED BY <2>2, <2>5, <2>7, <3>1
  <2>10. \A i \in 1..L : c[i].type \in ClosingTypes
    <3>1. \A i \in 1..L : i \in 1..(L + 1)
      BY <2>3
    <3>2. QED BY <2>3, <2>5, <2>7, <3>1
  <2>11. GrammarOf(e \o c)
    BY <1>1, <2>1, <2>2, <2>6, ClosedInGrammar DEF z
  <2>12. TextIn(c) = <<>>
    <3>1. \A i \in 1..(L + 1) : c[i].type \notin {"delta", "chunk"}
      BY <2>8, <2>9, <2>10 DEF ClosingTypes
    <3>2. QED BY <2>7, <3>1, SaysNothing
  <2>13. want # None
    BY <1>2, <1>4
  <2>14. Completes(c, want)
    <3>1. \A i \in 1..(L + 1) : c[i].type = "completed" => c[i].data = OutputOf(st)
      BY <2>8, <2>9, <2>10 DEF ClosingTypes
    <3>2. QED BY <1>2, <2>7, <2>13, <3>1 DEF Completes
  <2>15. HasCompleted(c)
    BY <2>7, <2>9 DEF HasCompleted
  <2>16. QED BY <2>7, <2>11, <2>12, <2>14, <2>15 DEF ClosedWell, want, c
<1>5. QED BY <1>3, <1>4

-----------------------------------------------------------------------------
(* The events of the other endpoints *)

Plain == {x \in EventSet : x.type # "completed"}

\* What an endpoint tells of a chunk: its text, and nothing that completes a response.
Tells(m, text) == m \in Seq(Plain) /\ m \in Seq(EventSet) /\ TextIn(m) = text

\* Events without a text tell nothing.
LEMMA TellsNothing ==
  ASSUME NEW m \in Seq(Plain), \A i \in 1..Len(m) : m[i].type \notin {"delta", "chunk"}
  PROVE  Tells(m, <<>>)
<1>1. m \in Seq(EventSet)
  <2>1. Plain \subseteq EventSet
    BY DEF Plain
  <2> HIDE DEF Plain, EventSet
  <2>2. QED BY <2>1
<1>2. QED BY <1>1, SaysNothing DEF Tells

\* And so does nothing.
LEMMA SilenceTells == Tells(<<>>, <<>>)
<1>1. <<>> \in Seq(Plain) /\ <<>> \in Seq(EventSet)
  OBVIOUS
<1>2. ASSUME NEW m \in Seq(Plain), m = <<>> PROVE Tells(m, <<>>)
  <2>1. \A i \in 1..Len(m) : m[i].type \notin {"delta", "chunk"}
    BY <1>2
  <2> HIDE DEF Plain
  <2>2. QED BY ONLY <2>1, m \in Seq(Plain), TellsNothing
<1>3. QED BY <1>1, <1>2

\* One after the other.
LEMMA TellsBoth ==
  ASSUME NEW s, NEW m, NEW t, NEW n, Tells(m, s), Tells(n, t), s \in Seq(STRING), t \in Seq(STRING),
         NEW w, w = m \o n
  PROVE  Tells(w, s \o t)
<1>1. TextJoins(m, n)
  BY TextInConcat DEF Tells
<1>2. w \in Seq(Plain)
  BY DEF Tells
<1>3. QED BY <1>1, <1>2 DEF Tells, TextJoins

\* What /v1/messages tells of a delta.
LEMMA AnthropicDelta ==
  ASSUME endpoint # "responses", NEW d \in Deltas, NEW usage \in Nat, NEW start, NEW middle, NEW end,
         start = IF d.role THEN <<Event("message_start", None, None), Event("ping", None, None)>>
                 ELSE <<>>,
         middle = IF d.text # <<>> THEN <<Event("delta", d.index, d.text)>> ELSE <<>>,
         end = IF d.finish = None THEN <<>>
               ELSE <<Event("message_delta", StopReason(d.finish), usage),
                      Event("message_stop", None, None)>>
  PROVE  Tells(start \o middle \o end, IF d.index = 0 THEN d.text ELSE <<>>)
<1>1. d.index \in Nat /\ d.text \in Seq(STRING) /\ d.finish \in STRING \cup {None}
  BY DeltaFields
<1>2. /\ None \in Outs /\ None \in DataSet /\ usage \in DataSet /\ d.index \in Outs
      /\ d.text \in DataSet
      /\ {"message_start", "ping", "delta", "message_delta", "message_stop"} \subseteq Types
  BY <1>1, DataTypes DEF Outs, Types
<1>3. <<>> \in Seq(STRING)
  OBVIOUS
<1>4. Tells(start, <<>>)
  <2> DEFINE x == Event("message_start", None, None)
             y == Event("ping", None, None)
  <2>1. x \in EventSet /\ x.type = "message_start"
    BY <1>2, EventFields
  <2>2. y \in EventSet /\ y.type = "ping"
    BY <1>2, EventFields
  <2>3. start = IF d.role THEN <<x, y>> ELSE <<>>
    OBVIOUS
  <2> HIDE DEF x, y
  <2>4. x \in Plain /\ y \in Plain
    BY <2>1, <2>2 DEF Plain
  <2>5. start \in Seq(Plain) /\ \A i \in 1..Len(start) : start[i].type \notin {"delta", "chunk"}
    <3>1. CASE d.role
      BY ONLY <2>1, <2>2, <2>3, <2>4, <3>1
    <3>2. CASE ~d.role
      <4>1. start = <<>>
        BY <2>3, <3>2
      <4>2. QED BY ONLY <4>1
    <3>3. QED BY <3>1, <3>2
  <2>6. QED BY ONLY <2>5, TellsNothing
<1>5. Tells(middle, IF d.index = 0 THEN d.text ELSE <<>>)
  <2> DEFINE x == Event("delta", d.index, d.text)
  <2>1. x \in EventSet /\ x.type = "delta" /\ x.out = d.index /\ x.data = d.text
    <3>1. "delta" \in Types /\ d.index \in Outs /\ d.text \in DataSet /\ d.text \in Seq(STRING)
      BY <1>1, <1>2
    <3>2. \A type, out, data : 
             type \in Types /\ out \in Outs /\ data \in DataSet /\ data \in Seq(STRING) /\ type # "chunk" =>
             /\ Event(type, out, data) \in EventSet
             /\ Event(type, out, data).type = type /\ Event(type, out, data).out = out
             /\ Event(type, out, data).data = data
      <4> TAKE type, out, data
      <4> HAVE type \in Types /\ out \in Outs /\ data \in DataSet /\ data \in Seq(STRING) /\ type # "chunk"
      <4> QED BY EventFields
    <3> HIDE DEF Types, Outs, DataSet, EventSet
    <3>3. QED BY <3>1, <3>2
  <2>2. middle = IF d.text # <<>> THEN <<x>> ELSE <<>>
    OBVIOUS
  <2> HIDE DEF x
  <2>3. SaidBy(x) = IF d.index = 0 THEN d.text ELSE <<>>
    BY <2>1 DEF SaidBy
  <2>4. CASE d.text = <<>>
    <3>1. middle = <<>>
      BY <2>2, <2>4
    <3>2. Tells(middle, <<>>)
      BY ONLY <3>1, SilenceTells
    <3>3. QED BY <2>4, <3>2
  <2>5. CASE d.text # <<>>
    <3>1. middle = <<x>> /\ <<x>> \in Seq(EventSet)
      BY <2>1, <2>2, <2>5
    <3>2. TextIn(<<x>>) = SaidBy(x)
      <4>1. TextIn(<<x>>) = Joined(SaidWords, <<x>>)
        BY <3>1, TextInJoined
      <4>2. Joined(SaidWords, <<x>>) = SaidWords[x]
        BY <2>1, SaidWordsType, JoinedOne
      <4>3. SaidWords[x] = SaidBy(x)
        BY <2>1 DEF SaidWords
      <4>4. QED BY <4>1, <4>2, <4>3
    <3>3. x \in Plain
      BY <2>1 DEF Plain
    <3>4. <<x>> \in Seq(Plain)
      BY <3>3
    <3>5. QED BY <2>3, <3>1, <3>2, <3>4 DEF Tells
  <2>6. QED BY <2>4, <2>5
<1>6. Tells(end, <<>>)
  <2> DEFINE r == StopReason(d.finish)
             x == Event("message_delta", r, usage)
             y == Event("message_stop", None, None)
  <2>1. CASE d.finish = None
    <3>1. end = <<>>
      BY <2>1
    <3>2. QED BY ONLY <3>1, SilenceTells
  <2>2. CASE d.finish # None
    <3>1. r \in Outs
      BY <1>1, <2>2 DEF StopReason, Outs
    <3> HIDE DEF r
    <3>2. x \in EventSet /\ x.type = "message_delta"
      BY <1>2, <3>1, EventFields
    <3>3. y \in EventSet /\ y.type = "message_stop"
      BY <1>2, EventFields
    <3>4. end = <<x, y>>
      BY <2>2 DEF r
    <3> HIDE DEF x, y
    <3>5. x \in Plain /\ y \in Plain
      BY <3>2, <3>3 DEF Plain
    <3>6. end \in Seq(Plain) /\ \A i \in 1..Len(end) : end[i].type \notin {"delta", "chunk"}
      BY ONLY <3>2, <3>3, <3>4, <3>5
    <3>7. QED BY ONLY <3>6, TellsNothing
  <2>3. QED BY <2>1, <2>2
<1> DEFINE text == IF d.index = 0 THEN d.text ELSE <<>>
<1>7. text \in Seq(STRING)
  BY <1>1, <1>3
<1> HIDE DEF text
<1>8. text \in Seq(STRING) /\ <<>> \o text = text /\ text \o <<>> = text
  BY <1>7
<1>9. Tells(start \o middle, <<>> \o text)
  BY <1>3, <1>4, <1>5, <1>8, TellsBoth DEF text
<1>10. Tells(start \o middle \o end, text \o <<>>)
  <2> DEFINE m == start \o middle
  <2> HIDE DEF m
  <2>1. Tells(m, text)
    BY <1>8, <1>9 DEF m
  <2>2. m \o end = start \o middle \o end
    BY DEF m
  <2>3. Tells(m \o end, text \o <<>>)
    BY <1>3, <1>6, <1>8, <2>1, TellsBoth
  <2>4. QED BY <2>2, <2>3
<1>11. QED BY <1>8, <1>10 DEF text

\* What an endpoint tells of a chunk is its text.
LEMMA MappedTells ==
  ASSUME endpoint # "responses", NEW c \in Chunks
  PROVE  Tells(Mapped(c), Text0(c))
<1>1. c.choices \in Seq(Deltas) /\ c.usage \in Nat /\ Text0(c) \in Seq(STRING)
  BY ChunkFields, PiecesType
<1>2. CASE endpoint = "messages"
  <2> DEFINE of(d) == (IF d.role THEN <<Event("message_start", None, None), Event("ping", None, None)>>
                       ELSE <<>>)
                      \o (IF d.text # <<>> THEN <<Event("delta", d.index, d.text)>> ELSE <<>>)
                      \o (IF d.finish = None THEN <<>>
                          ELSE <<Event("message_delta", StopReason(d.finish), c.usage),
                                 Event("message_stop", None, None)>>)
             told == [d \in Deltas |-> of(d)]
  <2>1. \A d \in Deltas : Tells(of(d), IF d.index = 0 THEN d.text ELSE <<>>)
    BY <1>1, AnthropicDelta
  <2>2. Mapped(c) = FlattenSeq([i \in DOMAIN c.choices |-> of(c.choices[i])])
    BY <1>2 DEF Mapped, AnthropicEvents
  <2> HIDE DEF of
  <2>3. \A i \in DOMAIN c.choices : c.choices[i] \in Deltas
    BY <1>1
  <2>4. \A i \in DOMAIN c.choices : told[c.choices[i]] = of(c.choices[i])
    BY <2>3
  <2>5. told \in [Deltas -> Seq(Plain)] /\ told \in [Deltas -> Seq(EventSet)]
    BY <2>1 DEF Tells
  <2> HIDE DEF told
  <2> DEFINE ee == [i \in DOMAIN c.choices |-> told[c.choices[i]]]
  <2>6. Mapped(c) = FlattenSeq(ee)
    BY <2>2, <2>4
  <2>7. ee \in Seq(Seq(Plain)) /\ ee \in Seq(Seq(EventSet))
    <3>1. \A i \in DOMAIN c.choices : ee[i] \in Seq(Plain) /\ ee[i] \in Seq(EventSet)
      BY <2>3, <2>5
    <3>2. DOMAIN c.choices = 1..Len(c.choices) /\ Len(c.choices) \in Nat
      BY <1>1
    <3>3. ee \in [1..Len(c.choices) -> Seq(Plain)] /\ ee \in [1..Len(c.choices) -> Seq(EventSet)]
      BY <3>1, <3>2
    <3> HIDE DEF ee
    <3>4. QED BY <3>2, <3>3, SeqDef
  <2>8. Mapped(c) \in Seq(Plain) /\ Mapped(c) \in Seq(EventSet)
    BY <2>6, <2>7, FlattenType
  <2>9. Joined(SaidWords, FlattenSeq(ee)) = FlattenSeq([j \in DOMAIN ee |-> Joined(SaidWords, ee[j])])
    <3> HIDE DEF ee
    <3>1. QED BY <2>7, SaidWordsType, JoinedJoin
  <2>10. \A j \in DOMAIN c.choices :
           Joined(SaidWords, ee[j]) = IF c.choices[j].index = 0 THEN c.choices[j].text ELSE <<>>
    <3> TAKE j \in DOMAIN c.choices
    <3>1. ee[j] = of(c.choices[j]) /\ c.choices[j] \in Deltas
      BY <2>3, <2>4
    <3>2. Tells(ee[j], IF c.choices[j].index = 0 THEN c.choices[j].text ELSE <<>>)
      BY <2>1, <3>1
    <3> HIDE DEF ee
    <3>3. QED BY <3>2, TextInJoined DEF Tells
  <2>11. [j \in DOMAIN ee |-> Joined(SaidWords, ee[j])]
           = [i \in DOMAIN c.choices |-> IF c.choices[i].index = 0 THEN c.choices[i].text ELSE <<>>]
    BY <2>10
  <2>12. TextIn(Mapped(c)) = Text0(c)
    BY <2>6, <2>8, <2>9, <2>11, TextInJoined DEF Text0
  <2>13. QED BY <2>8, <2>12 DEF Tells
<1>3. CASE endpoint # "messages"
  <2> DEFINE x == Event("chunk", None, c)
  <2>1. x \in EventSet /\ x.type = "chunk" /\ x.data = c
    <3>1. c \in DataSet /\ None \in Outs /\ "chunk" \in Types
      BY DataTypes DEF Outs, Types
    <3> HIDE DEF DataSet, Types, Outs, Chunks
    <3>2. QED BY <3>1 DEF Event, EventSet, AnyEvents
  <2>2. Mapped(c) = <<x>>
    BY <1>3 DEF Mapped
  <2> HIDE DEF x
  <2>3. SaidBy(x) = Text0(c)
    BY <2>1 DEF SaidBy
  <2>4. x \in Plain
    BY <2>1 DEF Plain
  <2>5. <<x>> \in Seq(Plain) /\ <<x>> \in Seq(EventSet)
    BY <2>1, <2>4
  <2>6. TextIn(<<x>>) = Joined(SaidWords, <<x>>)
    BY <2>5, TextInJoined
  <2>7. Joined(SaidWords, <<x>>) = SaidWords[x]
    BY <2>1, SaidWordsType, JoinedOne
  <2>8. SaidWords[x] = SaidBy(x)
    BY <2>1 DEF SaidWords
  <2>9. QED BY <2>2, <2>3, <2>5, <2>6, <2>7, <2>8 DEF Tells
<1>4. QED BY <1>2, <1>3

-----------------------------------------------------------------------------
(* What the network does to a connection *)

\* The parser goes by the same lines as before.
Keeps(u, v) ==
    /\ ParserOK(v) /\ v.heard = u.heard /\ v.broke = u.broke /\ Used(v) = Used(u)
    /\ Settled(u) => Settled(v) /\ Came(v) = Came(u)

\* As long as the connection is open and its script and [DONE] stay where they are.
LEMMA KeepsIf ==
  ASSUME NEW u, ParserOK(u), u.end = "open",
         NEW v, ParserOK(v), v.script = u.script, v.n \in u.n..Len(u.script), Taken(v) = Taken(u),
         v.end # "over", v.heard = u.heard, v.broke = u.broke
  PROVE  Keeps(u, v)
<1>1. Used(v) = Used(u)
  BY DEF Used, LastInPart
<1>2. ASSUME Settled(u)
      PROVE  Settled(v) /\ Came(v) = Came(u)
  <2>1. u.n \in Nat /\ v.n \in Nat /\ u.n <= v.n
    BY UsedType
  <2>2. PICK m \in 1..u.n : /\ u.script[m].kind = "done"
                            /\ \A i \in 1..(m - 1) : u.script[i].kind # "done"
    BY <1>2 DEF Settled
  <2>3. m \in 1..v.n
    BY <2>1
  <2>4. Settled(v)
    BY <2>2, <2>3 DEF Settled
  <2>5. Came(u) = SubSeq(u.script, 1, m - 1)
    BY <2>2, CameDone
  <2>6. Came(v) = SubSeq(v.script, 1, m - 1)
    BY <2>2, <2>3, CameDone
  <2>7. QED BY <2>4, <2>5, <2>6
<1>3. QED BY <1>1, <1>2 DEF Keeps

\* A line comes.
LEMMA ArriveKeeps ==
  ASSUME NEW u, ParserOK(u), u.end = "open", u.n < Len(u.script),
         NEW v, v = [u EXCEPT !.n = @ + 1, !.buf = Append(@, u.script[u.n + 1]), !.tail = NoTail]
  PROVE  Keeps(u, v)
<1> DEFINE l == u.script[u.n + 1]
           b == Append(u.buf, l)
           S == Len(u.script)
           B == Len(u.buf)
<1>1. /\ u.script \in Seq(Lines) /\ u.n \in Nat /\ u.n < S /\ u.buf \in Seq(Lines)
      /\ S \in Nat /\ B \in Nat /\ B <= u.n /\ u \in Connections
      /\ \A i \in 1..B : u.buf[i] = u.script[Taken(u) + i]
  <2>1. \A i \in 1..B : u.buf[i] = u.script[Taken(u) + i]
    BY DEF ParserOK
  <2>2. QED BY <2>1, UsedType DEF ParserOK
<1>2. l \in Lines
  <2>1. u.n + 1 \in 1..S
    BY <1>1
  <2>2. QED BY <1>1, <2>1
<1>3. v \in Connections /\ v.script = u.script /\ v.n = u.n + 1 /\ v.buf = b /\ v.end = u.end
      /\ v.heard = u.heard /\ v.broke = u.broke
  <2>1. b \in Seq(Lines) /\ u.n + 1 \in Nat
    BY <1>1, <1>2
  <2>2. v = [u EXCEPT !.n = u.n + 1, !.buf = b, !.tail = NoTail]
    OBVIOUS
  <2> HIDE DEF b, NoTail, Lines
  <2>3. QED BY <1>1, <2>1, <2>2 DEF Connections
<1>4. b \in Seq(Lines) /\ Len(b) = B + 1 /\ b[B + 1] = l /\ \A i \in 1..B : b[i] = u.buf[i]
  BY <1>1, <1>2
<1> HIDE DEF l, b
<1>5. Taken(v) = Taken(u)
  BY <1>1, <1>3, <1>4 DEF Taken
<1>6. \A i \in 1..Len(v.buf) : v.buf[i] = v.script[Taken(v) + i]
  <2> TAKE i \in 1..Len(v.buf)
  <2>1. i \in 1..B \/ i = B + 1
    BY <1>1, <1>3, <1>4
  <2>2. CASE i \in 1..B
    BY <1>1, <1>3, <1>4, <1>5, <2>2
  <2>3. CASE i = B + 1
    <3>1. Taken(u) + i = u.n + 1
      BY <1>1, <2>3 DEF Taken
    <3>2. QED BY <1>3, <1>4, <1>5, <2>3, <3>1 DEF l
  <2>4. QED BY <2>1, <2>2, <2>3
<1>7. ParserOK(v)
  BY <1>1, <1>3, <1>4, <1>6 DEF ParserOK
<1>8. v.n \in u.n..Len(u.script) /\ v.end # "over"
  BY <1>1, <1>3
<1>9. QED BY <1>3, <1>5, <1>7, <1>8, KeepsIf

\* A part of a line comes, or the connection closes.
LEMMA TailKeeps ==
  ASSUME NEW u, ParserOK(u), u.end = "open", NEW v,
         \/ \E how \in {"eof", "reset"} : v = [u EXCEPT !.end = how]
         \/ /\ u.n < Len(u.script)
            /\ \E part \in {Fragment, u.script[u.n + 1]} : v = [u EXCEPT !.tail = part]
  PROVE  Keeps(u, v)
<1>1. /\ u.script \in Seq(Lines) /\ u.n \in 0..Len(u.script) /\ u \in Connections
      /\ Len(u.script) \in Nat
      /\ \A i \in 1..Len(u.buf) : u.buf[i] = u.script[Taken(u) + i]
  <2>1. \A i \in 1..Len(u.buf) : u.buf[i] = u.script[Taken(u) + i]
    BY DEF ParserOK
  <2>2. QED BY <2>1, UsedType DEF ParserOK
<1>2. /\ v \in Connections /\ v.script = u.script /\ v.n = u.n /\ v.buf = u.buf /\ v.heard = u.heard
      /\ v.broke = u.broke /\ v.end # "over"
  <2>1. CASE \E how \in {"eof", "reset"} : v = [u EXCEPT !.end = how]
    <3> HIDE DEF Lines, Chunks
    <3>1. QED BY <1>1, <2>1 DEF Connections
  <2>2. CASE /\ u.n < Len(u.script)
             /\ \E part \in {Fragment, u.script[u.n + 1]} : v = [u EXCEPT !.tail = part]
    <3>1. PICK part \in {Fragment, u.script[u.n + 1]} : v = [u EXCEPT !.tail = part]
      BY <2>2
    <3>2. u.n + 1 \in 1..Len(u.script)
      BY <1>1, <2>2
    <3>3. part \in Lines \cup {NoTail, Fragment}
      BY <1>1, <3>2
    <3> HIDE DEF Lines, Chunks, NoTail, Fragment
    <3>4. QED BY <1>1, <3>1, <3>3 DEF Connections
  <2>3. QED BY <2>1, <2>2
<1>3. Taken(v) = Taken(u)
  BY <1>2 DEF Taken
<1>4. ParserOK(v)
  BY <1>1, <1>2, <1>3 DEF ParserOK
<1>5. v.n \in u.n..Len(u.script)
  BY <1>1, <1>2
<1>6. QED BY <1>2, <1>3, <1>4, <1>5, KeepsIf

\* A connection that was just made.
LEMMA NewIsOK ==
  ASSUME NEW script \in Seq(Lines), NEW u, u = NewConnection(script)
  PROVE  /\ ParserOK(u) /\ Used(u) = <<>> /\ NoDone(Used(u)) /\ LastUsage(Used(u)) = 0
         /\ TextOf(Used(u)) = <<>> /\ u.heard = <<>> /\ ~u.broke
<1>1. /\ u \in Connections /\ u.script = script /\ u.n = 0 /\ u.buf = <<>> /\ u.end = "open" /\ u.heard = <<>>
      /\ u.broke = FALSE
  <2>1. <<>> \in Seq(Lines) /\ <<>> \in Seq(Chunks) /\ NoTail \in Lines \cup {NoTail, Fragment}
    OBVIOUS
  <2> HIDE DEF Lines, Chunks, NoTail
  <2>2. QED BY <2>1 DEF NewConnection, Connections
<1>2. Len(u.buf) = 0 /\ Len(script) \in Nat
  BY <1>1
<1>3. ParserOK(u)
  BY <1>1, <1>2 DEF ParserOK
<1>4. Used(u) = <<>>
  <2>1. LastInPart(u) = <<>>
    BY <1>1 DEF LastInPart
  <2>2. Taken(u) = 0
    <3>1. u.n = 0 /\ Len(u.buf) = 0
      BY <1>1, <1>2
    <3>2. QED BY ONLY <3>1 DEF Taken
  <2>3. SubSeq(script, 1, 0) = <<>>
    OBVIOUS
  <2>4. QED BY <1>1, <2>1, <2>2, <2>3 DEF Used
<1>5. DOMAIN <<>> = {} /\ <<>> \in Seq(Lines)
  OBVIOUS
<1>6. LastUsage(<<>>) = 0
  BY <1>5 DEF LastUsage
<1>7. TextOf(<<>>) = <<>>
  BY <1>5, TextOfJoined, LineWordsType, JoinedEmpty
<1>8. NoDone(<<>>)
  BY <1>5 DEF NoDone
<1>9. QED BY <1>1, <1>3, <1>4, <1>6, <1>7, <1>8

-----------------------------------------------------------------------------
(* The shape of a request *)

Early == {"new", "loading", "tracked", "refused"}
Fresh ==
    /\ up = NewConnection(<<>>) /\ relay = NoRelay /\ chan = <<>>
    /\ captured = 0 /\ sent = <<>> /\ rows = <<>>

\* Which parts are in play in which phase, and what the guards and the rows are there.
Shape ==
    /\ endpoint \in Endpoints /\ stream \in BOOLEAN /\ guards \in BOOLEAN
    /\ phase \in Early \cup {"body", "ended", "gone"}
    /\ relay = [pc |-> relay.pc, st |-> relay.st, pending |-> relay.pending]
    /\ relay.pc \in {"none", "reading", "closing", "stopped"}
    /\ relay.pc = "none" => relay = NoRelay
    /\ phase \in Early => Fresh /\ (guards <=> phase = "tracked")
    /\ phase = "body" =>
          /\ stream /\ guards /\ rows = <<>>
          /\ endpoint = "responses" => relay.pc # "none"
    /\ phase = "ended" =>
          /\ ~guards
          /\ stream => rows = <<captured>>
          /\ stream /\ endpoint = "responses" => relay.pc = "stopped" /\ chan = <<>>
    /\ phase = "gone" =>
          /\ ~guards /\ chan = <<>>
          /\ Fresh \/ (stream /\ Len(rows) = 1 /\ (endpoint = "responses" => relay.pc # "none"))
    /\ ~stream => /\ up = NewConnection(<<>>) /\ relay = NoRelay
                  /\ Len(rows) <= 1 /\ (rows # <<>> => phase = "ended")
    /\ endpoint # "responses" => relay = NoRelay /\ chan = <<>>

\* The relay of other endpoints.
LEMMA NoRelayIs ==
  /\ NoRelay.pc = "none" /\ NoRelay.pending = <<>>
  /\ NoRelay = [pc |-> NoRelay.pc, st |-> NoRelay.st, pending |-> NoRelay.pending]
BY DEF NoRelay

\* A record of one row.
LEMMA OneRow == \A t : Append(<<>>, t) = <<t>> /\ Len(<<t>>) = 1
OBVIOUS

\* A request begins in shape.
LEMMA ShapeInit == Init => Shape
<1> SUFFICES ASSUME Init PROVE Shape
  OBVIOUS
<1>1. endpoint \in Endpoints /\ stream \in BOOLEAN /\ phase = "new" /\ guards = FALSE /\ Fresh
  BY DEF Init, Fresh
<1>2. relay = NoRelay /\ rows = <<>> /\ Len(<<>>) = 0 /\ 0 <= 1
  BY <1>1 DEF Fresh
<1>3. phase \in Early
  BY <1>1 DEF Early
<1> HIDE DEF Fresh
<1>4. QED BY <1>1, <1>2, <1>3, NoRelayIs DEF Shape, Fresh

\* The handler's steps keep it.
LEMMA ShapeHandler ==
  ASSUME Shape,
         Accept \/ Reject \/ EnsureLoaded \/ LoadFails \/ OpenStream \/ AnswerWhole \/ CallFails
  PROVE  Shape'
<1>1. phase \in Early /\ Fresh /\ (guards <=> phase = "tracked")
  BY DEF Shape, Accept, Reject, EnsureLoaded, LoadFails, OpenStream, AnswerWhole, AnswerChat,
         AnswerCompletion, AnswerMessage, AnswerResponse, Answer, CallFails, Early
<1>2. UNCHANGED asked /\ endpoint \in Endpoints /\ stream \in BOOLEAN /\ guards \in BOOLEAN
  BY DEF Shape, Accept, Reject, EnsureLoaded, LoadFails, OpenStream, AnswerWhole, AnswerChat,
         AnswerCompletion, AnswerMessage, AnswerResponse, Answer, CallFails
<1>3. endpoint' = endpoint /\ stream' = stream
  BY <1>2 DEF asked
<1>4. relay = NoRelay /\ rows = <<>> /\ Len(<<>>) = 0 /\ 0 <= 1
  BY <1>1 DEF Fresh
<1>5. CASE Accept \/ Reject \/ EnsureLoaded \/ LoadFails \/ CallFails
  <2>1. Fresh'
    BY <1>1, <1>5 DEF Fresh, Accept, Reject, EnsureLoaded, LoadFails, CallFails, Body
  <2>2. phase' \in Early /\ guards' \in BOOLEAN /\ (guards' <=> phase' = "tracked")
    <3>1. CASE EnsureLoaded
      BY <3>1 DEF EnsureLoaded, Early
    <3>2. CASE CallFails
      BY <3>2 DEF CallFails, Early
    <3>3. CASE Accept \/ Reject \/ LoadFails
      <4>1. phase \in {"new", "loading"} /\ guards' = guards /\ phase' \in {"refused", "loading"}
        BY <3>3 DEF Accept, Reject, LoadFails
      <4>2. QED BY <1>1, <1>2, <4>1 DEF Early
    <3>4. QED BY <1>5, <3>1, <3>2, <3>3
  <2>3. phase' \notin {"body", "ended", "gone"}
    BY <2>2 DEF Early
  <2>4. relay' = NoRelay /\ rows' = <<>> /\ up' = NewConnection(<<>>) /\ chan' = <<>>
    BY <2>1 DEF Fresh
  <2> HIDE DEF Fresh
  <2>5. QED BY <1>2, <1>3, <1>4, <2>1, <2>2, <2>3, <2>4, NoRelayIs DEF Shape
<1>6. CASE OpenStream
  <2>1. /\ phase' = "body" /\ stream /\ guards /\ guards' = guards /\ rows' = <<>> /\ chan' = <<>>
        /\ endpoint # "responses" => relay' = NoRelay
        /\ endpoint = "responses" => relay' = [pc |-> "reading", st |-> Started.st, pending |-> Started.ev]
    BY <1>1, <1>6 DEF OpenStream, Fresh
  <2>2. /\ relay' = [pc |-> relay'.pc, st |-> relay'.st, pending |-> relay'.pending]
        /\ relay'.pc \in {"none", "reading"} /\ (relay'.pc = "none" => relay' = NoRelay)
        /\ endpoint = "responses" => relay'.pc # "none"
    BY <2>1, NoRelayIs
  <2>3. "body" \notin Early
    BY DEF Early
  <2>4. QED BY <1>2, <1>3, <2>1, <2>2, <2>3 DEF Shape
<1>7. CASE AnswerWhole
  <2>1. /\ phase = "tracked" /\ ~stream /\ phase' = "ended" /\ guards' = FALSE
        /\ UNCHANGED <<up, relay, chan, captured>>
    BY <1>7 DEF AnswerWhole, AnswerChat, AnswerCompletion, AnswerMessage, AnswerResponse, Answer
  <2>2. rows' = rows \/ \E t : rows' = Append(rows, t)
    BY <1>7 DEF AnswerWhole, AnswerChat, AnswerCompletion, AnswerMessage, AnswerResponse, RecordUsage
  <2>3. Len(rows') <= 1
    <3>1. CASE rows' = rows
      BY <1>4, <3>1
    <3>2. CASE \E t : rows' = Append(rows, t)
      <4>1. PICK t : rows' = Append(rows, t)
        BY <3>2
      <4>2. rows' = <<t>>
        BY <1>4, <4>1, OneRow
      <4>3. QED BY <4>2, OneRow
    <3>3. QED BY <2>2, <3>1, <3>2
  <2>4. up' = NewConnection(<<>>) /\ relay' = NoRelay /\ chan' = <<>>
    BY <1>1, <2>1 DEF Fresh
  <2>5. "ended" \notin Early
    BY DEF Early
  <2>6. QED BY <1>2, <1>3, <2>1, <2>3, <2>4, <2>5, NoRelayIs DEF Shape
<1>8. QED BY <1>5, <1>6, <1>7

\* And so do those of the stream.
LEMMA ShapeStream ==
  ASSUME Shape,
         Arrive \/ ArriveInPart \/ Close \/ Pull \/ RelayRead \/ RelaySend \/ Receive \/ BodyEnds
            \/ Disconnect
  PROVE  Shape'
<1>1. UNCHANGED asked
  BY DEF Arrive, ArriveInPart, Close, Pull, RelayRead, RelaySend, Receive, BodyEnds, Disconnect
<1>2. endpoint' = endpoint /\ stream' = stream /\ endpoint \in Endpoints /\ stream \in BOOLEAN
      /\ guards \in BOOLEAN /\ "body" \notin Early /\ "ended" \notin Early /\ "gone" \notin Early
      /\ FALSE \in BOOLEAN
  BY <1>1 DEF asked, Shape, Early
<1>3. Fresh => relay.pc = "none"
  BY NoRelayIs DEF Fresh
<1>4. ASSUME Live
      PROVE  /\ (stream /\ phase \in {"body", "gone"} /\ ~Fresh) \/ phase = "body"
             /\ phase \notin Early
  <2>1. relay.pc = "reading" => ~Fresh /\ phase \notin Early /\ phase # "ended" /\ stream
    BY <1>3, NoRelayIs DEF Shape
  <2>2. phase = "body" => stream /\ phase \notin Early
    BY <1>2 DEF Shape
  <2>3. phase \in Early \cup {"body", "ended", "gone"}
    BY DEF Shape
  <2>4. QED BY <1>4, <2>1, <2>2, <2>3 DEF Live
<1>5. CASE Arrive \/ ArriveInPart \/ Close
  <2>1. UNCHANGED <<phase, relay, chan, captured, sent, guards, rows>> /\ Live
    BY <1>5 DEF Arrive, ArriveInPart, Close, Coming
  <2>2. /\ phase \notin Early /\ phase # "ended" /\ stream
        /\ phase = "gone" => stream /\ Len(rows) = 1 /\ (endpoint = "responses" => relay.pc # "none")
    BY <1>4, <2>1 DEF Shape
  <2> HIDE DEF Fresh
  <2>3. QED BY <1>2, <2>1, <2>2 DEF Shape
<1>6. CASE Pull
  <2>1. /\ phase = "body" /\ endpoint # "responses" /\ UNCHANGED <<relay, chan>>
        /\ \/ Release /\ phase' = "ended" /\ captured' = captured
           \/ UNCHANGED <<guards, rows, phase>>
    <3>1. PICK p \in {Polled(up)} :
             /\ captured' = IF p.got = "chunk" THEN Capture(Last(p.up.heard)) ELSE captured
             /\ IF p.got = "end" THEN Release /\ phase' = "ended"
                ELSE UNCHANGED <<guards, rows, phase>>
      BY <1>6 DEF Pull
    <3>2. phase = "body" /\ endpoint # "responses" /\ UNCHANGED <<relay, chan>>
      BY <1>6 DEF Pull
    <3> HIDE DEF Release
    <3>3. CASE p.got = "end"
      BY <3>1, <3>2, <3>3
    <3>4. CASE p.got # "end"
      BY <3>1, <3>2, <3>4
    <3>5. QED BY <3>3, <3>4
  <2>2. stream /\ guards /\ rows = <<>> /\ relay = NoRelay /\ chan = <<>>
    BY <2>1 DEF Shape
  <2>3. CASE Release /\ phase' = "ended" /\ captured' = captured
    <3>1. guards' = FALSE /\ rows' = <<captured'>>
      BY <2>2, <2>3 DEF Release
    <3> HIDE DEF Fresh
    <3>2. QED BY <1>2, <2>1, <2>2, <2>3, <3>1, NoRelayIs DEF Shape
  <2>4. CASE UNCHANGED <<guards, rows, phase>>
    <3> HIDE DEF Fresh
    <3>1. QED BY <1>2, <2>1, <2>2, <2>4, NoRelayIs DEF Shape
  <2>5. QED BY <2>1, <2>3, <2>4
<1>7. CASE RelayRead
  <2>1. /\ relay.pc = "reading" /\ UNCHANGED <<phase, chan, sent, guards, rows>>
        /\ relay' = [pc |-> relay'.pc, st |-> relay'.st, pending |-> relay'.pending]
        /\ relay'.pc \in {"reading", "closing"}
    <3>1. PICK p \in {Polled(up)} :
             /\ p.got # "pending"
             /\ relay' = CASE p.got = "chunk" -> Applied(relay.st, Last(p.up.heard))
                           [] p.got = "error" -> [relay EXCEPT !.pc = "closing", !.pending = AfterError]
                           [] p.got = "end"   -> [relay EXCEPT !.pc = "closing", !.pending = Closing(relay.st)]
      BY <1>7 DEF RelayRead
    <3>2. p.got \in {"chunk", "error", "end"}
      BY <3>1 DEF Polled, LastLine
    <3>3. relay.pc = "reading" /\ UNCHANGED <<phase, chan, sent, guards, rows>>
      BY <1>7 DEF RelayRead
    <3>4. relay = [pc |-> relay.pc, st |-> relay.st, pending |-> relay.pending]
      BY DEF Shape
    <3> DEFINE a == ApplyChunk(relay.st, Last(p.up.heard))
               z == Closing(relay.st)
    <3>5. Applied(relay.st, Last(p.up.heard)) = [pc |-> "reading", st |-> a.st, pending |-> a.ev]
      BY DEF Applied
    <3> HIDE DEF a, z, AfterError
    <3>6. CASE p.got = "chunk"
      <4>1. relay' = [pc |-> "reading", st |-> a.st, pending |-> a.ev]
        BY <3>1, <3>5, <3>6
      <4>2. QED BY ONLY <3>3, <4>1
    <3>7. CASE p.got = "error"
      <4>1. relay' = [pc |-> "closing", st |-> relay.st, pending |-> AfterError]
        BY <3>1, <3>4, <3>7
      <4>2. QED BY ONLY <3>3, <4>1
    <3>8. CASE p.got = "end"
      <4>1. relay' = [pc |-> "closing", st |-> relay.st, pending |-> z]
        BY <3>1, <3>4, <3>8 DEF z
      <4>2. QED BY ONLY <3>3, <4>1
    <3>9. QED BY <3>2, <3>6, <3>7, <3>8
  <2>2. relay # NoRelay /\ ~Fresh /\ endpoint = "responses" /\ stream
    BY <2>1, NoRelayIs DEF Shape, Fresh
  <2>3. /\ phase \notin Early /\ phase # "ended"
        /\ phase = "gone" => stream /\ Len(rows) = 1
    BY <2>1, <2>2 DEF Shape
  <2> HIDE DEF Fresh
  <2>4. QED BY <1>2, <2>1, <2>2, <2>3 DEF Shape
<1>8. CASE RelaySend
  <2>1. UNCHANGED <<phase, sent, guards, rows, captured, up>> /\ relay.pending # <<>>
        /\ \/ phase # "body" /\ relay' = [relay EXCEPT !.pc = "stopped", !.pending = <<>>] /\ UNCHANGED chan
           \/ /\ phase = "body"
              /\ relay' = [relay EXCEPT !.pending = Tail(@),
                            !.pc = IF @ = "closing" /\ Len(relay.pending) = 1 THEN "stopped" ELSE @]
    BY <1>8 DEF RelaySend
  <2>2. relay # NoRelay /\ ~Fresh /\ endpoint = "responses" /\ stream /\ relay.pc # "none"
    <3>1. relay # NoRelay
      BY <2>1, NoRelayIs
    <3>2. QED BY <3>1, NoRelayIs DEF Shape, Fresh
  <2>3. /\ relay' = [pc |-> relay'.pc, st |-> relay'.st, pending |-> relay'.pending]
        /\ relay'.pc \in {"reading", "closing", "stopped"}
        /\ phase # "body" => relay'.pc = "stopped" /\ UNCHANGED chan
    <3> DEFINE t == Tail(relay.pending)
               one == Len(relay.pending) = 1
    <3>1. /\ relay = [pc |-> relay.pc, st |-> relay.st, pending |-> relay.pending]
          /\ relay.pc \in {"reading", "closing", "stopped"}
      BY <2>2 DEF Shape
    <3>2. CASE phase # "body"
      <4>1. relay' = [pc |-> "stopped", st |-> relay.st, pending |-> <<>>] /\ UNCHANGED chan
        BY <2>1, <3>1, <3>2
      <4>2. QED BY ONLY <4>1
    <3>3. CASE phase = "body"
      <4>1. relay' = [relay EXCEPT !.pending = t, !.pc = IF @ = "closing" /\ one THEN "stopped" ELSE @]
        BY <2>1, <3>3
      <4> HIDE DEF t, one
      <4>2. relay' = [pc |-> IF relay.pc = "closing" /\ one THEN "stopped" ELSE relay.pc,
                      st |-> relay.st, pending |-> t]
        BY <3>1, <4>1
      <4>3. QED BY ONLY <3>1, <3>3, <4>2
    <3>4. QED BY <3>2, <3>3
  <2>4. /\ phase \notin Early /\ phase \in {"body", "ended", "gone"}
        /\ phase = "gone" => stream /\ Len(rows) = 1 /\ chan = <<>> /\ ~guards
        /\ phase = "ended" => chan = <<>> /\ ~guards /\ rows = <<captured>>
        /\ phase = "body" => guards /\ rows = <<>>
    BY <2>2 DEF Shape
  <2> HIDE DEF Fresh
  <2>5. QED BY <1>2, <2>1, <2>2, <2>3, <2>4 DEF Shape
<1>9. CASE Receive
  <2>1. UNCHANGED <<phase, up, relay, captured, guards, rows>> /\ phase = "body" /\ chan # <<>>
    BY <1>9 DEF Receive
  <2>2. endpoint = "responses" /\ stream
    BY <2>1 DEF Shape
  <2> HIDE DEF Fresh
  <2>3. QED BY <1>2, <2>1, <2>2 DEF Shape
<1>10. CASE BodyEnds
  <2>1. /\ UNCHANGED <<up, relay, chan, captured, sent>> /\ phase = "body" /\ relay.pc = "stopped"
        /\ chan = <<>> /\ phase' = "ended" /\ guards' = FALSE /\ rows' = Append(rows, captured)
    BY <1>10 DEF BodyEnds, Release
  <2>2. stream /\ endpoint = "responses" /\ rows = <<>>
    BY <2>1, NoRelayIs DEF Shape
  <2>3. rows' = <<captured'>>
    BY <2>1, <2>2
  <2> HIDE DEF Fresh
  <2>4. QED BY <1>2, <2>1, <2>2, <2>3 DEF Shape
<1>11. CASE Disconnect
  <2>1. /\ phase' = "gone" /\ chan' = <<>> /\ guards' = FALSE
        /\ phase \in {"loading", "tracked", "body"}
        /\ UNCHANGED <<up, relay, captured, sent>>
        /\ phase = "body" => rows' = Append(rows, captured)
        /\ phase # "body" => rows' = rows
    BY <1>11 DEF Disconnect, Release
  <2>2. CASE phase = "body"
    <3>1. stream /\ rows = <<>> /\ (endpoint = "responses" => relay.pc # "none")
      BY <2>2 DEF Shape
    <3>2. Len(rows') = 1
      BY <2>1, <2>2, <3>1, OneRow
    <3> HIDE DEF Fresh
    <3>3. QED BY <1>2, <2>1, <3>1, <3>2 DEF Shape
  <2>3. CASE phase # "body"
    <3>1. Fresh
      BY <2>1, <2>3 DEF Shape, Early
    <3>2. Fresh' /\ rows' = <<>> /\ relay' = NoRelay /\ up' = NewConnection(<<>>)
      BY <2>1, <2>3, <3>1 DEF Fresh
    <3>3. Len(<<>>) = 0 /\ 0 <= 1
      OBVIOUS
    <3> HIDE DEF Fresh
    <3>4. QED BY <1>2, <2>1, <3>2, <3>3, NoRelayIs DEF Shape
  <2>4. QED BY <2>2, <2>3
<1>12. QED BY <1>5, <1>6, <1>7, <1>8, <1>9, <1>10, <1>11

\* Which parts of a request are in play in which phase; guards and rows go together.
THEOREM ShapeCorrect == Spec => []Shape
<1>1. Init => Shape
  BY ShapeInit
<1>2. Shape /\ [Next]_vars => Shape'
  <2> SUFFICES ASSUME Shape, [Next]_vars PROVE Shape'
    OBVIOUS
  <2>1. CASE Next
    <3>1. CASE Finished
      <4>1. UNCHANGED vars
        BY <3>1 DEF Finished
      <4>2. QED BY <4>1 DEF vars, asked, Shape, Fresh
    <3>2. CASE ~Finished
      <4>1. \/ Accept \/ Reject \/ EnsureLoaded \/ LoadFails \/ OpenStream \/ AnswerWhole \/ CallFails
            \/ Arrive \/ ArriveInPart \/ Close \/ Pull \/ RelayRead \/ RelaySend \/ Receive \/ BodyEnds
            \/ Disconnect
        BY <2>1, <3>2 DEF Next
      <4>2. QED BY <4>1, ShapeHandler, ShapeStream
    <3>3. QED BY <3>1, <3>2
  <2>2. CASE UNCHANGED vars
    BY <2>2 DEF vars, asked, Shape, Fresh
  <2>3. QED BY <2>1, <2>2
<1>3. QED BY <1>1, <1>2, PTL DEF Spec

-----------------------------------------------------------------------------
(* The parser keeps up *)

\* Somebody still asks the parser.
Asking == relay.pc = "reading" \/ (phase = "body" /\ endpoint # "responses")
\* Nobody does: all there is to say has been produced.
Answered == stream /\ (phase = "ended" \/ (phase = "body" /\ relay.pc \in {"closing", "stopped"}))

\* What is captured is the usage of the lines used so far, and at last of all that came.
Following ==
    /\ ParserOK(up)
    /\ Asking => NoDone(Used(up)) /\ captured = LastUsage(Used(up))
    /\ Answered => Settled(up) /\ captured = LastUsage(Came(up))

\* A request begins so.
LEMMA FollowingInit == Init => Following
<1> SUFFICES ASSUME Init PROVE Following
  OBVIOUS
<1>1. up = NewConnection(<<>>) /\ relay.pc = "none" /\ phase = "new"
  BY NoRelayIs DEF Init
<1>2. <<>> \in Seq(Lines)
  OBVIOUS
<1>3. ParserOK(up)
  BY <1>1, <1>2, NewIsOK
<1>4. ~Asking /\ ~Answered
  BY <1>1 DEF Asking, Answered
<1>5. QED BY <1>3, <1>4 DEF Following

\* One asked once more.
LEMMA FollowingPolled ==
  ASSUME ParserOK(up), NoDone(Used(up)), captured = LastUsage(Used(up)),
         NEW p, p = Polled(up), up' = p.up, p.got # "pending",
         captured' = IF p.got = "chunk" THEN Capture(Last(p.up.heard)) ELSE captured
  PROVE  /\ ParserOK(up') /\ p.got \in {"chunk", "error", "end"}
         /\ p.got = "chunk" => NoDone(Used(up')) /\ captured' = LastUsage(Used(up'))
         /\ p.got = "error" => /\ NoDone(Used(up')) /\ captured' = LastUsage(Used(up'))
                               /\ Settled(up') /\ captured' = LastUsage(Came(up'))
         /\ p.got = "end" => Settled(up') /\ captured' = LastUsage(Came(up'))
<1>1. PolledWell(up, p)
  BY PolledGives
<1>2. CASE p.got = "chunk"
  <2> DEFINE c == Last(p.up.heard)
  <2>1. Consumes(up, p.up, c)
    BY <1>1, <1>2 DEF PolledWell
  <2>2. captured' = IF c.usage = 0 THEN captured ELSE c.usage
    BY <1>2 DEF Capture
  <2> HIDE DEF c
  <2>3. QED BY <1>2, <2>1, <2>2 DEF Consumes, SaysChunk
<1>3. CASE p.got = "error"
  <2>1. Breaks(up, p.up) /\ captured' = captured
    BY <1>1, <1>3 DEF PolledWell
  <2>2. QED BY <1>3, <2>1 DEF Breaks, Quits
<1>4. CASE p.got = "end"
  <2>1. Quits(up, p.up) /\ captured' = captured
    BY <1>1, <1>4 DEF PolledWell
  <2>2. QED BY <1>4, <2>1 DEF Quits
<1>5. QED BY <1>1, <1>2, <1>3, <1>4 DEF PolledWell

\* What keeps the connection as it is.
LEMMA FollowingKept ==
  ASSUME Following, Keeps(up, up'), captured' = captured,
         Asking' => Asking, Answered' => Answered
  PROVE  Following'
BY DEF Following, Keeps

\* A connection is not touched.
LEMMA SameKeeps == ASSUME NEW u, ParserOK(u) PROVE Keeps(u, u)
BY DEF Keeps

\* Every step keeps up.
LEMMA FollowingStep ==
  ASSUME Shape, Following, [Next]_vars
  PROVE  Following'
<1>1. ParserOK(up)
  BY DEF Following
<1>2. CASE UNCHANGED vars
  <2>1. up' = up /\ captured' = captured /\ (Asking' <=> Asking) /\ (Answered' <=> Answered)
    BY <1>2 DEF vars, asked, Asking, Answered
  <2>2. Keeps(up, up')
    BY <1>1, <2>1, SameKeeps
  <2>3. QED BY <2>1, <2>2, FollowingKept
<1>3. CASE Accept \/ Reject \/ EnsureLoaded \/ LoadFails \/ AnswerWhole \/ CallFails \/ Disconnect
  <2>1. up' = up /\ captured' = captured /\ relay' = relay /\ UNCHANGED asked
    BY <1>3 DEF Accept, Reject, EnsureLoaded, LoadFails, AnswerWhole, AnswerChat,
         AnswerCompletion, AnswerMessage, AnswerResponse, Answer, CallFails, Disconnect, Body
  <2>2. phase' \in {"refused", "loading", "tracked", "gone"} \/ (phase' = "ended" /\ ~stream)
    BY <1>3 DEF Accept, Reject, EnsureLoaded, LoadFails, AnswerWhole, AnswerChat,
         AnswerCompletion, AnswerMessage, AnswerResponse, Answer, CallFails, Disconnect
  <2>3. (Asking' => Asking) /\ ~Answered'
    BY <2>1, <2>2 DEF Asking, Answered, asked
  <2>4. Keeps(up, up')
    BY <1>1, <2>1, SameKeeps
  <2>5. QED BY <2>1, <2>3, <2>4, FollowingKept
<1>4. CASE OpenStream
  <2>1. PICK script \in Scripts : up' = NewConnection(script)
    BY <1>4 DEF OpenStream
  <2>2. script \in Seq(Lines)
    BY <2>1, StreamsAssumption
  <2>3. phase = "tracked" /\ phase' = "body" /\ captured' = captured /\ UNCHANGED asked
        /\ relay' = IF endpoint # "responses" THEN relay
                    ELSE [pc |-> "reading", st |-> Started.st, pending |-> Started.ev]
    BY <1>4 DEF OpenStream
  <2>4. captured = 0 /\ relay = NoRelay
    BY <2>3 DEF Shape, Early, Fresh
  <2>5. relay'.pc \in {"none", "reading"}
    BY <2>3, <2>4, NoRelayIs
  <2>6. ~Answered'
    BY <2>3, <2>5 DEF Answered
  <2>7. ParserOK(up') /\ NoDone(Used(up')) /\ LastUsage(Used(up')) = 0
    BY <2>1, <2>2, NewIsOK
  <2>8. QED BY <2>3, <2>4, <2>6, <2>7 DEF Following
<1>5. CASE Arrive \/ ArriveInPart \/ Close
  <2>1. captured' = captured /\ (Asking' => Asking) /\ (Answered' => Answered)
    BY <1>5 DEF Arrive, ArriveInPart, Close, asked, Asking, Answered
  <2>2. Keeps(up, up')
    <3>1. CASE Arrive
      <4>1. /\ up.end = "open" /\ up.n < Len(up.script)
            /\ up' = [up EXCEPT !.n = @ + 1, !.buf = Append(@, up.script[up.n + 1]), !.tail = NoTail]
        BY <3>1 DEF Arrive, Coming
      <4>2. QED BY <1>1, <4>1, ArriveKeeps
    <3>2. CASE ArriveInPart \/ Close
      <4>1. /\ up.end = "open"
            /\ \/ \E how \in {"eof", "reset"} : up' = [up EXCEPT !.end = how]
               \/ /\ up.n < Len(up.script)
                  /\ \E part \in {Fragment, up.script[up.n + 1]} : up' = [up EXCEPT !.tail = part]
        BY <3>2 DEF ArriveInPart, Close, Coming
      <4>2. QED BY <1>1, <4>1, TailKeeps
    <3>3. QED BY <1>5, <3>1, <3>2
  <2>3. QED BY <2>1, <2>2, FollowingKept
<1>6. CASE Pull
  <2>1. PICK p \in {Polled(up)} :
          /\ p.got # "pending" /\ up' = p.up
          /\ captured' = IF p.got = "chunk" THEN Capture(Last(p.up.heard)) ELSE captured
          /\ IF p.got = "end" THEN Release /\ phase' = "ended" ELSE UNCHANGED <<guards, rows, phase>>
    BY <1>6 DEF Pull
  <2>2. phase = "body" /\ endpoint # "responses" /\ relay' = relay /\ UNCHANGED asked /\ relay = NoRelay
    BY <1>6 DEF Pull, Shape
  <2>3. NoDone(Used(up)) /\ captured = LastUsage(Used(up))
    BY <2>2 DEF Following, Asking
  <2>4. /\ ParserOK(up')
        /\ p.got # "end" => NoDone(Used(up')) /\ captured' = LastUsage(Used(up'))
        /\ p.got = "end" => Settled(up') /\ captured' = LastUsage(Came(up'))
    BY <1>1, <2>1, <2>3, FollowingPolled
  <2>5. p.got = "end" => ~Asking'
    BY <2>1, <2>2, NoRelayIs DEF Asking
  <2>6. p.got # "end" => ~Answered'
    BY <2>1, <2>2, NoRelayIs DEF Answered
  <2>7. QED BY <2>4, <2>5, <2>6 DEF Following
<1>7. CASE RelayRead
  <2>1. PICK p \in {Polled(up)} :
          /\ p.got # "pending" /\ up' = p.up
          /\ captured' = IF p.got = "chunk" THEN Capture(Last(p.up.heard)) ELSE captured
          /\ relay' = CASE p.got = "chunk" -> Applied(relay.st, Last(p.up.heard))
                        [] p.got = "error" -> [relay EXCEPT !.pc = "closing", !.pending = AfterError]
                        [] p.got = "end"   -> [relay EXCEPT !.pc = "closing", !.pending = Closing(relay.st)]
    BY <1>7 DEF RelayRead
  <2>2. relay.pc = "reading" /\ phase' = phase /\ UNCHANGED asked /\ endpoint = "responses"
    BY <1>7, NoRelayIs DEF RelayRead, Shape
  <2>3. NoDone(Used(up)) /\ captured = LastUsage(Used(up))
    BY <2>2 DEF Following, Asking
  <2>4. /\ ParserOK(up') /\ p.got \in {"chunk", "error", "end"}
        /\ p.got = "chunk" => NoDone(Used(up')) /\ captured' = LastUsage(Used(up'))
        /\ p.got # "chunk" => Settled(up') /\ captured' = LastUsage(Came(up'))
    BY <1>1, <2>1, <2>3, FollowingPolled
  <2>5. endpoint' = endpoint
    BY <2>2 DEF asked
  <2>6. CASE p.got = "chunk"
    <3>1. relay'.pc = "reading"
      BY <2>1, <2>6 DEF Applied
    <3>2. ~Answered'
      <4>1. phase # "ended"
        BY <2>2 DEF Shape, Fresh, NoRelay
      <4>2. QED BY <2>2, <3>1, <4>1 DEF Answered
    <3>3. QED BY <2>4, <2>6, <3>2 DEF Following
  <2>7. CASE p.got # "chunk"
    <3>1. relay'.pc = "closing"
      <4>1. relay = [pc |-> relay.pc, st |-> relay.st, pending |-> relay.pending]
        BY DEF Shape
      <4> DEFINE z == Closing(relay.st)
      <4>2. p.got \in {"error", "end"}
        BY <2>4, <2>7
      <4>3. relay' = [relay EXCEPT !.pc = "closing", !.pending = AfterError]
            \/ relay' = [relay EXCEPT !.pc = "closing", !.pending = z]
        BY <2>1, <4>2
      <4> HIDE DEF z
      <4>4. QED BY <4>1, <4>3
    <3>2. ~Asking'
      BY <2>2, <2>5, <3>1 DEF Asking
    <3>3. QED BY <2>4, <2>7, <3>2 DEF Following
  <2>8. QED BY <2>6, <2>7
<1>8. CASE RelaySend \/ Receive \/ BodyEnds
  <2>1. up' = up /\ captured' = captured /\ UNCHANGED asked
    BY <1>8 DEF RelaySend, Receive, BodyEnds
  <2>2. (Asking' => Asking) /\ (Answered' => Answered)
    <3>1. CASE RelaySend
      <4>1. phase' = phase /\ relay.pending # <<>>
        BY <3>1 DEF RelaySend
      <4>2. relay = [pc |-> relay.pc, st |-> relay.st, pending |-> relay.pending]
        BY DEF Shape
      <4> DEFINE t == Tail(relay.pending)
                 one == Len(relay.pending) = 1
      <4>3. \/ phase # "body" /\ relay' = [relay EXCEPT !.pc = "stopped", !.pending = <<>>]
            \/ relay' = [relay EXCEPT !.pending = t, !.pc = IF @ = "closing" /\ one THEN "stopped" ELSE @]
        BY <3>1 DEF RelaySend
      <4> HIDE DEF t, one
      <4>4. \/ phase # "body" /\ relay'.pc = "stopped"
            \/ relay'.pc = IF relay.pc = "closing" /\ one THEN "stopped" ELSE relay.pc
        BY <4>2, <4>3
      <4>5. QED BY <2>1, <4>1, <4>4 DEF Asking, Answered, asked
    <3>2. CASE Receive \/ BodyEnds
      BY <2>1, <3>2 DEF Receive, BodyEnds, Asking, Answered, asked, Shape
    <3>3. QED BY <1>8, <3>1, <3>2
  <2>3. Keeps(up, up')
    BY <1>1, <2>1, SameKeeps
  <2>4. QED BY <2>1, <2>2, <2>3, FollowingKept
<1>9. QED BY <1>2, <1>3, <1>4, <1>5, <1>6, <1>7, <1>8 DEF Next, Finished

\* The parser keeps up with the connection, and what is captured is what came.
THEOREM FollowingCorrect == Spec => []Following
<1>1. Init => Following
  BY FollowingInit
<1>2. Shape /\ Following /\ [Next]_vars => Following'
  BY FollowingStep
<1>3. QED BY <1>1, <1>2, ShapeCorrect, PTL DEF Spec

\* Every stream is billed once, for the last usage that came (BilledOnce).
THEOREM BilledOnceCorrect == Spec => []BilledOnce
<1>1. Shape /\ Following => BilledOnce
  <2> SUFFICES ASSUME Shape, Following PROVE BilledOnce
    OBVIOUS
  <2>1. guards => rows = <<>>
    <3>1. guards => phase \in {"tracked", "body"}
      BY DEF Shape, Early
    <3>2. QED BY <3>1 DEF Shape, Early, Fresh
  <2>2. up.script # <<>> /\ ~guards => Len(rows) = 1
    <3>1. NewConnection(<<>>).script = <<>>
      BY DEF NewConnection
    <3>2. up.script # <<>> => ~Fresh /\ phase \notin Early /\ stream
      BY <3>1 DEF Shape, Fresh
    <3>3. Len(<<captured>>) = 1
      OBVIOUS
    <3> HIDE DEF Fresh
    <3>4. QED BY <3>2, <3>3 DEF Shape
  <2>3. stream /\ phase = "ended" => rows[1] = LastUsage(Came(up))
    <3> HAVE stream /\ phase = "ended"
    <3>1. rows = <<captured>>
      BY DEF Shape
    <3>2. captured = LastUsage(Came(up))
      BY DEF Following, Answered
    <3>3. <<captured>>[1] = captured
      OBVIOUS
    <3>4. QED BY <3>1, <3>2, <3>3
  <2>4. ~stream => Len(rows) <= 1 /\ (rows # <<>> => phase = "ended")
    BY DEF Shape
  <2>5. QED BY <2>1, <2>2, <2>3, <2>4 DEF BilledOnce
<1>2. QED BY <1>1, ShapeCorrect, FollowingCorrect, PTL

-----------------------------------------------------------------------------
(* What the clients of the other endpoints read *)

\* The endpoint of a request does not change, and neither does what lines and events mean.
LEMMA SameDialect ==
  ASSUME endpoint' = endpoint
  PROVE  /\ \A x : TextOf(x)' = TextOf(x)
         /\ \A x : TextIn(x)' = TextIn(x)
         /\ \A m, t : Tells(m, t)' <=> Tells(m, t)
<1>1. \A x : TextOf(x)' = TextOf(x)
  BY DEF TextOf, LineText, Normalized
<1>2. \A x : TextIn(x)' = TextIn(x)
  BY DEF TextIn, SaidBy
<1>3. QED BY <1>1, <1>2 DEF Tells

\* What is in a list stays in it when the list grows.
Gathers(s, t) == ToSet(s \o t) = ToSet(s) \cup ToSet(t)

\* Of two lists of anything.
LEMMA GatherConcat ==
  ASSUME NEW S, NEW s \in Seq(S), NEW t \in Seq(S)
  PROVE  Gathers(s, t)
<1> DEFINE w == s \o t
<1>1. /\ DOMAIN s = 1..Len(s) /\ DOMAIN t = 1..Len(t) /\ DOMAIN w = 1..(Len(s) + Len(t))
      /\ Len(s) \in Nat /\ Len(t) \in Nat
      /\ \A i \in 1..Len(s) : w[i] = s[i]
      /\ \A i \in 1..Len(t) : w[Len(s) + i] = t[i]
  OBVIOUS
<1> DEFINE L == Len(s)
           M == Len(t)
<1> HIDE DEF L, M
<1>2. /\ DOMAIN s = 1..L /\ DOMAIN t = 1..M /\ DOMAIN w = 1..(L + M) /\ L \in Nat /\ M \in Nat
      /\ \A i \in 1..L : w[i] = s[i]
      /\ \A i \in 1..M : w[L + i] = t[i]
  BY <1>1 DEF L, M
<1> HIDE DEF w
<1>3. \A x \in ToSet(s) : x \in ToSet(w)
  <2> TAKE x \in ToSet(s)
  <2>1. PICK i \in 1..L : x = s[i]
    BY <1>2 DEF ToSet
  <2>2. i \in 1..(L + M) /\ w[i] = x
    BY <1>2, <2>1
  <2>3. QED BY <1>2, <2>2 DEF ToSet
<1>4. \A x \in ToSet(t) : x \in ToSet(w)
  <2> TAKE x \in ToSet(t)
  <2>1. PICK i \in 1..M : x = t[i]
    BY <1>2 DEF ToSet
  <2>2. L + i \in 1..(L + M) /\ w[L + i] = x
    BY <1>2, <2>1
  <2>3. QED BY <1>2, <2>2 DEF ToSet
<1>5. \A x \in ToSet(w) : x \in ToSet(s) \cup ToSet(t)
  <2> TAKE x \in ToSet(w)
  <2>1. PICK i \in 1..(L + M) : x = w[i]
    BY <1>2 DEF ToSet
  <2>2. i \in 1..L \/ (i - L \in 1..M /\ L + (i - L) = i)
    BY <1>2, <2>1
  <2>3. (i \in 1..L /\ x = s[i]) \/ (i - L \in 1..M /\ x = t[i - L])
    BY <1>2, <2>1, <2>2
  <2>4. QED BY <1>2, <2>3 DEF ToSet
<1>6. QED BY <1>3, <1>4, <1>5 DEF Gathers, w

\* Of any two, of the same.
LEMMA ToSetConcat ==
  ASSUME NEW S
  PROVE  \A s, t \in Seq(S) : ToSet(s \o t) = ToSet(s) \cup ToSet(t)
<1> TAKE s, t \in Seq(S)
<1>1. Gathers(s, t)
  BY GatherConcat
<1>2. QED BY <1>1 DEF Gathers

\* What is told of one thing the parser yields.
LEMMA ToldTells ==
  ASSUME endpoint # "responses", NEW p, p.got \in {"chunk", "error", "end"},
         p.got = "chunk" => Last(p.up.heard) \in Chunks
  PROVE  /\ Tells(Told(p), IF p.got = "chunk" THEN Text0(Last(p.up.heard)) ELSE <<>>)
         /\ p.got = "error" => ErrorEvent \in ToSet(Told(p))
<1>1. CASE p.got = "chunk"
  <2>1. Told(p) = Mapped(Last(p.up.heard))
    BY <1>1 DEF Told
  <2>2. QED BY <1>1, <2>1, MappedTells
<1>2. CASE p.got = "error"
  <2>1. Told(p) = <<ErrorEvent>>
    BY <1>2 DEF Told
  <2>2. ErrorEvent \in EventSet /\ ErrorEvent.type = "error"
    BY ErrorFields
  <2> HIDE DEF ErrorEvent
  <2>3. ErrorEvent \in Plain
    BY <2>2 DEF Plain
  <2>4. Told(p) \in Seq(Plain) /\ \A i \in 1..Len(Told(p)) : Told(p)[i].type \notin {"delta", "chunk"}
    BY <2>1, <2>2, <2>3
  <2>5. Tells(Told(p), <<>>)
    BY <2>4, TellsNothing
  <2>6. ErrorEvent \in ToSet(<<ErrorEvent>>)
    BY DEF ToSet
  <2>7. QED BY <1>2, <2>1, <2>5, <2>6
<1>3. CASE p.got = "end"
  <2> DEFINE x == Event("done", None, None)
  <2>1. Told(p) = IF endpoint = "messages" THEN <<>> ELSE <<x>>
    BY <1>3 DEF Told
  <2>2. x \in EventSet /\ x.type = "done"
    <3>1. "done" \in Types /\ None \in Outs /\ None \in DataSet
      BY DataTypes DEF Types, Outs
    <3>2. QED BY <3>1, EventFields
  <2> HIDE DEF x
  <2>3. x \in Plain
    BY <2>2 DEF Plain
  <2>4. CASE endpoint = "messages"
    BY <1>3, <2>1, <2>4, SilenceTells
  <2>5. CASE endpoint # "messages"
    <3>1. Told(p) \in Seq(Plain) /\ \A i \in 1..Len(Told(p)) : Told(p)[i].type \notin {"delta", "chunk"}
      BY <2>1, <2>2, <2>3, <2>5
    <3>2. QED BY <1>3, <3>1, TellsNothing
  <2>6. QED BY <2>4, <2>5
<1>4. QED BY <1>1, <1>2, <1>3

\* The client has read the text of the lines used so far, and at last of all that came;
\* a broken connection it has been told of.
Direct ==
    endpoint # "responses" /\ stream =>
        /\ phase = "body" => Tells(sent, TextOf(Used(up)))
        /\ phase = "ended" => Tells(sent, TextOf(Came(up)))
        /\ phase \in {"body", "ended"} /\ up.broke => ErrorEvent \in ToSet(sent)

\* Every step keeps it.
LEMMA DirectStep ==
  ASSUME Shape, Following, Direct, [Next]_vars
  PROVE  Direct'
<1>1. ParserOK(up) /\ ErrorEvent' = ErrorEvent
  BY DEF Following, ErrorEvent, Event
<1> SUFFICES ASSUME endpoint' # "responses", stream'
             PROVE  /\ phase' = "body" => Tells(sent, TextOf(Used(up)))'
                    /\ phase' = "ended" => Tells(sent, TextOf(Came(up)))'
                    /\ phase' \in {"body", "ended"} /\ up'.broke => ErrorEvent \in ToSet(sent')
  <2> HIDE DEF ErrorEvent
  <2> QED BY <1>1 DEF Direct
<1> HIDE DEF ErrorEvent
<1>2. UNCHANGED asked
  BY DEF Next, vars, Accept, Reject, EnsureLoaded, LoadFails, OpenStream, AnswerWhole, AnswerChat,
         AnswerCompletion, AnswerMessage, AnswerResponse, Answer, CallFails, Arrive, ArriveInPart,
         Close, Pull, RelayRead, RelaySend, Receive, BodyEnds, Disconnect, Finished
<1>3. endpoint' = endpoint /\ endpoint # "responses" /\ stream
  BY <1>2 DEF asked
<1>4. relay = NoRelay /\ chan = <<>>
  BY <1>3 DEF Shape
<1>5. /\ phase = "body" => Tells(sent, TextOf(Used(up)))
      /\ phase = "ended" => Tells(sent, TextOf(Came(up)))
      /\ phase \in {"body", "ended"} /\ up.broke => ErrorEvent \in ToSet(sent)
  BY <1>3 DEF Direct
<1>6. /\ \A x : TextOf(x)' = TextOf(x)
      /\ \A m, t : Tells(m, t)' <=> Tells(m, t)
  BY <1>3, SameDialect
<1>7. CASE UNCHANGED vars
  <2>1. up' = up /\ sent' = sent /\ phase' = phase
    BY <1>7 DEF vars
  <2>2. QED BY <1>5, <1>6, <2>1
<1>8. CASE Accept \/ Reject \/ EnsureLoaded \/ LoadFails \/ AnswerWhole \/ CallFails \/ Disconnect
  <2>1. phase' \in {"refused", "loading", "tracked", "gone"} \/ (phase' = "ended" /\ ~stream)
    BY <1>8 DEF Accept, Reject, EnsureLoaded, LoadFails, AnswerWhole, AnswerChat,
         AnswerCompletion, AnswerMessage, AnswerResponse, Answer, CallFails, Disconnect
  <2>2. QED BY <1>3, <2>1
<1>9. CASE OpenStream
  <2>1. PICK script \in Scripts : up' = NewConnection(script)
    BY <1>9 DEF OpenStream
  <2>2. script \in Seq(Lines)
    BY <2>1, StreamsAssumption
  <2>3. phase' = "body" /\ sent' = sent /\ sent = <<>>
    BY <1>9 DEF OpenStream, Shape, Early, Fresh
  <2>4. TextOf(Used(up')) = <<>> /\ ~up'.broke
    BY <2>1, <2>2, NewIsOK
  <2>5. Tells(sent', TextOf(Used(up')))
    BY <2>3, <2>4, SilenceTells
  <2>6. QED BY <1>6, <2>3, <2>4, <2>5
<1>10. CASE Arrive \/ ArriveInPart \/ Close
  <2>1. phase' = phase /\ sent' = sent /\ phase = "body"
    BY <1>4, <1>10, NoRelayIs DEF Arrive, ArriveInPart, Close, Coming, Live
  <2>2. Keeps(up, up')
    <3>1. CASE Arrive
      <4>1. /\ up.end = "open" /\ up.n < Len(up.script)
            /\ up' = [up EXCEPT !.n = @ + 1, !.buf = Append(@, up.script[up.n + 1]), !.tail = NoTail]
        BY <3>1 DEF Arrive, Coming
      <4>2. QED BY <1>1, <4>1, ArriveKeeps
    <3>2. CASE ArriveInPart \/ Close
      <4>1. /\ up.end = "open"
            /\ \/ \E how \in {"eof", "reset"} : up' = [up EXCEPT !.end = how]
               \/ /\ up.n < Len(up.script)
                  /\ \E part \in {Fragment, up.script[up.n + 1]} : up' = [up EXCEPT !.tail = part]
        BY <3>2 DEF ArriveInPart, Close, Coming
      <4>2. QED BY <1>1, <4>1, TailKeeps
    <3>3. QED BY <1>10, <3>1, <3>2
  <2>3. Used(up') = Used(up) /\ up'.broke = up.broke
    BY <2>2 DEF Keeps
  <2>4. QED BY <1>5, <1>6, <2>1, <2>3
<1>11. CASE Pull
  <2>1. PICK p \in {Polled(up)} :
          /\ p.got # "pending" /\ up' = p.up /\ sent' = sent \o Told(p)
          /\ IF p.got = "end" THEN Release /\ phase' = "ended" ELSE UNCHANGED <<guards, rows, phase>>
    BY <1>11 DEF Pull
  <2>2. phase = "body"
    BY <1>11 DEF Pull
  <2>3. NoDone(Used(up)) /\ Tells(sent, TextOf(Used(up)))
    BY <1>3, <1>5, <2>2 DEF Following, Asking
  <2>4. PolledWell(up, p)
    BY <1>1, <2>1, <2>3, PolledGives
  <2>5. p.got \in {"chunk", "error", "end"} /\ (p.got = "chunk" => Last(p.up.heard) \in Chunks)
    BY <2>1, <2>4 DEF PolledWell, Consumes
  <2> DEFINE words == IF p.got = "chunk" THEN Text0(Last(p.up.heard)) ELSE <<>>
             told == Told(p)
  <2>6. Tells(told, words) /\ (p.got = "error" => ErrorEvent \in ToSet(told))
    BY <1>3, <2>5, ToldTells
  <2>7. words \in Seq(STRING) /\ TextOf(Used(up)) \in Seq(STRING)
    <3>1. TextOf(Used(up)) \in Seq(STRING)
      BY <1>1, UsedType, TextOfJoined
    <3>2. CASE p.got = "chunk"
      BY <2>5, <3>1, <3>2, PiecesType
    <3>3. CASE p.got # "chunk"
      <4>1. words = <<>> /\ <<>> \in Seq(STRING)
        BY <3>3
      <4>2. QED BY <3>1, <4>1
    <3>4. QED BY <3>2, <3>3
  <2>8. p.got # "chunk" => words = <<>>
    OBVIOUS
  <2>9. p.got = "chunk" => words = Text0(Last(p.up.heard))
    OBVIOUS
  <2> HIDE DEF words, told
  <2>10. sent' = sent \o told
    BY <2>1 DEF told
  <2>11. Tells(sent', TextOf(Used(up)) \o words)
    BY <2>3, <2>6, <2>7, <2>10, TellsBoth
  <2>12. up.broke \/ p.got = "error" => ErrorEvent \in ToSet(sent')
    <3>1. sent \in Seq(EventSet) /\ told \in Seq(EventSet)
      BY <2>3, <2>6 DEF Tells
    <3>2. Gathers(sent, told)
      BY ONLY <3>1, GatherConcat
    <3>3. ToSet(sent') = ToSet(sent) \cup ToSet(told)
      BY <2>10, <3>2 DEF Gathers
    <3>4. QED BY <1>5, <2>2, <2>6, <3>3
  <2>13. CASE p.got = "chunk"
    <3>1. Consumes(up, up', Last(p.up.heard))
      BY <2>1, <2>4, <2>13 DEF PolledWell
    <3>2. TextOf(Used(up')) = TextOf(Used(up)) \o words /\ up'.broke = up.broke
      BY <2>9, <2>13, <3>1 DEF Consumes, SaysChunk
    <3>3. phase' = "body"
      BY <2>1, <2>2, <2>13
    <3>4. QED BY <1>6, <2>11, <2>12, <3>2, <3>3
  <2>14. CASE p.got # "chunk"
    <3>1. Quits(up, up') /\ (p.got = "end" => up'.broke = up.broke)
          /\ (p.got = "error" => Came(up') = Used(up'))
      BY <2>1, <2>4, <2>5, <2>14 DEF PolledWell, Breaks
    <3>2. TextOf(Came(up')) = TextOf(Used(up))
      BY <3>1 DEF Quits
    <3>3. TextOf(Used(up)) \o words = TextOf(Used(up))
      <4> DEFINE t == TextOf(Used(up))
      <4>1. t \in Seq(STRING) /\ words = <<>>
        BY <2>7, <2>8, <2>14
      <4> HIDE DEF t
      <4>2. t \o words = t
        BY <4>1
      <4>3. QED BY <4>2 DEF t
    <3>4. Tells(sent', TextOf(Came(up')))
      BY <2>11, <3>2, <3>3
    <3>5. phase' = "ended" <=> p.got = "end"
      BY <2>1, <2>2
    <3>6. p.got = "error" => TextOf(Used(up')) = TextOf(Came(up'))
      BY <3>1
    <3>7. p.got = "error" \/ p.got = "end"
      BY <2>5, <2>14
    <3>8. QED BY <1>6, <2>1, <2>2, <2>12, <3>1, <3>4, <3>5, <3>6, <3>7
  <2>15. QED BY <2>13, <2>14
<1>12. CASE RelayRead \/ RelaySend \/ Receive \/ BodyEnds
  BY <1>4, <1>12, NoRelayIs DEF RelayRead, RelaySend, Receive, BodyEnds
<1>13. QED BY <1>7, <1>8, <1>9, <1>10, <1>11, <1>12 DEF Next, Finished

\* What the clients of chat, completions and messages read is what came.
THEOREM DirectCorrect == Spec => []Direct
<1>1. Init => Direct
  BY DEF Init, Direct
<1>2. Shape /\ Following /\ Direct /\ [Next]_vars => Direct'
  BY DirectStep
<1>3. QED BY <1>1, <1>2, ShapeCorrect, FollowingCorrect, PTL DEF Spec

-----------------------------------------------------------------------------
(* The events of the relay *)

\* Events move from one list to the next.
Moved(a, b, c) ==
    /\ a \o Append(b, Head(c)) \o Tail(c) = a \o b \o c
    /\ Append(a, Head(c)) \o Tail(c) = a \o c
    /\ Append(b, Head(c)) \in Seq(EventSet) /\ Append(a, Head(c)) \in Seq(EventSet)
    /\ Tail(c) \in Seq(EventSet)
    /\ ToSet(Append(b, Head(c))) \subseteq ToSet(b) \cup ToSet(c)
    /\ ToSet(Append(a, Head(c))) \subseteq ToSet(a) \cup ToSet(c)
    /\ ToSet(Tail(c)) \subseteq ToSet(c)

\* None is lost and they stay in order.
LEMMA EventsMove ==
  ASSUME NEW a \in Seq(EventSet), NEW b \in Seq(EventSet), NEW c \in Seq(EventSet), c # <<>>
  PROVE  Moved(a, b, c)
<1> DEFINE x == Head(c)
           t == Tail(c)
<1> HIDE DEF EventSet
<1>1. \A p, q, r \in Seq(EventSet) : (p \o q) \o r = p \o (q \o r)
  BY ConcatAssociative
<1>2. \A p, q \in Seq(EventSet) : ToSet(p \o q) = ToSet(p) \cup ToSet(q)
  <2> TAKE p, q \in Seq(EventSet)
  <2> QED BY ToSetConcat
<1>3. x \in EventSet /\ t \in Seq(EventSet) /\ c = <<x>> \o t
  OBVIOUS
<1>4. <<x>> \in Seq(EventSet)
  BY <1>3
<1> HIDE DEF x, t
<1> DEFINE o == <<x>>
<1>5. Append(b, x) = b \o o /\ Append(a, x) = a \o o
  BY <1>3
<1>6. o \in Seq(EventSet) /\ c = o \o t
  BY <1>3, <1>4
<1> HIDE DEF o
<1>7. \A s \in Seq(EventSet) : (s \o o) \o t = s \o c
  <2> TAKE s \in Seq(EventSet)
  <2>1. (s \o o) \o t = s \o (o \o t)
    <3>1. s \in Seq(EventSet) /\ o \in Seq(EventSet) /\ t \in Seq(EventSet)
      BY <1>3, <1>6
    <3>2. QED BY ONLY <1>1, <3>1
  <2>2. QED BY <1>6, <2>1
<1>8. a \o b \in Seq(EventSet) /\ b \o o \in Seq(EventSet) /\ a \o o \in Seq(EventSet)
  BY <1>6
<1>9. (a \o (b \o o)) \o t = (a \o b) \o c
  <2>1. a \o (b \o o) = (a \o b) \o o
    BY <1>6, ConcatAssociative
  <2>2. QED BY <1>7, <1>8, <2>1
<1>10. ToSet(c) = ToSet(o) \cup ToSet(t)
  <2>1. ToSet(o \o t) = ToSet(o) \cup ToSet(t)
    <3>1. o \in Seq(EventSet) /\ t \in Seq(EventSet)
      BY <1>3, <1>6
    <3>2. QED BY ONLY <1>2, <3>1
  <2>2. QED BY <1>6, <2>1
<1>11. \A s \in Seq(EventSet) : ToSet(s \o o) = ToSet(s) \cup ToSet(o)
  <2> TAKE s \in Seq(EventSet)
  <2> QED BY <1>6, ToSetConcat
<1>12. QED BY <1>3, <1>5, <1>7, <1>8, <1>9, <1>10, <1>11 DEF Moved, x, t

\* Whether a list completes a response depends on the events in it.
LEMMA CompletedBySet ==
  ASSUME NEW s
  PROVE  /\ HasCompleted(s) <=> \E x \in ToSet(s) : x.type = "completed"
         /\ \A want : Completes(s, want) <=>
               \A x \in ToSet(s) : x.type = "completed" =>
                   want # None /\ ToSet(x.data) = ToSet(want) /\ Len(x.data) = Len(want)
<1> DEFINE S == {s[i] : i \in DOMAIN s}
<1>1. ToSet(s) = S
  BY DEF ToSet
<1>2. QED BY <1>1 DEF HasCompleted, Completes

\* And those of two lists are those of both.
Both(s, t, w) ==
    /\ HasCompleted(w) <=> HasCompleted(s) \/ HasCompleted(t)
    /\ \A want : Completes(w, want) <=> Completes(s, want) /\ Completes(t, want)
    /\ ToSet(w) = ToSet(s) \cup ToSet(t) /\ w \in Seq(EventSet)

\* One list after another.
LEMMA CompletedConcat ==
  ASSUME NEW s \in Seq(EventSet), NEW t \in Seq(EventSet), NEW w, w = s \o t
  PROVE  Both(s, t, w)
<1> HIDE DEF EventSet
<1>1. ToSet(w) = ToSet(s) \cup ToSet(t) /\ w \in Seq(EventSet)
  <2>1. ToSet(s \o t) = ToSet(s) \cup ToSet(t)
    BY ToSetConcat
  <2>2. s \o t \in Seq(EventSet)
    OBVIOUS
  <2>3. QED BY <2>1, <2>2
<1>2. HasCompleted(w) <=> HasCompleted(s) \/ HasCompleted(t)
  BY <1>1, CompletedBySet
<1>3. \A want : Completes(w, want) <=> Completes(s, want) /\ Completes(t, want)
  <2> TAKE want
  <2> DEFINE Good(x) == x.type = "completed" =>
                 want # None /\ ToSet(x.data) = ToSet(want) /\ Len(x.data) = Len(want)
  <2>1. \A q : Completes(q, want) <=> \A x \in ToSet(q) : Good(x)
    BY CompletedBySet
  <2> HIDE DEF Good
  <2>2. QED BY ONLY <1>1, <2>1
<1>4. QED BY <1>1, <1>2, <1>3 DEF Both

\* A list that completes nothing agrees with everything.
LEMMA UncompletedAgrees == \A s, want : ~HasCompleted(s) => Completes(s, want)
BY DEF HasCompleted, Completes

\* Nothing is completed while items are open.
LEMMA OpenUncompleted ==
  ASSUME NEW e, NEW n, Open(e, n)
  PROVE  ~HasCompleted(e)
BY DEF Open, HasCompleted

\* The state a relay starts from.
LEMMA NewStateOK ==
  /\ StateOK(NewResponseState) /\ AccOK(<<>>, [st |-> NewResponseState, ev |-> <<>>])
  /\ Assembles(NewResponseState, <<>>)
<1> DEFINE st == NewResponseState
<1>1. st.seq = 0 /\ st.next = 0 /\ st.text = None /\ st.tools = <<>> /\ DOMAIN st.tools = {}
  BY DEF NewResponseState
<1>2. st \in States
  <2>1. <<>> \in [{} -> ToolItems]
    OBVIOUS
  <2>2. {} \in SUBSET Nat
    OBVIOUS
  <2>3. <<>> \in UNION {[K -> ToolItems] : K \in SUBSET Nat}
    BY <2>1, <2>2
  <2> HIDE DEF ToolItems, TextItems
  <2>4. QED BY <2>3 DEF States, NewResponseState
<1>3. StateOK(st)
  <2>1. Cardinality({}) = 0
    BY FS_EmptySet
  <2>2. DOMAIN st.tools \subseteq 0..0 /\ 0 \in Nat
    BY <1>1
  <2>3. \E N \in Nat : DOMAIN st.tools \subseteq 0..N
    BY <2>2
  <2>4. 0..(st.next - 1) = {}
    BY <1>1
  <2>5. st.next = Cardinality(DOMAIN st.tools) + (IF st.text = None THEN 0 ELSE 1)
    BY <1>1, <2>1
  <2> HIDE DEF st
  <2>6. ItemsOK(st)
    BY <1>1, <2>3, <2>4, <2>5 DEF ItemsOK
  <2>7. QED BY <1>2, <2>6 DEF StateOK
<1> DEFINE acc == [st |-> st, ev |-> <<>>]
<1>4. AccOK(<<>>, acc)
  <2>1. acc.st = st /\ acc.ev = <<>>
    OBVIOUS
  <2>2. <<>> \in Seq(EventSet) /\ <<>> \o <<>> = <<>> /\ Len(<<>>) = 0 /\ DOMAIN <<>> = {}
    <3> HIDE DEF EventSet
    <3> QED OBVIOUS
  <2>3. Opened(<<>>, 0) = 0
    <3>1. {j \in 1..0 : <<>>[j].type = "added"} = {}
      OBVIOUS
    <3>2. QED BY <3>1, FS_EmptySet DEF Opened
  <2>4. Open(<<>>, 0)
    <3>1. 0..(0 - 1) = {}
      OBVIOUS
    <3>2. QED BY <2>2, <2>3, <3>1 DEF Open
  <2> HIDE DEF acc, st
  <2>5. QED BY <1>1, <1>3, <2>1, <2>2, <2>4 DEF AccOK
<1>5. Assembles(st, <<>>)
  <2>1. Joined(PieceWords, <<>>) = <<>>
    BY JoinedEmpty
  <2>2. KeysOf(<<>>) = {}
    <3>1. DOMAIN <<>> = {}
      OBVIOUS
    <3>2. QED BY <3>1 DEF KeysOf
  <2>3. TextBefore(st) = <<>>
    BY <1>1 DEF TextBefore
  <2> HIDE DEF st
  <2>4. QED BY <1>1, <2>1, <2>2, <2>3 DEF Assembles
<1>6. QED BY <1>3, <1>4, <1>5

\* Events produced are events of the past once they are on their way.
LEMMA Forgets ==
  ASSUME NEW e, NEW acc, AccOK(e, acc), NEW g, g = e \o acc.ev
  PROVE  /\ AccOK(g, [st |-> acc.st, ev |-> <<>>]) /\ g \in Seq(EventSet)
         /\ Open(g, acc.st.next) /\ acc.st.next \in Nat
<1> HIDE DEF EventSet
<1>1. /\ StateOK(acc.st) /\ e \in Seq(EventSet) /\ acc.ev \in Seq(EventSet)
      /\ Open(g, acc.st.next) /\ acc.st.seq = Len(g)
  BY DEF AccOK
<1>2. g \in Seq(EventSet) /\ g \o <<>> = g /\ <<>> \in Seq(EventSet)
  BY <1>1
<1> DEFINE r == [st |-> acc.st, ev |-> <<>>]
<1>3. r.st = acc.st /\ r.ev = <<>>
  OBVIOUS
<1> HIDE DEF r
<1>4. AccOK(g, r)
  BY <1>1, <1>2, <1>3 DEF AccOK
<1>5. acc.st.next \in Nat
  BY <1>1, StateFields DEF StateOK
<1>6. QED BY <1>1, <1>2, <1>4, <1>5 DEF r

\* The two events every response starts with.
LEMMA StartedOK ==
  ASSUME endpoint = "responses"
  PROVE  /\ AccOK(<<>>, Started) /\ Assembles(Started.st, <<>>) /\ TextIn(Started.ev) = <<>>
         /\ Started.ev \in Seq(EventSet)
<1> DEFINE x == Event("created", None, None)
           y == Event("in_progress", None, None)
           s == NewResponseState
           a == [st |-> s, ev |-> <<>>]
           b == Emit(a, x)
           b2 == [st |-> b.st, ev |-> b.ev]
           c == Emit(b2, y)
<1>1. x \in EventSet /\ x.type = "created" /\ x.out = None /\ y \in EventSet /\ y.type = "in_progress"
      /\ y.out = None
  <2>1. "created" \in Types /\ "in_progress" \in Types /\ None \in Outs /\ None \in DataSet
    BY DataTypes DEF Types, Outs
  <2>2. x \in EventSet /\ x.type = "created" /\ x.out = None
    BY <2>1, EventFields
  <2>3. y \in EventSet /\ y.type = "in_progress" /\ y.out = None
    BY <2>1, EventFields
  <2>4. QED BY <2>2, <2>3
<1>2. SaidBy(x) = <<>> /\ SaidBy(y) = <<>>
  BY <1>1 DEF SaidBy
<1>3. a.st = s /\ a.ev = <<>> /\ AccOK(<<>>, a) /\ StateOK(s) /\ Assembles(s, <<>>)
  BY NewStateOK
<1>4. TextIn(<<>>) = <<>>
  BY SilenceTells DEF Tells
<1>5. Started = Emit(b, y)
  BY DEF Started
<1> HIDE DEF x, y, s
<1>6. Emits(<<>>, a, s, x)
  BY <1>1, <1>3 DEF Emits
<1>7. b = Emit([st |-> s, ev |-> a.ev], x)
  OBVIOUS
<1> HIDE DEF a, b
<1>8. Emitted(<<>>, a, s, x, b)
  BY <1>6, <1>7, EmitOK
<1>9. /\ AccOK(<<>>, b) /\ b.st.text = s.text /\ b.st.tools = s.tools
      /\ TextIn(b.ev) = TextIn(<<>>) \o <<>>
  BY <1>2, <1>3, <1>8 DEF Emitted
<1>10. StateOK(b.st) /\ b.st.seq = b.st.seq
  BY <1>9 DEF AccOK
<1>11. Emits(<<>>, b, b.st, y)
  BY <1>1, <1>9, <1>10 DEF Emits
<1>12. Emitted(<<>>, b, b.st, y, c)
  BY <1>11, EmitOK
<1>13. Emit(b, y) = c
  <2>1. b2.st = b.st /\ b2.ev = b.ev
    OBVIOUS
  <2> HIDE DEF b2
  <2>2. QED BY <2>1 DEF Emit
<1> HIDE DEF c
<1>14. /\ AccOK(<<>>, c) /\ c.st.text = s.text /\ c.st.tools = s.tools
       /\ TextIn(c.ev) = TextIn(b.ev) \o <<>>
  <2>1. /\ AccOK(<<>>, c) /\ c.st.text = b.st.text /\ c.st.tools = b.st.tools
        /\ TextIn(c.ev) = TextIn(b.ev) \o SaidBy(y)
    BY <1>12 DEF Emitted
  <2>2. QED BY <1>2, <1>9, <2>1
<1>15. TextIn(c.ev) = <<>>
  <2>1. <<>> \o <<>> = <<>>
    OBVIOUS
  <2>2. QED BY <1>4, <1>9, <1>14, <2>1
<1>16. Assembles(c.st, <<>>)
  BY <1>3, <1>14 DEF Assembles, TextBefore
<1>17. c.ev \in Seq(EventSet)
  BY <1>14 DEF AccOK
<1>18. QED BY <1>5, <1>13, <1>14, <1>15, <1>16, <1>17

-----------------------------------------------------------------------------
(* What the client of /v1/responses reads *)

\* The output a request without streaming would have had.
Wanted(u) == ToResponseOutput(Reply(Joined(ChunkPieces, u.heard)))

\* A relay that reads has put together what it heard, after the events e.
Reads(u, st, e) ==
    /\ ~u.broke /\ Assembles(st, Joined(ChunkPieces, u.heard))
    /\ AccOK(e, [st |-> st, ev |-> <<>>])

\* The events e tell how the stream ended.
Tellings(u, e) ==
    /\ GrammarOf(e)
    /\ u.broke => ErrorEvent \in ToSet(e) /\ ~HasCompleted(e)
    /\ ~u.broke /\ Wanted(u) # None => HasCompleted(e)

\* The pieces of the chunks heard.
LEMMA HeardPieces ==
  ASSUME NEW h \in Seq(Chunks)
  PROVE  /\ Joined(ChunkPieces, h) \in Seq(PieceSet)
         /\ \A c \in Chunks : Joined(ChunkPieces, Append(h, c)) = Joined(ChunkPieces, h) \o Pieces(c)
<1>1. ChunkPieces \in [Chunks -> Seq(PieceSet)] /\ \A c \in Chunks : ChunkPieces[c] = Pieces(c)
  BY PiecesType DEF ChunkPieces
<1> HIDE DEF Chunks, PieceSet
<1>2. Joined(ChunkPieces, h) \in Seq(PieceSet)
  BY <1>1, JoinedType
<1>3. ASSUME NEW c \in Chunks
      PROVE  Joined(ChunkPieces, Append(h, c)) = Joined(ChunkPieces, h) \o Pieces(c)
  <2>1. Joined(ChunkPieces, Append(h, c)) = Joined(ChunkPieces, h) \o ChunkPieces[c]
    BY <1>1, JoinedAppend
  <2>2. QED BY <1>1, <2>1
<1>4. QED BY <1>2, <1>3

\* A chunk heard is told, and nothing is completed by it.
ReadsOn(u, st, e, c, v, r) ==
    /\ Reads(v, r.st, e \o r.ev) /\ r.ev \in Seq(EventSet) /\ ~HasCompleted(r.ev)
    /\ TextIn(e \o r.ev) = TextIn(e) \o Text0(c)

\* A chunk more.
LEMMA ReadsChunk ==
  ASSUME endpoint = "responses", NEW u, u.heard \in Seq(Chunks), NEW st, NEW e, Reads(u, st, e),
         NEW c \in Chunks, NEW v, v.heard = Append(u.heard, c), v.broke = u.broke,
         NEW r, r = ApplyChunk(st, c)
  PROVE  ReadsOn(u, st, e, c, v, r)
<1> DEFINE pp == Joined(ChunkPieces, u.heard)
           g == e \o r.ev
<1>1. pp \in Seq(PieceSet) /\ Joined(ChunkPieces, v.heard) = pp \o Pieces(c)
  BY HeardPieces
<1>2. Assembles(st, pp) /\ AccOK(e, [st |-> st, ev |-> <<>>]) /\ ~u.broke
  BY DEF Reads
<1> HIDE DEF pp
<1>3. ChunkApplied(e, pp, c, r)
  BY <1>1, <1>2, ApplyChunkOK
<1>4. AccOK(e, r) /\ Assembles(r.st, pp \o Pieces(c)) /\ TextIn(r.ev) = Text0(c)
  BY <1>3 DEF ChunkApplied
<1>5. e \in Seq(EventSet) /\ r.ev \in Seq(EventSet)
  BY <1>4 DEF AccOK
<1>6. AccOK(g, [st |-> r.st, ev |-> <<>>]) /\ Open(g, r.st.next)
  BY <1>4, Forgets
<1>7. TextJoins(e, r.ev) /\ Both(e, r.ev, g)
  BY <1>5, TextInConcat, CompletedConcat
<1>8. TextIn(g) = TextIn(e) \o TextIn(r.ev)
  BY <1>7 DEF TextJoins
<1> HIDE DEF g
<1>9. ~HasCompleted(r.ev)
  <2>1. ~HasCompleted(g)
    BY <1>6, OpenUncompleted
  <2>2. QED BY <1>7, <2>1 DEF Both
<1>10. Reads(v, r.st, g)
  BY <1>1, <1>2, <1>4, <1>6 DEF Reads
<1>11. TextIn(g) = TextIn(e) \o Text0(c)
  BY <1>4, <1>8
<1>12. QED BY <1>5, <1>9, <1>10, <1>11 DEF ReadsOn, g

\* What ends a response.
Ended(v, e, c) ==
    /\ c \in Seq(EventSet) /\ Completes(c, Wanted(v)) /\ Tellings(v, e \o c)
    /\ TextIn(e \o c) = TextIn(e)

\* The end of the stream.
LEMMA ReadsEnd ==
  ASSUME endpoint = "responses", NEW u, u.heard \in Seq(Chunks), NEW st, NEW e, Reads(u, st, e),
         NEW v, v.heard = u.heard, v.broke = u.broke
  PROVE  Ended(v, e, Closing(st))
<1> DEFINE pp == Joined(ChunkPieces, u.heard)
           c == Closing(st)
<1>1. pp \in Seq(PieceSet) /\ Wanted(v) = ToResponseOutput(Reply(pp))
  BY HeardPieces DEF Wanted
<1>2. Assembles(st, pp) /\ AccOK(e, [st |-> st, ev |-> <<>>]) /\ ~v.broke /\ e \in Seq(EventSet)
  BY DEF Reads, AccOK
<1>3. ClosedWell(e, c, Wanted(v))
  <2> HIDE DEF pp
  <2>1. ClosedWell(e, Closing(st), ToResponseOutput(Reply(pp)))
    BY <1>1, <1>2, ClosingOK
  <2>2. QED BY <1>1, <2>1
<1> HIDE DEF pp, c
<1>4. /\ c \in Seq(EventSet) /\ TextIn(c) = <<>> /\ GrammarOf(e \o c)
      /\ Completes(c, Wanted(v)) /\ (Wanted(v) # None => HasCompleted(c))
  BY <1>3 DEF ClosedWell
<1> DEFINE g == e \o c
<1>5. Both(e, c, g)
  BY <1>2, <1>4, CompletedConcat
<1>6. TextIn(g) = TextIn(e) /\ TextIn(e) \in Seq(STRING)
  <2>1. TextJoins(e, c) /\ TextIn(e) \in Seq(STRING)
    BY <1>2, <1>4, TextInConcat, TextInJoined
  <2>2. TextIn(g) = TextIn(e) \o <<>>
    BY <1>4, <2>1 DEF TextJoins
  <2> DEFINE t == TextIn(e)
  <2>3. t \in Seq(STRING)
    BY <2>1
  <2> HIDE DEF t, g
  <2>4. t \o <<>> = t
    BY <2>3
  <2>5. QED BY <2>1, <2>2, <2>4 DEF t
<1> HIDE DEF g
<1>7. Tellings(v, g)
  BY <1>2, <1>4, <1>5 DEF Tellings, Both, g
<1>8. QED BY <1>4, <1>6, <1>7 DEF Ended, g, c

\* A read error.
LEMMA ReadsError ==
  ASSUME endpoint = "responses", NEW u, NEW st, NEW e, Reads(u, st, e), NEW v, v.broke
  PROVE  Ended(v, e, AfterError)
<1> DEFINE c == <<ErrorEvent>>
           g == e \o c
<1>1. AfterError = c
  BY DEF AfterError
<1>2. /\ Open(e, st.next) /\ e \in Seq(EventSet) /\ st.next \in Nat
  <2> DEFINE acc == [st |-> st, ev |-> <<>>]
  <2>1. acc.st = st /\ acc.ev = <<>> /\ AccOK(e, acc)
    BY DEF Reads
  <2> HIDE DEF acc
  <2>2. e \in Seq(EventSet) /\ Open(e \o <<>>, st.next)
    BY <2>1 DEF AccOK
  <2>3. e \o <<>> = e
    <3> HIDE DEF EventSet
    <3> QED BY <2>2
  <2>4. st.next \in Nat
    BY <2>1, StateFields DEF AccOK, StateOK
  <2>5. QED BY <2>2, <2>3, <2>4
<1>3. /\ ErrorEvent \in EventSet /\ ErrorEvent.type = "error" /\ SaidBy(ErrorEvent) = <<>>
  BY ErrorFields
<1> HIDE DEF ErrorEvent, EventSet
<1>4. c \in Seq(EventSet) /\ Len(c) = 1 /\ c[1] = ErrorEvent /\ DOMAIN c = {1} /\ ErrorEvent \in ToSet(c)
  BY <1>3 DEF ToSet
<1>5. g = Append(e, ErrorEvent)
  BY <1>2, <1>3
<1> HIDE DEF c
<1>6. GrammarOf(g)
  BY <1>2, <1>5, ErrorInGrammar
<1> HIDE DEF g
<1>7. Both(e, c, g)
  BY <1>2, <1>4, CompletedConcat DEF g
<1>8. ~HasCompleted(c) /\ ~HasCompleted(e)
  BY <1>2, <1>3, <1>4, OpenUncompleted DEF HasCompleted
<1>9. TextIn(g) = TextIn(e)
  <2>1. TextIn(c) = <<>>
    <3>1. \A i \in 1..Len(c) : c[i].type \notin {"delta", "chunk"}
      BY <1>3, <1>4
    <3>2. QED BY <1>4, <3>1, SaysNothing
  <2>2. TextJoins(e, c) /\ TextIn(e) \in Seq(STRING)
    BY <1>2, <1>4, TextInConcat, TextInJoined
  <2>3. TextIn(g) = TextIn(e) \o <<>>
    BY <2>1, <2>2 DEF TextJoins, g
  <2> DEFINE t == TextIn(e)
  <2>4. t \in Seq(STRING)
    BY <2>2
  <2> HIDE DEF t
  <2>5. t \o <<>> = t
    BY <2>4
  <2>6. QED BY <2>3, <2>5 DEF t
<1>10. Completes(c, Wanted(v))
  BY <1>8, UncompletedAgrees
<1>11. Tellings(v, g)
  BY <1>4, <1>6, <1>7, <1>8 DEF Tellings, Both
<1>12. QED BY <1>1, <1>4, <1>9, <1>10, <1>11 DEF Ended, g

\* Nothing the relay has produced completes a response.
Uncompleted == ~HasCompleted(sent) /\ ~HasCompleted(chan) /\ ~HasCompleted(relay.pending)

\* The relay's events: those of a state that has put together what was heard while it reads, and
\* the whole story in the end.
Relayed ==
    endpoint = "responses" /\ relay.pc # "none" =>
        /\ sent \in Seq(EventSet) /\ chan \in Seq(EventSet) /\ relay.pending \in Seq(EventSet)
        /\ relay.pc = "stopped" => relay.pending = <<>>
        /\ Completes(sent, Wanted(up)) /\ Completes(chan, Wanted(up))
        /\ Completes(relay.pending, Wanted(up))
        /\ relay.pc = "reading" =>
              /\ Uncompleted
              /\ \E e : Reads(up, relay.st, e) /\ (phase = "body" => e = Produced)
              /\ phase = "body" => TextIn(Produced) = TextOf(Used(up))
        /\ Answered => Tellings(up, Produced) /\ TextIn(Produced) = TextOf(Came(up))

\* What steps that are about something else leave to be shown.
LEMMA RelayedKept ==
  ASSUME Shape, Relayed, Following, endpoint' = endpoint, Keeps(up, up'), stream' = stream,
         relay' = relay, sent' = sent, chan' = chan,
         phase' = phase \/ (phase = "body" /\ phase' \in {"ended", "gone"}),
         phase' = "ended" => relay.pc # "reading"
  PROVE  Relayed'
<1> SUFFICES ASSUME endpoint = "responses", relay.pc # "none" PROVE Relayed'
  BY DEF Relayed
<1>1. /\ \A x : TextOf(x)' = TextOf(x)
      /\ \A x : TextIn(x)' = TextIn(x)
  BY SameDialect
<1>2. /\ up'.heard = up.heard /\ up'.broke = up.broke /\ Used(up') = Used(up)
      /\ Settled(up) => Came(up') = Came(up)
  BY DEF Keeps
<1>3. /\ Wanted(up') = Wanted(up) /\ (\A st, e : Reads(up', st, e) <=> Reads(up, st, e))
      /\ \A e : Tellings(up', e) <=> Tellings(up, e)
  BY <1>2 DEF Wanted, Reads, Tellings
<1>4. Produced' = Produced /\ (Uncompleted' <=> Uncompleted)
  BY DEF Produced, Uncompleted
<1>5. Answered' => Answered /\ Came(up') = Came(up)
  <2> HAVE Answered'
  <2>1. Answered
    <3>1. stream /\ (phase' = "ended" \/ (phase' = "body" /\ relay.pc \in {"closing", "stopped"}))
      BY DEF Answered
    <3>2. relay.pc \in {"none", "reading", "closing", "stopped"}
      BY DEF Shape
    <3>3. QED BY <3>1, <3>2 DEF Answered
  <2>2. Settled(up)
    BY <2>1 DEF Following
  <2>3. QED BY <1>2, <2>1, <2>2
<1>6. /\ sent \in Seq(EventSet) /\ chan \in Seq(EventSet) /\ relay.pending \in Seq(EventSet)
      /\ relay.pc = "stopped" => relay.pending = <<>>
      /\ Completes(sent, Wanted(up)) /\ Completes(chan, Wanted(up))
      /\ Completes(relay.pending, Wanted(up))
      /\ relay.pc = "reading" =>
            /\ Uncompleted
            /\ \E e : Reads(up, relay.st, e) /\ (phase = "body" => e = Produced)
            /\ phase = "body" => TextIn(Produced) = TextOf(Used(up))
      /\ Answered => Tellings(up, Produced) /\ TextIn(Produced) = TextOf(Came(up))
  BY DEF Relayed
<1>7. /\ sent' \in Seq(EventSet) /\ chan' \in Seq(EventSet) /\ relay'.pending \in Seq(EventSet)
      /\ relay'.pc = "stopped" => relay'.pending = <<>>
      /\ Completes(sent', Wanted(up')) /\ Completes(chan', Wanted(up'))
      /\ Completes(relay'.pending, Wanted(up'))
  BY <1>3, <1>6
<1>8. relay'.pc = "reading" =>
         /\ Uncompleted'
         /\ \E e : Reads(up', relay'.st, e) /\ (phase' = "body" => e = Produced')
         /\ phase' = "body" => TextIn(Produced)' = TextOf(Used(up))'
  <2> HAVE relay'.pc = "reading"
  <2>1. PICK e : Reads(up, relay.st, e) /\ (phase = "body" => e = Produced)
    BY <1>6
  <2>2. phase' = "body" => phase = "body"
    OBVIOUS
  <2>3. Reads(up', relay'.st, e) /\ (phase' = "body" => e = Produced')
    BY <1>3, <1>4, <2>1, <2>2
  <2>4. phase' = "body" => TextIn(Produced)' = TextOf(Used(up))'
    BY <1>1, <1>2, <1>4, <1>6, <2>2
  <2>5. QED BY <1>4, <1>6, <2>3, <2>4
<1>9. Answered' => Tellings(up', Produced') /\ TextIn(Produced)' = TextOf(Came(up))'
  BY <1>1, <1>3, <1>4, <1>5, <1>6
<1>10. QED BY <1>7, <1>8, <1>9 DEF Relayed

\* The relay takes what the parser yields.
LEMMA RelayedRead ==
  ASSUME Shape, Following, Relayed, RelayRead
  PROVE  Relayed'
<1>1. PICK p \in {Polled(up)} :
        /\ p.got # "pending" /\ up' = p.up
        /\ relay' = CASE p.got = "chunk" -> Applied(relay.st, Last(p.up.heard))
                      [] p.got = "error" -> [relay EXCEPT !.pc = "closing", !.pending = AfterError]
                      [] p.got = "end"   -> [relay EXCEPT !.pc = "closing", !.pending = Closing(relay.st)]
  BY DEF RelayRead
<1>2. relay.pc = "reading" /\ relay.pending = <<>> /\ phase' = phase /\ UNCHANGED asked
      /\ sent' = sent /\ chan' = chan /\ endpoint = "responses" /\ relay.pc # "none"
  BY NoRelayIs DEF RelayRead, Shape
<1>3. endpoint' = endpoint /\ stream' = stream
  BY <1>2 DEF asked
<1>4. /\ \A x : TextOf(x)' = TextOf(x)
      /\ \A x : TextIn(x)' = TextIn(x)
  BY <1>3, SameDialect
<1>5. /\ sent \in Seq(EventSet) /\ chan \in Seq(EventSet) /\ Uncompleted
      /\ phase = "body" => TextIn(Produced) = TextOf(Used(up))
  BY <1>2 DEF Relayed
<1>6. PICK e : Reads(up, relay.st, e) /\ (phase = "body" => e = Produced)
  BY <1>2 DEF Relayed
<1>7. ParserOK(up) /\ NoDone(Used(up)) /\ up.heard \in Seq(Chunks)
  BY <1>2 DEF Following, Asking, ParserOK, Connections
<1>8. PolledWell(up, p)
  BY <1>1, <1>7, PolledGives
<1> DEFINE P == sent \o chan
<1>9. P \in Seq(EventSet) /\ Produced = P
  <2> HIDE DEF EventSet
  <2>1. P \in Seq(EventSet)
    BY <1>5
  <2> HIDE DEF P
  <2>2. P \o <<>> = P
    BY <2>1
  <2>3. QED BY <1>2, <2>1, <2>2 DEF Produced, P
<1>10. Produced' = P \o relay'.pending
  BY <1>2 DEF Produced
<1>11. phase # "ended" /\ phase \in {"body", "gone"}
  BY <1>2, NoRelayIs DEF Shape, Fresh
<1> HIDE DEF P
<1>12. CASE p.got = "chunk"
  <2> DEFINE c == Last(p.up.heard)
             r == ApplyChunk(relay.st, c)
             g == e \o r.ev
  <2>1. Consumes(up, up', c)
    BY <1>1, <1>8, <1>12 DEF PolledWell
  <2>2. relay' = [pc |-> "reading", st |-> r.st, pending |-> r.ev]
    BY <1>1, <1>12 DEF Applied
  <2> HIDE DEF c, r
  <2>3. /\ c \in Chunks /\ up'.heard = Append(up.heard, c) /\ up'.broke = up.broke
        /\ SaysChunk(Used(up), Used(up'), c)
    BY <2>1 DEF Consumes
  <2>4. relay'.pc = "reading" /\ relay'.st = r.st /\ relay'.pending = r.ev
    BY ONLY <2>2
  <2>5. /\ Reads(up', r.st, g) /\ r.ev \in Seq(EventSet) /\ ~HasCompleted(r.ev)
        /\ TextIn(g) = TextIn(e) \o Text0(c)
    <3>1. r = ApplyChunk(relay.st, c) /\ g = e \o r.ev
      BY DEF r
    <3>2. endpoint = "responses" /\ up.heard \in Seq(Chunks) /\ Reads(up, relay.st, e)
          /\ c \in Chunks /\ up'.heard = Append(up.heard, c) /\ up'.broke = up.broke
      BY <1>2, <1>6, <1>7, <2>3
    <3> HIDE DEF g, EventSet, Chunks
    <3>3. ReadsOn(up, relay.st, e, c, up', r)
      BY ONLY <3>1, <3>2, ReadsChunk
    <3>4. QED BY <3>1, <3>3 DEF ReadsOn
  <2> HIDE DEF g
  <2>6. Uncompleted'
    BY <1>2, <1>5, <2>4, <2>5 DEF Uncompleted
  <2>7. /\ Completes(sent', Wanted(up')) /\ Completes(chan', Wanted(up'))
        /\ Completes(relay'.pending, Wanted(up'))
    BY <2>6, UncompletedAgrees DEF Uncompleted
  <2>8. phase' = "body" => g = Produced' /\ TextIn(g) = TextOf(Used(up'))
    <3> HAVE phase' = "body"
    <3>1. e = P /\ TextIn(e) = TextOf(Used(up))
      BY <1>2, <1>5, <1>6, <1>9
    <3>2. g = Produced'
      BY <1>10, <2>4, <3>1 DEF g
    <3>3. TextOf(Used(up')) = TextOf(Used(up)) \o Text0(c)
      BY <2>3 DEF SaysChunk
    <3>4. QED BY <2>5, <3>1, <3>2, <3>3
  <2>9. ~Answered'
    BY <1>2, <1>11, <2>4 DEF Answered
  <2>10. \E f : Reads(up', relay'.st, f) /\ (phase' = "body" => f = Produced')
    BY <2>4, <2>5, <2>8
  <2>11. phase' = "body" => TextIn(Produced)' = TextOf(Used(up))'
    BY <1>4, <2>8
  <2>12. QED BY <1>2, <1>5, <2>4, <2>5, <2>6, <2>7, <2>9, <2>10, <2>11 DEF Relayed
<1>13. CASE p.got # "chunk"
  <2> DEFINE z == relay'.pending
  <2>1. /\ relay'.pc = "closing"
        /\ \/ p.got = "error" /\ z = AfterError
           \/ p.got = "end" /\ z = Closing(relay.st)
    <3>1. relay = [pc |-> relay.pc, st |-> relay.st, pending |-> relay.pending]
      BY DEF Shape
    <3> DEFINE k == Closing(relay.st)
    <3>2. p.got \in {"error", "end"}
      BY <1>1, <1>8, <1>13 DEF PolledWell
    <3> HIDE DEF k, AfterError
    <3>3. CASE p.got = "error"
      <4>1. relay' = [pc |-> "closing", st |-> relay.st, pending |-> AfterError]
        BY <1>1, <3>1, <3>3
      <4>2. QED BY <3>3, <4>1
    <3>4. CASE p.got = "end"
      <4>1. relay' = [pc |-> "closing", st |-> relay.st, pending |-> k]
        BY <1>1, <3>1, <3>4 DEF k
      <4>2. relay'.pc = "closing" /\ relay'.pending = k
        BY ONLY <4>1
      <4>3. QED BY <3>4, <4>2 DEF k
    <3>5. QED BY <3>2, <3>3, <3>4
  <2>2. Quits(up, up') /\ (p.got = "error" => up'.broke) /\ (p.got = "end" => up'.broke = up.broke)
    BY <1>1, <1>8, <1>13 DEF PolledWell, Breaks
  <2>3. up'.heard = up.heard /\ TextOf(Came(up')) = TextOf(Used(up))
    BY <2>2 DEF Quits
  <2>4. Ended(up', e, z)
    <3>1. CASE p.got = "error"
      BY <1>2, <1>6, <2>1, <2>2, <3>1, ReadsError
    <3>2. CASE p.got = "end"
      BY <1>2, <1>6, <1>7, <2>1, <2>2, <2>3, <3>2, ReadsEnd
    <3>3. QED BY <2>1, <3>1, <3>2
  <2> HIDE DEF z
  <2>5. /\ z \in Seq(EventSet) /\ Completes(z, Wanted(up')) /\ Tellings(up', e \o z)
        /\ TextIn(e \o z) = TextIn(e)
    BY <2>4 DEF Ended
  <2>6. Completes(sent', Wanted(up')) /\ Completes(chan', Wanted(up'))
    BY <1>2, <1>5, UncompletedAgrees DEF Uncompleted
  <2>7. Answered' => Tellings(up', Produced') /\ TextIn(Produced)' = TextOf(Came(up))'
    <3> HAVE Answered'
    <3>1. phase = "body"
      BY <1>2, <1>11 DEF Answered
    <3>2. e = P /\ TextIn(e) = TextOf(Used(up))
      BY <1>5, <1>6, <1>9, <3>1
    <3>3. Produced' = e \o z
      BY <1>10, <3>2 DEF z
    <3>4. TextIn(Produced') = TextOf(Came(up'))
      BY <2>3, <2>5, <3>2, <3>3
    <3>5. QED BY <1>4, <2>5, <3>3, <3>4
  <2>8. QED BY <1>2, <1>5, <2>1, <2>5, <2>6, <2>7 DEF Relayed, z
<1>14. QED BY <1>12, <1>13

\* A send, and what is received.
LEMMA RelayedMove ==
  ASSUME Shape, Following, Relayed, RelaySend \/ Receive
  PROVE  Relayed'
<1>1. /\ phase' = phase /\ up' = up /\ UNCHANGED asked /\ relay.pc # "none" /\ endpoint = "responses"
  <2>1. phase' = phase /\ up' = up /\ UNCHANGED asked
    BY DEF RelaySend, Receive
  <2>2. relay.pc # "none" /\ endpoint = "responses"
    <3>1. CASE RelaySend
      <4>1. relay # NoRelay
        BY <3>1, NoRelayIs DEF RelaySend
      <4>2. QED BY <4>1 DEF Shape
    <3>2. CASE Receive
      BY <3>2 DEF Receive, Shape
    <3>3. QED BY <3>1, <3>2
  <2>3. QED BY <2>1, <2>2
<1>2. endpoint' = endpoint /\ stream' = stream /\ endpoint = "responses"
  BY <1>1 DEF asked
<1>3. /\ \A x : TextOf(x)' = TextOf(x)
      /\ \A x : TextIn(x)' = TextIn(x)
  BY <1>2, SameDialect
<1>4. /\ sent \in Seq(EventSet) /\ chan \in Seq(EventSet) /\ relay.pending \in Seq(EventSet)
      /\ relay.pc = "stopped" => relay.pending = <<>>
      /\ Completes(sent, Wanted(up)) /\ Completes(chan, Wanted(up))
      /\ Completes(relay.pending, Wanted(up))
      /\ relay.pc = "reading" =>
            /\ Uncompleted
            /\ \E e : Reads(up, relay.st, e) /\ (phase = "body" => e = Produced)
            /\ phase = "body" => TextIn(Produced) = TextOf(Used(up))
      /\ Answered => Tellings(up, Produced) /\ TextIn(Produced) = TextOf(Came(up))
  BY <1>1 DEF Relayed
<1>5. relay = [pc |-> relay.pc, st |-> relay.st, pending |-> relay.pending]
      /\ relay.pc \in {"reading", "closing", "stopped"}
  BY <1>1 DEF Shape
<1> HIDE DEF EventSet
<1>6. CASE RelaySend /\ phase # "body"
  <2>1. relay' = [relay EXCEPT !.pc = "stopped", !.pending = <<>>] /\ chan' = chan /\ sent' = sent
        /\ relay.pending # <<>>
    BY <1>6 DEF RelaySend
  <2>2. relay'.pc = "stopped" /\ relay'.pending = <<>>
    BY <1>5, <2>1
  <2>3. ~Answered'
    <3>1. phase # "ended"
      BY <1>1, <1>4, <2>1, NoRelayIs DEF Shape, Fresh
    <3>2. QED BY <1>1, <1>6, <3>1 DEF Answered
  <2>4. DOMAIN <<>> = {} /\ <<>> \in Seq(EventSet)
    OBVIOUS
  <2>5. Completes(<<>>, Wanted(up))
    BY <2>4 DEF Completes
  <2>6. QED BY <1>1, <1>4, <2>1, <2>2, <2>3, <2>4, <2>5 DEF Relayed
<1>7. CASE (RelaySend /\ phase = "body") \/ Receive
  <2>1. /\ phase = "body" /\ stream
    BY <1>7 DEF Receive, Shape
  <2> DEFINE new == relay'.pending
             W == Wanted(up)
  <2>2. /\ sent' \in Seq(EventSet) /\ chan' \in Seq(EventSet) /\ new \in Seq(EventSet)
        /\ Produced' = Produced /\ relay'.st = relay.st
        /\ \/ relay'.pc = relay.pc
           \/ relay.pc = "closing" /\ relay'.pc = "stopped"
        /\ relay'.pc = "stopped" => new = <<>>
        /\ ToSet(sent') \cup ToSet(chan') \cup ToSet(new)
             \subseteq ToSet(sent) \cup ToSet(chan) \cup ToSet(relay.pending)
    <3>1. CASE RelaySend /\ phase = "body"
      <4> DEFINE t == Tail(relay.pending)
                 one == Len(relay.pending) = 1
                 add == Append(chan, Head(relay.pending))
      <4>1. /\ chan' = add /\ sent' = sent /\ relay.pending # <<>>
            /\ relay' = [relay EXCEPT !.pending = t, !.pc = IF @ = "closing" /\ one THEN "stopped" ELSE @]
        BY <3>1 DEF RelaySend
      <4>2. Moved(sent, chan, relay.pending)
        BY <1>4, <4>1, EventsMove
      <4>3. /\ sent \o add \o t = Produced
            /\ add \in Seq(EventSet) /\ t \in Seq(EventSet)
            /\ ToSet(add) \subseteq ToSet(chan) \cup ToSet(relay.pending)
            /\ ToSet(t) \subseteq ToSet(relay.pending)
        BY <4>2 DEF Moved, Produced
      <4>4. one => t = <<>>
        <5>1. Len(t) = Len(relay.pending) - 1
          BY <1>4, <4>1, HeadTailProperties
        <5>2. one => Len(t) = 0
          BY <5>1
        <5> HIDE DEF t, one
        <5>3. QED BY <4>3, <5>2
      <4> HIDE DEF t, one, add
      <4>5. relay' = [pc |-> IF relay.pc = "closing" /\ one THEN "stopped" ELSE relay.pc,
                      st |-> relay.st, pending |-> t]
        BY <1>5, <4>1
      <4>6. /\ relay'.pc = IF relay.pc = "closing" /\ one THEN "stopped" ELSE relay.pc
            /\ relay'.st = relay.st /\ new = t
        BY ONLY <4>5
      <4>7. Produced' = Produced
        BY <4>1, <4>3, <4>6 DEF Produced
      <4>8. relay'.pc = "stopped" => new = <<>>
        <5>1. relay.pc # "stopped"
          BY <1>4, <4>1
        <5>2. QED BY <4>4, <4>6, <5>1
      <4>9. QED BY <1>4, <4>1, <4>3, <4>6, <4>7, <4>8
    <3>2. CASE Receive
      <4> DEFINE t == Tail(chan)
                 add == Append(sent, Head(chan))
      <4>1. sent' = add /\ chan' = t /\ relay' = relay /\ chan # <<>>
        BY <3>2 DEF Receive
      <4>2. Moved(sent, <<>>, chan)
        <5>1. <<>> \in Seq(EventSet)
          OBVIOUS
        <5>2. QED BY <1>4, <4>1, <5>1, EventsMove
      <4>3. /\ add \o t = sent \o chan
            /\ add \in Seq(EventSet) /\ t \in Seq(EventSet)
            /\ ToSet(add) \subseteq ToSet(sent) \cup ToSet(chan) /\ ToSet(t) \subseteq ToSet(chan)
        BY <4>2 DEF Moved
      <4> HIDE DEF t, add
      <4>4. Produced' = Produced
        BY <4>1, <4>3 DEF Produced
      <4>5. QED BY <1>4, <4>1, <4>3, <4>4
    <3>3. QED BY <1>7, <3>1, <3>2
  <2> HIDE DEF new, W
  <2>3. Completes(sent', W) /\ Completes(chan', W) /\ Completes(new, W)
    <3> DEFINE Good(x) == x.type = "completed" => W # None /\ ToSet(x.data) = ToSet(W) /\ Len(x.data) = Len(W)
    <3>1. \A q : Completes(q, W) <=> \A x \in ToSet(q) : Good(x)
      BY CompletedBySet
    <3> HIDE DEF Good
    <3>2. \A x \in ToSet(sent) \cup ToSet(chan) \cup ToSet(relay.pending) : Good(x)
      BY <1>4, <3>1 DEF W
    <3>3. QED BY <2>2, <3>1, <3>2
  <2>4. Uncompleted => Uncompleted'
    <3> HAVE Uncompleted
    <3>1. \A q : HasCompleted(q) <=> \E x \in ToSet(q) : x.type = "completed"
      BY CompletedBySet
    <3>2. \A x \in ToSet(sent) \cup ToSet(chan) \cup ToSet(relay.pending) : x.type # "completed"
      BY <3>1 DEF Uncompleted
    <3>3. ~HasCompleted(sent') /\ ~HasCompleted(chan') /\ ~HasCompleted(new)
      BY <2>2, <3>1, <3>2
    <3>4. QED BY <3>3 DEF Uncompleted, new
  <2>5. relay'.pc = "reading" => relay.pc = "reading"
    BY <2>2
  <2>6. relay'.pc = "reading" =>
           /\ Uncompleted'
           /\ \E e : Reads(up', relay'.st, e) /\ (phase' = "body" => e = Produced')
           /\ phase' = "body" => TextIn(Produced)' = TextOf(Used(up))'
    <3> HAVE relay'.pc = "reading"
    <3>1. PICK e : Reads(up, relay.st, e) /\ (phase = "body" => e = Produced)
      BY <1>4, <2>5
    <3>2. Reads(up', relay'.st, e) /\ (phase' = "body" => e = Produced')
      BY <1>1, <2>2, <3>1
    <3>3. TextIn(Produced)' = TextOf(Used(up))'
      BY <1>1, <1>3, <1>4, <2>1, <2>2, <2>5
    <3>4. QED BY <1>4, <2>4, <2>5, <3>2, <3>3
  <2>7. Answered' => Tellings(up', Produced') /\ TextIn(Produced)' = TextOf(Came(up))'
    <3> HAVE Answered'
    <3>1. Answered
      BY <1>1, <1>2, <1>5, <2>1, <2>2 DEF Answered
    <3>2. QED BY <1>1, <1>3, <1>4, <2>2, <3>1
  <2>8. QED BY <1>1, <2>2, <2>3, <2>6, <2>7 DEF Relayed, new, W
<1>8. QED BY <1>6, <1>7

\* Every step keeps it.
LEMMA RelayedStep ==
  ASSUME Shape, Following, Relayed, [Next]_vars
  PROVE  Relayed'
<1>1. ParserOK(up)
  BY DEF Following
<1>2. CASE UNCHANGED vars
  <2>1. /\ endpoint' = endpoint /\ stream' = stream /\ relay' = relay /\ sent' = sent /\ chan' = chan
        /\ phase' = phase /\ up' = up
    BY <1>2 DEF vars, asked
  <2>2. Keeps(up, up')
    BY <1>1, <2>1, SameKeeps
  <2>3. phase' = "ended" => relay.pc # "reading"
    BY <2>1, NoRelayIs DEF Shape
  <2>4. QED BY <2>1, <2>2, <2>3, RelayedKept
<1>3. CASE Accept \/ Reject \/ EnsureLoaded \/ LoadFails \/ AnswerWhole \/ CallFails
  <2>1. relay' = relay /\ phase \in Early
    BY <1>3 DEF Accept, Reject, EnsureLoaded, LoadFails, AnswerWhole, AnswerChat,
         AnswerCompletion, AnswerMessage, AnswerResponse, Answer, CallFails, Body, Early
  <2>2. relay'.pc = "none"
    BY <2>1, NoRelayIs DEF Shape, Fresh
  <2>3. QED BY <2>2 DEF Relayed
<1>4. CASE OpenStream
  <2> SUFFICES ASSUME endpoint' = "responses" PROVE Relayed'
    BY DEF Relayed
  <2>1. PICK script \in Scripts : up' = NewConnection(script)
    BY <1>4 DEF OpenStream
  <2>2. script \in Seq(Lines)
    BY <2>1, StreamsAssumption
  <2>3. phase' = "body" /\ sent' = sent /\ chan' = chan /\ sent = <<>> /\ chan = <<>>
        /\ endpoint' = endpoint /\ stream' = stream
    BY <1>4 DEF OpenStream, Shape, Early, Fresh, asked
  <2>4. relay' = [pc |-> "reading", st |-> Started.st, pending |-> Started.ev]
    BY <1>4, <2>3 DEF OpenStream
  <2>5. TextOf(Used(up')) = <<>> /\ ~up'.broke /\ up'.heard = <<>>
    BY <2>1, <2>2, NewIsOK
  <2>6. /\ AccOK(<<>>, Started) /\ Assembles(Started.st, <<>>) /\ TextIn(Started.ev) = <<>>
        /\ Started.ev \in Seq(EventSet)
    BY <2>3, StartedOK
  <2> HIDE DEF EventSet
  <2>7. <<>> \o Started.ev = Started.ev /\ <<>> \o <<>> = <<>> /\ <<>> \in Seq(EventSet)
    BY <2>6
  <2>8. relay'.pc = "reading" /\ relay'.st = Started.st /\ relay'.pending = Started.ev
    BY ONLY <2>4
  <2>9. Produced' = Started.ev
    BY <2>3, <2>7, <2>8 DEF Produced
  <2>10. AccOK(Started.ev, [st |-> Started.st, ev |-> <<>>]) /\ Open(Started.ev, Started.st.next)
    BY <2>6, <2>7, Forgets
  <2>11. Reads(up', relay'.st, Produced')
    <3>1. Joined(ChunkPieces, <<>>) = <<>>
      BY JoinedEmpty
    <3>2. QED BY <2>5, <2>6, <2>8, <2>9, <2>10, <3>1 DEF Reads
  <2>12. ~HasCompleted(Started.ev) /\ ~HasCompleted(<<>>)
    <3>1. DOMAIN <<>> = {}
      OBVIOUS
    <3>2. QED BY <2>10, <3>1, OpenUncompleted DEF HasCompleted
  <2>13. Uncompleted'
    BY <2>3, <2>8, <2>12 DEF Uncompleted
  <2>14. /\ Completes(sent', Wanted(up')) /\ Completes(chan', Wanted(up'))
         /\ Completes(relay'.pending, Wanted(up'))
    BY <2>13, UncompletedAgrees DEF Uncompleted
  <2>15. TextIn(Produced)' = TextOf(Used(up))'
    BY <2>3, <2>5, <2>6, <2>9, SameDialect
  <2>16. ~Answered'
    BY <2>3, <2>8 DEF Answered
  <2>17. QED BY <2>3, <2>6, <2>7, <2>8, <2>11, <2>13, <2>14, <2>15, <2>16 DEF Relayed
<1>5. CASE Arrive \/ ArriveInPart \/ Close
  <2>1. /\ endpoint' = endpoint /\ stream' = stream /\ relay' = relay /\ sent' = sent /\ chan' = chan
        /\ phase' = phase
    BY <1>5 DEF Arrive, ArriveInPart, Close, asked
  <2>2. Keeps(up, up')
    <3>1. CASE Arrive
      <4>1. /\ up.end = "open" /\ up.n < Len(up.script)
            /\ up' = [up EXCEPT !.n = @ + 1, !.buf = Append(@, up.script[up.n + 1]), !.tail = NoTail]
        BY <3>1 DEF Arrive, Coming
      <4>2. QED BY <1>1, <4>1, ArriveKeeps
    <3>2. CASE ArriveInPart \/ Close
      <4>1. /\ up.end = "open"
            /\ \/ \E how \in {"eof", "reset"} : up' = [up EXCEPT !.end = how]
               \/ /\ up.n < Len(up.script)
                  /\ \E part \in {Fragment, up.script[up.n + 1]} : up' = [up EXCEPT !.tail = part]
        BY <3>2 DEF ArriveInPart, Close, Coming
      <4>2. QED BY <1>1, <4>1, TailKeeps
    <3>3. QED BY <1>5, <3>1, <3>2
  <2>3. phase' = "ended" => relay.pc # "reading"
    BY <2>1, NoRelayIs DEF Shape
  <2>4. QED BY <2>1, <2>2, <2>3, RelayedKept
<1>6. CASE Pull
  BY <1>6 DEF Pull, Relayed, asked
<1>7. CASE RelayRead
  BY <1>7, RelayedRead
<1>8. CASE RelaySend \/ Receive
  BY <1>8, RelayedMove
<1>9. CASE BodyEnds
  <2>1. /\ endpoint' = endpoint /\ stream' = stream /\ relay' = relay /\ sent' = sent /\ chan' = chan
        /\ phase = "body" /\ phase' = "ended" /\ up' = up /\ relay.pc = "stopped"
    BY <1>9 DEF BodyEnds, asked
  <2>2. Keeps(up, up')
    BY <1>1, <2>1, SameKeeps
  <2>3. QED BY <2>1, <2>2, RelayedKept
<1>10. CASE Disconnect
  <2>1. /\ endpoint' = endpoint /\ stream' = stream /\ relay' = relay /\ sent' = sent
        /\ phase' = "gone" /\ up' = up /\ chan' = <<>>
    BY <1>10 DEF Disconnect, asked
  <2> SUFFICES ASSUME endpoint = "responses", relay.pc # "none" PROVE Relayed'
    BY <2>1 DEF Relayed
  <2>2. /\ sent \in Seq(EventSet) /\ relay.pending \in Seq(EventSet)
        /\ relay.pc = "stopped" => relay.pending = <<>>
        /\ Completes(sent, Wanted(up)) /\ Completes(relay.pending, Wanted(up))
        /\ relay.pc = "reading" => Uncompleted /\ \E e : Reads(up, relay.st, e)
    BY DEF Relayed
  <2>3. DOMAIN <<>> = {}
    OBVIOUS
  <2>4. Completes(<<>>, Wanted(up)) /\ ~HasCompleted(<<>>)
    BY <2>3 DEF Completes, HasCompleted
  <2> HIDE DEF EventSet
  <2>5. <<>> \in Seq(EventSet)
    OBVIOUS
  <2>6. Uncompleted => Uncompleted'
    BY <2>1, <2>4 DEF Uncompleted
  <2>7. ~Answered'
    BY <2>1 DEF Answered
  <2>8. QED BY <2>1, <2>2, <2>4, <2>5, <2>6, <2>7 DEF Relayed
<1>11. QED BY <1>2, <1>3, <1>4, <1>5, <1>6, <1>7, <1>8, <1>9, <1>10 DEF Next, Finished

\* The relay tells what it heard.
THEOREM RelayedCorrect == Spec => []Relayed
<1>1. Init => Relayed
  BY NoRelayIs DEF Init, Relayed
<1>2. Shape /\ Following /\ Relayed /\ [Next]_vars => Relayed'
  BY RelayedStep
<1>3. QED BY <1>1, <1>2, ShapeCorrect, FollowingCorrect, PTL DEF Spec

-----------------------------------------------------------------------------
(* What follows *)

\* Nothing is produced before the stream is opened.
LEMMA ProducedEarly == Fresh => Produced = <<>>
<1>1. NoRelay.pending = <<>> /\ <<>> \o <<>> \o <<>> = <<>>
  BY NoRelayIs
<1>2. QED BY <1>1 DEF Fresh, Produced

\* A response that was read to its end was read whole.
LEMMA ReadWhole ==
  ASSUME Shape, Relayed, endpoint = "responses", stream, phase = "ended"
  PROVE  /\ Answered /\ relay.pc = "stopped" /\ Produced = sent /\ sent \in Seq(EventSet)
         /\ Tellings(up, sent) /\ TextIn(sent) = TextOf(Came(up))
<1>1. relay.pc = "stopped" /\ chan = <<>>
  BY DEF Shape
<1>2. sent \in Seq(EventSet) /\ relay.pending = <<>>
  BY <1>1 DEF Relayed
<1>3. Answered
  BY DEF Answered
<1>4. Produced = sent
  <2> HIDE DEF EventSet
  <2>1. sent \o <<>> = sent
    BY <1>2
  <2>2. QED BY <1>1, <1>2, <2>1 DEF Produced
<1>5. QED BY <1>1, <1>2, <1>3, <1>4 DEF Relayed

\* The client that stays reads the text of every line that came, whatever it asked and however
\* the lines were cut (TextDelivered).
THEOREM TextDeliveredCorrect == Spec => []TextDelivered
<1>1. Shape /\ Direct /\ Relayed => TextDelivered
  <2> SUFFICES ASSUME Shape, Direct, Relayed, phase = "ended", stream
               PROVE  TextIn(sent) = TextOf(Came(up))
    BY DEF TextDelivered
  <2>1. CASE endpoint = "responses"
    BY <2>1, ReadWhole
  <2>2. CASE endpoint # "responses"
    BY <2>2 DEF Direct, Tells
  <2>3. QED BY <2>1, <2>2
<1>2. QED BY <1>1, ShapeCorrect, DirectCorrect, RelayedCorrect, PTL

\* The events of /v1/responses are numbered without gaps, open every item once before anything
\* is added to it, close what they opened and end with completion or error (Grammar).
THEOREM GrammarCorrect == Spec => []Grammar
<1>1. Shape /\ Relayed => Grammar
  <2> SUFFICES ASSUME Shape, Relayed, endpoint = "responses", stream, phase # "gone"
               PROVE  GrammarOf(Produced)
    BY GrammarIs
  <2>1. CASE phase \in Early
    <3>1. Produced = <<>>
      BY <2>1, ProducedEarly DEF Shape
    <3>2. DOMAIN <<>> = {}
      OBVIOUS
    <3>3. QED BY <3>1, <3>2 DEF GrammarOf
  <2>2. CASE phase \in {"body", "ended"} /\ Answered
    <3>1. relay.pc # "none"
      BY <2>2 DEF Answered, Shape
    <3>2. QED BY <2>2, <3>1 DEF Relayed, Tellings
  <2>3. CASE phase \in {"body", "ended"} /\ ~Answered
    <3>1. phase = "body" /\ relay.pc = "reading"
      BY <2>3 DEF Answered, Shape
    <3>2. Reads(up, relay.st, Produced)
      BY <3>1 DEF Relayed
    <3> DEFINE acc == [st |-> relay.st, ev |-> <<>>]
               g == Produced \o acc.ev
    <3>3. AccOK(Produced, acc) /\ acc.st = relay.st
      BY <3>2 DEF Reads
    <3> HIDE DEF acc
    <3>4. Open(g, acc.st.next) /\ acc.st.next \in Nat
      BY <3>3, Forgets
    <3>5. g = Produced
      <4> HIDE DEF EventSet
      <4>1. Produced \in Seq(EventSet)
        BY <3>3 DEF AccOK
      <4>2. acc.ev = <<>>
        BY DEF acc
      <4>3. Produced \o <<>> = Produced
        BY <4>1
      <4>4. QED BY <4>2, <4>3
    <3>6. QED BY <3>4, <3>5, OpenInGrammar
  <2>4. QED BY <2>1, <2>2, <2>3 DEF Shape
<1>2. QED BY <1>1, ShapeCorrect, RelayedCorrect, PTL

\* A completed stream carries the output the whole reply would have had, and completes exactly
\* when that reply is no error (CompletedAgrees).
LEMMA CompletedAgreesHolds ==
  ASSUME Shape, Following, Relayed
  PROVE  CompletedAgrees
<1> SUFFICES ASSUME endpoint = "responses", stream
             PROVE  /\ Completes(Produced, Wanted(up))
                    /\ phase = "ended" /\ ~up.broke /\ Wanted(up) # None => HasCompleted(Produced)
  <2>1. up.heard \in Seq(Chunks)
    BY DEF Following, ParserOK, Connections
  <2>2. ToResponseOutput(Assembled(up.heard)) = Wanted(up)
    BY <2>1, AssembledIs DEF Wanted
  <2> DEFINE done == {i \in DOMAIN Produced : Produced[i].type = "completed"}
             W == Wanted(up)
  <2>3. HasCompleted(Produced) => done # {}
    BY DEF HasCompleted
  <2>4. Completes(Produced, W) =>
          \A i \in done : W # None /\ ToSet(Produced[i].data) = ToSet(W) /\ Len(Produced[i].data) = Len(W)
    BY DEF Completes
  <2>5. CompletedAgrees <=>
          (endpoint = "responses" /\ stream =>
             /\ \A i \in done : W # None /\ ToSet(Produced[i].data) = ToSet(W) /\ Len(Produced[i].data) = Len(W)
             /\ phase = "ended" /\ ~up.broke /\ W # None => done # {})
    BY <2>2 DEF CompletedAgrees
  <2> HIDE DEF done, W
  <2>6. QED BY <2>3, <2>4, <2>5 DEF W
<1>1. CASE relay.pc = "none"
  <2>1. Fresh /\ phase # "ended"
    BY <1>1 DEF Shape
  <2>2. Produced = <<>>
    BY <2>1, ProducedEarly
  <2>3. DOMAIN <<>> = {}
    OBVIOUS
  <2>4. QED BY <2>1, <2>2, <2>3 DEF Completes
<1>2. CASE relay.pc # "none"
  <2> HIDE DEF EventSet
  <2>1. /\ sent \in Seq(EventSet) /\ chan \in Seq(EventSet) /\ relay.pending \in Seq(EventSet)
        /\ Completes(sent, Wanted(up)) /\ Completes(chan, Wanted(up))
        /\ Completes(relay.pending, Wanted(up))
    BY <1>2 DEF Relayed
  <2> DEFINE P == sent \o chan
  <2>2. Both(sent, chan, P)
    BY <2>1, CompletedConcat
  <2>3. P \in Seq(EventSet) /\ Completes(P, Wanted(up)) /\ Produced = P \o relay.pending
    BY <2>1, <2>2 DEF Both, Produced
  <2> HIDE DEF P
  <2>4. Both(P, relay.pending, Produced)
    BY <2>1, <2>3, CompletedConcat
  <2>5. Completes(Produced, Wanted(up))
    BY <2>1, <2>3, <2>4 DEF Both
  <2>6. ASSUME phase = "ended", ~up.broke, Wanted(up) # None
        PROVE  HasCompleted(Produced)
    BY <2>6, ReadWhole DEF Tellings
  <2>7. QED BY <2>5, <2>6
<1>3. QED BY <1>1, <1>2

\* A client that stays is told of a broken connection (ErrorTold).
LEMMA ErrorToldHolds ==
  ASSUME Shape, Direct, Relayed
  PROVE  ErrorTold
<1> HIDE DEF ErrorEvent
<1> SUFFICES ASSUME phase = "ended", up.broke
             PROVE  ErrorEvent \in ToSet(sent) /\ ~HasCompleted(sent)
  BY DEF ErrorTold, HasCompleted
<1>1. stream
  <2>1. ~NewConnection(<<>>).broke
    BY DEF NewConnection
  <2>2. QED BY <2>1 DEF Shape
<1>2. CASE endpoint = "responses"
  BY <1>1, <1>2, ReadWhole DEF Tellings
<1>3. CASE endpoint # "responses"
  <2>1. sent \in Seq(Plain) /\ ErrorEvent \in ToSet(sent)
    BY <1>1, <1>3 DEF Direct, Tells
  <2>2. \A i \in DOMAIN sent : sent[i] \in Plain
    BY <2>1
  <2>3. \A i \in DOMAIN sent : sent[i].type # "completed"
    BY <2>2 DEF Plain
  <2>4. QED BY <2>1, <2>3 DEF HasCompleted
<1>4. QED BY <1>2, <1>3

\* How a stream ends is what became of its reply (EndsTruthfully).
THEOREM EndsTruthfullyCorrect == Spec => []EndsTruthfully
<1>1. Shape /\ Following /\ Direct /\ Relayed => EndsTruthfully
  BY CompletedAgreesHolds, ErrorToldHolds DEF EndsTruthfully
<1>2. QED BY <1>1, ShapeCorrect, FollowingCorrect, DirectCorrect, RelayedCorrect, PTL

-----------------------------------------------------------------------------
(* The request on its way to the backend *)

\* What is in a part is in the whole.
LEMMA FlattenHas ==
  ASSUME NEW S, NEW ss \in Seq(Seq(S))
  PROVE  \A i \in DOMAIN ss : ToSet(ss[i]) \subseteq ToSet(FlattenSeq(ss))
<1> DEFINE T == {uu \in Seq(Seq(S)) : \A i \in DOMAIN uu : ToSet(uu[i]) \subseteq ToSet(FlattenSeq(uu))}
<1>1. <<>> \in T
  <2>1. <<>> \in Seq(Seq(S)) /\ DOMAIN <<>> = {}
    OBVIOUS
  <2>2. QED BY <2>1
<1>2. \A uu \in Seq(Seq(S)), u \in Seq(S) : uu \in T => Append(uu, u) \in T
  <2> TAKE uu \in Seq(Seq(S)), u \in Seq(S)
  <2> HAVE uu \in T
  <2> DEFINE v == Append(uu, u)
             N == Len(uu)
  <2>1. /\ v \in Seq(Seq(S)) /\ DOMAIN v = 1..(N + 1) /\ DOMAIN uu = 1..N /\ N \in Nat
        /\ v[N + 1] = u /\ \A i \in 1..N : v[i] = uu[i]
    OBVIOUS
  <2>2. FlattenSeq(v) = FlattenSeq(uu) \o u /\ FlattenSeq(uu) \in Seq(S)
    BY FlattenAppend, FlattenType
  <2>3. ToSet(FlattenSeq(v)) = ToSet(FlattenSeq(uu)) \cup ToSet(u)
    <3>1. FlattenSeq(uu) \in Seq(S) /\ u \in Seq(S)
      BY <2>2
    <3>2. Gathers(FlattenSeq(uu), u)
      BY ONLY <3>1, GatherConcat
    <3>3. QED BY ONLY <2>2, <3>2 DEF Gathers
  <2>4. \A i \in DOMAIN uu : ToSet(uu[i]) \subseteq ToSet(FlattenSeq(uu))
    OBVIOUS
  <2> HIDE DEF v, N, T
  <2>5. \A i \in 1..(N + 1) : i \in 1..N \/ i = N + 1
    BY <2>1
  <2>6. \A i \in DOMAIN v : ToSet(v[i]) \subseteq ToSet(FlattenSeq(v))
    BY <2>1, <2>3, <2>4, <2>5
  <2>7. QED BY <2>1, <2>6 DEF T, v
<1> HIDE DEF T
<1>3. ss \in T
  BY <1>1, <1>2, SeqClimb
<1>4. QED BY <1>3 DEF T

BlockSet(types) == [type : types, text : Seq(STRING), id : STRING]

\* The texts of blocks.
LEMMA TextsType ==
  ASSUME NEW types, NEW blocks \in Seq(BlockSet(types))
  PROVE  Texts(blocks) \in Seq(STRING) /\ (NoText(blocks) => Texts(blocks) = <<>>)
<1> DEFINE ss == [i \in DOMAIN blocks |-> IF blocks[i].type = "text" THEN blocks[i].text ELSE <<>>]
           N == Len(blocks)
<1>1. DOMAIN blocks = 1..N /\ N \in Nat /\ \A i \in 1..N : blocks[i] \in BlockSet(types)
  OBVIOUS
<1>2. <<>> \in Seq(STRING)
  OBVIOUS
<1>3. \A i \in 1..N : blocks[i].text \in Seq(STRING)
  BY <1>1 DEF BlockSet
<1>4. ss \in [1..N -> Seq(STRING)]
  BY <1>1, <1>2, <1>3
<1>5. ss \in Seq(Seq(STRING))
  BY <1>1, <1>4, SeqDef
<1>6. Texts(blocks) = FlattenSeq(ss)
  BY DEF Texts
<1>7. ASSUME NoText(blocks) PROVE FlattenSeq(ss) = <<>>
  <2>1. ss \in [1..N -> {<<>>}]
    BY <1>1, <1>7 DEF NoText
  <2> HIDE DEF ss, N
  <2>2. QED BY <1>1, <2>1, FlattenNothing
<1> HIDE DEF ss, N
<1>8. FlattenSeq(ss) \in Seq(STRING)
  BY <1>5, FlattenType
<1>9. QED BY <1>6, <1>7, <1>8

\* The messages there can be, with what the operator asked for.
Roles == {"system", "assistant", "tool", "user"}
MessageSet(sys) ==
    [role : Roles, content : Seq(STRING) \cup {None}, call : STRING \cup {None}, calls : {None}]
        \cup {Message("system", sys)}
SaidIn(m, role) == IF m.role = role /\ m.content # None THEN m.content ELSE <<>>
Says(sys, role) == [m \in MessageSet(sys) |-> SaidIn(m, role)]

\* What a message says is text.
LEMMA SaysType ==
  ASSUME NEW sys, NEW role \in {"user", "assistant"}
  PROVE  Says(sys, role) \in [MessageSet(sys) -> Seq(STRING)]
<1>1. \A m \in MessageSet(sys) : SaidIn(m, role) \in Seq(STRING)
  <2> TAKE m \in MessageSet(sys)
  <2>1. <<>> \in Seq(STRING)
    OBVIOUS
  <2>2. CASE m = Message("system", sys)
    <3>1. m.role = "system"
      BY <2>2 DEF Message
    <3>2. QED BY <2>1, <3>1 DEF SaidIn
  <2>3. CASE m # Message("system", sys)
    <3>1. m.content \in Seq(STRING) \cup {None}
      BY <2>3 DEF MessageSet
    <3>2. QED BY <2>1, <3>1 DEF SaidIn
  <2>4. QED BY <2>2, <2>3
<1>2. QED BY <1>1 DEF Says

\* What messages say is the join of what each says.
LEMMA SaidJoined ==
  ASSUME NEW sys, NEW ms \in Seq(MessageSet(sys)), NEW role
  PROVE  Said(ms, role) = Joined(Says(sys, role), ms)
<1>1. \A i \in DOMAIN ms : Says(sys, role)[ms[i]] = SaidIn(ms[i], role)
  <2>1. \A i \in DOMAIN ms : ms[i] \in MessageSet(sys)
    OBVIOUS
  <2>2. QED BY <2>1 DEF Says
<1>2. [i \in DOMAIN ms |-> IF ms[i].role = role /\ ms[i].content # None THEN ms[i].content ELSE <<>>]
        = [i \in DOMAIN ms |-> Says(sys, role)[ms[i]]]
  BY <1>1 DEF SaidIn
<1>3. QED BY <1>2 DEF Said, Joined

\* A message like this one.
LEMMA MessageFields ==
  ASSUME NEW sys, NEW role \in Roles, NEW content \in Seq(STRING) \cup {None},
         NEW m, m = Message(role, content)
  PROVE  m \in MessageSet(sys) /\ m.role = role /\ m.content = content
BY DEF Message, MessageSet

\* A tool message.
LEMMA ToolMessageFields ==
  ASSUME NEW sys, NEW b, b.text \in Seq(STRING), b.id \in STRING
  PROVE  ToolMessage(b) \in MessageSet(sys) /\ ToolMessage(b).role = "tool"
<1> DEFINE t == b.text
           i == b.id
           m == Message("tool", t)
<1>1. t \in Seq(STRING) /\ i \in STRING
  OBVIOUS
<1>2. ToolMessage(b) = [m EXCEPT !.call = i]
  BY DEF ToolMessage
<1> HIDE DEF t, i
<1>3. [m EXCEPT !.call = i] = [role |-> "tool", content |-> t, call |-> i, calls |-> None]
  BY DEF Message
<1>4. QED BY <1>1, <1>2, <1>3 DEF MessageSet, Roles

\* What a user's tool results say, and that there is a message for each.
LEMMA ResultsSay ==
  ASSUME NEW sys, NEW types, NEW blocks \in Seq(BlockSet(types)), NEW role \in {"user", "assistant"}
  PROVE  /\ Results(blocks) \in Seq(MessageSet(sys))
         /\ Joined(Says(sys, role), Results(blocks)) = <<>>
         /\ \A j \in DOMAIN blocks : blocks[j].type = "tool_result" =>
               ToolMessage(blocks[j]) \in ToSet(Results(blocks))
<1> DEFINE N == Len(blocks)
           rr == [i \in DOMAIN blocks |->
                     IF blocks[i].type = "tool_result" THEN <<ToolMessage(blocks[i])>> ELSE <<>>]
           M == MessageSet(sys)
           f == Says(sys, role)
<1>1. DOMAIN blocks = 1..N /\ N \in Nat
      /\ \A i \in 1..N : blocks[i].text \in Seq(STRING) /\ blocks[i].id \in STRING
  <2>1. DOMAIN blocks = 1..N /\ N \in Nat /\ \A i \in 1..N : blocks[i] \in BlockSet(types)
    OBVIOUS
  <2>2. QED BY <2>1 DEF BlockSet
<1>2. \A i \in 1..N : ToolMessage(blocks[i]) \in M /\ ToolMessage(blocks[i]).role = "tool"
  BY <1>1, ToolMessageFields
<1>3. f \in [M -> Seq(STRING)]
  BY SaysType
<1>4. \A i \in 1..N : f[ToolMessage(blocks[i])] = <<>>
  BY <1>2 DEF Says, SaidIn
<1> HIDE DEF N, M, f
<1>5. \A i \in 1..N : rr[i] \in Seq(M) /\ Joined(f, rr[i]) = <<>>
  <2> TAKE i \in 1..N
  <2> DEFINE m == ToolMessage(blocks[i])
  <2>1. m \in M /\ f[m] = <<>> /\ rr[i] = IF blocks[i].type = "tool_result" THEN <<m>> ELSE <<>>
    BY <1>1, <1>2, <1>4
  <2> HIDE DEF m, rr
  <2>2. CASE blocks[i].type = "tool_result"
    <3>1. rr[i] = <<m>> /\ <<m>> \in Seq(M)
      BY <2>1, <2>2
    <3>2. Joined(f, <<m>>) = f[m]
      BY <1>3, <2>1, JoinedOne
    <3>3. QED BY <2>1, <3>1, <3>2
  <2>3. CASE blocks[i].type # "tool_result"
    <3>1. rr[i] = <<>> /\ <<>> \in Seq(M)
      BY <2>1, <2>3
    <3>2. QED BY <3>1, JoinedEmpty
  <2>4. QED BY <2>2, <2>3
<1>6. rr \in [1..N -> Seq(M)]
  <2>1. DOMAIN rr = 1..N /\ rr = [i \in 1..N |-> rr[i]]
    BY <1>1
  <2> HIDE DEF rr
  <2>2. QED BY <1>5, <2>1
<1>7. Results(blocks) = FlattenSeq(rr)
  BY DEF Results
<1>8. \A j \in DOMAIN blocks : blocks[j].type = "tool_result" => ToolMessage(blocks[j]) \in ToSet(rr[j])
  BY <1>1 DEF ToSet
<1> HIDE DEF rr
<1>9. rr \in Seq(Seq(M)) /\ DOMAIN rr = 1..N
  BY <1>1, <1>6, SeqDef
<1>10. FlattenSeq(rr) \in Seq(M)
  BY <1>9, FlattenType
<1>11. Joined(f, FlattenSeq(rr)) = <<>>
  <2> DEFINE jj == [j \in DOMAIN rr |-> Joined(f, rr[j])]
  <2>1. Joined(f, FlattenSeq(rr)) = FlattenSeq(jj)
    <3>1. rr \in Seq(Seq(M)) /\ f \in [M -> Seq(STRING)]
      BY <1>3, <1>9
    <3>2. Joined(f, FlattenSeq(rr)) = FlattenSeq([j \in DOMAIN rr |-> Joined(f, rr[j])])
      BY ONLY <3>1, JoinedJoin
    <3>3. QED BY <3>2
  <2>2. jj \in [1..N -> {<<>>}]
    BY <1>5, <1>9
  <2> HIDE DEF jj
  <2>3. QED BY <1>1, <2>1, <2>2, FlattenNothing
<1>12. \A j \in DOMAIN rr : ToSet(rr[j]) \subseteq ToSet(FlattenSeq(rr))
  BY <1>9, FlattenHas
<1>13. QED BY <1>1, <1>7, <1>8, <1>9, <1>10, <1>11, <1>12 DEF M, f

TurnSet(roles, types) == [role : roles, blocks : Seq(BlockSet(types))]

\* What the messages made of a turn say is what was written in it.
LEMMA TurnSays ==
  ASSUME NEW sys, NEW types, NEW turn \in TurnSet({"user", "assistant"}, types),
         NEW role \in {"user", "assistant"}
  PROVE  /\ FromBlocks(turn) \in Seq(MessageSet(sys))
         /\ Joined(Says(sys, role), FromBlocks(turn)) =
               IF Spoke(turn, role) THEN Texts(turn.blocks) ELSE <<>>
         /\ \A j \in DOMAIN turn.blocks :
               turn.blocks[j].type = "tool_result" /\ turn.role = "user" =>
                  ToolMessage(turn.blocks[j]) \in ToSet(FromBlocks(turn))
<1> DEFINE M == MessageSet(sys)
           f == Says(sys, role)
           blocks == turn.blocks
           t == Texts(blocks)
           r == Results(blocks)
<1>1. blocks \in Seq(BlockSet(types)) /\ turn.role \in {"user", "assistant"}
  BY DEF TurnSet
<1>2. t \in Seq(STRING) /\ (NoText(blocks) => t = <<>>)
  BY <1>1, TextsType
<1>3. /\ r \in Seq(M) /\ Joined(f, r) = <<>>
      /\ \A j \in DOMAIN blocks : blocks[j].type = "tool_result" => ToolMessage(blocks[j]) \in ToSet(r)
  BY <1>1, ResultsSay
<1>4. f \in [M -> Seq(STRING)]
  BY SaysType
<1>5. \A m \in M : f[m] = SaidIn(m, role)
  BY DEF Says
<1>6. \A p, q \in Seq(M) : Joined(f, p \o q) = Joined(f, p) \o Joined(f, q)
  <2> HIDE DEF M, f
  <2> TAKE p, q \in Seq(M)
  <2>1. JoinsInParts(f, p, q)
    BY <1>4, JoinedConcat
  <2>2. QED BY <2>1 DEF JoinsInParts
<1>7. Spoke(turn, role) <=> turn.role = role
  BY <1>1 DEF Spoke
<1>8. CASE turn.role = "assistant"
  <2> DEFINE c == IF NoText(blocks) THEN None ELSE t
             m == Message("assistant", c)
  <2>1. FromBlocks(turn) = <<m>> /\ c \in Seq(STRING) \cup {None}
    BY <1>2, <1>8 DEF FromBlocks
  <2>2. m \in M /\ m.role = "assistant" /\ m.content = c
    BY <2>1, MessageFields DEF Roles
  <2>3. c = (IF NoText(blocks) THEN None ELSE t) /\ None \notin Seq(STRING)
    BY AbsentAssumption
  <2>4. f[m] = IF role = "assistant" THEN t ELSE <<>>
    <3>1. f[m] = SaidIn(m, role)
      BY <1>5, <2>2
    <3> HIDE DEF m, c, t
    <3>2. SaidIn(m, role) = IF role = "assistant" THEN t ELSE <<>>
      BY <1>2, <2>2, <2>3 DEF SaidIn
    <3>3. QED BY <3>1, <3>2
  <2> HIDE DEF m, f, M, t
  <2>5. Joined(f, <<m>>) = f[m] /\ <<m>> \in Seq(M)
    BY <1>4, <2>2, JoinedOne
  <2>6. QED BY <1>7, <1>8, <2>1, <2>4, <2>5 DEF M, f, t
<1>9. CASE turn.role = "user"
  <2> DEFINE m == Message("user", t)
             said == IF NoText(blocks) THEN <<>> ELSE <<m>>
  <2>1. FromBlocks(turn) = r \o said
    BY <1>9 DEF FromBlocks
  <2>2. m \in M /\ m.role = "user" /\ m.content = t
    BY <1>2, MessageFields DEF Roles
  <2>3. None \notin Seq(STRING)
    BY AbsentAssumption
  <2>4. f[m] = IF role = "user" THEN t ELSE <<>>
    <3>1. f[m] = SaidIn(m, role)
      BY <1>5, <2>2
    <3> HIDE DEF m, t
    <3>2. SaidIn(m, role) = IF role = "user" THEN t ELSE <<>>
      BY <1>2, <2>2, <2>3 DEF SaidIn
    <3>3. QED BY <3>1, <3>2
  <2>5. said = (IF NoText(blocks) THEN <<>> ELSE <<m>>) /\ (NoText(blocks) => t = <<>>)
    BY <1>2
  <2> HIDE DEF m, f, M, t, said, r
  <2>6. Joined(f, <<m>>) = f[m] /\ <<m>> \in Seq(M) /\ Joined(f, <<>>) = <<>> /\ <<>> \in Seq(M)
    BY <1>4, <2>2, JoinedOne, JoinedEmpty
  <2>7. said \in Seq(M) /\ Joined(f, said) = IF role = "user" THEN t ELSE <<>>
    BY <2>4, <2>5, <2>6
  <2>8. Joined(f, r \o said) = Joined(f, r) \o Joined(f, said)
    BY <1>3, <1>6, <2>7
  <2>9. Joined(f, said) \in Seq(STRING)
    <3>1. <<>> \in Seq(STRING)
      OBVIOUS
    <3>2. QED BY <1>2, <2>7, <3>1
  <2>10. Joined(f, r \o said) = Joined(f, said) /\ r \o said \in Seq(M)
    BY <1>3, <2>7, <2>8, <2>9
  <2>11. ToSet(r) \subseteq ToSet(r \o said)
    <3>1. r \in Seq(M)
      BY <1>3
    <3>2. Gathers(r, said)
      BY ONLY <2>7, <3>1, GatherConcat
    <3>3. QED BY <3>2 DEF Gathers
  <2>12. QED BY <1>3, <1>7, <1>9, <2>1, <2>7, <2>10, <2>11 DEF M, f, t
<1>10. QED BY <1>1, <1>8, <1>9

\* The system prompt before them.
Prompt(system) == IF system = None THEN <<>> ELSE <<Message("system", Texts(system))>>

\* The backend is not told that the system prompt was said by anyone else.
LEMMA PromptSilent ==
  ASSUME NEW system, NEW role \in {"user", "assistant"}
  PROVE  /\ Prompt(system) \in Seq(MessageSet(Texts(system)))
         /\ Joined(Says(Texts(system), role), Prompt(system)) = <<>>
<1> DEFINE sys == Texts(system)
           m == Message("system", sys)
           M == MessageSet(sys)
           f == Says(sys, role)
<1>1. m \in M /\ m.role = "system"
  BY DEF MessageSet, Message
<1>2. f \in [M -> Seq(STRING)]
  BY SaysType
<1>3. f[m] = <<>>
  BY <1>1 DEF Says, SaidIn
<1>4. Prompt(system) = <<>> \/ Prompt(system) = <<m>>
  BY DEF Prompt
<1> HIDE DEF m, M, f
<1>5. Joined(f, <<m>>) = f[m] /\ <<m>> \in Seq(M) /\ Joined(f, <<>>) = <<>> /\ <<>> \in Seq(M)
  BY <1>1, <1>2, JoinedOne, JoinedEmpty
<1>6. QED BY <1>3, <1>4, <1>5 DEF M, f

\* What the backend gets for these turns keeps what was written in them.
KeepsTurns(messages, turns) ==
    /\ \A role \in {"user", "assistant"} : Said(messages, role) = Wrote(turns, role)
    /\ \A i \in DOMAIN turns : \A j \in DOMAIN turns[i].blocks :
          turns[i].blocks[j].type = "tool_result" /\ turns[i].role = "user" =>
             \E n \in DOMAIN messages : messages[n] = ToolMessage(turns[i].blocks[j])

\* A turn of /v1/messages may be several messages.
LEMMA MessagesKept ==
  ASSUME NEW rq, rq.turns \in Turns({"user", "assistant"}, {"text", "image", "tool_result"})
  PROVE  KeepsTurns(ToOpenAIRequest(rq).messages, rq.turns)
<1> DEFINE types == {"text", "image", "tool_result"}
           TS == TurnSet({"user", "assistant"}, types)
           turns == rq.turns
           sys == Texts(rq.system)
           M == MessageSet(sys)
           pre == Prompt(rq.system)
           parts == [i \in DOMAIN turns |-> FromBlocks(turns[i])]
           messages == ToOpenAIRequest(rq).messages
           N == Len(turns)
<1>1. turns \in Seq(TS)
  BY DEF Turns, TurnSet, BlockSet
<1>2. messages = pre \o FlattenSeq(parts)
  BY DEF ToOpenAIRequest, Prompt
<1> HIDE DEF messages, pre
<1>3. DOMAIN turns = 1..N /\ N \in Nat /\ \A i \in 1..N : turns[i] \in TS
  <2> HIDE DEF TS, turns
  <2> QED BY <1>1
<1> HIDE DEF turns, TS
<1>4. \A i \in 1..N : FromBlocks(turns[i]) \in Seq(M)
  <2> TAKE i \in 1..N
  <2>1. turns[i] \in TurnSet({"user", "assistant"}, types)
    BY <1>3 DEF TS
  <2>2. QED BY <2>1, TurnSays
<1>5. parts \in Seq(Seq(M)) /\ DOMAIN parts = 1..N
  <2> HIDE DEF M
  <2>1. parts \in [1..N -> Seq(M)]
    BY <1>3, <1>4
  <2>2. DOMAIN parts = 1..N
    BY <1>3
  <2> HIDE DEF parts
  <2>3. QED BY <1>3, <2>1, <2>2, SeqDef
<1>6. pre \in Seq(M)
  BY PromptSilent DEF pre
<1>7. \A i \in 1..N : parts[i] = FromBlocks(turns[i])
  BY <1>3
<1> HIDE DEF parts
<1>8. FlattenSeq(parts) \in Seq(M)
  BY <1>5, FlattenType
<1>9. messages \in Seq(M)
  <2> HIDE DEF M
  <2> QED BY <1>2, <1>6, <1>8
<1>10. ASSUME NEW role \in {"user", "assistant"}
       PROVE  Said(messages, role) = Wrote(turns, role)
  <2> DEFINE f == Says(sys, role)
             wrote == [i \in DOMAIN turns |-> IF Spoke(turns[i], role) THEN Texts(turns[i].blocks) ELSE <<>>]
             jj == [j \in DOMAIN parts |-> Joined(f, parts[j])]
  <2>1. f \in [M -> Seq(STRING)]
    BY SaysType
  <2>2. Said(messages, role) = Joined(f, messages)
    BY <1>9, SaidJoined
  <2>3. Joined(f, pre) = <<>>
    BY PromptSilent DEF pre
  <2>4. \A i \in 1..N : Joined(f, parts[i]) = IF Spoke(turns[i], role) THEN Texts(turns[i].blocks) ELSE <<>>
    <3> TAKE i \in 1..N
    <3>1. turns[i] \in TurnSet({"user", "assistant"}, types)
      BY <1>3 DEF TS
    <3>2. Joined(f, FromBlocks(turns[i])) = IF Spoke(turns[i], role) THEN Texts(turns[i].blocks) ELSE <<>>
      BY <3>1, TurnSays
    <3>3. QED BY <1>7, <3>2
  <2> HIDE DEF f, M
  <2>5. Joined(f, messages) = Joined(f, pre) \o Joined(f, FlattenSeq(parts))
    <3>1. JoinsInParts(f, pre, FlattenSeq(parts))
      BY <1>6, <1>8, <2>1, JoinedConcat
    <3>2. QED BY <1>2, <3>1 DEF JoinsInParts
  <2>6. Joined(f, FlattenSeq(parts)) = FlattenSeq(jj)
    <3>1. parts \in Seq(Seq(M)) /\ f \in [M -> Seq(STRING)]
      BY <1>5, <2>1
    <3>2. Joined(f, FlattenSeq(parts)) = FlattenSeq([j \in DOMAIN parts |-> Joined(f, parts[j])])
      BY ONLY <3>1, JoinedJoin
    <3>3. QED BY <3>2
  <2>7. jj = wrote
    BY <1>3, <1>5, <2>4
  <2>8. Joined(f, FlattenSeq(parts)) \in Seq(STRING)
    BY <1>8, <2>1, JoinedType
  <2>9. Joined(f, messages) = Joined(f, FlattenSeq(parts))
    BY <2>3, <2>5, <2>8
  <2>10. FlattenSeq(wrote) = Wrote(turns, role)
    BY DEF Wrote
  <2>11. QED BY <2>2, <2>6, <2>7, <2>9, <2>10
<1>11. ASSUME NEW i \in DOMAIN turns, NEW j \in DOMAIN turns[i].blocks,
              turns[i].blocks[j].type = "tool_result", turns[i].role = "user"
       PROVE  \E n \in DOMAIN messages : messages[n] = ToolMessage(turns[i].blocks[j])
  <2> DEFINE m == ToolMessage(turns[i].blocks[j])
  <2>1. m \in ToSet(parts[i])
    <3>1. turns[i] \in TurnSet({"user", "assistant"}, types)
      BY <1>3 DEF TS
    <3>2. m \in ToSet(FromBlocks(turns[i]))
      BY <1>11, <3>1, TurnSays
    <3>3. QED BY <1>3, <1>7, <3>2
  <2> HIDE DEF m, M
  <2>2. \A k \in DOMAIN parts : ToSet(parts[k]) \subseteq ToSet(FlattenSeq(parts))
    BY <1>5, FlattenHas
  <2>3. m \in ToSet(FlattenSeq(parts))
    BY <1>3, <1>5, <2>1, <2>2
  <2>4. m \in ToSet(messages)
    <3>1. Gathers(pre, FlattenSeq(parts))
      BY ONLY <1>6, <1>8, GatherConcat
    <3>2. QED BY <1>2, <2>3, <3>1 DEF Gathers
  <2>5. QED BY <2>4 DEF ToSet, m
<1>12. QED BY <1>10, <1>11 DEF KeepsTurns, turns, messages

\* A turn of /v1/responses is one message.
LEMMA ResponsesKept ==
  ASSUME NEW rq, rq.turns \in Turns(STRING, {"text"}), ToChatRequest(rq) # None
  PROVE  KeepsTurns(ToChatRequest(rq).messages, rq.turns)
<1> DEFINE TS == TurnSet(STRING, {"text"})
           turns == rq.turns
           sys == Texts(rq.system)
           M == MessageSet(sys)
           pre == Prompt(rq.system)
           one == [i \in DOMAIN turns |-> Message(Role(turns[i].role), Texts(turns[i].blocks))]
           messages == ToChatRequest(rq).messages
           N == Len(turns)
<1>1. turns \in Seq(TS)
  BY DEF Turns, TurnSet, BlockSet
<1>2. messages = pre \o one
  BY DEF ToChatRequest, Prompt
<1> HIDE DEF messages, pre
<1>3. DOMAIN turns = 1..N /\ N \in Nat /\ \A i \in 1..N : turns[i] \in TS
  <2> HIDE DEF TS, turns
  <2> QED BY <1>1
<1> HIDE DEF turns
<1>4. \A i \in 1..N : Texts(turns[i].blocks) \in Seq(STRING)
                      /\ \A j \in DOMAIN turns[i].blocks : turns[i].blocks[j].type # "tool_result"
  <2> TAKE i \in 1..N
  <2> DEFINE blocks == turns[i].blocks
  <2>1. blocks \in Seq(BlockSet({"text"}))
    BY <1>3 DEF TurnSet
  <2> HIDE DEF blocks
  <2>2. Texts(blocks) \in Seq(STRING)
    BY <2>1, TextsType
  <2>3. \A j \in DOMAIN blocks : blocks[j] \in BlockSet({"text"})
    BY <2>1
  <2>4. \A j \in DOMAIN blocks : blocks[j].type # "tool_result"
    BY <2>3 DEF BlockSet
  <2>5. QED BY <2>2, <2>4 DEF blocks
<1>5. \A r : Role(r) \in Roles
  BY DEF Role, Roles
<1>6. \A i \in 1..N : /\ one[i] \in M
                      /\ one[i].role = Role(turns[i].role)
                      /\ one[i].content = Texts(turns[i].blocks)
  <2> TAKE i \in 1..N
  <2>1. one[i] = Message(Role(turns[i].role), Texts(turns[i].blocks))
    BY <1>3
  <2> HIDE DEF one
  <2>2. QED BY <1>4, <1>5, <2>1, MessageFields
<1>7. one \in Seq(M) /\ DOMAIN one = 1..N
  <2> HIDE DEF M
  <2>1. DOMAIN one = 1..N /\ one = [i \in 1..N |-> one[i]]
    BY <1>3
  <2> HIDE DEF one
  <2>2. one \in [1..N -> M]
    BY <1>6, <2>1
  <2>3. QED BY <1>3, <2>1, <2>2, SeqDef
<1>8. pre \in Seq(M)
  BY PromptSilent DEF pre
<1> HIDE DEF one
<1>9. messages \in Seq(M)
  <2> HIDE DEF M
  <2> QED BY <1>2, <1>7, <1>8
<1>10. ASSUME NEW role \in {"user", "assistant"}
       PROVE  Said(messages, role) = Wrote(turns, role)
  <2> DEFINE f == Says(sys, role)
             wrote == [i \in DOMAIN turns |-> IF Spoke(turns[i], role) THEN Texts(turns[i].blocks) ELSE <<>>]
             jj == [i \in DOMAIN one |-> f[one[i]]]
  <2>1. f \in [M -> Seq(STRING)]
    BY SaysType
  <2>2. Said(messages, role) = Joined(f, messages)
    BY <1>9, SaidJoined
  <2>3. Joined(f, pre) = <<>>
    BY PromptSilent DEF pre
  <2>4. \A i \in 1..N : f[one[i]] = IF Spoke(turns[i], role) THEN Texts(turns[i].blocks) ELSE <<>>
    <3> TAKE i \in 1..N
    <3>1. f[one[i]] = SaidIn(one[i], role)
      BY <1>6 DEF Says
    <3>2. None \notin Seq(STRING)
      BY AbsentAssumption
    <3>3. SaidIn(one[i], role) = IF Role(turns[i].role) = role THEN Texts(turns[i].blocks) ELSE <<>>
      BY <1>4, <1>6, <3>2 DEF SaidIn
    <3>4. Role(turns[i].role) = role <=> Spoke(turns[i], role)
      <4>1. CASE role = "user"
        BY <4>1 DEF Role, Spoke
      <4>2. CASE role = "assistant"
        BY <4>2 DEF Role, Spoke
      <4>3. QED BY <4>1, <4>2
    <3>5. QED BY <3>1, <3>3, <3>4
  <2> HIDE DEF f, M
  <2>5. Joined(f, messages) = Joined(f, pre) \o Joined(f, one)
    <3>1. JoinsInParts(f, pre, one)
      BY <1>7, <1>8, <2>1, JoinedConcat
    <3>2. QED BY <1>2, <3>1 DEF JoinsInParts
  <2>6. Joined(f, one) = FlattenSeq(jj)
    BY DEF Joined
  <2>7. jj = wrote
    BY <1>3, <1>7, <2>4
  <2>8. Joined(f, one) \in Seq(STRING)
    BY <1>7, <2>1, JoinedType
  <2>9. Joined(f, messages) = Joined(f, one)
    BY <2>3, <2>5, <2>8
  <2>10. FlattenSeq(wrote) = Wrote(turns, role)
    BY DEF Wrote
  <2>11. QED BY <2>2, <2>6, <2>7, <2>9, <2>10
<1>11. \A i \in DOMAIN turns : \A j \in DOMAIN turns[i].blocks : turns[i].blocks[j].type # "tool_result"
  BY <1>3, <1>4
<1>12. QED BY <1>10, <1>11 DEF KeepsTurns, turns, messages

\* The request is one of those there are and stays what it was; what the
\* backend gets is made of it once.
Requested ==
    /\ endpoint \in Endpoints /\ stream \in BOOLEAN
    /\ req \in IF stream THEN Streamed[endpoint] ELSE Whole[endpoint]
    /\ fwd = None \/ fwd = Forwarded

\* What a request is at first, and every step keeps it so.
LEMMA RequestedInit == Init => Requested
  BY DEF Init, Requested

\* No step changes what was asked, or makes another request of it.
LEMMA RequestedStep == Requested /\ [Next]_vars => Requested'
<1> SUFFICES ASSUME Requested, [Next]_vars
             PROVE  Requested'
  OBVIOUS
<1>1. UNCHANGED asked /\ (UNCHANGED fwd \/ fwd' = Forwarded)
  <2>1. CASE Accept
    BY <2>1 DEF Accept
  <2>2. CASE Reject \/ EnsureLoaded \/ LoadFails \/ OpenStream
    BY <2>2 DEF Reject, EnsureLoaded, LoadFails, OpenStream
  <2>3. CASE AnswerWhole
    BY <2>3 DEF AnswerWhole, AnswerChat, AnswerCompletion, AnswerMessage, AnswerResponse, Answer
  <2>4. CASE CallFails \/ Arrive \/ ArriveInPart \/ Close
    BY <2>4 DEF CallFails, Arrive, ArriveInPart, Close
  <2>5. CASE Pull
    BY <2>5 DEF Pull
  <2>6. CASE RelayRead \/ RelaySend \/ Receive
    BY <2>6 DEF RelayRead, RelaySend, Receive
  <2>7. CASE BodyEnds \/ Disconnect \/ Finished \/ UNCHANGED vars
    BY <2>7 DEF BodyEnds, Disconnect, Finished, vars
  <2>8. QED BY <2>1, <2>2, <2>3, <2>4, <2>5, <2>6, <2>7 DEF Next
<1>2. endpoint' = endpoint /\ stream' = stream /\ req' = req
  BY <1>1 DEF asked
<1>3. Forwarded' = Forwarded
  BY <1>2 DEF Forwarded
<1>4. QED BY <1>1, <1>2, <1>3 DEF Requested

\* Such a request reaches the backend with nothing lost.
LEMMA RequestedKeeps == Requested => RequestKept
<1> SUFFICES ASSUME Requested, fwd # None, endpoint \in {"messages", "responses"}
             PROVE  KeepsTurns(fwd.messages, req.turns)
  BY DEF RequestKept, KeepsTurns
<1>1. fwd = Forwarded /\ req \in Whole[endpoint] \cup Streamed[endpoint]
  BY DEF Requested
<1>2. CASE endpoint = "messages"
  <2>1. req.turns \in Turns({"user", "assistant"}, {"text", "image", "tool_result"})
    BY <1>1, <1>2, StreamsAssumption
  <2>2. fwd = ToOpenAIRequest(req)
    BY <1>1, <1>2 DEF Forwarded
  <2>3. QED BY <2>1, <2>2, MessagesKept
<1>3. CASE endpoint = "responses"
  <2>1. req.turns \in Turns(STRING, {"text"})
    BY <1>1, <1>3, StreamsAssumption
  <2>2. fwd = ToChatRequest(req)
    BY <1>1, <1>3 DEF Forwarded
  <2>3. QED BY <2>1, <2>2, ResponsesKept
<1>4. QED BY <1>2, <1>3

\* What was written in a conversation reaches the backend (RequestKept).
THEOREM RequestKeptCorrect == Spec => []RequestKept
<1>1. QED BY RequestedInit, RequestedStep, RequestedKeeps, PTL DEF Spec
=============================================================================
