----------------------------- MODULE RegistryProofs -----------------------------
(***************************************************************************)
(* Proofs about the registry, for any files, directories, aliases and       *)
(* ports, and any history of edits: what is offered is never at odds with   *)
(* itself, a rescan keeps what the user set, and models clean keeps every   *)
(* model.                                                                   *)
(*                                                                          *)
(* The invariant: the aliases of a registry are distinct, be it the one in  *)
(* the file or one that somebody read and will write back; the models       *)
(* installed, or waiting to be, came out of expand.  The rest is what the   *)
(* operators return: sorting and filtering lose and repeat nothing, the     *)
(* text order of aliases is total, dedupe_alias always finds a new one,     *)
(* dedupe_entries keeps one entry of each name.                             *)
(***************************************************************************)
EXTENDS Registry, FiniteSetTheorems, FunctionTheorems, WellFoundedInduction,
        SequenceTheorems, TLAPS

-----------------------------------------------------------------------------
(* Sorting and filtering *)

\* A set of naturals that is not empty has a least element: induction over the
\* positions of a sequence takes the least of the positions where it fails.
LEMMA LeastNatural ==
  ASSUME NEW S \in SUBSET Nat, S # {}
  PROVE  \E n \in S : \A m \in S : n <= m
<1>1. PICK top \in S : TRUE
  OBVIOUS
<1> DEFINE D == 0 .. top
           T == {0 .. k : k \in {k \in S : k <= top}}
<1>2. IsFiniteSet(D)
  BY <1>1, FS_Interval
<1>3. T \subseteq SUBSET D
  BY <1>1
<1>4. SUBSET D = FiniteSubsetsOf(D)
  BY <1>2, FS_FiniteSubsetsOfFinite
<1>5. 0 .. top \in T
  BY <1>1
<1> HIDE DEF T
<1>6. \E x \in T : \A y \in T : ~ (<<y, x>> \in StrictSubsetOrdering(D))
  <2>1. IsWellFoundedOn(StrictSubsetOrdering(D), SUBSET D)
    BY <1>4, FS_StrictSubsetOrderingWellFounded
  <2>2. T # {}
    BY <1>5
  <2> HIDE DEF D
  <2>3. QED BY <2>1, <2>2, <1>3, WFMin
<1>7. PICK x \in T : \A y \in T : ~ (<<y, x>> \in StrictSubsetOrdering(D))
  BY <1>6
<1>8. PICK n \in S : n <= top /\ x = 0 .. n
  BY DEF T
<1>9. ASSUME NEW m \in S PROVE n <= m
  <2>1. SUFFICES ASSUME m < n PROVE FALSE
    BY <1>8, <1>9
  <2>2. 0 .. m \in T
    BY <2>1, <1>8, <1>1 DEF T
  <2>3. 0 .. m \subseteq 0 .. n /\ n \in 0 .. n /\ n \notin 0 .. m
    BY <2>1, <1>8
  <2>4. <<0 .. m, 0 .. n>> \in StrictSubsetOrdering(D)
    BY <2>2, <2>3, <1>3, <1>8 DEF StrictSubsetOrdering
  <2>5. QED BY <2>2, <2>4, <1>7, <1>8
<1>10. QED BY <1>9

\* What front must be for Lined to sort S by it: a strict order, and a total one.
Orders(front, S) ==
    /\ front \in [S -> SUBSET S]
    /\ \A x \in S : x \notin front[x]
    /\ \A x, y \in S : x # y => x \in front[y] \/ y \in front[x]
    /\ \A x, y \in S : x \in front[y] => front[x] \subseteq front[y]

\* Lined lists every element of S once.
LEMMA LinedLists ==
  ASSUME NEW S, IsFiniteSet(S), NEW front, Orders(front, S)
  PROVE  /\ Cardinality(S) \in Nat
         /\ Lined(S, front) \in [1..Cardinality(S) -> S]
         /\ \A i, j \in 1..Cardinality(S) :
              Lined(S, front)[i] = Lined(S, front)[j] => i = j
         /\ \A x \in S : \E i \in 1..Cardinality(S) : Lined(S, front)[i] = x
<1> DEFINE N == Cardinality(S)
           rank == [x \in S |-> Cardinality(front[x])]
<1>1. N \in Nat
  BY FS_CardinalityType
<1>2. \A x \in S : front[x] \in SUBSET S /\ front[x] # S /\ IsFiniteSet(front[x])
  <2> TAKE x \in S
  <2>1. front[x] \in SUBSET S /\ x \notin front[x]
    BY DEF Orders
  <2>2. QED BY <2>1, FS_Subset
<1>3. \A x \in S : rank[x] \in 0..(N - 1)
  <2> TAKE x \in S
  <2>1. Cardinality(front[x]) <= N /\ Cardinality(front[x]) # N
    BY <1>2, FS_Subset
  <2>2. Cardinality(front[x]) \in Nat
    BY <1>2, FS_CardinalityType
  <2>3. QED BY <2>1, <2>2, <1>1
<1>4. \A x, y \in S : x \in front[y] => rank[x] < rank[y]
  <2> SUFFICES ASSUME NEW x \in S, NEW y \in S, x \in front[y]
               PROVE  Cardinality(front[x]) < Cardinality(front[y])
    OBVIOUS
  <2>1. front[x] \in SUBSET front[y] /\ front[x] # front[y]
    BY DEF Orders
  <2>2. Cardinality(front[x]) <= Cardinality(front[y])
        /\ Cardinality(front[y]) # Cardinality(front[x])
    BY <2>1, <1>2, FS_Subset
  <2>3. Cardinality(front[x]) \in Nat /\ Cardinality(front[y]) \in Nat
    BY <1>2, FS_CardinalityType
  <2>4. QED BY <2>2, <2>3
<1>5. \A x, y \in S : rank[x] = rank[y] => x = y
  BY <1>3, <1>4 DEF Orders
<1>6. rank \in Injection(S, 0..(N - 1))
  BY <1>3, <1>5 DEF Injection, IsInjective
<1>7. IsFiniteSet(0..(N - 1)) /\ Cardinality(0..(N - 1)) = N
  BY <1>1, FS_Interval
<1>8. rank \in Surjection(S, 0..(N - 1))
  BY <1>6, <1>7, FS_Injection
<1>9. \A n \in 0..(N - 1) : \E x \in S : rank[x] = n
  BY <1>8 DEF Surjection
<1>10. \A x \in S : rank[x] = Cardinality(front[x])
  OBVIOUS
<1> HIDE DEF rank
<1>11. \A i \in 1..N : Lined(S, front)[i] \in S /\ rank[Lined(S, front)[i]] = i - 1
  <2> TAKE i \in 1..N
  <2>1. \E x \in S : Cardinality(front[x]) = i - 1
    BY <1>1, <1>9, <1>10
  <2>2. Lined(S, front)[i] = CHOOSE x \in S : Cardinality(front[x]) = i - 1
    BY DEF Lined
  <2>3. QED BY <2>1, <2>2, <1>10
<1>12. Lined(S, front) \in [1..N -> S]
  BY <1>11 DEF Lined
<1>13. \A i, j \in 1..N : Lined(S, front)[i] = Lined(S, front)[j] => i = j
  BY <1>1, <1>11
<1>14. \A x \in S : \E i \in 1..N : Lined(S, front)[i] = x
  <2> TAKE x \in S
  <2>1. rank[x] + 1 \in 1..N
    BY <1>1, <1>3
  <2>2. QED BY <2>1, <1>1, <1>3, <1>5, <1>11
<1>15. QED BY <1>1, <1>12, <1>13, <1>14

\* Ascending lists every number once.
LEMMA AscendingLists ==
  ASSUME NEW S \in SUBSET Nat, IsFiniteSet(S)
  PROVE  /\ Cardinality(S) \in Nat
         /\ Ascending(S) \in [1..Cardinality(S) -> S]
         /\ \A i, j \in 1..Cardinality(S) : Ascending(S)[i] = Ascending(S)[j] => i = j
         /\ \A x \in S : \E i \in 1..Cardinality(S) : Ascending(S)[i] = x
<1> DEFINE front == [i \in S |-> {j \in S : j < i}]
<1>1. Orders(front, S)
  <2>1. front \in [S -> SUBSET S]
    OBVIOUS
  <2>2. \A x \in S : \A j : j \in front[x] <=> j \in S /\ j < x
    OBVIOUS
  <2>3. \A x \in S : x \in Nat
    OBVIOUS
  <2> HIDE DEF front
  <2>4. \A x, y \in S : x \in front[y] => front[x] \subseteq front[y]
    <3> TAKE x, y \in S
    <3> HAVE x \in front[y]
    <3>1. x < y
      BY <2>2
    <3>2. ASSUME NEW j \in front[x] PROVE j \in front[y]
      <4>1. j \in S /\ j < x
        BY <2>2, <3>2
      <4>2. j \in Nat /\ x \in Nat /\ y \in Nat
        BY <2>3, <4>1
      <4>3. j < y
        BY <3>1, <4>1, <4>2
      <4>4. QED BY <2>2, <4>1, <4>3
    <3>3. QED BY <3>2
  <2>5. \A x, y \in S : x # y => x \in front[y] \/ y \in front[x]
    BY <2>2, <2>3
  <2>6. \A x \in S : x \notin front[x]
    BY <2>2, <2>3
  <2>7. QED BY <2>1, <2>4, <2>5, <2>6 DEF Orders
<1> HIDE DEF front
<1>2. Ascending(S) = Lined(S, front)
  BY DEF Ascending, front
<1>3. QED BY <1>1, <1>2, LinedLists

\* Kept takes the elements at the given places, each place once.
LEMMA KeptPicks ==
  ASSUME NEW E, NEW es \in Seq(E), NEW places \in SUBSET DOMAIN es
  PROVE  /\ Kept(es, places) \in Seq(E)
         /\ \A n \in DOMAIN Kept(es, places) :
              \E i \in places : Kept(es, places)[n] = es[i]
         /\ \A m, n \in DOMAIN Kept(es, places) : m # n =>
              \E i, j \in places : /\ i # j
                                   /\ Kept(es, places)[m] = es[i]
                                   /\ Kept(es, places)[n] = es[j]
         /\ \A i \in places : \E n \in DOMAIN Kept(es, places) : Kept(es, places)[n] = es[i]
<1> DEFINE N == Cardinality(places)
           at == Ascending(places)
<1>1. DOMAIN es = 1..Len(es) /\ Len(es) \in Nat
  OBVIOUS
<1>2. places \in SUBSET Nat /\ IsFiniteSet(places)
  <2>1. IsFiniteSet(1..Len(es)) /\ places \in SUBSET (1..Len(es))
    BY <1>1, FS_Interval
  <2>2. QED BY <2>1, FS_Subset
<1>3. /\ N \in Nat
      /\ at \in [1..N -> places]
      /\ \A i, j \in 1..N : at[i] = at[j] => i = j
      /\ \A x \in places : \E i \in 1..N : at[i] = x
  BY <1>2, AscendingLists
<1>4. Kept(es, places) = [n \in 1..N |-> es[at[n]]]
  BY <1>3 DEF Kept
<1> HIDE DEF N, at
<1>5. \A n \in 1..N : es[at[n]] \in E
  BY <1>1, <1>3
<1>6. Kept(es, places) \in Seq(E)
  BY <1>3, <1>4, <1>5, SeqDef
<1>7. DOMAIN Kept(es, places) = 1..N
  BY <1>4
<1>8. \A n \in 1..N : Kept(es, places)[n] = es[at[n]] /\ at[n] \in places
  BY <1>3, <1>4
<1>9. \A m, n \in 1..N : m # n => at[m] # at[n]
  BY <1>3
<1>10. \A i \in places : \E n \in 1..N : Kept(es, places)[n] = es[i]
  BY <1>3, <1>8
<1>11. QED BY <1>6, <1>7, <1>8, <1>9, <1>10

-----------------------------------------------------------------------------
(* Aliases: a strict total order, and always a new one *)

Alias == Seq(Nat)

\* Aliases are compared as texts are: a strict order, and a total one.
LEMMA BeforeOrders ==
  /\ \A s \in Alias : ~Before(s, s)
  /\ \A s, t, u \in Alias : Before(s, t) /\ Before(t, u) => Before(s, u)
  /\ \A s, t \in Alias : s # t => Before(s, t) \/ Before(t, s)
<1>1. \A s \in Alias : ~Before(s, s)
  BY DEF Before, Alias
<1>2. ASSUME NEW s \in Alias, NEW t \in Alias, NEW u \in Alias, Before(s, t), Before(t, u)
      PROVE  Before(s, u)
  <2>1. PICK i \in DOMAIN t : /\ i > Len(s) \/ s[i] < t[i]
                              /\ \A j \in 1..(i - 1) : j <= Len(s) /\ s[j] = t[j]
    BY <1>2 DEF Before
  <2>2. PICK k \in DOMAIN u : /\ k > Len(t) \/ t[k] < u[k]
                              /\ \A j \in 1..(k - 1) : j <= Len(t) /\ t[j] = u[j]
    BY <1>2 DEF Before
  <2>3. /\ i \in Nat \ {0} /\ i <= Len(t) /\ k \in Nat \ {0} /\ k <= Len(u)
        /\ DOMAIN s = 1..Len(s) /\ DOMAIN t = 1..Len(t) /\ DOMAIN u = 1..Len(u)
        /\ Len(s) \in Nat /\ Len(t) \in Nat /\ Len(u) \in Nat
    BY <2>1, <2>2 DEF Alias
  <2>4. /\ \A n \in 1..Len(s) : s[n] \in Nat
        /\ \A n \in 1..Len(t) : t[n] \in Nat
        /\ \A n \in 1..Len(u) : u[n] \in Nat
    BY <2>3 DEF Alias
  <2>5. CASE i <= k
    <3>1. i \in DOMAIN u
      BY <2>3, <2>5
    <3>2. i > Len(s) \/ s[i] < u[i]
      <4>1. CASE i = k
        <5>1. t[i] < u[i]
          BY <2>2, <2>3, <4>1
        <5>2. i <= Len(s) => s[i] < t[i] /\ i \in 1..Len(s)
          BY <2>1, <2>3
        <5>3. QED BY <5>1, <5>2, <2>3, <2>4, <3>1
      <4>2. CASE i < k
        <5>1. t[i] = u[i]
          BY <2>2, <2>3, <4>2
        <5>2. QED BY <5>1, <2>1
      <4>3. QED BY <4>1, <4>2, <2>3, <2>5
    <3>3. \A j \in 1..(i - 1) : j <= Len(s) /\ s[j] = u[j]
      BY <2>1, <2>2, <2>3, <2>5
    <3>4. QED BY <3>1, <3>2, <3>3 DEF Before
  <2>6. CASE k < i
    <3>1. k \in DOMAIN u /\ (k > Len(s) \/ s[k] < u[k])
      BY <2>1, <2>2, <2>3, <2>4, <2>6
    <3>2. \A j \in 1..(k - 1) : j <= Len(s) /\ s[j] = u[j]
      BY <2>1, <2>2, <2>3, <2>6
    <3>3. QED BY <3>1, <3>2, <2>3 DEF Before
  <2>7. QED BY <2>3, <2>5, <2>6
<1>3. ASSUME NEW s \in Alias, NEW t \in Alias, s # t
      PROVE  Before(s, t) \/ Before(t, s)
  <2> DEFINE D == {i \in Nat \ {0} : i > Len(s) \/ i > Len(t) \/ s[i] # t[i]}
  <2>1. /\ DOMAIN s = 1..Len(s) /\ DOMAIN t = 1..Len(t)
        /\ Len(s) \in Nat /\ Len(t) \in Nat
        /\ \A n \in 1..Len(s) : s[n] \in Nat
        /\ \A n \in 1..Len(t) : t[n] \in Nat
    BY DEF Alias
  <2>2. Len(s) + 1 \in D
    BY <2>1
  <2>3. PICK i \in D : \A k \in D : i <= k
    <3>1. D \in SUBSET Nat /\ D # {}
      BY <2>2
    <3> HIDE DEF D
    <3>2. QED BY <3>1, LeastNatural
  <2>4. \A j \in 1..(i - 1) : j <= Len(s) /\ j <= Len(t) /\ s[j] = t[j]
    BY <2>1, <2>3
  <2>5. CASE i > Len(s) /\ i > Len(t)
    <3>1. Len(s) = Len(t)
      <4>1. ~(Len(s) + 1 \in 1..(i - 1)) /\ ~(Len(t) + 1 \in 1..(i - 1))
        BY <2>1, <2>4
      <4>2. i \in Nat
        OBVIOUS
      <4> HIDE DEF D
      <4>3. i = Len(s) + 1 /\ i = Len(t) + 1
        BY <4>1, <4>2, <2>1, <2>5
      <4>4. Len(s) \in Nat /\ Len(t) \in Nat
        BY <2>1
      <4>5. QED BY <4>3, <4>4
    <3>2. \A j \in 1..Len(s) : s[j] = t[j]
      BY <2>1, <2>4, <2>5
    <3>3. s = [j \in 1..Len(s) |-> s[j]] /\ t = [j \in 1..Len(t) |-> t[j]]
      BY <2>1 DEF Alias
    <3>4. QED BY <3>1, <3>2, <3>3, <1>3
  <2>6. CASE i > Len(s) /\ i <= Len(t)
    <3>1. i \in DOMAIN t
      BY <2>1, <2>6
    <3>2. QED BY <3>1, <2>4, <2>6 DEF Before
  <2>7. CASE i <= Len(s) /\ i > Len(t)
    <3>1. i \in DOMAIN s /\ \A j \in 1..(i - 1) : j <= Len(t) /\ t[j] = s[j]
      BY <2>1, <2>4, <2>7
    <3>2. QED BY <3>1, <2>7 DEF Before
  <2>8. CASE i <= Len(s) /\ i <= Len(t)
    <3>1. i \in DOMAIN s /\ i \in DOMAIN t /\ (s[i] < t[i] \/ t[i] < s[i])
      BY <2>1, <2>3, <2>8
    <3>2. \A j \in 1..(i - 1) : j <= Len(t) /\ t[j] = s[j]
      BY <2>4
    <3>3. QED BY <3>1, <3>2, <2>4 DEF Before
  <2>9. QED BY <2>1, <2>5, <2>6, <2>7, <2>8
<1>4. QED BY <1>1, <1>2, <1>3

\* The number dedupe_alias appends exists, and what it returns is not in use.
LEMMA DedupeAliasNew ==
  ASSUME NEW alias \in Alias, NEW used, IsFiniteSet(used)
  PROVE  DedupeAlias(alias, used) \in Alias \ used
<1>1. CASE alias \notin used
  BY <1>1 DEF DedupeAlias
<1>2. CASE alias \in used
  <2> DEFINE N == Cardinality(used) + 2
             D == {n \in 2..N : Append(alias, n) \notin used}
  <2>1. Cardinality(used) \in Nat /\ N \in Nat
    BY FS_CardinalityType
  <2>2. D # {}
    <3> SUFFICES ASSUME D = {} PROVE FALSE
      OBVIOUS
    <3> DEFINE f == [n \in 2..N |-> Append(alias, n)]
    <3>1. f \in [2..N -> used]
      OBVIOUS
    <3>2. IsFiniteSet(2..N) /\ Cardinality(2..N) = N - 1
      BY <2>1, FS_Interval
    <3>3. Cardinality(used) < Cardinality(2..N)
      BY <2>1, <3>2
    <3> HIDE DEF f, N, D
    <3>4. PICK m, n \in 2..N : m # n /\ f[m] = f[n]
      BY <3>1, <3>2, <3>3, FS_PigeonHole
    <3>5. Append(alias, m) = Append(alias, n)
      BY <3>4 DEF f
    <3>6. QED BY <3>4, <3>5, <2>1 DEF Alias
  <2>3. PICK n \in D : \A k \in D : n <= k
    <3>1. D \in SUBSET Nat
      BY <2>1
    <3> HIDE DEF D
    <3>2. QED BY <2>2, <3>1, LeastNatural
  <2>4. \E k \in 2..N : /\ Append(alias, k) \notin used
                        /\ \A j \in 2..(k - 1) : Append(alias, j) \in used
    BY <2>1, <2>3
  <2> DEFINE chosen == CHOOSE k \in 2..N : /\ Append(alias, k) \notin used
                                           /\ \A j \in 2..(k - 1) : Append(alias, j) \in used
  <2>5. chosen \in 2..N /\ Append(alias, chosen) \notin used
    BY <2>4
  <2>6. DedupeAlias(alias, used) = Append(alias, chosen)
    BY <1>2 DEF DedupeAlias
  <2> HIDE DEF chosen
  <2>7. QED BY <2>1, <2>5, <2>6 DEF Alias
<1>3. QED BY <1>1, <1>2

-----------------------------------------------------------------------------
(* Entries: what merging and deduplicating them keeps *)

Ctx == {None, "user", "fit"}

Entry == [alias : Alias, file : Files \cup {None}, repo : BOOLEAN, enabled : BOOLEAN,
          priority : BOOLEAN, port : Int \cup {None}, ctx : Ctx, floor : Ctx,
          hf : BOOLEAN, pin : Pins \cup {None}]

Distinct(es) == \A i, j \in DOMAIN es : i # j => es[i].alias # es[j].alias

Keyed(es) == \A i, j \in DOMAIN es : i # j => Key(es[i]) # Key(es[j])

\* A registry as every reader may rely on it.
Tidy(es) == es \in Seq(Entry) /\ Distinct(es)

\* Min returns a least element.
LEMMA MinOf ==
  ASSUME NEW S \in SUBSET Nat, S # {}
  PROVE  Min(S) \in S /\ \A n \in S : Min(S) <= n
<1>1. \E n \in S : \A m \in S : n <= m
  BY LeastNatural
<1>2. QED BY <1>1 DEF Min

\* FirstSet is the value of a member, or None when no member has one.
LEMMA FirstSetOf ==
  ASSUME NEW G \in SUBSET Nat, NEW values
  PROVE  \/ FirstSet(values, G) = None /\ \A j \in G : values[j] = None
         \/ \E j \in G : FirstSet(values, G) = values[j] /\ values[j] # None
<1> DEFINE set == {j \in G : values[j] # None}
<1>1. CASE set = {}
  BY <1>1 DEF FirstSet
<1>2. CASE set # {}
  <2>1. set \in SUBSET Nat
    OBVIOUS
  <2>2. FirstSet(values, G) = values[Min(set)]
    BY <1>2 DEF FirstSet
  <2>3. Min(set) \in set
    <3> HIDE DEF set
    <3>1. QED BY <1>2, <2>1, MinOf
  <2>4. QED BY <2>2, <2>3
<1>3. QED BY <1>1, <1>2

\* Assigning to a field leaves an entry an entry, and the other fields alone.
LEMMA EntryFields ==
  ASSUME NEW e \in Entry
  PROVE  /\ \A x \in Alias : [e EXCEPT !.alias = x] \in Entry
         /\ \A x \in Files \cup {None} : [e EXCEPT !.file = x] \in Entry
         /\ \A x \in BOOLEAN : [e EXCEPT !.repo = x] \in Entry
         /\ \A x \in BOOLEAN : [e EXCEPT !.enabled = x] \in Entry
         /\ \A x \in BOOLEAN : [e EXCEPT !.priority = x] \in Entry
         /\ \A x \in Int \cup {None} : [e EXCEPT !.port = x] \in Entry
         /\ \A x \in Ctx : [e EXCEPT !.ctx = x] \in Entry
         /\ \A x \in Ctx : [e EXCEPT !.floor = x] \in Entry
         /\ \A x \in BOOLEAN : [e EXCEPT !.hf = x] \in Entry
         /\ \A x \in Pins \cup {None} : [e EXCEPT !.pin = x] \in Entry
<1>1. \A x \in Alias : [e EXCEPT !.alias = x] \in Entry
  BY DEF Entry
<1>2. \A x \in Files \cup {None} : [e EXCEPT !.file = x] \in Entry
  BY DEF Entry
<1>3. \A x \in BOOLEAN : [e EXCEPT !.repo = x] \in Entry
  BY DEF Entry
<1>4. \A x \in BOOLEAN : [e EXCEPT !.enabled = x] \in Entry
  BY DEF Entry
<1>5. \A x \in BOOLEAN : [e EXCEPT !.priority = x] \in Entry
  BY DEF Entry
<1>6. \A x \in Int \cup {None} : [e EXCEPT !.port = x] \in Entry
  BY DEF Entry
<1>7. \A x \in Ctx : [e EXCEPT !.ctx = x] \in Entry
  BY DEF Entry
<1>8. \A x \in Ctx : [e EXCEPT !.floor = x] \in Entry
  BY DEF Entry
<1>9. \A x \in BOOLEAN : [e EXCEPT !.hf = x] \in Entry
  BY DEF Entry
<1>10. \A x \in Pins \cup {None} : [e EXCEPT !.pin = x] \in Entry
  BY DEF Entry
<1>11. QED BY <1>1, <1>2, <1>3, <1>4, <1>5, <1>6, <1>7, <1>8, <1>9, <1>10

\* What a merged entry has of the entries merged into it.
LEMMA MergeKeeps ==
  ASSUME NEW es \in Seq(Entry), NEW G \in SUBSET DOMAIN es, G # {}
  PROVE  /\ Merge(es, G) \in Entry
         /\ Min(G) \in G
         /\ Merge(es, G).alias = es[Min(G)].alias
         /\ Merge(es, G).file = es[Min(G)].file
         /\ Merge(es, G).repo = es[Min(G)].repo
         /\ Merge(es, G).floor = es[Min(G)].floor
         /\ Merge(es, G).pin = es[Min(G)].pin
         /\ Merge(es, G).ctx = FirstSet([j \in G |-> es[j].ctx], G)
         /\ Merge(es, G).hf = \E j \in G : es[j].hf
         /\ Merge(es, G).priority = \E j \in G : es[j].priority
         /\ Merge(es, G).enabled = \A j \in G : es[j].enabled
<1> DEFINE e == es[Min(G)]
           port == FirstSet([j \in G |-> es[j].port], G)
           ctx  == FirstSet([j \in G |-> es[j].ctx], G)
           hf   == \E j \in G : es[j].hf
           claims == \E j \in G : es[j].priority
           offered == \A j \in G : es[j].enabled
<1>1. G \in SUBSET Nat
  OBVIOUS
<1>2. Min(G) \in G
  BY <1>1, MinOf
<1>3. \A j \in G : es[j] \in Entry
  OBVIOUS
<1>4. e \in Entry
  BY <1>2, <1>3
<1>5. port \in Int \cup {None}
  <2>1. \A j \in G : es[j].port \in Int \cup {None}
    BY <1>3 DEF Entry
  <2>2. QED BY <1>1, <2>1, FirstSetOf
<1>6. ctx \in Ctx
  <2>1. \A j \in G : es[j].ctx \in Ctx
    BY <1>3 DEF Entry
  <2>2. QED BY <1>1, <2>1, FirstSetOf DEF Ctx
<1>7. hf \in BOOLEAN /\ claims \in BOOLEAN /\ offered \in BOOLEAN
  OBVIOUS
<1>8. Merge(es, G) = [[e EXCEPT !.port = port, !.ctx = ctx, !.hf = hf]
                        EXCEPT !.priority = claims, !.enabled = offered]
  BY DEF Merge, Filled
<1> HIDE DEF e, port, ctx, hf, claims, offered
<1>9. Merge(es, G) = [alias |-> e.alias, file |-> e.file, repo |-> e.repo,
                      enabled |-> offered, priority |-> claims, port |-> port, ctx |-> ctx,
                      floor |-> e.floor, hf |-> hf, pin |-> e.pin]
  BY <1>4, <1>8 DEF Entry
<1>10. Merge(es, G) \in Entry
  BY <1>4, <1>5, <1>6, <1>7, <1>9 DEF Entry
<1>11. QED BY <1>2, <1>9, <1>10 DEF e, port, ctx, hf, claims, offered

-----------------------------------------------------------------------------
(* Filtering, appending, deduplicating, normalizing *)

\* Leaving entries out leaves a tidy list tidy.
LEMMA KeptTidy ==
  ASSUME NEW es, Tidy(es), NEW places \in SUBSET DOMAIN es
  PROVE  Tidy(Kept(es, places))
<1>1. es \in Seq(Entry)
  BY DEF Tidy
<1>2. /\ Kept(es, places) \in Seq(Entry)
      /\ \A m, n \in DOMAIN Kept(es, places) : m # n =>
           \E i, j \in places : /\ i # j
                                /\ Kept(es, places)[m] = es[i]
                                /\ Kept(es, places)[n] = es[j]
  BY <1>1, KeptPicks
<1>3. ASSUME NEW m \in DOMAIN Kept(es, places), NEW n \in DOMAIN Kept(es, places), m # n
      PROVE  Kept(es, places)[m].alias # Kept(es, places)[n].alias
  <2>1. PICK i, j \in places : /\ i # j
                               /\ Kept(es, places)[m] = es[i]
                               /\ Kept(es, places)[n] = es[j]
    BY <1>2, <1>3
  <2>2. QED BY <2>1 DEF Tidy, Distinct
<1>4. QED BY <1>2, <1>3 DEF Tidy, Distinct

\* So does a new entry under an alias nobody has.
LEMMA AppendTidy ==
  ASSUME NEW es, Tidy(es), NEW e \in Entry, e.alias \notin Aliases(es)
  PROVE  Tidy(Append(es, e))
<1>1. es \in Seq(Entry) /\ Len(es) \in Nat /\ DOMAIN es = 1..Len(es)
  BY DEF Tidy
<1>2. /\ Append(es, e) \in Seq(Entry) /\ DOMAIN Append(es, e) = 1..(Len(es) + 1)
      /\ Append(es, e)[Len(es) + 1] = e
      /\ \A i \in DOMAIN es : Append(es, e)[i] = es[i]
  BY <1>1
<1>3. \A i \in DOMAIN Append(es, e) : i \in DOMAIN es \/ i = Len(es) + 1
  BY <1>1, <1>2
<1>4. QED BY <1>2, <1>3 DEF Tidy, Distinct, Aliases

\* Entries changed one by one, under the alias they had.
LEMMA MapTidy ==
  ASSUME NEW es, Tidy(es), NEW fs,
         fs = [i \in DOMAIN es |-> fs[i]],
         \A i \in DOMAIN es : fs[i] \in Entry /\ fs[i].alias = es[i].alias
  PROVE  Tidy(fs)
<1>1. es \in Seq(Entry) /\ Len(es) \in Nat /\ DOMAIN es = 1..Len(es)
  BY DEF Tidy
<1>2. DOMAIN fs = DOMAIN es
  OBVIOUS
<1>3. fs \in [1..Len(es) -> Entry]
  BY <1>1
<1>4. fs \in Seq(Entry)
  BY <1>1, <1>3, SeqDef
<1>5. QED BY <1>2, <1>4 DEF Tidy, Distinct

\* The aliases in use are finitely many, as dedupe_alias needs them.
LEMMA AliasesFinite ==
  ASSUME NEW es \in Seq(Entry)
  PROVE  IsFiniteSet(Aliases(es))
<1>1. DOMAIN es = 1..Len(es) /\ Len(es) \in Nat
  OBVIOUS
<1>2. IsFiniteSet(1..Len(es))
  BY <1>1, FS_Interval
<1> DEFINE f == [i \in 1..Len(es) |-> es[i].alias]
<1>3. f \in Surjection(1..Len(es), Aliases(es))
  BY <1>1 DEF Surjection, Aliases
<1> HIDE DEF f
<1>4. QED BY <1>2, <1>3, FS_Surjection

\* The entries of es of one name with its i-th.
Group(es, i) == {j \in DOMAIN es : Key(es[j]) = Key(es[i])}

\* Dedupe lists one entry of each name, merged of all of that name.
LEMMA DedupeLists ==
  ASSUME NEW es, Tidy(es)
  PROVE  /\ Tidy(Dedupe(es)) /\ Keyed(Dedupe(es))
         /\ \A n \in DOMAIN Dedupe(es) : \E i \in DOMAIN es :
              /\ Dedupe(es)[n] = Merge(es, Group(es, i))
              /\ Key(Dedupe(es)[n]) = Key(es[i])
         /\ \A i \in DOMAIN es : \E n \in DOMAIN Dedupe(es) :
              Dedupe(es)[n] = Merge(es, Group(es, i))
<1> DEFINE merged == {Merge(es, Group(es, i)) : i \in DOMAIN es}
           front == [e \in merged |-> {d \in merged : Before(d.alias, e.alias)}]
           N == Cardinality(merged)
<1>1. es \in Seq(Entry) /\ DOMAIN es = 1..Len(es) /\ Len(es) \in Nat
  BY DEF Tidy
<1>2. Dedupe(es) = Lined(merged, front)
  BY DEF Dedupe, Group
<1>3. IsFiniteSet(merged)
  <2>1. IsFiniteSet(1..Len(es))
    BY <1>1, FS_Interval
  <2> DEFINE f == [i \in 1..Len(es) |-> Merge(es, Group(es, i))]
  <2>2. f \in Surjection(1..Len(es), merged)
    BY <1>1 DEF Surjection
  <2> HIDE DEF f, merged
  <2>3. QED BY <2>1, <2>2, FS_Surjection
<1>4. \A i \in DOMAIN es : Group(es, i) \in SUBSET DOMAIN es /\ i \in Group(es, i)
  BY DEF Group
<1>5. \A i \in DOMAIN es :
        /\ Merge(es, Group(es, i)) \in Entry
        /\ Min(Group(es, i)) \in Group(es, i)
        /\ Merge(es, Group(es, i)).alias = es[Min(Group(es, i))].alias
        /\ Merge(es, Group(es, i)).file = es[Min(Group(es, i))].file
  BY <1>1, <1>4, MergeKeeps
<1>6. \A i \in DOMAIN es : Key(Merge(es, Group(es, i))) = Key(es[i])
  BY <1>5 DEF Key, Group
<1>7. \A i, j \in DOMAIN es : Key(es[i]) = Key(es[j]) => Group(es, i) = Group(es, j)
  BY DEF Group
<1>8. \A d, e \in merged : Key(d) = Key(e) => d = e
  BY <1>6, <1>7
<1>9. \A d, e \in merged : d.alias = e.alias => d = e
  <2> SUFFICES ASSUME NEW i \in DOMAIN es, NEW j \in DOMAIN es,
                      Merge(es, Group(es, i)).alias = Merge(es, Group(es, j)).alias
               PROVE  Merge(es, Group(es, i)) = Merge(es, Group(es, j))
    OBVIOUS
  <2>1. Min(Group(es, i)) = Min(Group(es, j))
    BY <1>4, <1>5 DEF Tidy, Distinct
  <2>2. Key(es[i]) = Key(es[Min(Group(es, i))]) /\ Key(es[j]) = Key(es[Min(Group(es, j))])
    BY <1>5 DEF Group
  <2>3. QED BY <2>1, <2>2, <1>7
<1>10. \A e \in merged : e \in Entry /\ e.alias \in Alias
  BY <1>5 DEF Entry
<1>11. \A d, e \in merged : d \in front[e] <=> Before(d.alias, e.alias)
  OBVIOUS
<1>12. front \in [merged -> SUBSET merged]
  OBVIOUS
<1> HIDE DEF merged, front
<1>13. Orders(front, merged)
  <2>1. \A x \in merged : x \notin front[x]
    BY <1>10, <1>11, BeforeOrders
  <2>2. \A x, y \in merged : x # y => x \in front[y] \/ y \in front[x]
    BY <1>9, <1>10, <1>11, BeforeOrders
  <2>3. ASSUME NEW x \in merged, NEW y \in merged, x \in front[y]
        PROVE  front[x] \subseteq front[y]
    <3>1. ASSUME NEW z \in front[x] PROVE z \in front[y]
      <4>1. z \in merged
        BY <1>12, <3>1
      <4>2. Before(z.alias, x.alias) /\ Before(x.alias, y.alias)
        BY <1>11, <2>3, <3>1, <4>1
      <4>3. Before(z.alias, y.alias)
        BY <4>1, <4>2, <1>10, BeforeOrders
      <4>4. QED BY <4>1, <4>3, <1>11
    <3>2. QED BY <3>1
  <2>4. QED BY <2>1, <2>2, <2>3, <1>12 DEF Orders
<1>14. /\ N \in Nat
       /\ Dedupe(es) \in [1..N -> merged]
       /\ \A i, j \in 1..N : Dedupe(es)[i] = Dedupe(es)[j] => i = j
       /\ \A x \in merged : \E i \in 1..N : Dedupe(es)[i] = x
  BY <1>2, <1>3, <1>13, LinedLists
<1> HIDE DEF N
<1>15. DOMAIN Dedupe(es) = 1..N /\ \A n \in 1..N : Dedupe(es)[n] \in merged
  BY <1>14
<1>16. Dedupe(es) \in Seq(Entry)
  <2>1. Dedupe(es) \in [1..N -> Entry]
    BY <1>10, <1>14
  <2>2. QED BY <2>1, <1>14, SeqDef
<1>17. Distinct(Dedupe(es)) /\ Keyed(Dedupe(es))
  BY <1>8, <1>9, <1>14, <1>15 DEF Distinct, Keyed
<1>18. \A n \in DOMAIN Dedupe(es) : \E i \in DOMAIN es :
         /\ Dedupe(es)[n] = Merge(es, Group(es, i))
         /\ Key(Dedupe(es)[n]) = Key(es[i])
  BY <1>6, <1>15 DEF merged
<1>19. \A i \in DOMAIN es : \E n \in DOMAIN Dedupe(es) :
         Dedupe(es)[n] = Merge(es, Group(es, i))
  <2>1. \A i \in DOMAIN es : Merge(es, Group(es, i)) \in merged
    BY DEF merged
  <2>2. QED BY <2>1, <1>14, <1>15
<1>20. QED BY <1>16, <1>17, <1>18, <1>19 DEF Tidy

\* Normalizing changes claims only, and leaves the first.
LEMMA NormalizeKeeps ==
  ASSUME NEW es \in Seq(Entry)
  PROVE  /\ Normalize(es) \in Seq(Entry)
         /\ DOMAIN Normalize(es) = DOMAIN es
         /\ \A i \in DOMAIN es :
              /\ Normalize(es)[i].priority <=>
                   es[i].priority /\ \A j \in 1..(i - 1) : ~es[j].priority
              /\ Normalize(es)[i] = [es[i] EXCEPT !.priority = Normalize(es)[i].priority]
              /\ Normalize(es)[i].alias = es[i].alias
              /\ Normalize(es)[i].file = es[i].file
              /\ Key(Normalize(es)[i]) = Key(es[i])
         /\ \A i, j \in DOMAIN es :
              Normalize(es)[i].priority /\ Normalize(es)[j].priority => i = j
<1> DEFINE first(i) == es[i].priority /\ \A j \in 1..(i - 1) : ~es[j].priority
<1>1. DOMAIN es = 1..Len(es) /\ Len(es) \in Nat /\ \A i \in DOMAIN es : es[i] \in Entry
  OBVIOUS
<1>2. Normalize(es) = [i \in DOMAIN es |-> [es[i] EXCEPT !.priority = first(i)]]
  BY DEF Normalize
<1>3. \A i \in DOMAIN es : first(i) \in BOOLEAN
  <2> TAKE i \in DOMAIN es
  <2>1. es[i].priority \in BOOLEAN
    BY <1>1 DEF Entry
  <2>2. QED BY <2>1
<1>4. \A i \in DOMAIN es : [es[i] EXCEPT !.priority = first(i)] \in Entry
  <2> HIDE DEF first
  <2>1. QED BY <1>1, <1>3, EntryFields
<1>5. \A i \in DOMAIN es : /\ [es[i] EXCEPT !.priority = first(i)].priority = first(i)
                           /\ [es[i] EXCEPT !.priority = first(i)].alias = es[i].alias
                           /\ [es[i] EXCEPT !.priority = first(i)].file = es[i].file
  <2> HIDE DEF first
  <2>1. QED BY <1>1 DEF Entry
<1>6. DOMAIN Normalize(es) = 1..Len(es)
  BY <1>1, <1>2
<1>7. \A i \in DOMAIN es : Normalize(es)[i] = [es[i] EXCEPT !.priority = first(i)]
  BY <1>2
<1>8. \A i, j \in DOMAIN es : first(i) /\ first(j) => i = j
  BY <1>1
<1>9. Normalize(es) \in Seq(Entry)
  <2> HIDE DEF first
  <2>1. Normalize(es) \in [1..Len(es) -> Entry]
    BY <1>1, <1>2, <1>4
  <2>2. QED BY <1>1, <2>1, SeqDef
<1>10. \A i \in DOMAIN es : Normalize(es)[i].priority <=> first(i)
  BY <1>5, <1>7
<1>11. \A i \in DOMAIN es :
         /\ Normalize(es)[i] = [es[i] EXCEPT !.priority = Normalize(es)[i].priority]
         /\ Normalize(es)[i].alias = es[i].alias
         /\ Normalize(es)[i].file = es[i].file
         /\ Key(Normalize(es)[i]) = Key(es[i])
  <2> HIDE DEF first
  <2>1. QED BY <1>5, <1>7 DEF Key
<1>12. QED BY <1>1, <1>6, <1>8, <1>9, <1>10, <1>11

\* Normalizing leaves aliases and names alone.
LEMMA NormalizeTidy ==
  ASSUME NEW es, Tidy(es)
  PROVE  /\ Tidy(Normalize(es))
         /\ Keyed(es) => Keyed(Normalize(es))
<1>1. es \in Seq(Entry)
  BY DEF Tidy
<1>2. /\ Normalize(es) \in Seq(Entry)
      /\ DOMAIN Normalize(es) = DOMAIN es
      /\ \A i \in DOMAIN es : /\ Normalize(es)[i].alias = es[i].alias
                              /\ Key(Normalize(es)[i]) = Key(es[i])
  BY <1>1, NormalizeKeeps
<1>3. QED BY <1>2 DEF Tidy, Distinct, Keyed

\* A registry read from the file is tidy, every name in it once, one claim at most.
LEMMA LoadTidy ==
  ASSUME NEW r, r = [roots |-> r.roots, models |-> r.models], Tidy(r.models)
  PROVE  /\ Load(r) = [roots |-> r.roots, models |-> Load(r).models]
         /\ Load(r).models = Normalize(Dedupe(r.models))
         /\ Tidy(Load(r).models) /\ Keyed(Load(r).models)
         /\ \A i, j \in DOMAIN Load(r).models :
              Load(r).models[i].priority /\ Load(r).models[j].priority => i = j
<1>1. Load(r) = [roots |-> r.roots, models |-> Normalize(Dedupe(r.models))]
  BY DEF Load
<1>2. Tidy(Dedupe(r.models)) /\ Keyed(Dedupe(r.models))
  BY DedupeLists
<1>3. Dedupe(r.models) \in Seq(Entry)
  BY <1>2 DEF Tidy
<1>4. QED BY <1>1, <1>2, <1>3, NormalizeTidy, NormalizeKeeps

-----------------------------------------------------------------------------
(* Scanning *)

\* The recursive function of Renamed exists: else take the shortest prefix
\* without one.
LEMMA RenamedRecursion ==
  ASSUME NEW wanted \in Seq(Alias), NEW taken
  PROVE  Renamed(wanted, taken) =
           [i \in DOMAIN wanted |->
              DedupeAlias(wanted[i], taken \cup {Renamed(wanted, taken)[j] : j \in 1..(i - 1)})]
<1> DEFINE N == Len(wanted)
           Next1(f, i) == DedupeAlias(wanted[i], taken \cup {f[j] : j \in 1..(i - 1)})
           Has(k) == \E f : f = [i \in 1..k |-> Next1(f, i)]
           Bad == {k \in 0..N : ~Has(k)}
<1>1. N \in Nat /\ DOMAIN wanted = 1..N
  OBVIOUS
<1>2. Has(0)
  <2> DEFINE f == [i \in 1..0 |-> 0]
  <2>1. f = [i \in 1..0 |-> Next1(f, i)]
    <3> HIDE DEF Next1
    <3>1. QED OBVIOUS
  <2>2. QED BY <2>1
<1>3. ASSUME NEW k \in 1..N, Has(k - 1) PROVE Has(k)
  <2>1. PICK f : f = [i \in 1..(k - 1) |-> Next1(f, i)]
    BY <1>3
  <2> DEFINE g == [i \in 1..k |-> Next1(f, i)]
  <2>2. \A i \in 1..(k - 1) : g[i] = f[i]
    <3> HIDE DEF Next1
    <3>1. \A i \in 1..(k - 1) : i \in 1..k
      BY <1>1
    <3>2. \A i \in 1..(k - 1) : f[i] = Next1(f, i)
      BY <2>1
    <3>3. QED BY <3>1, <3>2
  <2>3. \A i \in 1..k : Next1(g, i) = Next1(f, i)
    <3> HIDE DEF g
    <3> TAKE i \in 1..k
    <3>1. \A j \in 1..(i - 1) : g[j] = f[j]
      BY <1>1, <2>2
    <3>2. {g[j] : j \in 1..(i - 1)} = {f[j] : j \in 1..(i - 1)}
      BY <3>1
    <3>3. QED BY <3>2
  <2>4. g = [i \in 1..k |-> Next1(g, i)]
    <3>1. g = [i \in 1..k |-> Next1(f, i)]
      OBVIOUS
    <3> HIDE DEF g, Next1
    <3>2. QED BY <2>3, <3>1
  <2>5. QED BY <2>4
<1> HIDE DEF Has
<1>4. Bad = {}
  <2> SUFFICES ASSUME Bad # {} PROVE FALSE
    OBVIOUS
  <2>1. Bad \in SUBSET Nat
    BY <1>1
  <2>2. PICK k \in Bad : \A j \in Bad : k <= j
    <3> HIDE DEF Bad
    <3>1. QED BY <2>1, LeastNatural
  <2>3. k \in 1..N
    BY <1>1, <1>2
  <2>4. k - 1 \in 0..N /\ k - 1 \notin Bad
    BY <1>1, <2>2, <2>3
  <2>5. QED BY <2>3, <2>4, <1>3
<1>5. Has(N)
  BY <1>1, <1>4
<1>6. \E f : f = [i \in DOMAIN wanted |-> Next1(f, i)]
  BY <1>1, <1>5 DEF Has
<1>7. Renamed(wanted, taken) = CHOOSE f : f = [i \in DOMAIN wanted |-> Next1(f, i)]
  BY DEF Renamed
<1>8. QED BY <1>6, <1>7

\* The aliases a scan hands out are new, and differ.
LEMMA RenamedFresh ==
  ASSUME NEW wanted \in Seq(Alias), NEW taken, IsFiniteSet(taken)
  PROVE  /\ DOMAIN Renamed(wanted, taken) = DOMAIN wanted
         /\ \A i \in DOMAIN wanted : Renamed(wanted, taken)[i] \in Alias \ taken
         /\ \A i, j \in DOMAIN wanted : i # j =>
              Renamed(wanted, taken)[i] # Renamed(wanted, taken)[j]
<1> DEFINE f == Renamed(wanted, taken)
           Used(i) == taken \cup {f[j] : j \in 1..(i - 1)}
<1>1. f = [i \in DOMAIN wanted |-> DedupeAlias(wanted[i], Used(i))]
  BY RenamedRecursion
<1> HIDE DEF f
<1>2. \A i \in DOMAIN wanted : IsFiniteSet(Used(i))
  <2> TAKE i \in DOMAIN wanted
  <2> DEFINE earlier == {f[j] : j \in 1..(i - 1)}
             h == [j \in 1..(i - 1) |-> f[j]]
  <2>1. IsFiniteSet(1..(i - 1))
    BY FS_Interval
  <2>2. h \in Surjection(1..(i - 1), earlier)
    BY DEF Surjection
  <2>3. IsFiniteSet(earlier)
    <3> HIDE DEF earlier, h
    <3>1. QED BY <2>1, <2>2, FS_Surjection
  <2>4. QED BY <2>3, FS_Union
<1>3. \A i \in DOMAIN wanted : f[i] \in Alias \ Used(i)
  <2> TAKE i \in DOMAIN wanted
  <2>1. f[i] = DedupeAlias(wanted[i], Used(i))
    BY <1>1
  <2>2. wanted[i] \in Alias /\ IsFiniteSet(Used(i))
    BY <1>2
  <2> HIDE DEF Used
  <2>3. QED BY <2>1, <2>2, DedupeAliasNew
<1>4. DOMAIN f = DOMAIN wanted
  BY <1>1
<1>5. \A i, j \in DOMAIN wanted : j < i => f[i] # f[j]
  <2> TAKE i, j \in DOMAIN wanted
  <2> HAVE j < i
  <2>1. j \in 1..(i - 1)
    OBVIOUS
  <2>2. f[j] \in Used(i)
    BY <2>1
  <2>3. QED BY <2>2, <1>3
<1>6. \A i, j \in DOMAIN wanted : i # j => i < j \/ j < i
  OBVIOUS
<1>7. \A i \in DOMAIN wanted : f[i] \in Alias \ taken
  BY <1>3
<1>8. \A i, j \in DOMAIN wanted : i # j => f[i] # f[j]
  BY <1>5, <1>6
<1>9. QED BY <1>4, <1>7, <1>8 DEF f

\* The registered entry of a file, or a new one.
Found(file, registered) ==
    LET known == Known(registered, file)
    IN  IF known = {} THEN NewEntry(<<BaseOf[file]>>, file, FALSE)
        ELSE CHOOSE k \in known : TRUE

\* What a scan finds of a file is an entry of that file.
LEMMA FoundEntry ==
  ASSUME NEW registered \in Seq(Entry), NEW file \in Files
  PROVE  /\ Found(file, registered) \in Entry
         /\ Found(file, registered).file = file
         /\ Known(registered, file) # {} => Found(file, registered) \in Known(registered, file)
<1>1. \A e \in Known(registered, file) : e \in Entry /\ e.file = file
  BY DEF Known, ToSet
<1>2. NewEntry(<<BaseOf[file]>>, file, FALSE) \in Entry
  <2>1. <<BaseOf[file]>> \in Alias
    BY RegistryAssumption DEF Alias
  <2>2. QED BY <2>1 DEF NewEntry, Entry, Ctx
<1>3. NewEntry(<<BaseOf[file]>>, file, FALSE).file = file
  BY DEF NewEntry
<1>4. QED BY <1>1, <1>2, <1>3 DEF Found

\* A scan of the files is a list of them, each once and under an alias of its own.
Lists(s, files, registered, taken) ==
    /\ Tidy(s)
    /\ \A i \in DOMAIN s :
         /\ s[i].alias \notin taken /\ s[i].file \in files
         /\ s[i] = [Found(s[i].file, registered) EXCEPT !.alias = s[i].alias]
    /\ \A i, j \in DOMAIN s : i # j => s[i].file # s[j].file
    /\ \A file \in files : \E i \in DOMAIN s : s[i].file = file

\* A scan lists every file once.
LEMMA ScanLists ==
  ASSUME NEW files \in SUBSET Files, NEW registered \in Seq(Entry),
         NEW taken, IsFiniteSet(taken)
  PROVE  Lists(Scan(files, registered, taken), files, registered, taken)
<1> DEFINE s == Scan(files, registered, taken)
           path == Ascending(files)
           N == Cardinality(files)
           wanted == [i \in DOMAIN path |-> Found(path[i], registered).alias]
           alias == Renamed(wanted, taken)
<1>1. files \in SUBSET Nat /\ IsFiniteSet(files)
  BY RegistryAssumption, FS_Subset
<1>2. /\ N \in Nat
      /\ path \in [1..N -> files]
      /\ \A i, j \in 1..N : path[i] = path[j] => i = j
      /\ \A x \in files : \E i \in 1..N : path[i] = x
  BY <1>1, AscendingLists
<1>3. s = [i \in DOMAIN path |-> [Found(path[i], registered) EXCEPT !.alias = alias[i]]]
  BY DEF Scan, Found
<1>4. \A i \in 1..N : /\ path[i] \in files
                      /\ Found(path[i], registered) \in Entry
                      /\ Found(path[i], registered).alias \in Alias
                      /\ Found(path[i], registered).file = path[i]
  <2> HIDE DEF path, N
  <2> TAKE i \in 1..N
  <2>1. path[i] \in files
    BY <1>2
  <2>2. Found(path[i], registered) \in Entry /\ Found(path[i], registered).file = path[i]
    BY <2>1, FoundEntry
  <2>3. QED BY <2>1, <2>2 DEF Entry
<1> HIDE DEF path, N, s
<1>5. wanted \in Seq(Alias) /\ DOMAIN wanted = 1..N
  <2>1. wanted \in [1..N -> Alias]
    BY <1>2, <1>4
  <2> HIDE DEF wanted
  <2>2. QED BY <1>2, <2>1, SeqDef
<1> HIDE DEF wanted
<1>6. /\ \A i \in 1..N : alias[i] \in Alias /\ alias[i] \notin taken
      /\ \A i, j \in 1..N : i # j => alias[i] # alias[j]
  BY <1>5, RenamedFresh
<1> HIDE DEF alias
<1>7. \A i \in 1..N : /\ s[i] = [Found(path[i], registered) EXCEPT !.alias = alias[i]]
                      /\ s[i] \in Entry
                      /\ s[i].alias = alias[i]
                      /\ s[i].file = path[i]
  <2> TAKE i \in 1..N
  <2>1. s[i] = [Found(path[i], registered) EXCEPT !.alias = alias[i]]
    BY <1>2, <1>3
  <2>2. s[i] \in Entry
    BY <2>1, <1>4, <1>6, EntryFields
  <2>3. s[i].alias = alias[i] /\ s[i].file = path[i]
    BY <2>1, <1>4 DEF Entry
  <2>4. QED BY <2>1, <2>2, <2>3
<1>8. DOMAIN s = 1..N
  BY <1>2, <1>3
<1>9. s \in Seq(Entry)
  <2>1. s \in [1..N -> Entry]
    BY <1>2, <1>3, <1>7, <1>8
  <2>2. QED BY <1>2, <2>1, SeqDef
<1>10. Tidy(s)
  BY <1>6, <1>7, <1>8, <1>9 DEF Tidy, Distinct
<1>11. \A i \in DOMAIN s : /\ s[i].alias \notin taken /\ s[i].file \in files
                           /\ s[i] = [Found(s[i].file, registered) EXCEPT !.alias = s[i].alias]
  BY <1>4, <1>6, <1>7, <1>8
<1>12. \A i, j \in DOMAIN s : i # j => s[i].file # s[j].file
  BY <1>2, <1>7, <1>8
<1>13. \A file \in files : \E i \in DOMAIN s : s[i].file = file
  BY <1>2, <1>7, <1>8
<1>14. Lists(s, files, registered, taken)
  BY <1>10, <1>11, <1>12, <1>13 DEF Lists
<1>15. QED BY <1>14 DEF s

-----------------------------------------------------------------------------
(* Discovering *)

\* Assigning ports changes ports only, one after the other.
LEMMA AssignPortsKeeps ==
  ASSUME NEW es \in Seq(Entry)
  PROVE  /\ AssignPorts(es) \in Seq(Entry)
         /\ DOMAIN AssignPorts(es) = DOMAIN es
         /\ \A i \in DOMAIN es :
              /\ AssignPorts(es)[i] = [es[i] EXCEPT !.port = BasePort + i - 1]
              /\ AssignPorts(es)[i].port = BasePort + i - 1
              /\ AssignPorts(es)[i].alias = es[i].alias
              /\ AssignPorts(es)[i].file = es[i].file
              /\ AssignPorts(es)[i].priority = es[i].priority
<1>1. \A i \in DOMAIN es : es[i] \in Entry /\ BasePort + i - 1 \in Int
  BY RegistryAssumption
<1>2. \A i \in DOMAIN es : [es[i] EXCEPT !.port = BasePort + i - 1] \in Entry
  BY <1>1, EntryFields
<1>3. AssignPorts(es) = [i \in DOMAIN es |-> [es[i] EXCEPT !.port = BasePort + i - 1]]
  BY DEF AssignPorts
<1>4. AssignPorts(es) \in Seq(Entry)
  <2>1. DOMAIN es = 1..Len(es) /\ Len(es) \in Nat
    OBVIOUS
  <2>2. AssignPorts(es) \in [1..Len(es) -> Entry]
    BY <1>2, <1>3, <2>1
  <2>3. QED BY <2>1, <2>2, SeqDef
<1>5. \A i \in DOMAIN es : AssignPorts(es)[i] = [es[i] EXCEPT !.port = BasePort + i - 1]
  BY <1>3
<1>6. \A i \in DOMAIN es :
         /\ AssignPorts(es)[i].port = BasePort + i - 1
         /\ AssignPorts(es)[i].alias = es[i].alias
         /\ AssignPorts(es)[i].file = es[i].file
         /\ AssignPorts(es)[i].priority = es[i].priority
  BY <1>1, <1>5 DEF Entry
<1>7. QED BY <1>3, <1>4, <1>5, <1>6

\* A default claim is made only where there is none.
LEMMA DefaultPriorityKeeps ==
  ASSUME NEW es \in Seq(Entry)
  PROVE  /\ DefaultPriority(es) \in Seq(Entry)
         /\ DOMAIN DefaultPriority(es) = DOMAIN es
         /\ \A i \in DOMAIN es : DefaultPriority(es)[i] = es[i]
                              \/ DefaultPriority(es)[i] = [es[i] EXCEPT !.priority = TRUE]
         /\ (\E i \in DOMAIN es : es[i].priority) => DefaultPriority(es) = es
<1>1. CASE es = <<>> \/ \E i \in DOMAIN es : es[i].priority
  BY <1>1 DEF DefaultPriority
<1>2. CASE ~(es = <<>> \/ \E i \in DOMAIN es : es[i].priority)
  <2>1. PICK chosen : DefaultPriority(es) = [es EXCEPT ![chosen].priority = TRUE]
    BY <1>2 DEF DefaultPriority
  <2>2. \A i \in DOMAIN es : es[i] \in Entry /\ [es[i] EXCEPT !.priority = TRUE] \in Entry
    <3>1. \A i \in DOMAIN es : es[i] \in Entry
      OBVIOUS
    <3>2. QED BY <3>1, EntryFields
  <2>3. DOMAIN es = 1..Len(es) /\ Len(es) \in Nat
    OBVIOUS
  <2>4. DefaultPriority(es) = [i \in DOMAIN es |-> IF i = chosen THEN [es[i] EXCEPT !.priority = TRUE]
                                                   ELSE es[i]]
    BY <2>1, <2>3
  <2>5. DefaultPriority(es) \in [1..Len(es) -> Entry]
    BY <2>2, <2>3, <2>4
  <2>6. DefaultPriority(es) \in Seq(Entry)
    BY <2>3, <2>5, SeqDef
  <2>7. QED BY <1>2, <2>4, <2>6
<1>3. QED BY <1>1, <1>2

\* What e keeps of d when ports and claims are assigned anew.
Settings(d, e) ==
    /\ d.alias = e.alias /\ d.file = e.file /\ d.repo = e.repo /\ d.enabled = e.enabled
    /\ d.ctx = e.ctx /\ d.floor = e.floor /\ d.hf = e.hf /\ d.pin = e.pin

\* Ports and claims are no settings.
LEMMA SettingsKeep ==
  ASSUME NEW e \in Entry, NEW p \in Int \cup {None}, NEW b \in BOOLEAN
  PROVE  /\ Settings([e EXCEPT !.port = p], e)
         /\ Settings([e EXCEPT !.priority = b], e)
BY DEF Settings, Entry

\* discover_with_merge: one entry of each name, with the settings the merge gave it,
\* and with a claim only if the first of the claimants.
LEMMA DiscoverLists ==
  ASSUME NEW present \in SUBSET Files, NEW registered \in Seq(Entry),
         NEW d, d = Discover(present, registered), d # None,
         NEW es, es = Dedupe(Scan(present, registered, {}))
  PROVE  /\ Tidy(d) /\ Keyed(d)
         /\ Tidy(es) /\ Keyed(es) /\ DOMAIN d = DOMAIN es
         /\ \A i \in DOMAIN es : Settings(d[i], es[i]) /\ d[i] \in Entry /\ es[i] \in Entry
         /\ \A i \in DOMAIN es :
              es[i].priority /\ (\A j \in 1..(i - 1) : ~es[j].priority) => d[i].priority
<1> DEFINE ported == AssignPorts(es)
           claimed == DefaultPriority(ported)
<1>1. Tidy(es) /\ Keyed(es) /\ es \in Seq(Entry)
  <2>1. Tidy(Scan(present, registered, {}))
    BY ScanLists, FS_EmptySet DEF Lists
  <2>2. QED BY <2>1, DedupeLists DEF Tidy
<1>2. d = Normalize(claimed)
  BY DEF Discover
<1>3. /\ ported \in Seq(Entry) /\ DOMAIN ported = DOMAIN es
      /\ \A i \in DOMAIN es : /\ ported[i] = [es[i] EXCEPT !.port = BasePort + i - 1]
                              /\ ported[i].priority = es[i].priority
  BY <1>1, AssignPortsKeeps
<1> HIDE DEF ported
<1>4. /\ claimed \in Seq(Entry) /\ DOMAIN claimed = DOMAIN es
      /\ \A i \in DOMAIN es : claimed[i] = ported[i]
                           \/ claimed[i] = [ported[i] EXCEPT !.priority = TRUE]
      /\ (\E i \in DOMAIN es : ported[i].priority) => claimed = ported
  BY <1>3, DefaultPriorityKeeps
<1> HIDE DEF claimed
<1>5. /\ d \in Seq(Entry) /\ DOMAIN d = DOMAIN es
      /\ \A i \in DOMAIN es :
           /\ d[i].priority <=> claimed[i].priority /\ \A j \in 1..(i - 1) : ~claimed[j].priority
           /\ d[i] = [claimed[i] EXCEPT !.priority = d[i].priority]
  BY <1>2, <1>4, NormalizeKeeps
<1>6. \A i \in DOMAIN es : Settings(d[i], es[i])
  <2> TAKE i \in DOMAIN es
  <2>1. es[i] \in Entry /\ ported[i] \in Entry /\ claimed[i] \in Entry /\ d[i] \in Entry
    BY <1>1, <1>3, <1>4, <1>5
  <2>2. Settings(ported[i], es[i])
    <3>1. BasePort + i - 1 \in Int
      BY <1>1, RegistryAssumption
    <3>2. Settings([es[i] EXCEPT !.port = BasePort + i - 1], es[i])
      BY <2>1, <3>1, SettingsKeep
    <3>3. QED BY <3>2, <1>3
  <2>3. Settings(claimed[i], ported[i])
    <3>1. CASE claimed[i] = ported[i]
      BY <3>1 DEF Settings
    <3>2. CASE claimed[i] = [ported[i] EXCEPT !.priority = TRUE]
      BY <3>2, <2>1, SettingsKeep
    <3>3. QED BY <3>1, <3>2, <1>4
  <2>4. d[i].priority \in BOOLEAN
    BY <2>1 DEF Entry
  <2>5. Settings(d[i], claimed[i])
    <3>1. Settings([claimed[i] EXCEPT !.priority = d[i].priority], claimed[i])
      BY <2>1, <2>4, SettingsKeep
    <3>2. QED BY <3>1, <1>5
  <2>6. QED BY <2>2, <2>3, <2>5 DEF Settings
<1>7. Tidy(d) /\ Keyed(d)
  <2>1. \A i \in DOMAIN es : d[i].alias = es[i].alias /\ Key(d[i]) = Key(es[i])
    BY <1>6 DEF Settings, Key
  <2>2. QED BY <2>1, <1>1, <1>5 DEF Tidy, Distinct, Keyed
<1>8. ASSUME NEW i \in DOMAIN es, es[i].priority, \A j \in 1..(i - 1) : ~es[j].priority
      PROVE  d[i].priority
  <2>1. claimed = ported
    BY <1>3, <1>4, <1>8
  <2>2. \A j \in 1..(i - 1) : j \in DOMAIN es
    BY <1>1
  <2>3. QED BY <2>1, <2>2, <1>3, <1>5, <1>8
<1>9. \A i \in DOMAIN es : d[i] \in Entry /\ es[i] \in Entry
  BY <1>1, <1>5
<1>10. QED BY <1>1, <1>5, <1>6, <1>7, <1>8, <1>9

-----------------------------------------------------------------------------
(* Offering *)

Resolved(es, present) ==
    [i \in DOMAIN es |-> [es[i] EXCEPT !.file = ResolveModelPath(@, present)]]

\* Usable entries keep their aliases, and every entry whose file is present is usable.
LEMMA UsableTidy ==
  ASSUME NEW es, Tidy(es), NEW present \in SUBSET Files
  PROVE  /\ Tidy(Usable(es, present))
         /\ \A n \in DOMAIN Usable(es, present) :
              Usable(es, present)[n].file # None =>
                /\ Usable(es, present)[n].file \in present
                /\ \E i \in DOMAIN es : /\ Usable(es, present)[n].file = es[i].file
                                        /\ Usable(es, present)[n].enabled = es[i].enabled
         /\ \A i \in DOMAIN es : es[i].file \in present =>
              \E n \in DOMAIN Usable(es, present) : Usable(es, present)[n].file = es[i].file
<1> DEFINE rs == Resolved(es, present)
           places == {i \in DOMAIN es : HasSource(rs[i])}
           us == Usable(es, present)
<1>1. /\ es \in Seq(Entry) /\ DOMAIN es = 1..Len(es) /\ Len(es) \in Nat
      /\ \A i \in DOMAIN es : es[i] \in Entry
  BY DEF Tidy
<1>2. \A i \in DOMAIN es :
        /\ rs[i] = [es[i] EXCEPT !.file = ResolveModelPath(es[i].file, present)]
        /\ ResolveModelPath(es[i].file, present) \in Files \cup {None}
  BY DEF Resolved, ResolveModelPath
<1>3. \A i \in DOMAIN es :
        /\ rs[i] \in Entry
        /\ rs[i].alias = es[i].alias /\ rs[i].enabled = es[i].enabled
        /\ rs[i].file = ResolveModelPath(es[i].file, present)
  <2> HIDE DEF rs
  <2> TAKE i \in DOMAIN es
  <2>1. rs[i] \in Entry
    <3>1. es[i] \in Entry /\ ResolveModelPath(es[i].file, present) \in Files \cup {None}
      BY <1>1, <1>2
    <3>2. [es[i] EXCEPT !.file = ResolveModelPath(es[i].file, present)] \in Entry
      BY <3>1, EntryFields
    <3>3. QED BY <3>2, <1>2
  <2>2. QED BY <2>1, <1>1, <1>2 DEF Entry
<1>4. DOMAIN rs = DOMAIN es
  BY DEF Resolved
<1>5. us = Kept(rs, places)
  BY DEF Usable, Resolved
<1> HIDE DEF rs, us
<1>6. rs \in Seq(Entry)
  <2>1. rs \in [1..Len(es) -> Entry]
    <3>1. rs = [i \in 1..Len(es) |-> rs[i]]
      BY <1>1, <1>4 DEF rs, Resolved
    <3>2. QED BY <3>1, <1>1, <1>3
  <2>2. QED BY <1>1, <2>1, SeqDef
<1>7. places \in SUBSET DOMAIN rs
  BY <1>4
<1> HIDE DEF places
<1>8. /\ us \in Seq(Entry)
      /\ \A n \in DOMAIN us : \E i \in places : us[n] = rs[i]
      /\ \A i \in places : \E n \in DOMAIN us : us[n] = rs[i]
  BY <1>5, <1>6, <1>7, KeptPicks
<1>9. places \subseteq DOMAIN es
  BY DEF places
<1>10. Tidy(us)
  <2>1. Tidy(rs)
    BY <1>3, <1>4, <1>6 DEF Tidy, Distinct
  <2>2. QED BY <2>1, <1>5, <1>7, KeptTidy
<1>11. ASSUME NEW n \in DOMAIN us, us[n].file # None
       PROVE  /\ us[n].file \in present
              /\ \E i \in DOMAIN es : us[n].file = es[i].file /\ us[n].enabled = es[i].enabled
  <2>1. PICK i \in DOMAIN es : us[n] = rs[i]
    BY <1>8, <1>9
  <2>2. QED BY <2>1, <1>3, <1>11 DEF ResolveModelPath
<1>12. ASSUME NEW i \in DOMAIN es, es[i].file \in present
       PROVE  \E n \in DOMAIN us : us[n].file = es[i].file
  <2>1. rs[i].file = es[i].file /\ rs[i].file # None
    BY <1>3, <1>12, RegistryAssumption DEF ResolveModelPath
  <2>2. i \in places
    BY <2>1 DEF places, HasSource
  <2>3. QED BY <2>1, <2>2, <1>8
<1>13. QED BY <1>10, <1>11, <1>12 DEF us

\* The elements of two tidy lists that share no alias.
LEMMA ConcatTidy ==
  ASSUME NEW s, Tidy(s), NEW t, Tidy(t),
         \A i \in DOMAIN s, j \in DOMAIN t : s[i].alias # t[j].alias
  PROVE  /\ Tidy(s \o t)
         /\ \A n \in DOMAIN (s \o t) : \/ \E i \in DOMAIN s : (s \o t)[n] = s[i]
                                       \/ \E j \in DOMAIN t : (s \o t)[n] = t[j]
<1>1. /\ s \in Seq(Entry) /\ t \in Seq(Entry) /\ Len(s) \in Nat /\ Len(t) \in Nat
      /\ DOMAIN s = 1..Len(s) /\ DOMAIN t = 1..Len(t)
  BY DEF Tidy
<1>2. s \o t \in Seq(Entry) /\ DOMAIN (s \o t) = 1..(Len(s) + Len(t))
  BY <1>1
<1>3. \A n \in DOMAIN (s \o t) :
        \/ n \in DOMAIN s /\ (s \o t)[n] = s[n]
        \/ n - Len(s) \in DOMAIN t /\ (s \o t)[n] = t[n - Len(s)] /\ n \notin DOMAIN s
  BY <1>1, <1>2
<1>4. Distinct(s \o t)
  <2> SUFFICES ASSUME NEW m \in DOMAIN (s \o t), NEW n \in DOMAIN (s \o t), m # n
               PROVE  (s \o t)[m].alias # (s \o t)[n].alias
    BY DEF Distinct
  <2>1. CASE m \in DOMAIN s /\ n \in DOMAIN s
    BY <2>1, <1>3, <1>1 DEF Tidy, Distinct
  <2>2. CASE m \notin DOMAIN s /\ n \notin DOMAIN s
    <3>1. m - Len(s) # n - Len(s)
      BY <1>1, <1>2
    <3>2. m - Len(s) \in DOMAIN t /\ n - Len(s) \in DOMAIN t
      BY <2>2, <1>3
    <3>3. t[m - Len(s)].alias # t[n - Len(s)].alias
      BY <3>1, <3>2 DEF Tidy, Distinct
    <3>4. QED BY <3>3, <2>2, <1>3
  <2>3. CASE m \in DOMAIN s /\ n \notin DOMAIN s
    BY <2>3, <1>3
  <2>4. CASE m \notin DOMAIN s /\ n \in DOMAIN s
    BY <2>4, <1>3
  <2>5. QED BY <2>1, <2>2, <2>3, <2>4
<1>5. QED BY <1>2, <1>3, <1>4 DEF Tidy

\* What LiveDistinct says of the installed models, of any models.
DistinctOffers(models) ==
    \A m, n \in models : m # n =>
        /\ m.port # n.port /\ m.alias # n.alias
        /\ ~(m.priority /\ n.priority)
        /\ m.file # None /\ n.file # None => NameOf[m.file] # NameOf[n.file]

\* What is offered of the entries es: nothing whose entry is disabled, and no two
\* models at odds.
LEMMA ExpandOffers ==
  ASSUME NEW es, Tidy(es), NEW present \in SUBSET Files,
         NEW models, models = Expand(es, present), models # None
  PROVE  /\ DistinctOffers(models)
         /\ \A m \in models : m.file # None =>
              /\ m.file \in present
              /\ \/ \E i \in DOMAIN es : es[i].file = m.file /\ es[i].enabled
                 \/ \A i \in DOMAIN es : es[i].file # m.file
<1> DEFINE usable == Usable(es, present)
           left   == present \ Claimed(usable)
           found  == Scan(left, <<>>, Aliases(usable))
           every  == usable \o found
           places == {i \in DOMAIN every : every[i].enabled}
           kept   == Kept(every, places)
           merged == Dedupe(kept)
           offered == Normalize(merged)
           ported == AssignPorts(offered)
           Shown(e) == [alias |-> e.alias, file |-> e.file, backend |-> Backend(e),
                        port |-> e.port, priority |-> e.priority]
           Fine(file) == file # None =>
              /\ file \in present
              /\ \/ \E i \in DOMAIN es : es[i].file = file /\ es[i].enabled
                 \/ \A i \in DOMAIN es : es[i].file # file
<1>1. models = {Shown(e) : e \in {e \in ToSet(ported) : Serveable(e)}}
  BY DEF Expand
<1>2. /\ Tidy(usable)
      /\ \A n \in DOMAIN usable : usable[n].file # None =>
           /\ usable[n].file \in present
           /\ \E i \in DOMAIN es : usable[n].file = es[i].file /\ usable[n].enabled = es[i].enabled
      /\ \A i \in DOMAIN es : es[i].file \in present =>
           \E n \in DOMAIN usable : usable[n].file = es[i].file
  BY UsableTidy
<1> HIDE DEF usable
<1>3. IsFiniteSet(Aliases(usable))
  BY <1>2, AliasesFinite DEF Tidy
<1>4. /\ Tidy(found)
      /\ \A n \in DOMAIN found : found[n].alias \notin Aliases(usable) /\ found[n].file \in left
  <2>1. left \in SUBSET Files /\ <<>> \in Seq(Entry)
    OBVIOUS
  <2> HIDE DEF left
  <2>2. Lists(found, left, <<>>, Aliases(usable))
    BY <2>1, <1>3, ScanLists
  <2>3. QED BY <2>2 DEF Lists
<1>5. \A n \in DOMAIN found : Fine(found[n].file)
  <2> TAKE n \in DOMAIN found
  <2>1. found[n].file \in present /\ \A i \in DOMAIN usable : usable[i].file # found[n].file
    BY <1>4 DEF Claimed
  <2>2. \A i \in DOMAIN es : es[i].file # found[n].file
    BY <2>1, <1>2
  <2>3. QED BY <2>1, <2>2
<1>6. \A n \in DOMAIN usable : usable[n].enabled => Fine(usable[n].file)
  BY <1>2
<1> HIDE DEF left, found, Fine
<1>7. /\ Tidy(every)
      /\ \A n \in DOMAIN every : every[n].enabled => Fine(every[n].file)
  <2>1. \A i \in DOMAIN usable, j \in DOMAIN found : usable[i].alias # found[j].alias
    BY <1>4 DEF Aliases
  <2>2. /\ Tidy(every)
        /\ \A n \in DOMAIN every : \/ \E i \in DOMAIN usable : every[n] = usable[i]
                                   \/ \E j \in DOMAIN found : every[n] = found[j]
    BY <2>1, <1>2, <1>4, ConcatTidy
  <2>3. QED BY <2>2, <1>5, <1>6
<1> HIDE DEF every
<1>8. /\ Tidy(kept) /\ \A n \in DOMAIN kept : Fine(kept[n].file)
  <2>1. every \in Seq(Entry) /\ places \in SUBSET DOMAIN every
    BY <1>7 DEF Tidy
  <2>2. \A i \in places : every[i].enabled
    OBVIOUS
  <2> HIDE DEF places
  <2>3. Tidy(kept) /\ \A n \in DOMAIN kept : \E i \in places : kept[n] = every[i]
    BY <2>1, <1>7, KeptTidy, KeptPicks
  <2> HIDE DEF kept
  <2>4. QED BY <2>1, <2>2, <2>3, <1>7
<1> HIDE DEF kept
<1>9. /\ Tidy(merged) /\ Keyed(merged)
      /\ \A n \in DOMAIN merged : Fine(merged[n].file)
  <2>1. /\ Tidy(merged) /\ Keyed(merged)
        /\ \A n \in DOMAIN merged : \E i \in DOMAIN kept : merged[n] = Merge(kept, Group(kept, i))
    BY <1>8, DedupeLists
  <2>2. ASSUME NEW n \in DOMAIN merged PROVE Fine(merged[n].file)
    <3>1. PICK i \in DOMAIN kept : merged[n] = Merge(kept, Group(kept, i))
      BY <2>1
    <3>2. Group(kept, i) \in SUBSET DOMAIN kept /\ Group(kept, i) # {}
      BY DEF Group
    <3>3. kept \in Seq(Entry)
      BY <1>8 DEF Tidy
    <3>4. /\ Min(Group(kept, i)) \in Group(kept, i)
          /\ Merge(kept, Group(kept, i)).file = kept[Min(Group(kept, i))].file
      BY <3>2, <3>3, MergeKeeps
    <3>5. QED BY <3>1, <3>2, <3>4, <1>8
  <2>3. QED BY <2>1, <2>2
<1> HIDE DEF merged
<1>10. merged \in Seq(Entry)
  BY <1>9 DEF Tidy
<1>11. /\ offered \in Seq(Entry) /\ DOMAIN offered = DOMAIN merged
       /\ \A i \in DOMAIN merged : /\ offered[i].alias = merged[i].alias
                                   /\ offered[i].file = merged[i].file
       /\ \A i, j \in DOMAIN merged : offered[i].priority /\ offered[j].priority => i = j
  BY <1>10, NormalizeKeeps
<1> HIDE DEF offered
<1>12. /\ DOMAIN ported = DOMAIN offered
       /\ \A i \in DOMAIN offered : /\ ported[i].port = BasePort + i - 1
                                    /\ ported[i].alias = offered[i].alias
                                    /\ ported[i].file = offered[i].file
                                    /\ ported[i].priority = offered[i].priority
  BY <1>11, AssignPortsKeeps
<1> HIDE DEF ported
<1>13. /\ \A i, j \in DOMAIN ported : i # j =>
            /\ ported[i].port # ported[j].port /\ ported[i].alias # ported[j].alias
            /\ ~(ported[i].priority /\ ported[j].priority)
            /\ Key(ported[i]) # Key(ported[j])
       /\ \A i \in DOMAIN ported : Fine(ported[i].file)
  <2>1. DOMAIN ported = DOMAIN merged /\ DOMAIN merged \subseteq Nat
    BY <1>10, <1>11, <1>12
  <2>2. \A i, j \in DOMAIN ported : i # j => ported[i].port # ported[j].port
    BY <2>1, <1>11, <1>12, RegistryAssumption
  <2>3. \A i \in DOMAIN ported : /\ ported[i].alias = merged[i].alias
                                 /\ ported[i].file = merged[i].file
                                 /\ Key(ported[i]) = Key(merged[i])
    BY <2>1, <1>11, <1>12 DEF Key
  <2>4. \A i, j \in DOMAIN ported : i # j => /\ ported[i].alias # ported[j].alias
                                             /\ Key(ported[i]) # Key(ported[j])
    BY <2>1, <2>3, <1>9 DEF Tidy, Distinct, Keyed
  <2>5. \A i, j \in DOMAIN ported : i # j => ~(ported[i].priority /\ ported[j].priority)
    BY <2>1, <1>11, <1>12
  <2>6. \A i \in DOMAIN ported : Fine(ported[i].file)
    BY <2>1, <2>3, <1>9
  <2>7. QED BY <2>2, <2>4, <2>5, <2>6
<1>14. \A m \in models : \E i \in DOMAIN ported :
         /\ m = Shown(ported[i])
         /\ m.port = ported[i].port /\ m.alias = ported[i].alias
         /\ m.file = ported[i].file /\ m.priority = ported[i].priority
  BY <1>1 DEF ToSet
<1> HIDE DEF Shown
<1>15. DistinctOffers(models)
  <2> SUFFICES ASSUME NEW m \in models, NEW n \in models, m # n
               PROVE  /\ m.port # n.port /\ m.alias # n.alias
                      /\ ~(m.priority /\ n.priority)
                      /\ m.file # None /\ n.file # None => NameOf[m.file] # NameOf[n.file]
    BY DEF DistinctOffers
  <2>1. PICK i \in DOMAIN ported :
          /\ m = Shown(ported[i])
          /\ m.port = ported[i].port /\ m.alias = ported[i].alias
          /\ m.file = ported[i].file /\ m.priority = ported[i].priority
    BY <1>14
  <2>2. PICK j \in DOMAIN ported :
          /\ n = Shown(ported[j])
          /\ n.port = ported[j].port /\ n.alias = ported[j].alias
          /\ n.file = ported[j].file /\ n.priority = ported[j].priority
    BY <1>14
  <2>3. i # j
    BY <2>1, <2>2
  <2>4. /\ ported[i].port # ported[j].port /\ ported[i].alias # ported[j].alias
        /\ ~(ported[i].priority /\ ported[j].priority)
        /\ Key(ported[i]) # Key(ported[j])
    BY <2>3, <1>13
  <2>5. m.file # None /\ n.file # None => NameOf[m.file] # NameOf[n.file]
    BY <2>1, <2>2, <2>4 DEF Key
  <2>6. QED BY <2>1, <2>2, <2>4, <2>5
<1>16. \A m \in models : Fine(m.file)
  BY <1>13, <1>14
<1>17. QED BY <1>15, <1>16 DEF Fine

-----------------------------------------------------------------------------
(* The specification *)

Registered == [roots : SUBSET Dirs, models : Seq(Entry)]

IsRegistry(r) == r \in Registered /\ Tidy(r.models)

\* Whoever holds a registry, the file, the enrichment or a command, holds a tidy
\* one, and whatever waits to be installed or is installed came from expand.
RegistryInv ==
    /\ disk \subseteq Files /\ mounted \subseteq Dirs
    /\ IsRegistry(toml)
    /\ step = "loaded" => IsRegistry(held)
    /\ cli # None => IsRegistry(cli.reg)
    /\ step \in {"scanned", "loaded", "ready"} => DistinctOffers(result)
    /\ DistinctOffers(live)

\* A scan sees files only.
LEMMA UnderFiles ==
  ASSUME RegistryInv, NEW roots
  PROVE  Under(roots) \in SUBSET Files
BY DEF RegistryInv, Under

\* Reading the file yields a registry with the same directories.
LEMMA LoadRegistry ==
  ASSUME NEW r, IsRegistry(r)
  PROVE  IsRegistry(Load(r)) /\ Load(r).roots = r.roots
<1>1. r = [roots |-> r.roots, models |-> r.models] /\ r.roots \in SUBSET Dirs
  BY DEF IsRegistry, Registered
<1>2. Tidy(r.models)
  BY DEF IsRegistry
<1>3. Load(r) = [roots |-> r.roots, models |-> Load(r).models] /\ Tidy(Load(r).models)
  BY <1>1, <1>2, LoadTidy
<1>4. QED BY <1>1, <1>3 DEF IsRegistry, Registered, Tidy

\* So does a rescan, with the directories and the entries it found.
LEMMA RescanRegistry ==
  ASSUME RegistryInv, NEW r, IsRegistry(r), Rescan(r) # None
  PROVE  /\ IsRegistry(Rescan(r))
         /\ Rescan(r).roots = ScanRoots(r.roots)
         /\ Rescan(r).models = Discover(Under(ScanRoots(r.roots)), r.models)
         /\ Discover(Under(ScanRoots(r.roots)), r.models) # None
<1> DEFINE roots == ScanRoots(r.roots)
           models == Discover(Under(roots), r.models)
<1>1. Rescan(r) = [roots |-> roots, models |-> models] /\ models # None
  BY DEF Rescan
<1>2. roots \in SUBSET Dirs
  BY DEF ScanRoots, RegistryInv
<1>3. Under(roots) \in SUBSET Files /\ r.models \in Seq(Entry)
  BY UnderFiles DEF IsRegistry, Tidy
<1> HIDE DEF roots
<1>4. Tidy(models)
  BY <1>1, <1>3, DiscoverLists
<1> HIDE DEF models
<1>5. IsRegistry(Rescan(r))
  BY <1>1, <1>2, <1>4 DEF IsRegistry, Registered, Tidy
<1>6. QED BY <1>1, <1>5 DEF roots, models

\* What a registry offers is not at odds with itself.
LEMMA OfferDistinct ==
  ASSUME RegistryInv, NEW r, IsRegistry(r), Offer(r) # None
  PROVE  DistinctOffers(Offer(r))
<1>1. Offer(r) = Expand(r.models, Under(ScanRoots(r.roots)))
  BY DEF Offer
<1>2. Tidy(r.models) /\ Under(ScanRoots(r.roots)) \in SUBSET Files
  BY UnderFiles DEF IsRegistry
<1>3. QED BY <1>1, <1>2, ExpandOffers

\* A registry with other entries.
LEMMA WithModels ==
  ASSUME NEW r, IsRegistry(r), NEW es, Tidy(es)
  PROVE  IsRegistry([r EXCEPT !.models = es])
BY DEF IsRegistry, Registered, Tidy

\* The discovery before the first start leaves a registry.
LEMMA InitInv == Init => RegistryInv
<1> SUFFICES ASSUME Init PROVE RegistryInv
  OBVIOUS
<1>1. disk \subseteq Files /\ mounted \subseteq Dirs
  BY DEF Init
<1>2. PICK roots \in SUBSET Dirs : toml = Rescan([roots |-> roots, models |-> <<>>])
  BY DEF Init
<1> DEFINE r == [roots |-> roots, models |-> <<>>]
<1>3. r \in Registered /\ Tidy(r.models)
  BY DEF Registered, Tidy, Distinct
<1> HIDE DEF r
<1>4. toml = Rescan(r) /\ toml # None
  BY <1>2 DEF Init, r
<1> DEFINE found == ScanRoots(r.roots)
           models == Discover(Under(found), r.models)
<1>5. toml = [roots |-> found, models |-> models] /\ models # None
  BY <1>4 DEF Rescan
<1>6. found \in SUBSET Dirs /\ Under(found) \in SUBSET Files
  BY <1>1, <1>3 DEF ScanRoots, Under, Registered
<1> HIDE DEF found
<1>7. Tidy(models)
  BY <1>3, <1>5, <1>6, DiscoverLists DEF Registered
<1> HIDE DEF models
<1>8. IsRegistry(toml)
  BY <1>5, <1>6, <1>7 DEF IsRegistry, Registered, Tidy
<1>9. DistinctOffers(live)
  <2>1. live = Expand(toml.models, Under(ScanRoots(toml.roots))) /\ live # None
    BY DEF Init, Offer
  <2>2. Tidy(toml.models) /\ Under(ScanRoots(toml.roots)) \in SUBSET Files
    BY <1>1, <1>8 DEF IsRegistry, Under
  <2>3. QED BY <2>1, <2>2, ExpandOffers
<1>10. QED BY <1>1, <1>8, <1>9 DEF Init, RegistryInv

\* An enrichment leaves a tidy list tidy.
LEMMA EnrichTidy ==
  ASSUME NEW es, Tidy(es), NEW matched
  PROVE  Tidy([i \in DOMAIN es |-> IF i \in matched THEN ApplyEnrichment(es[i]) ELSE es[i]])
<1> DEFINE fs == [i \in DOMAIN es |-> IF i \in matched THEN ApplyEnrichment(es[i]) ELSE es[i]]
<1>1. \A i \in DOMAIN es : es[i] \in Entry
  BY DEF Tidy
<1>2. \A e \in Entry : ApplyEnrichment(e) \in Entry /\ ApplyEnrichment(e).alias = e.alias
  <2> TAKE e \in Entry
  <2>1. ApplyEnrichment(e) = [e EXCEPT !.hf = TRUE]
    BY DEF ApplyEnrichment
  <2>2. ApplyEnrichment(e) \in Entry
    BY <2>1, EntryFields
  <2>3. QED BY <2>1, <2>2 DEF Entry
<1>3. \A i \in DOMAIN es : fs[i] \in Entry /\ fs[i].alias = es[i].alias
  BY <1>1, <1>2
<1>4. fs = [i \in DOMAIN es |-> fs[i]]
  OBVIOUS
<1> HIDE DEF fs
<1>5. Tidy(fs)
  BY <1>3, <1>4, MapTidy
<1>6. QED BY <1>5 DEF fs

\* A profile written back leaves a tidy list tidy.
LEMMA PersistTidy ==
  ASSUME NEW es, Tidy(es), NEW alias
  PROVE  Tidy([i \in DOMAIN es |-> IF es[i].alias = alias THEN [es[i] EXCEPT !.ctx = "fit"]
                                   ELSE es[i]])
<1> DEFINE fs == [i \in DOMAIN es |-> IF es[i].alias = alias THEN [es[i] EXCEPT !.ctx = "fit"]
                                      ELSE es[i]]
<1>1. \A i \in DOMAIN es : es[i] \in Entry
  BY DEF Tidy
<1>2. \A e \in Entry : /\ [e EXCEPT !.ctx = "fit"] \in Entry
                       /\ [e EXCEPT !.ctx = "fit"].alias = e.alias
  <2> TAKE e \in Entry
  <2>1. "fit" \in Ctx
    BY DEF Ctx
  <2>2. QED BY <2>1, EntryFields DEF Entry
<1>3. \A i \in DOMAIN es : fs[i] \in Entry /\ fs[i].alias = es[i].alias
  BY <1>1, <1>2
<1>4. fs = [i \in DOMAIN es |-> fs[i]]
  OBVIOUS
<1> HIDE DEF fs
<1>5. Tidy(fs)
  BY <1>3, <1>4, MapTidy
<1>6. QED BY <1>5 DEF fs

\* The user edits settings, not aliases.
LEMMA UserEditsRegistry ==
  ASSUME IsRegistry(toml), NEW i \in DOMAIN toml.models, UserEdits(i)
  PROVE  IsRegistry(toml')
<1> DEFINE es == toml.models
           old == es[i]
<1>1. Tidy(es) /\ es \in Seq(Entry) /\ old \in Entry
  BY DEF IsRegistry, Tidy
<1>2. PICK e \in {[old EXCEPT !.enabled = ~@], [old EXCEPT !.priority = ~@],
                  [old EXCEPT !.ctx = "user", !.floor = "user"]}
                    \cup {[old EXCEPT !.pin = p] : p \in Pins} :
        toml' = [toml EXCEPT !.models[i] = e]
  BY DEF UserEdits
<1> DEFINE fs == [es EXCEPT ![i] = e]
<1>3. toml' = [toml EXCEPT !.models = fs]
  BY <1>2 DEF IsRegistry, Registered
<1> HIDE DEF old
<1>4. e \in Entry /\ e.alias = old.alias
  <2>1. CASE e = [old EXCEPT !.enabled = ~@]
    <3>1. (~old.enabled) \in BOOLEAN
      OBVIOUS
    <3>2. [old EXCEPT !.enabled = ~old.enabled] \in Entry
      BY <1>1, <3>1, EntryFields
    <3>3. QED BY <2>1, <3>2, <1>1 DEF Entry
  <2>2. CASE e = [old EXCEPT !.priority = ~@]
    <3>1. (~old.priority) \in BOOLEAN
      OBVIOUS
    <3>2. [old EXCEPT !.priority = ~old.priority] \in Entry
      BY <1>1, <3>1, EntryFields
    <3>3. QED BY <2>2, <3>2, <1>1 DEF Entry
  <2>3. CASE e = [old EXCEPT !.ctx = "user", !.floor = "user"]
    <3>1. "user" \in Ctx
      BY DEF Ctx
    <3>2. [old EXCEPT !.ctx = "user"] \in Entry
      BY <1>1, <3>1, EntryFields
    <3>3. [[old EXCEPT !.ctx = "user"] EXCEPT !.floor = "user"] \in Entry
      BY <3>1, <3>2, EntryFields
    <3>4. e = [[old EXCEPT !.ctx = "user"] EXCEPT !.floor = "user"]
      BY <2>3, <1>1 DEF Entry
    <3>5. QED BY <2>3, <3>3, <3>4, <1>1 DEF Entry
  <2>4. CASE e \in {[old EXCEPT !.pin = p] : p \in Pins}
    <3>1. PICK p \in Pins : e = [old EXCEPT !.pin = p]
      BY <2>4
    <3>2. [old EXCEPT !.pin = p] \in Entry
      BY <1>1, EntryFields
    <3>3. QED BY <3>1, <3>2, <1>1 DEF Entry
  <2>5. QED BY <1>2, <2>1, <2>2, <2>3, <2>4
<1>5. /\ DOMAIN fs = DOMAIN es /\ fs = [j \in DOMAIN es |-> fs[j]]
      /\ \A j \in DOMAIN es : fs[j] = IF j = i THEN e ELSE es[j]
  BY <1>1
<1> HIDE DEF fs
<1>6. \A j \in DOMAIN es : fs[j] \in Entry /\ fs[j].alias = es[j].alias
  <2>1. \A j \in DOMAIN es : es[j] \in Entry
    BY <1>1
  <2>2. QED BY <2>1, <1>4, <1>5 DEF old
<1>7. Tidy(fs)
  BY <1>1, <1>5, <1>6, MapTidy
<1>8. QED BY <1>3, <1>7, WithModels

\* A pull registers the file under a new alias, or joins it to the vLLM entry.
LEMMA PullRegistry ==
  ASSUME IsRegistry(toml), NEW file \in Files, Pull(file)
  PROVE  IsRegistry(toml')
<1> DEFINE es == Load(toml).models
           merges(i) == es[i].alias = <<BaseOf[file]>> /\ es[i].file = None /\ es[i].repo
           alias == DedupeAlias(<<BaseOf[file]>>, Aliases(es))
           fs == [i \in DOMAIN es |->
                    IF ~merges(i) THEN es[i]
                    ELSE [es[i] EXCEPT !.file = file, !.hf = TRUE, !.ctx = OrElse(@, "fit")]]
           new == [NewEntry(alias, file, FALSE) EXCEPT !.ctx = "fit", !.hf = TRUE]
<1>1. Tidy(es) /\ es \in Seq(Entry)
  BY LoadRegistry DEF IsRegistry, Tidy
<1>2. \/ toml' = toml
      \/ toml' = [toml EXCEPT !.models = fs]
      \/ toml' = [toml EXCEPT !.models = Append(es, new)]
  BY DEF Pull
<1> HIDE DEF es
<1>3. CASE toml' = [toml EXCEPT !.models = fs]
  <2>1. \A i \in DOMAIN es : es[i] \in Entry
    BY <1>1
  <2>2. \A e \in Entry :
          LET d == [e EXCEPT !.file = file, !.hf = TRUE, !.ctx = OrElse(e.ctx, "fit")]
          IN  d \in Entry /\ d.alias = e.alias
    <3> TAKE e \in Entry
    <3> DEFINE d == [e EXCEPT !.file = file, !.hf = TRUE, !.ctx = OrElse(e.ctx, "fit")]
    <3>1. OrElse(e.ctx, "fit") \in Ctx
      BY DEF Entry, Ctx, OrElse
    <3>2. [e EXCEPT !.file = file] \in Entry
      BY EntryFields
    <3>3. [[e EXCEPT !.file = file] EXCEPT !.hf = TRUE] \in Entry
      BY <3>2, EntryFields
    <3>4. [[[e EXCEPT !.file = file] EXCEPT !.hf = TRUE] EXCEPT !.ctx = OrElse(e.ctx, "fit")] \in Entry
      BY <3>1, <3>3, EntryFields
    <3>5. d = [[[e EXCEPT !.file = file] EXCEPT !.hf = TRUE] EXCEPT !.ctx = OrElse(e.ctx, "fit")]
      BY DEF Entry
    <3>6. d.alias = e.alias
      BY DEF Entry
    <3>7. QED BY <3>4, <3>5, <3>6
  <2>3. \A i \in DOMAIN es : fs[i] \in Entry /\ fs[i].alias = es[i].alias
    <3> TAKE i \in DOMAIN es
    <3>1. CASE ~merges(i)
      <4>1. fs[i] = es[i]
        BY <3>1
      <4>2. QED BY <4>1, <2>1
    <3>2. CASE merges(i)
      <4>1. fs[i] = [es[i] EXCEPT !.file = file, !.hf = TRUE, !.ctx = OrElse(es[i].ctx, "fit")]
        BY <3>2
      <4> HIDE DEF fs
      <4>2. QED BY <4>1, <2>1, <2>2
    <3>3. QED BY <3>1, <3>2
  <2>4. fs = [i \in DOMAIN es |-> fs[i]]
    OBVIOUS
  <2> HIDE DEF fs
  <2>5. Tidy(fs)
    BY <1>1, <2>3, <2>4, MapTidy
  <2>6. QED BY <1>3, <2>5, WithModels
<1>4. CASE toml' = [toml EXCEPT !.models = Append(es, new)]
  <2>1. <<BaseOf[file]>> \in Alias
    BY RegistryAssumption DEF Alias
  <2>2. IsFiniteSet(Aliases(es))
    BY <1>1, AliasesFinite
  <2>3. alias \in Alias /\ alias \notin Aliases(es)
    BY <2>1, <2>2, DedupeAliasNew
  <2> HIDE DEF alias
  <2> DEFINE bare == NewEntry(alias, file, FALSE)
  <2>4. bare \in Entry /\ bare.alias = alias
    BY <2>3 DEF NewEntry, Entry, Ctx
  <2>5. new \in Entry /\ new.alias = alias
    <3> HIDE DEF bare
    <3>1. "fit" \in Ctx
      BY DEF Ctx
    <3>2. [bare EXCEPT !.ctx = "fit"] \in Entry
      BY <2>4, <3>1, EntryFields
    <3>3. [[bare EXCEPT !.ctx = "fit"] EXCEPT !.hf = TRUE] \in Entry
      BY <3>2, EntryFields
    <3>4. new = [[bare EXCEPT !.ctx = "fit"] EXCEPT !.hf = TRUE]
      <4>1. new = [bare EXCEPT !.ctx = "fit", !.hf = TRUE]
        BY DEF bare
      <4> HIDE DEF new
      <4>2. QED BY <2>4, <4>1 DEF Entry
    <3>5. [bare EXCEPT !.ctx = "fit", !.hf = TRUE].alias = bare.alias
      BY <2>4 DEF Entry
    <3>6. new = [bare EXCEPT !.ctx = "fit", !.hf = TRUE]
      BY DEF bare
    <3> HIDE DEF new
    <3>7. QED BY <2>4, <3>3, <3>4, <3>5, <3>6
  <2> HIDE DEF new
  <2>6. Tidy(Append(es, new))
    BY <1>1, <2>3, <2>5, AppendTidy
  <2>7. QED BY <1>4, <2>6, WithModels
<1>5. QED BY <1>2, <1>3, <1>4

\* A vLLM pull writes back what it read with one entry more, or changed.
LEMMA PullVllmRegistry ==
  ASSUME NEW r, IsRegistry(r)
  PROVE  LET es == r.models
             same(i) == es[i].alias = <<VllmBase>>
         IN  IsRegistry([r EXCEPT !.models =
               IF \E i \in DOMAIN es : same(i)
               THEN [i \in DOMAIN es |-> IF same(i) THEN [es[i] EXCEPT !.repo = TRUE] ELSE es[i]]
               ELSE Append(es, NewEntry(<<VllmBase>>, None, TRUE))])
<1> DEFINE es == r.models
           same(i) == es[i].alias = <<VllmBase>>
           fs == [i \in DOMAIN es |-> IF same(i) THEN [es[i] EXCEPT !.repo = TRUE] ELSE es[i]]
           new == NewEntry(<<VllmBase>>, None, TRUE)
<1>1. Tidy(es) /\ \A i \in DOMAIN es : es[i] \in Entry
  BY DEF IsRegistry, Tidy
<1>2. Tidy(fs)
  <2>1. \A e \in Entry : /\ [e EXCEPT !.repo = TRUE] \in Entry
                         /\ [e EXCEPT !.repo = TRUE].alias = e.alias
    BY EntryFields DEF Entry
  <2>2. \A i \in DOMAIN es : fs[i] \in Entry /\ fs[i].alias = es[i].alias
    BY <1>1, <2>1
  <2>3. fs = [i \in DOMAIN es |-> fs[i]]
    OBVIOUS
  <2> HIDE DEF fs
  <2>4. QED BY <1>1, <2>2, <2>3, MapTidy
<1>3. CASE \E i \in DOMAIN es : same(i)
  <2>1. IsRegistry([r EXCEPT !.models = fs])
    BY <1>2, WithModels
  <2>2. QED BY <1>3, <2>1
<1>4. CASE ~\E i \in DOMAIN es : same(i)
  <2>1. <<VllmBase>> \in Alias
    BY RegistryAssumption DEF Alias
  <2>2. new \in Entry /\ new.alias = <<VllmBase>>
    BY <2>1 DEF NewEntry, Entry, Ctx
  <2>3. new.alias \notin Aliases(es)
    BY <2>2, <1>4 DEF Aliases
  <2> HIDE DEF new
  <2>4. Tidy(Append(es, new))
    BY <1>1, <2>2, <2>3, AppendTidy
  <2>5. IsRegistry([r EXCEPT !.models = Append(es, new)])
    BY <2>4, WithModels
  <2>6. QED BY <1>4, <2>5 DEF new
<1>5. QED BY <1>3, <1>4

\* A refresh writes and installs what a rescan, a load or an enrichment made.
LEMMA RefreshInv == RegistryInv /\ RefreshStep => RegistryInv'
<1> SUFFICES ASSUME RegistryInv, RefreshStep PROVE RegistryInv'
  OBVIOUS
<1> USE DEF storage
<1>1. IsRegistry(Load(toml))
  BY LoadRegistry DEF RegistryInv
<1>2. CASE RefreshBegin
  BY <1>2 DEF RefreshBegin, RegistryInv
<1>3. CASE RefreshScan
  <2>1. PICK scanned : /\ scanned = Rescan(Load(toml))
                       /\ scanned # None /\ Offer(scanned) # None
                       /\ toml' = scanned /\ result' = Offer(scanned)
    BY <1>3 DEF RefreshScan
  <2>2. IsRegistry(scanned)
    BY <2>1, <1>1, RescanRegistry
  <2>3. DistinctOffers(Offer(scanned))
    BY <2>1, <2>2, OfferDistinct
  <2>4. step' = "scanned" /\ UNCHANGED <<disk, mounted, live, held, cli, edits>>
    BY <1>3 DEF RefreshScan
  <2>5. IsRegistry(toml') /\ DistinctOffers(result')
    BY <2>1, <2>2, <2>3
  <2>6. QED BY <2>4, <2>5 DEF RegistryInv
<1>4. CASE RefreshRejected
  BY <1>4 DEF RefreshRejected, RegistryInv
<1>5. CASE EnrichLoad
  <2>1. /\ step = "scanned" /\ held' = Load(toml) /\ step' = "loaded"
        /\ UNCHANGED <<disk, mounted, toml, live, result, cli, edits>>
    BY <1>5 DEF EnrichLoad
  <2>2. IsRegistry(held')
    BY <1>1, <2>1
  <2>3. QED BY <2>1, <2>2 DEF RegistryInv
<1>6. CASE EnrichWrite
  <2>1. /\ step = "loaded" /\ step' = "ready"
        /\ UNCHANGED <<disk, mounted, live, cli, edits>>
    BY <1>6 DEF EnrichWrite
  <2>2. IsRegistry(held) /\ Tidy(held.models)
    BY <2>1 DEF RegistryInv, IsRegistry
  <2>3. PICK matched :
          LET es == held.models
              enriched == [held EXCEPT !.models =
                 [i \in DOMAIN es |-> IF i \in matched THEN ApplyEnrichment(es[i]) ELSE es[i]]]
          IN  toml' = enriched /\ result' = OrElse(Offer(enriched), result)
    BY <1>6 DEF EnrichWrite
  <2> DEFINE fs == [i \in DOMAIN held.models |->
                      IF i \in matched THEN ApplyEnrichment(held.models[i]) ELSE held.models[i]]
             enriched == [held EXCEPT !.models = fs]
  <2>4. Tidy(fs)
    BY <2>2, EnrichTidy
  <2>5. toml' = enriched /\ result' = OrElse(Offer(enriched), result)
    BY <2>3
  <2> HIDE DEF fs
  <2>6. IsRegistry(enriched)
    BY <2>2, <2>4, WithModels
  <2> HIDE DEF enriched
  <2>7. DistinctOffers(result')
    <3>1. CASE Offer(enriched) = None
      BY <3>1, <2>1, <2>5 DEF OrElse, RegistryInv
    <3>2. CASE Offer(enriched) # None
      <4>1. result' = Offer(enriched)
        BY <3>2, <2>5 DEF OrElse
      <4>2. QED BY <3>2, <4>1, <2>6, OfferDistinct
    <3>3. QED BY <3>1, <3>2
  <2>8. IsRegistry(toml')
    BY <2>5, <2>6
  <2>9. QED BY <2>1, <2>7, <2>8 DEF RegistryInv
<1>7. CASE EnrichFails
  BY <1>7 DEF EnrichFails, RegistryInv
<1>8. CASE Apply
  <2>1. /\ step = "ready" /\ step' = "idle" /\ live' = result
        /\ UNCHANGED <<disk, mounted, toml, held, cli, edits>>
    BY <1>8 DEF Apply
  <2>2. DistinctOffers(live')
    BY <2>1 DEF RegistryInv
  <2>3. QED BY <2>1, <2>2 DEF RegistryInv
<1>9. QED BY <1>2, <1>3, <1>4, <1>5, <1>6, <1>7, <1>8 DEF RefreshStep

\* A command writes what it read, less or more an entry.
LEMMA CommandInv == RegistryInv /\ Command => RegistryInv'
<1> SUFFICES ASSUME RegistryInv, Command PROVE RegistryInv'
  OBVIOUS
<1> USE DEF storage, refresh, Outside
<1>1. IsRegistry(toml) /\ IsRegistry(Load(toml))
  BY LoadRegistry DEF RegistryInv
<1>2. CASE PullVllmStart
  <2>1. /\ cli' = [cmd |-> "pull vllm", reg |-> Load(toml), target |-> None]
        /\ UNCHANGED <<disk, mounted, toml, live, step, result, held>>
    BY <1>2 DEF PullVllmStart
  <2>2. IsRegistry(cli'.reg)
    BY <2>1, <1>1
  <2>3. QED BY <2>1, <2>2 DEF RegistryInv
<1>3. CASE PullVllmEnd
  <2>1. /\ cli # None /\ cli' = None
        /\ UNCHANGED <<disk, mounted, live, step, result, held>>
    BY <1>3 DEF PullVllmEnd
  <2>2. IsRegistry(cli.reg)
    BY <2>1 DEF RegistryInv
  <2>3. IsRegistry(toml')
    BY <1>3, <2>2, PullVllmRegistry DEF PullVllmEnd
  <2>4. QED BY <2>1, <2>3 DEF RegistryInv
<1>4. CASE DeleteEnd
  <2> DEFINE es   == cli.reg.models
             kept == Kept(es, {i \in DOMAIN es : es[i].file # cli.target})
  <2>1. /\ cli # None /\ cli' = None
        /\ UNCHANGED <<mounted, live, step, result, held>>
        /\ disk' = disk \/ disk' = disk \ {cli.target}
        /\ toml' = toml \/ toml' = [cli.reg EXCEPT !.models = kept]
    BY <1>4 DEF DeleteEnd
  <2>2. IsRegistry(cli.reg) /\ Tidy(es)
    BY <2>1 DEF RegistryInv, IsRegistry
  <2>3. Tidy(kept)
    BY <2>2, KeptTidy
  <2> HIDE DEF kept
  <2>4. IsRegistry([cli.reg EXCEPT !.models = kept])
    BY <2>2, <2>3, WithModels
  <2>5. IsRegistry(toml') /\ disk' \subseteq Files
    BY <2>1, <2>4, <1>1 DEF RegistryInv
  <2>6. QED BY <2>1, <2>5 DEF RegistryInv
<1>5. CASE Clean
  BY <1>5 DEF Clean, RegistryInv
<1>6. ASSUME NEW file \in Files, Pull(file) PROVE RegistryInv'
  <2>1. /\ disk' = disk \cup {file}
        /\ UNCHANGED <<mounted, live, step, result, held, cli>>
    BY <1>6 DEF Pull
  <2>2. IsRegistry(toml')
    BY <1>1, <1>6, PullRegistry
  <2>3. QED BY <2>1, <2>2 DEF RegistryInv
<1>7. ASSUME NEW file \in Files, DeleteStart(file) PROVE RegistryInv'
  <2>1. /\ cli' = [cmd |-> "delete", reg |-> Load(toml), target |-> file]
        /\ UNCHANGED <<disk, mounted, toml, live, step, result, held>>
    BY <1>7 DEF DeleteStart
  <2>2. IsRegistry(cli'.reg)
    BY <2>1, <1>1
  <2>3. QED BY <2>1, <2>2 DEF RegistryInv
<1>8. ASSUME NEW wanted, Register(wanted) PROVE RegistryInv'
  <2> DEFINE es    == Load(toml).models
             found == Rescan(Load(toml))
             known(e) == \E k \in ToSet(es) : k.alias = e.alias /\ k.file = e.file
             places == {i \in DOMAIN found.models :
                          \/ known(found.models[i]) \/ wanted = {}
                          \/ found.models[i].file \in wanted}
             kept == Kept(found.models, places)
  <2>1. /\ found # None /\ toml' = [found EXCEPT !.models = kept]
        /\ UNCHANGED <<disk, mounted, cli, live, step, result, held>>
    BY <1>8 DEF Register
  <2>2. IsRegistry(found)
    BY <2>1, <1>1, RescanRegistry
  <2> HIDE DEF found
  <2>3. Tidy(kept)
    <3>1. places \in SUBSET DOMAIN found.models
      OBVIOUS
    <3> HIDE DEF places
    <3>2. QED BY <3>1, <2>2, KeptTidy DEF IsRegistry
  <2> HIDE DEF kept
  <2>4. IsRegistry(toml')
    BY <2>1, <2>2, <2>3, WithModels
  <2>5. QED BY <2>1, <2>4 DEF RegistryInv
<1>9. QED BY <1>2, <1>3, <1>4, <1>5, <1>6, <1>7, <1>8 DEF Command

\* The invariant is inductive.
LEMMA NextInv == RegistryInv /\ [Next]_vars => RegistryInv'
<1> SUFFICES ASSUME RegistryInv, [Next]_vars PROVE RegistryInv'
  OBVIOUS
<1> USE DEF storage, refresh, Outside
<1>1. CASE RefreshStep
  BY <1>1, RefreshInv
<1>2. CASE Restart
  <2>1. IsRegistry(Load(toml))
    BY LoadRegistry DEF RegistryInv
  <2>2. /\ Offer(Load(toml)) # None /\ live' = Offer(Load(toml)) /\ step' = "idle"
        /\ UNCHANGED <<disk, mounted, toml, cli>>
    BY <1>2 DEF Restart
  <2>3. DistinctOffers(live')
    BY <2>1, <2>2, OfferDistinct
  <2>4. QED BY <2>2, <2>3 DEF RegistryInv
<1>3. CASE Command
  BY <1>3, CommandInv
<1>4. ASSUME NEW m \in live, PersistProfile(m.alias) PROVE RegistryInv'
  <2> DEFINE es == Load(toml).models
             fs == [i \in DOMAIN es |-> IF es[i].alias = m.alias THEN [es[i] EXCEPT !.ctx = "fit"]
                                        ELSE es[i]]
  <2>1. /\ toml' = [toml EXCEPT !.models = fs]
        /\ UNCHANGED <<disk, mounted, live, step, result, held, cli>>
    BY <1>4 DEF PersistProfile
  <2>2. IsRegistry(toml) /\ Tidy(es)
    BY LoadRegistry DEF RegistryInv, IsRegistry
  <2>3. Tidy(fs)
    <3> HIDE DEF es
    <3>1. QED BY <2>2, PersistTidy
  <2> HIDE DEF fs
  <2>4. IsRegistry(toml')
    BY <2>1, <2>2, <2>3, WithModels
  <2>5. QED BY <2>1, <2>4 DEF RegistryInv
<1>5. ASSUME NEW file \in Files, FileAppears(file) PROVE RegistryInv'
  BY <1>5 DEF FileAppears, RegistryInv
<1>6. ASSUME NEW file \in Files, FileGoes(file) PROVE RegistryInv'
  BY <1>6 DEF FileGoes, RegistryInv
<1>7. ASSUME NEW i \in DOMAIN toml.models, UserEdits(i) PROVE RegistryInv'
  <2>1. IsRegistry(toml')
    BY <1>7, UserEditsRegistry DEF RegistryInv
  <2>2. UNCHANGED <<disk, mounted, cli, live, step, result, held>>
    BY <1>7 DEF UserEdits
  <2>3. QED BY <2>1, <2>2 DEF RegistryInv
<1>8. ASSUME NEW dir \in Dirs, Mount(dir) PROVE RegistryInv'
  BY <1>8 DEF Mount, RegistryInv
<1>9. CASE UNCHANGED vars
  BY <1>9 DEF vars, RegistryInv
<1>10. QED BY <1>1, <1>2, <1>3, <1>4, <1>5, <1>6, <1>7, <1>8, <1>9 DEF Next

\* Whatever is offered to clients has a port, an alias and a name of its own, however
\* the file was edited, merged, overwritten by a stale copy and scanned again.
THEOREM LiveDistinctCorrect == Spec => []LiveDistinct
<1>1. RegistryInv => LiveDistinct
  BY DEF RegistryInv, DistinctOffers, LiveDistinct
<1>2. QED BY <1>1, InitInv, NextInv, PTL DEF Spec

-----------------------------------------------------------------------------
(* What a rescan keeps, and what models clean keeps *)

\* The registered entry of a file is found again, under whatever alias.
LEMMA FoundAgain ==
  ASSUME NEW reg \in Seq(Entry), Keyed(reg), NEW a \in DOMAIN reg, reg[a].file \in Files
  PROVE  Found(reg[a].file, reg) = reg[a]
<1> DEFINE F == reg[a].file
<1>1. reg[a] \in Known(reg, F)
  BY DEF Known, ToSet
<1>2. \A k \in Known(reg, F) : k = reg[a]
  <2> TAKE k \in Known(reg, F)
  <2>1. PICK b \in DOMAIN reg : k = reg[b] /\ reg[b].file = F
    BY DEF Known, ToSet
  <2>2. Key(reg[b]) = Key(reg[a])
    BY <2>1 DEF Key
  <2>3. QED BY <2>1, <2>2 DEF Keyed
<1>3. Found(F, reg) \in Known(reg, F)
  BY <1>1 DEF Found
<1>4. QED BY <1>2, <1>3

\* A new alias is no new setting.
LEMMA SettingsOf ==
  ASSUME NEW e \in Entry, NEW x
  PROVE  /\ [e EXCEPT !.alias = x].file = e.file /\ [e EXCEPT !.alias = x].repo = e.repo
         /\ [e EXCEPT !.alias = x].enabled = e.enabled
         /\ [e EXCEPT !.alias = x].priority = e.priority
         /\ [e EXCEPT !.alias = x].ctx = e.ctx /\ [e EXCEPT !.alias = x].floor = e.floor
         /\ [e EXCEPT !.alias = x].hf = e.hf /\ [e EXCEPT !.alias = x].pin = e.pin
         /\ Key([e EXCEPT !.alias = x]) = Key(e)
<1>1. [e EXCEPT !.alias = x].file = e.file
  BY DEF Entry
<1>2. QED BY <1>1 DEF Entry, Key

\* KeepsSettings, of discover_with_merge.
LEMMA DiscoverKeepsSettings ==
  ASSUME NEW present \in SUBSET Files, NEW reg \in Seq(Entry), Keyed(reg),
         NEW d, d = Discover(present, reg), d # None,
         NEW a \in DOMAIN reg, reg[a].file \in present,
         \A f \in present : NameOf[f] = NameOf[reg[a].file] => f = reg[a].file
  PROVE  \E n \in DOMAIN d :
           /\ d[n].file = reg[a].file /\ d[n].enabled = reg[a].enabled
           /\ d[n].ctx = reg[a].ctx /\ d[n].floor = reg[a].floor /\ d[n].hf = reg[a].hf
           /\ d[n].repo = reg[a].repo /\ d[n].pin = reg[a].pin
<1> DEFINE s == Scan(present, reg, {})
           es == Dedupe(s)
           e == reg[a]
<1>1. e \in Entry /\ e.file \in Files /\ e.file # None
  <2>1. e \in Entry /\ e.file \in Files
    OBVIOUS
  <2>2. QED BY <2>1, RegistryAssumption
<1>2. Lists(s, present, reg, {})
  BY ScanLists, FS_EmptySet
<1> HIDE DEF s
<1>3. PICK i \in DOMAIN s : s[i].file = e.file
  BY <1>2 DEF Lists
<1>4. s[i] = [e EXCEPT !.alias = s[i].alias]
  BY <1>1, <1>2, <1>3, FoundAgain DEF Lists
<1>5. /\ s[i].repo = e.repo /\ s[i].enabled = e.enabled /\ s[i].ctx = e.ctx
      /\ s[i].floor = e.floor /\ s[i].hf = e.hf /\ s[i].pin = e.pin
  <2> DEFINE f == [e EXCEPT !.alias = s[i].alias]
  <2>1. /\ f.repo = e.repo /\ f.enabled = e.enabled /\ f.ctx = e.ctx
        /\ f.floor = e.floor /\ f.hf = e.hf /\ f.pin = e.pin
    BY <1>1, SettingsOf
  <2>2. s[i] = f
    BY <1>4
  <2> HIDE DEF f
  <2>3. QED BY <2>1, <2>2
<1>6. Group(s, i) = {i}
  <2>1. ASSUME NEW j \in DOMAIN s, Key(s[j]) = Key(s[i]) PROVE j = i
    <3>1. s[j].file \in present /\ s[j].file # None
      BY <1>2, RegistryAssumption DEF Lists
    <3>2. NameOf[s[j].file] = NameOf[e.file]
      BY <2>1, <3>1, <1>1, <1>3 DEF Key
    <3>3. s[j].file = e.file
      BY <3>1, <3>2
    <3>4. QED BY <3>3, <1>2, <1>3 DEF Lists
  <2>2. QED BY <2>1 DEF Group
<1>7. s \in Seq(Entry) /\ {i} \in SUBSET DOMAIN s /\ {i} # {}
  BY <1>2 DEF Lists, Tidy
<1> DEFINE m == Merge(s, {i})
<1>8. /\ m.file = e.file /\ m.repo = e.repo /\ m.enabled = e.enabled
      /\ m.floor = e.floor /\ m.pin = e.pin /\ m.ctx = e.ctx /\ m.hf = e.hf
  <2>1. /\ Min({i}) \in {i}
        /\ m.file = s[Min({i})].file
        /\ m.repo = s[Min({i})].repo
        /\ m.floor = s[Min({i})].floor
        /\ m.pin = s[Min({i})].pin
        /\ m.ctx = FirstSet([j \in {i} |-> s[j].ctx], {i})
        /\ m.hf = \E j \in {i} : s[j].hf
        /\ m.enabled = \A j \in {i} : s[j].enabled
    BY <1>7, MergeKeeps
  <2> HIDE DEF m
  <2>2. Min({i}) = i
    BY <2>1
  <2>3. m.file = e.file /\ m.repo = e.repo /\ m.floor = e.floor /\ m.pin = e.pin
    BY <2>1, <2>2, <1>3, <1>5
  <2>4. m.ctx = e.ctx
    <3> DEFINE values == [j \in {i} |-> s[j].ctx]
    <3>1. \/ FirstSet(values, {i}) = None /\ \A j \in {i} : values[j] = None
          \/ \E j \in {i} : FirstSet(values, {i}) = values[j] /\ values[j] # None
      <4>1. {i} \in SUBSET Nat
        BY <1>7
      <4> HIDE DEF values
      <4>2. QED BY <4>1, FirstSetOf
    <3>2. values[i] = s[i].ctx
      OBVIOUS
    <3>3. m.ctx = FirstSet(values, {i})
      BY <2>1
    <3> HIDE DEF values
    <3>4. QED BY <3>1, <3>2, <3>3, <1>5
  <2>5. s[i].hf \in BOOLEAN /\ s[i].enabled \in BOOLEAN
    <3>1. s[i] \in Entry
      BY <1>7
    <3>2. QED BY <3>1 DEF Entry
  <2>6. m.hf = s[i].hf /\ m.enabled = s[i].enabled
    BY <2>1, <2>5
  <2>7. QED BY <2>3, <2>4, <2>6, <1>5
<1> HIDE DEF m
<1>9. PICK n \in DOMAIN es : es[n] = m
  <2>1. \E n \in DOMAIN Dedupe(s) : Dedupe(s)[n] = Merge(s, Group(s, i))
    BY <1>2, DedupeLists DEF Lists
  <2>2. QED BY <2>1, <1>6 DEF m
<1>10. DOMAIN d = DOMAIN es /\ Settings(d[n], es[n])
  BY DiscoverLists DEF s
<1> HIDE DEF es
<1>11. QED BY <1>8, <1>9, <1>10 DEF Settings

\* KeepsFlags, of discover_with_merge.
LEMMA DiscoverKeepsFlags ==
  ASSUME NEW present \in SUBSET Files, NEW reg \in Seq(Entry), Keyed(reg),
         \A i, j \in DOMAIN reg : reg[i].priority /\ reg[j].priority => i = j,
         NEW d, d = Discover(present, reg), d # None,
         NEW a \in DOMAIN reg, reg[a].file \in present,
         NEW n \in DOMAIN d, Key(d[n]) = Key(reg[a])
  PROVE  /\ ~reg[a].enabled => ~d[n].enabled
         /\ reg[a].priority => d[n].priority
<1> DEFINE s == Scan(present, reg, {})
           es == Dedupe(s)
           e == reg[a]
<1>1. e \in Entry /\ e.file \in Files
  OBVIOUS
<1>2. Lists(s, present, reg, {})
  BY ScanLists, FS_EmptySet
<1>3. /\ DOMAIN d = DOMAIN es /\ Keyed(es) /\ es \in Seq(Entry)
      /\ \A i \in DOMAIN es : Settings(d[i], es[i])
      /\ \A i \in DOMAIN es :
           es[i].priority /\ (\A j \in 1..(i - 1) : ~es[j].priority) => d[i].priority
  BY DiscoverLists DEF Tidy
<1>4. \A l \in DOMAIN es : \E i \in DOMAIN s :
        /\ es[l] = Merge(s, Group(s, i))
        /\ Key(es[l]) = Key(s[i])
  BY <1>2, DedupeLists DEF Lists
<1> HIDE DEF s, es
<1>5. PICK j \in DOMAIN s : s[j].file = e.file
  BY <1>2 DEF Lists
<1>6. s[j] = [e EXCEPT !.alias = s[j].alias]
  BY <1>1, <1>2, <1>5, FoundAgain DEF Lists
<1>7. s[j].enabled = e.enabled /\ s[j].priority = e.priority /\ Key(s[j]) = Key(e)
  <2> DEFINE f == [e EXCEPT !.alias = s[j].alias]
  <2>1. f.enabled = e.enabled /\ f.priority = e.priority /\ Key(f) = Key(e)
    BY <1>1, SettingsOf
  <2>2. s[j] = f
    BY <1>6
  <2> HIDE DEF f
  <2>3. QED BY <2>1, <2>2
<1>8. PICK i \in DOMAIN s : es[n] = Merge(s, Group(s, i)) /\ Key(es[n]) = Key(s[i])
  BY <1>3, <1>4
<1>9. Key(es[n]) = Key(d[n]) /\ d[n].enabled = es[n].enabled
  BY <1>3 DEF Settings, Key
<1>10. j \in Group(s, i)
  BY <1>7, <1>8, <1>9 DEF Group
<1>11. \A l \in DOMAIN s : /\ Merge(s, Group(s, l)).priority = \E k \in Group(s, l) : s[k].priority
                           /\ Merge(s, Group(s, l)).enabled = \A k \in Group(s, l) : s[k].enabled
  <2> TAKE l \in DOMAIN s
  <2>1. s \in Seq(Entry) /\ Group(s, l) \in SUBSET DOMAIN s /\ Group(s, l) # {}
    BY <1>2 DEF Lists, Tidy, Group
  <2>2. QED BY <2>1, MergeKeeps
<1>12. ~e.enabled => ~d[n].enabled
  BY <1>7, <1>8, <1>9, <1>10, <1>11
<1>13. ASSUME e.priority PROVE d[n].priority
  <2>1. es[n].priority
    BY <1>7, <1>8, <1>10, <1>11, <1>13
  <2>2. ASSUME NEW l \in DOMAIN es, es[l].priority PROVE l = n
    <3>1. PICK h \in DOMAIN s : es[l] = Merge(s, Group(s, h)) /\ Key(es[l]) = Key(s[h])
      BY <1>4
    <3>2. PICK k \in Group(s, h) : s[k].priority
      BY <2>2, <3>1, <1>11
    <3>3. k \in DOMAIN s /\ Key(s[k]) = Key(s[h])
      BY DEF Group
    <3> DEFINE found == Found(s[k].file, reg)
    <3>4. found \in Entry /\ found.file = s[k].file
      BY <3>3, <1>2, FoundEntry DEF Lists
    <3>5. found.priority
      <4>1. [found EXCEPT !.alias = s[k].alias].priority = found.priority
        BY <3>4, SettingsOf
      <4>2. s[k] = [found EXCEPT !.alias = s[k].alias]
        BY <3>3, <1>2 DEF Lists
      <4> HIDE DEF found
      <4>3. QED BY <4>1, <4>2, <3>2
    <3>6. PICK b \in DOMAIN reg : found = reg[b]
      <4>1. ~NewEntry(<<BaseOf[s[k].file]>>, s[k].file, FALSE).priority
        BY DEF NewEntry
      <4>2. Known(reg, s[k].file) # {}
        BY <4>1, <3>5 DEF Found
      <4>3. found \in Known(reg, s[k].file)
        BY <4>2 DEF Found
      <4> HIDE DEF found
      <4>4. QED BY <4>3 DEF Known, ToSet
    <3> HIDE DEF found
    <3>7. b = a
      BY <3>5, <3>6, <1>13
    <3>8. s[k].file = e.file
      BY <3>4, <3>6, <3>7
    <3>9. k = j
      BY <3>3, <3>8, <1>2, <1>5 DEF Lists
    <3>10. Key(es[l]) = Key(es[n])
      BY <3>1, <3>3, <3>9, <1>7, <1>9
    <3>11. QED BY <3>10, <1>3 DEF Keyed
  <2>3. \A l \in 1..(n - 1) : l \in DOMAIN es /\ l # n
    BY <1>3
  <2>4. \A l \in 1..(n - 1) : ~es[l].priority
    BY <2>2, <2>3
  <2>5. QED BY <2>1, <2>4, <1>3
<1>14. QED BY <1>12, <1>13

\* SettingsKept, of one refresh.
LEMMA RescanKeeps ==
  RegistryInv /\ RefreshScan => StaysHidden /\ KeepsSettings /\ KeepsFlags
<1> SUFFICES ASSUME RegistryInv, RefreshScan
             PROVE  StaysHidden /\ KeepsSettings /\ KeepsFlags
  OBVIOUS
<1> DEFINE r == Load(toml)
           reg == r.models
           present == Under(ScanRoots(r.roots))
           scanned == Rescan(r)
           d == scanned.models
<1>1. /\ scanned # None /\ Offer(scanned) # None
      /\ toml' = scanned /\ result' = Offer(scanned) /\ UNCHANGED <<disk, mounted>>
  BY DEF RefreshScan, storage
<1>2. /\ IsRegistry(r) /\ reg \in Seq(Entry) /\ Keyed(reg)
      /\ \A i, j \in DOMAIN reg : reg[i].priority /\ reg[j].priority => i = j
  <2>1. toml = [roots |-> toml.roots, models |-> toml.models] /\ Tidy(toml.models)
    BY DEF RegistryInv, IsRegistry, Registered
  <2>2. IsRegistry(toml)
    BY DEF RegistryInv
  <2>3. QED BY <2>1, <2>2, LoadTidy, LoadRegistry DEF Tidy
<1> HIDE DEF r
<1>3. /\ IsRegistry(scanned) /\ scanned.roots = ScanRoots(r.roots)
      /\ d = Discover(present, reg) /\ d # None
  BY <1>1, <1>2, RescanRegistry
<1>4. present \in SUBSET Files
  BY UnderFiles
<1>5. d \in Seq(Entry) /\ Keyed(d) /\ Tidy(d)
  <2> HIDE DEF scanned, present, reg
  <2>1. Tidy(d) /\ Keyed(d)
    BY <1>2, <1>3, <1>4, DiscoverLists
  <2>2. QED BY <2>1 DEF Tidy
<1>6. Under(toml'.roots) = present /\ toml'.models = d
  BY <1>1, <1>3
<1>7. StaysHidden
  <2>1. Offer(scanned) = Expand(d, Under(ScanRoots(scanned.roots)))
    BY <1>1 DEF Offer
  <2>2. Under(ScanRoots(scanned.roots)) \in SUBSET Files
    BY UnderFiles
  <2>3. \A m \in Offer(scanned) : m.file # None =>
          \/ \E i \in DOMAIN d : d[i].file = m.file /\ d[i].enabled
          \/ \A i \in DOMAIN d : d[i].file # m.file
    BY <2>1, <2>2, <1>1, <1>5, ExpandOffers
  <2> HIDE DEF scanned
  <2>4. ASSUME NEW b \in DOMAIN d, ~d[b].enabled, NEW m \in result'
        PROVE  m.file # d[b].file \/ m.file = None
    <3>1. SUFFICES ASSUME m.file = d[b].file, m.file # None PROVE FALSE
      OBVIOUS
    <3>2. PICK i \in DOMAIN d : d[i].file = m.file /\ d[i].enabled
      BY <2>3, <3>1, <1>1
    <3>3. Key(d[i]) = Key(d[b])
      BY <3>1, <3>2 DEF Key
    <3>4. QED BY <2>4, <3>2, <3>3, <1>5 DEF Keyed
  <2>5. QED BY <2>4, <1>6 DEF StaysHidden, ToSet
<1> HIDE DEF scanned
<1>8. KeepsSettings
  <2> SUFFICES ASSUME NEW a \in DOMAIN reg, reg[a].file \in present,
                      \A f \in disk : NameOf[f] = NameOf[reg[a].file] => f = reg[a].file
               PROVE  \E k \in ToSet(d) :
                        /\ k.file = reg[a].file
                        /\ <<k.enabled, k.ctx, k.floor, k.hf, k.repo, k.pin>>
                             = <<reg[a].enabled, reg[a].ctx, reg[a].floor, reg[a].hf,
                                 reg[a].repo, reg[a].pin>>
    BY <1>6 DEF KeepsSettings, ToSet, r
  <2>1. \A f \in present : f \in disk
    BY DEF Under
  <2>2. PICK n \in DOMAIN d :
          /\ d[n].file = reg[a].file /\ d[n].enabled = reg[a].enabled
          /\ d[n].ctx = reg[a].ctx /\ d[n].floor = reg[a].floor /\ d[n].hf = reg[a].hf
          /\ d[n].repo = reg[a].repo /\ d[n].pin = reg[a].pin
    BY <2>1, <1>2, <1>3, <1>4, DiscoverKeepsSettings
  <2>3. d[n] \in ToSet(d)
    BY DEF ToSet
  <2>4. QED BY <2>2, <2>3
<1>9. KeepsFlags
  <2> SUFFICES ASSUME NEW a \in DOMAIN reg, NEW n \in DOMAIN d,
                      reg[a].file \in present, Key(d[n]) = Key(reg[a])
               PROVE  /\ ~reg[a].enabled => ~d[n].enabled
                      /\ reg[a].priority => d[n].priority
    BY <1>6 DEF KeepsFlags, ToSet, r
  <2>1. QED BY <1>2, <1>3, <1>4, DiscoverKeepsFlags
<1>10. QED BY <1>7, <1>8, <1>9

\* What a user set is still set after any rescan of any history of edits.
THEOREM SettingsKeptCorrect == Spec => SettingsKept
<1>1. RegistryInv /\ [Next]_vars =>
        [RefreshScan => StaysHidden /\ KeepsSettings /\ KeepsFlags]_vars
  BY RescanKeeps
<1>2. QED BY <1>1, InitInv, NextInv, PTL DEF Spec, SettingsKept

\* The copies models clean removes leave one of every name behind.
THEOREM CleanKeepsModelCorrect == Spec => CleanKeepsModel
<1>1. ASSUME Clean PROVE {NameOf[f] : f \in disk'} = {NameOf[f] : f \in disk}
  <2> DEFINE kept   == Local(toml) \cap RegisteredFiles(toml)
             copies == {f \in Local(toml) \ RegisteredFiles(toml) :
                          \E o \in kept : NameOf[o] = NameOf[f]}
  <2>1. disk' = disk \ copies
    BY <1>1 DEF Clean
  <2>2. kept \subseteq disk /\ kept \cap copies = {}
    BY DEF Local, Under
  <2>3. \A f \in disk \cap copies : \E o \in disk' : NameOf[o] = NameOf[f]
    BY <2>1, <2>2
  <2> HIDE DEF copies
  <2>4. QED BY <2>1, <2>3
<1>2. [Next]_vars => [Clean => {NameOf[f] : f \in disk'} = {NameOf[f] : f \in disk}]_vars
  BY <1>1
<1>3. QED BY <1>2, PTL DEF Spec, CleanKeepsModel

=============================================================================
