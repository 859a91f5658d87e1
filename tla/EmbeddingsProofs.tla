--------------------------- MODULE EmbeddingsProofs ---------------------------
(***************************************************************************)
(* Proofs about the admission gates, for any number of requests and any     *)
(* sequence of plans, refreshes, timeouts and hang-ups.  A replaced gate    *)
(* lives on with the permits and callers it had, so the invariant speaks of *)
(* every gate ever created, and of the requests that have not created one.  *)
(* And about the answers: how an input is cut, what comes back, in what     *)
(* order, and who is billed for it.                                         *)
(***************************************************************************)
EXTENDS Embeddings, FiniteSetTheorems, FunctionTheorems, SequenceTheorems, WellFoundedInduction,
        TLAPS

Fresh == {"new", "loading", "loaded"}
Placed == {"cloned", "queued", "admitted", "running"}

IsJob(j) ==
    j = [pc |-> j.pc, model |-> j.model, input |-> j.input, topN |-> j.topN, gate |-> j.gate,
         limit |-> j.limit, todo |-> j.todo, data |-> j.data, tokens |-> j.tokens]

JobInv ==
    /\ job = [r \in Requests |-> job[r]]
    /\ \A r \in Requests :
        /\ IsJob(job[r])
        /\ At(r, "loading") \/ At(r, "loaded") => job[r].model \in Models
        /\ job[r].pc \in Placed => job[r].gate \in Requests

\* A gate is named after a request that has passed the gates' critical section.
GateInv ==
    /\ gate \in [Models -> Requests \cup {None}]
    /\ \A r \in Requests : job[r].pc \in Fresh =>
           /\ \A s \in Requests : job[s].gate # r
           /\ \A m \in Models : gate[m] # r

Distinct(q) == \A i, j \in DOMAIN q : q[i] = q[j] => i = j
QueueInv ==
    /\ size \in [Requests -> Nat] /\ free \in [Requests -> Nat]
    /\ queue \in [Requests -> Seq(Requests)]
    /\ \A g \in Requests : Distinct(queue[g])

PermitInv == JobInv /\ GateInv /\ QueueInv /\ PermitsKept

Holders(g) == {r \in Requests : Holds(r) /\ job[r].gate = g}
InLine(g) == {r \in Requests : At(r, "queued") /\ job[r].gate = g}

\* PermitsKept at one gate, in these words.
KeptAt(g) ==
    /\ free[g] + Cardinality(Holders(g)) = size[g]
    /\ queue[g] # <<>> => free[g] = 0
    /\ ToSet(queue[g]) = InLine(g)

LEMMA KeptDef == PermitsKept <=> \A g \in Requests : KeptAt(g)
  BY DEF PermitsKept, KeptAt, Holders, InLine

LEMMA HoldersFinite ==
  ASSUME NEW g \in Requests
  PROVE  IsFiniteSet(Holders(g)) /\ Cardinality(Holders(g)) \in Nat
<1>1. Holders(g) \in SUBSET Requests
  BY DEF Holders
<1> QED
  BY <1>1, EmbeddingsAssumption, FS_Subset, FS_CardinalityType

LEMMA InitPermits == Init => PermitInv
<1> SUFFICES ASSUME Init PROVE PermitInv
  OBVIOUS
<1> USE DEF Init, NewJob
<1>1. JobInv /\ GateInv
  BY EmbeddingsAssumption DEF JobInv, GateInv, IsJob, At, Placed, Fresh
<1>2. QueueInv
  BY DEF QueueInv, Distinct
<1>3. ASSUME NEW g \in Requests PROVE KeptAt(g)
  <2>1. Holders(g) = {} /\ InLine(g) = {}
    BY DEF Holders, InLine, Holds, At
  <2>2. ToSet(queue[g]) = {}
    BY DEF ToSet
  <2> QED
    BY <2>1, <2>2, FS_EmptySet DEF KeptAt
<1> QED
  BY <1>1, <1>2, <1>3, KeptDef DEF PermitInv

-----------------------------------------------------------------------------
(* Sequences without repetition *)

LEMMA RemoveElement ==
  ASSUME NEW q \in Seq(Requests), Distinct(q), NEW i \in DOMAIN q
  PROVE  /\ RemoveAt(q, i) \in Seq(Requests) /\ Distinct(RemoveAt(q, i))
         /\ ToSet(RemoveAt(q, i)) = ToSet(q) \ {q[i]}
<1> DEFINE out == [k \in 1..(Len(q) - 1) |-> IF k < i THEN q[k] ELSE q[k + 1]]
<1>1. i \in 1..Len(q) /\ Len(q) \in Nat
  OBVIOUS
<1>2. RemoveAt(q, i) = out
  <2> DEFINE a == SubSeq(q, 1, i - 1)
             b == SubSeq(q, i + 1, Len(q))
  <2>1. a \in Seq(Requests) /\ Len(a) = i - 1 /\ \A k \in 1..(i - 1) : a[k] = q[k]
    BY <1>1
  <2>2. b \in Seq(Requests) /\ Len(b) = Len(q) - i /\ \A k \in 1..(Len(q) - i) : b[k] = q[k + i]
    BY <1>1
  <2>3. RemoveAt(q, i) = a \o b
    BY DEF RemoveAt
  <2> HIDE DEF a, b
  <2>4. a \o b \in Seq(Requests) /\ Len(a \o b) = Len(q) - 1
    BY <1>1, <2>1, <2>2
  <2>5. \A k \in 1..(Len(q) - 1) : (a \o b)[k] = IF k < i THEN q[k] ELSE q[k + 1]
    BY <1>1, <2>1, <2>2
  <2>6. a \o b \in [1..(Len(q) - 1) -> Requests]
    BY <2>4, LenProperties
  <2> QED
    BY <2>3, <2>5, <2>6
<1>3. out \in Seq(Requests) /\ Len(out) = Len(q) - 1 /\ DOMAIN out = 1..(Len(q) - 1)
  BY <1>1
<1>4. Distinct(out)
  BY <1>1, <1>3 DEF Distinct
<1>5. ASSUME NEW x
      PROVE  (\E k \in DOMAIN out : out[k] = x) <=> (\E k \in DOMAIN q : q[k] = x) /\ x # q[i]
  <2>1. ASSUME NEW k \in DOMAIN out, out[k] = x PROVE (\E n \in DOMAIN q : q[n] = x) /\ x # q[i]
    <3>1. CASE k < i
      BY <1>1, <1>3, <2>1, <3>1 DEF Distinct
    <3>2. CASE k >= i
      <4>1. k + 1 \in DOMAIN q /\ k + 1 # i /\ out[k] = q[k + 1]
        BY <1>1, <1>3, <3>2
      <4> QED
        BY <2>1, <4>1 DEF Distinct
    <3> QED
      BY <1>1, <1>3, <3>1, <3>2
  <2>2. ASSUME NEW k \in DOMAIN q, q[k] = x, x # q[i] PROVE \E n \in DOMAIN out : out[n] = x
    <3>1. CASE k < i
      BY <1>1, <1>3, <2>2, <3>1
    <3>2. CASE k > i
      <4>1. k - 1 \in DOMAIN out /\ out[k - 1] = q[k]
        BY <1>1, <1>3, <3>2
      <4> QED
        BY <2>2, <4>1
    <3> QED
      BY <1>1, <2>2, <3>1, <3>2
  <2> QED
    BY <2>1, <2>2
<1> HIDE DEF out
<1>6. ToSet(out) = ToSet(q) \ {q[i]}
  BY <1>5 DEF ToSet
<1> QED
  BY <1>2, <1>3, <1>4, <1>6

LEMMA RemoveHead ==
  ASSUME NEW q \in Seq(Requests), Distinct(q), q # <<>>
  PROVE  /\ Tail(q) \in Seq(Requests) /\ Distinct(Tail(q)) /\ Head(q) \in ToSet(q)
         /\ ToSet(Tail(q)) = ToSet(q) \ {Head(q)} /\ Head(q) \in Requests
<1>1. Len(q) \in Nat \ {0} /\ DOMAIN q = 1..Len(q) /\ Head(q) = q[1] /\ 1 \in DOMAIN q
  OBVIOUS
<1>2. Tail(q) = RemoveAt(q, 1)
  <2>1. /\ SubSeq(q, 1, 0) = <<>> /\ SubSeq(q, 2, Len(q)) = Tail(q)
    BY <1>1
  <2>2. Tail(q) \in Seq(Requests)
    BY <1>1
  <2> QED
    BY <2>1, <2>2 DEF RemoveAt
<1>3. /\ Tail(q) \in Seq(Requests) /\ Distinct(Tail(q))
      /\ ToSet(Tail(q)) = ToSet(q) \ {q[1]}
  BY <1>1, <1>2, RemoveElement
<1>4. q[1] \in ToSet(q) /\ q[1] \in Requests
  BY <1>1 DEF ToSet
<1> QED
  BY <1>1, <1>3, <1>4

LEMMA AddLast ==
  ASSUME NEW q \in Seq(Requests), Distinct(q), NEW r \in Requests, r \notin ToSet(q)
  PROVE  /\ Append(q, r) \in Seq(Requests) /\ Distinct(Append(q, r))
         /\ ToSet(Append(q, r)) = ToSet(q) \cup {r}
<1>1. /\ Len(q) \in Nat /\ DOMAIN q = 1..Len(q) /\ DOMAIN Append(q, r) = 1..(Len(q) + 1)
      /\ Append(q, r)[Len(q) + 1] = r /\ \A k \in 1..Len(q) : Append(q, r)[k] = q[k]
  OBVIOUS
<1>2. Distinct(Append(q, r))
  BY <1>1 DEF Distinct, ToSet
<1> QED
  BY <1>1, <1>2 DEF ToSet

-----------------------------------------------------------------------------
(* The ways a request moves *)

\* No gate is created, and none is named after a request that goes on.
LEMMA GateStays ==
  ASSUME GateInv, gate' = gate,
         \A s \in Requests : /\ job'[s].pc \in Fresh => job[s].pc \in Fresh
                             /\ job'[s].gate \in {job[s].gate, None}
  PROVE  GateInv'
  BY EmbeddingsAssumption DEF GateInv

\* Nobody takes, leaves or waits for a permit.
LEMMA QuietStep ==
  ASSUME PermitInv, JobInv', GateInv', UNCHANGED <<size, free, queue>>,
         \A s \in Requests :
             /\ Holds(s)' <=> Holds(s)
             /\ At(s, "queued")' <=> At(s, "queued")
             /\ Holds(s) \/ At(s, "queued") => job'[s].gate = job[s].gate
  PROVE  PermitInv'
<1>1. \A g \in Requests : Holders(g)' = Holders(g) /\ InLine(g)' = InLine(g)
  BY DEF Holders, InLine
<1>2. \A g \in Requests : KeptAt(g)'
  BY <1>1, KeptDef DEF PermitInv, KeptAt
<1>3. PermitsKept'
  BY <1>2, KeptDef DEF PermitsKept, KeptAt, Holders, InLine
<1>4. QueueInv'
  BY DEF PermitInv, QueueInv
<1> QED
  BY <1>3, <1>4 DEF PermitInv

LEMMA KeptDefNext == PermitsKept' <=> \A g \in Requests : KeptAt(g)'
  BY DEF PermitsKept, KeptAt, Holders, InLine

\* The holder of a permit ends; the first waiter of its gate, if any, takes over.
LEMMA GiveBackStep ==
  ASSUME PermitInv, NEW r \in Requests, Holds(r), NEW jobs,
         jobs = [s \in Requests |-> jobs[s]], \A s \in Requests \ {r} : jobs[s] = job[s],
         IsJob(jobs[r]), jobs[r].pc \in Ended, jobs[r].gate \in {job[r].gate, None},
         GiveBack(r, jobs), UNCHANGED <<gate, size>>
  PROVE  PermitInv'
<1> USE DEF PermitInv
<1>1. PICK g \in Requests : g = job[r].gate
  BY DEF JobInv, Placed, Holds
<1>2. IsFiniteSet(Holders(g)) /\ Cardinality(Holders(g)) \in Nat /\ r \in Holders(g)
  BY <1>1, HoldersFinite DEF Holders
<1>3. /\ IsFiniteSet(Holders(g) \ {r})
      /\ Cardinality(Holders(g) \ {r}) = Cardinality(Holders(g)) - 1
  BY <1>2, FS_RemoveElement
<1>4. \A k \in Requests : KeptAt(k)
  BY KeptDef
<1>5. CASE queue[g] = <<>>
  <2>1. free' = [free EXCEPT ![g] = @ + 1] /\ job' = jobs /\ queue' = queue
    BY <1>1, <1>5 DEF GiveBack
  <2>2. JobInv'
    BY <2>1 DEF JobInv, IsJob, At, Placed, Ended
  <2>3. GateInv'
    BY <2>1, GateStays DEF Fresh, Ended
  <2>4. QueueInv'
    BY <1>1, <2>1 DEF QueueInv
  <2>5. \A k \in Requests : /\ Holders(k)' = IF k = g THEN Holders(g) \ {r} ELSE Holders(k)
                            /\ InLine(k)' = InLine(k)
    BY <1>1, <2>1 DEF Holders, InLine, Holds, At, Ended
  <2>6. \A k \in Requests : KeptAt(k)'
    <3>1. KeptAt(g)'
      <4>1. Cardinality(Holders(g)') = Cardinality(Holders(g)) - 1
        BY <1>3, <2>5
      <4>2. free'[g] = free[g] + 1 /\ free[g] \in Nat /\ size'[g] = size[g] /\ queue'[g] = <<>>
        BY <1>5, <2>1 DEF QueueInv
      <4>3. free'[g] + Cardinality(Holders(g)') = size'[g]
        BY <1>2, <1>4, <4>1, <4>2 DEF KeptAt
      <4>4. ToSet(queue'[g]) = InLine(g)'
        BY <1>4, <2>1, <2>5 DEF KeptAt
      <4> QED
        BY <4>2, <4>3, <4>4 DEF KeptAt
    <3>2. ASSUME NEW k \in Requests, k # g PROVE KeptAt(k)'
      BY <1>1, <1>4, <2>1, <2>5, <3>2 DEF KeptAt, QueueInv
    <3> QED
      BY <3>1, <3>2
  <2> QED
    BY <2>2, <2>3, <2>4, <2>6, KeptDefNext
<1>6. CASE queue[g] # <<>>
  <2> DEFINE h == Head(queue[g])
  <2>1. /\ job' = [jobs EXCEPT ![h].pc = "admitted"]
        /\ queue' = [queue EXCEPT ![g] = Tail(@)] /\ free' = free
    BY <1>1, <1>6 DEF GiveBack
  <2>2. /\ Tail(queue[g]) \in Seq(Requests) /\ Distinct(Tail(queue[g]))
        /\ ToSet(Tail(queue[g])) = ToSet(queue[g]) \ {h}
        /\ h \in Requests /\ h \in InLine(g)
    BY <1>1, <1>4, <1>6, RemoveHead DEF QueueInv, KeptAt
  <2>3. h # r /\ jobs[h] = job[h] /\ job[h].gate = g /\ job[h].pc = "queued" /\ h \notin Holders(g)
    BY <2>2 DEF InLine, Holders, Holds, At
  <2> HIDE DEF h
  <2>4. /\ job'[h] = [job[h] EXCEPT !.pc = "admitted"] /\ job'[r] = jobs[r]
        /\ \A s \in Requests \ {r, h} : job'[s] = job[s]
        /\ job' = [s \in Requests |-> job'[s]]
    BY <2>1, <2>2, <2>3
  <2>5. IsJob(job'[h]) /\ job'[h].pc = "admitted" /\ job'[h].gate = g
    BY <2>2, <2>3, <2>4 DEF JobInv, IsJob
  <2>6. JobInv'
    BY <1>1, <2>2, <2>4, <2>5 DEF JobInv, At, Placed, Ended
  <2>7. GateInv'
    BY <2>3, <2>4, <2>5, GateStays DEF Fresh, Ended
  <2>8. QueueInv'
    BY <1>1, <2>1, <2>2 DEF QueueInv
  <2>9. \A k \in Requests :
            /\ Holders(k)' = IF k = g THEN (Holders(g) \ {r}) \cup {h} ELSE Holders(k)
            /\ InLine(k)' = IF k = g THEN InLine(g) \ {h} ELSE InLine(k)
    <3>1. ASSUME NEW k \in Requests, NEW s \in Requests
          PROVE  /\ s \in Holders(k)' <=> IF k = g THEN s \in (Holders(g) \ {r}) \cup {h} ELSE s \in Holders(k)
                 /\ s \in InLine(k)' <=> IF k = g THEN s \in InLine(g) \ {h} ELSE s \in InLine(k)
      <4>1. CASE s = r
        <5>1. job'[r].pc \in Ended /\ job[r].pc \in {"admitted", "running"} /\ job[r].gate = g
          BY <1>1, <2>4 DEF Holds
        <5> QED
          BY <2>3, <4>1, <5>1 DEF Holders, InLine, Holds, At, Ended
      <4>2. CASE s = h
        BY <2>2, <2>3, <2>5, <4>2 DEF Holders, InLine, Holds, At
      <4>3. CASE s \notin {r, h}
        BY <2>4, <4>3 DEF Holders, InLine, Holds, At
      <4> QED
        BY <4>1, <4>2, <4>3
    <3>2. \A k \in Requests : /\ Holders(k)' \in SUBSET Requests /\ Holders(k) \in SUBSET Requests
                              /\ InLine(k)' \in SUBSET Requests /\ InLine(k) \in SUBSET Requests
      BY DEF Holders, InLine
    <3> QED
      BY <2>2, <3>1, <3>2
  <2>10. Cardinality((Holders(g) \ {r}) \cup {h}) = Cardinality(Holders(g))
    <3>1. h \notin Holders(g) \ {r} /\ IsFiniteSet(Holders(g) \ {r})
      BY <1>3, <2>3
    <3>2. Cardinality((Holders(g) \ {r}) \cup {h}) = Cardinality(Holders(g) \ {r}) + 1
      BY <3>1, FS_AddElement
    <3> QED
      BY <1>2, <1>3, <3>2
  <2>11. \A k \in Requests : KeptAt(k)'
    <3>1. KeptAt(g)'
      BY <1>1, <1>4, <1>6, <2>1, <2>2, <2>9, <2>10 DEF KeptAt, QueueInv
    <3>2. ASSUME NEW k \in Requests, k # g PROVE KeptAt(k)'
      BY <1>1, <1>4, <2>1, <2>9, <3>2 DEF KeptAt, QueueInv
    <3> QED
      BY <3>1, <3>2
  <2> QED
    BY <2>6, <2>7, <2>8, <2>11, KeptDefNext
<1> QED
  BY <1>5, <1>6

\* One request's locals change; the others' do not.
LEMMA MoveStep ==
  ASSUME JobInv, NEW r \in Requests, NEW next, job' = [job EXCEPT ![r] = next], IsJob(next),
         next.pc \in {"loading", "loaded"} => next.model \in Models,
         next.pc \in Placed => next.gate \in Requests
  PROVE  /\ JobInv' /\ job'[r] = next /\ \A s \in Requests \ {r} : job'[s] = job[s]
         /\ job' = [s \in Requests |-> job'[s]]
<1>1. /\ job'[r] = next /\ \A s \in Requests \ {r} : job'[s] = job[s]
      /\ job' = [s \in Requests |-> job'[s]]
  BY DEF JobInv
<1>2. IsJob(job'[r])
  BY <1>1
<1>3. \A s \in Requests : IsJob(job[s])'
  BY <1>1, <1>2 DEF JobInv, IsJob
<1> QED
  BY <1>1, <1>3 DEF JobInv, At

\* A request leaves with an error, a timeout or its caller.
LEMMA LeaveStep ==
  ASSUME PermitInv, NEW r \in Requests, Leave(r), UNCHANGED <<gate, size>>
  PROVE  PermitInv'
<1> DEFINE over == [NewJob EXCEPT !.pc = "over"]
           jobs == [job EXCEPT ![r] = over]
<1>1. IsJob(over) /\ over.pc = "over" /\ over.gate = None
  BY DEF IsJob, NewJob
<1>2. /\ jobs = [s \in Requests |-> jobs[s]] /\ jobs[r] = over
      /\ \A s \in Requests \ {r} : jobs[s] = job[s]
  BY DEF PermitInv, JobInv
<1>3. CASE Holds(r)
  <2>1. GiveBack(r, jobs)
    BY <1>3 DEF Leave
  <2>2. IsJob(jobs[r]) /\ jobs[r].pc \in Ended /\ jobs[r].gate \in {job[r].gate, None}
    BY <1>1, <1>2 DEF Ended
  <2> HIDE DEF jobs, over
  <2> QED
    BY <1>2, <1>3, <2>1, <2>2, GiveBackStep
<1>4. CASE ~Holds(r)
  <2>1. job' = jobs /\ free' = free
    BY <1>4 DEF Leave
  <2> HIDE DEF over
  <2>2. /\ JobInv' /\ job'[r] = over /\ \A s \in Requests \ {r} : job'[s] = job[s]
    BY <1>1, <2>1, MoveStep DEF PermitInv, Placed
  <2>3. GateInv'
    BY <1>1, <2>2, GateStays DEF PermitInv, Fresh
  <2>4. CASE ~At(r, "queued")
    <3>1. queue' = queue
      BY <1>4, <2>4 DEF Leave
    <3> QED
      BY <1>1, <1>4, <2>1, <2>2, <2>3, <2>4, <3>1, QuietStep DEF Holds, At
  <2>5. CASE At(r, "queued")
    <3>1. PICK g \in Requests : g = job[r].gate
      BY <2>5 DEF PermitInv, JobInv, Placed, At
    <3> DEFINE i == CHOOSE n \in DOMAIN queue[g] : queue[g][n] = r
    <3>2. queue' = [queue EXCEPT ![g] = RemoveAt(queue[g], i)]
      BY <1>4, <2>5, <3>1 DEF Leave
    <3>3. r \in InLine(g) /\ ToSet(queue[g]) = InLine(g)
      BY <2>5, <3>1, KeptDef DEF PermitInv, InLine, KeptAt
    <3>4. i \in DOMAIN queue[g] /\ queue[g][i] = r
      BY <3>3 DEF ToSet
    <3> HIDE DEF i
    <3>5. /\ RemoveAt(queue[g], i) \in Seq(Requests) /\ Distinct(RemoveAt(queue[g], i))
          /\ ToSet(RemoveAt(queue[g], i)) = InLine(g) \ {r}
      BY <3>3, <3>4, RemoveElement DEF PermitInv, QueueInv
    <3>6. QueueInv'
      BY <2>1, <3>2, <3>5 DEF PermitInv, QueueInv
    <3>7. ASSUME NEW k \in Requests
          PROVE  /\ Holders(k)' = Holders(k)
                 /\ InLine(k)' = IF k = g THEN InLine(g) \ {r} ELSE InLine(k)
      BY <1>1, <1>4, <2>2, <2>5, <3>1 DEF Holders, InLine, Holds, At
    <3>8. ASSUME NEW k \in Requests PROVE KeptAt(k)'
      <4>1. CASE k = g
        <5>1. queue[g] # <<>>
          BY <3>4
        <5>2. queue'[g] = RemoveAt(queue[g], i)
          BY <3>2 DEF PermitInv, QueueInv
        <5> QED
          BY <2>1, <3>5, <3>7, <4>1, <5>1, <5>2, KeptDef DEF PermitInv, KeptAt
      <4>2. CASE k # g
        BY <2>1, <3>2, <3>7, <4>2, KeptDef DEF PermitInv, KeptAt, QueueInv
      <4> QED
        BY <4>1, <4>2
    <3> QED
      BY <2>2, <2>3, <3>6, <3>8, KeptDefNext DEF PermitInv
  <2> QED
    BY <2>4, <2>5
<1> QED
  BY <1>3, <1>4


\* Setting one field of a job: what the job is afterwards.
LEMMA SetField ==
  ASSUME NEW j, IsJob(j), NEW x, NEW k
  PROVE  /\ k = [j EXCEPT !.pc = x] => IsJob(k) /\ k.model = j.model /\ k.gate = j.gate /\ k.pc = x
         /\ k = [j EXCEPT !.model = x] => IsJob(k) /\ k.pc = j.pc /\ k.gate = j.gate /\ k.model = x
         /\ k = [j EXCEPT !.input = x] => IsJob(k) /\ k.pc = j.pc /\ k.model = j.model /\ k.gate = j.gate
         /\ k = [j EXCEPT !.topN = x] => IsJob(k) /\ k.pc = j.pc /\ k.model = j.model /\ k.gate = j.gate
         /\ k = [j EXCEPT !.gate = x] => IsJob(k) /\ k.pc = j.pc /\ k.model = j.model /\ k.gate = x
         /\ k = [j EXCEPT !.limit = x] => IsJob(k) /\ k.pc = j.pc /\ k.model = j.model /\ k.gate = j.gate
         /\ k = [j EXCEPT !.todo = x] => IsJob(k) /\ k.pc = j.pc /\ k.model = j.model /\ k.gate = j.gate
         /\ k = [j EXCEPT !.data = x] => IsJob(k) /\ k.pc = j.pc /\ k.model = j.model /\ k.gate = j.gate
         /\ k = [j EXCEPT !.tokens = x] => IsJob(k) /\ k.pc = j.pc /\ k.model = j.model /\ k.gate = j.gate
<1>1. k = [j EXCEPT !.pc = x] => IsJob(k) /\ k.model = j.model /\ k.gate = j.gate /\ k.pc = x
  BY DEF IsJob
<1>2. k = [j EXCEPT !.model = x] => IsJob(k) /\ k.pc = j.pc /\ k.gate = j.gate /\ k.model = x
  BY DEF IsJob
<1>3. k = [j EXCEPT !.input = x] => IsJob(k) /\ k.pc = j.pc /\ k.model = j.model /\ k.gate = j.gate
  BY DEF IsJob
<1>4. k = [j EXCEPT !.topN = x] => IsJob(k) /\ k.pc = j.pc /\ k.model = j.model /\ k.gate = j.gate
  BY DEF IsJob
<1>5. k = [j EXCEPT !.gate = x] => IsJob(k) /\ k.pc = j.pc /\ k.model = j.model /\ k.gate = x
  BY DEF IsJob
<1>6. k = [j EXCEPT !.limit = x] => IsJob(k) /\ k.pc = j.pc /\ k.model = j.model /\ k.gate = j.gate
  BY DEF IsJob
<1>7. k = [j EXCEPT !.todo = x] => IsJob(k) /\ k.pc = j.pc /\ k.model = j.model /\ k.gate = j.gate
  BY DEF IsJob
<1>8. k = [j EXCEPT !.data = x] => IsJob(k) /\ k.pc = j.pc /\ k.model = j.model /\ k.gate = j.gate
  BY DEF IsJob
<1>9. k = [j EXCEPT !.tokens = x] => IsJob(k) /\ k.pc = j.pc /\ k.model = j.model /\ k.gate = j.gate
  BY DEF IsJob
<1> QED
  BY <1>1, <1>2, <1>3, <1>4, <1>5, <1>6, <1>7, <1>8, <1>9

\* A request goes on without touching the gates.
LEMMA GoOnStep ==
  ASSUME PermitInv, NEW r \in Requests, NEW next, job' = [job EXCEPT ![r] = next],
         IsJob(next), next.gate = job[r].gate, UNCHANGED <<gate, size, free, queue>>,
         \/ /\ job[r].pc \in {"new", "loading"} /\ next.pc \in {"loading", "loaded"}
            /\ next.model \in Models
         \/ Holds(r) /\ next.pc = "running"
  PROVE  PermitInv'
<1>1. /\ JobInv' /\ job'[r] = next /\ \A s \in Requests \ {r} : job'[s] = job[s]
  BY MoveStep DEF PermitInv, JobInv, Placed, Holds
<1>2. GateInv'
  BY <1>1, GateStays DEF PermitInv, Fresh, Holds
<1>3. ASSUME NEW s \in Requests
      PROVE  /\ Holds(s)' <=> Holds(s)
             /\ At(s, "queued")' <=> At(s, "queued")
             /\ Holds(s) \/ At(s, "queued") => job'[s].gate = job[s].gate
  BY <1>1 DEF Holds, At
<1> QED
  BY <1>1, <1>2, <1>3, QuietStep

-----------------------------------------------------------------------------
(* The actions *)

LEMMA ArriveStep ==
  ASSUME PermitInv, NEW r \in Requests, Embed(r) \/ Rerank(r) \/ Reject(r)
  PROVE  PermitInv'
<1>0. IsJob(job[r]) /\ Embedder \in Models /\ Reranker \in Models
  BY DEF PermitInv, JobInv, Models
<1>1. CASE Embed(r)
  <2>1. PICK texts \in Inputs :
            job' = [job EXCEPT ![r].pc = "loading", ![r].model = Embedder, ![r].input = texts]
    BY <1>1 DEF Embed
  <2>a. PICK a : a = [job[r] EXCEPT !.pc = "loading"]
    OBVIOUS
  <2>20. IsJob(a) /\ a.pc = "loading" /\ a.model = job[r].model /\ a.gate = job[r].gate
    BY <1>0, <2>a, SetField
  <2>b. PICK b : b = [a EXCEPT !.model = Embedder]
    OBVIOUS
  <2>21. IsJob(b) /\ b.pc = "loading" /\ b.model = Embedder /\ b.gate = job[r].gate
    BY <2>20, <2>b, SetField
  <2>z. PICK next : next = [b EXCEPT !.input = texts]
    OBVIOUS
  <2>22. IsJob(next) /\ next.pc = "loading" /\ next.model = Embedder /\ next.gate = job[r].gate
    BY <2>21, <2>z, SetField
  <2>2. job' = [job EXCEPT ![r] = next]
    BY <2>1, <2>a, <2>b, <2>z DEF PermitInv, JobInv
  <2> QED
    BY <1>0, <1>1, <2>2, <2>22, GoOnStep DEF Embed, At
<1>2. CASE Rerank(r)
  <2>1. PICK q \in Rankings :
            IF q.scores = <<>> THEN Leave(r)
            ELSE /\ job' = [job EXCEPT ![r].pc = "loading", ![r].model = Reranker,
                                       ![r].input = q.scores, ![r].topN = q.topN]
                 /\ UNCHANGED <<free, queue>>
    BY <1>2 DEF Rerank
  <2>2. CASE q.scores = <<>>
    BY <1>2, <2>1, <2>2, LeaveStep DEF Rerank
  <2>3. CASE q.scores # <<>>
    <3>a. PICK a : a = [job[r] EXCEPT !.pc = "loading"]
      OBVIOUS
    <3>20. IsJob(a) /\ a.pc = "loading" /\ a.model = job[r].model /\ a.gate = job[r].gate
      BY <1>0, <3>a, SetField
    <3>b. PICK b : b = [a EXCEPT !.model = Reranker]
      OBVIOUS
    <3>21. IsJob(b) /\ b.pc = "loading" /\ b.model = Reranker /\ b.gate = job[r].gate
      BY <3>20, <3>b, SetField
    <3>c. PICK c : c = [b EXCEPT !.input = q.scores]
      OBVIOUS
    <3>22. IsJob(c) /\ c.pc = "loading" /\ c.model = Reranker /\ c.gate = job[r].gate
      BY <3>21, <3>c, SetField
    <3>z. PICK next : next = [c EXCEPT !.topN = q.topN]
      OBVIOUS
    <3>23. IsJob(next) /\ next.pc = "loading" /\ next.model = Reranker /\ next.gate = job[r].gate
      BY <3>22, <3>z, SetField
    <3>1. job' = [job EXCEPT ![r] = next]
      BY <2>1, <2>3, <3>a, <3>b, <3>c, <3>z DEF PermitInv, JobInv
    <3> QED
      BY <1>0, <1>2, <2>1, <2>3, <3>1, <3>23, GoOnStep DEF Rerank, At
  <2> QED
    BY <2>2, <2>3
<1>3. CASE Reject(r)
  BY <1>3, LeaveStep DEF Reject
<1> QED
  BY <1>1, <1>2, <1>3

LEMMA LoadStep ==
  ASSUME PermitInv, NEW r \in Requests, EnsureLoaded(r) \/ LoadFails(r)
  PROVE  PermitInv'
<1>1. CASE EnsureLoaded(r)
  <2> DEFINE next == [job[r] EXCEPT !.pc = "loaded"]
  <2>1. job' = [job EXCEPT ![r] = next]
    BY <1>1 DEF EnsureLoaded, PermitInv, JobInv
  <2>2. /\ IsJob(next) /\ next.gate = job[r].gate /\ next.pc = "loaded"
        /\ next.model = job[r].model /\ job[r].model \in Models
    BY <1>1 DEF PermitInv, JobInv, IsJob, EnsureLoaded
  <2> HIDE DEF next
  <2> QED
    BY <1>1, <2>1, <2>2, GoOnStep DEF EnsureLoaded, At
<1>2. CASE LoadFails(r)
  BY <1>2, LeaveStep DEF LoadFails
<1> QED
  BY <1>1, <1>2

\* A new gate starts with all its permits; a replaced one keeps its callers.
LEMMA AdmissionStep ==
  ASSUME PermitInv, NEW r \in Requests, Admission(r)
  PROVE  PermitInv'
<1> DEFINE m == job[r].model
           lim == EffectiveBatchLimits(profile[m])
           bad == m = Embedder /\ Oversized(job[r].input, lim.ubatch)
<1>1. CASE bad
  BY <1>1, LeaveStep DEF Admission
<1>2. CASE ~bad
  <2> DEFINE want == ReadConcurrency(m)
  <2>1. PICK g : g = IF NeedsGate(m, want) THEN r ELSE gate[m]
    OBVIOUS
  <2>2. /\ At(r, "loaded") /\ m \in Models /\ job[r].pc \in Fresh
    BY <1>2 DEF Admission, PermitInv, JobInv, At, Fresh
  <2>3. /\ gate' = [gate EXCEPT ![m] = g]
        /\ size' = [size EXCEPT ![r] = IF g = r THEN want ELSE 0]
        /\ free' = [free EXCEPT ![r] = IF g = r THEN want ELSE 0]
        /\ queue' = queue
        /\ job' = [job EXCEPT ![r].pc = "cloned", ![r].gate = gate'[m], ![r].limit = lim.batch]
    BY <1>2, <2>1 DEF Admission, PickGate
  <2>4. g \in Requests
    BY <2>1, <2>2 DEF PermitInv, GateInv, NeedsGate
  <2>5. want \in Nat
    BY DEF ReadConcurrency, BalancedConcurrency
  <2> HIDE DEF want, lim, bad
  <2>0. IsJob(job[r])
    BY DEF PermitInv, JobInv
  <2>a. PICK a : a = [job[r] EXCEPT !.pc = "cloned"]
    OBVIOUS
  <2>20. IsJob(a) /\ a.pc = "cloned" /\ a.model = job[r].model /\ a.gate = job[r].gate
    BY <2>0, <2>a, SetField
  <2>c. PICK b : b = [a EXCEPT !.gate = g]
    OBVIOUS
  <2>21. IsJob(b) /\ b.pc = "cloned" /\ b.model = job[r].model /\ b.gate = g
    BY <2>20, <2>c, SetField
  <2>z. PICK next : next = [b EXCEPT !.limit = lim.batch]
    OBVIOUS
  <2>22. IsJob(next) /\ next.pc = "cloned" /\ next.model = job[r].model /\ next.gate = g
    BY <2>21, <2>z, SetField
  <2>b. gate'[m] = g
    BY <2>2, <2>3 DEF PermitInv, GateInv
  <2>6. job' = [job EXCEPT ![r] = next]
    BY <2>3, <2>a, <2>b, <2>c, <2>z DEF PermitInv, JobInv
  <2>8. JobInv' /\ job'[r] = next /\ \A s \in Requests \ {r} : job'[s] = job[s]
    BY <2>4, <2>6, <2>22, MoveStep DEF PermitInv
  <2>9. GateInv'
    <3>1. gate' \in [Models -> Requests \cup {None}]
      BY <2>3, <2>4 DEF PermitInv, GateInv
    <3>2. ASSUME NEW s \in Requests, job'[s].pc \in Fresh
          PROVE  /\ \A t \in Requests : job'[t].gate # s
                 /\ \A k \in Models : gate'[k] # s
      <4>1. s # r /\ job[s].pc \in Fresh
        BY <2>22, <2>8, <3>2 DEF Fresh
      <4>2. g # s
        BY <2>1, <2>2, <4>1 DEF PermitInv, GateInv
      <4> QED
        BY <2>2, <2>3, <2>22, <2>8, <4>1, <4>2 DEF PermitInv, GateInv
    <3> QED
      BY <3>1, <3>2 DEF GateInv
  <2>10. QueueInv'
    BY <2>3, <2>5 DEF PermitInv, QueueInv
  <2>11. /\ Holders(r) = {} /\ InLine(r) = {}
    BY <2>2 DEF PermitInv, GateInv, Holders, InLine
  <2>12. ASSUME NEW k \in Requests PROVE Holders(k)' = Holders(k) /\ InLine(k)' = InLine(k)
    BY <2>2, <2>22, <2>8 DEF Holders, InLine, Holds, At
  <2>13. ASSUME NEW k \in Requests PROVE KeptAt(k)'
    <3>1. CASE k = r
      <4>0. ToSet(queue[r]) = {} /\ queue[r] \in Seq(Requests)
        BY <2>11, KeptDef DEF PermitInv, KeptAt, QueueInv
      <4>1. queue[r] = <<>>
        <5> SUFFICES ASSUME queue[r] # <<>> PROVE FALSE
          OBVIOUS
        <5>1. 1 \in DOMAIN queue[r]
          BY <4>0
        <5> QED
          BY <4>0, <5>1 DEF ToSet
      <4>2. ToSet(queue[r]) = {}
        BY <4>1 DEF ToSet
      <4>3. free'[r] = size'[r] /\ free'[r] \in Nat /\ queue'[r] = <<>>
        BY <2>3, <2>5, <4>1 DEF PermitInv, QueueInv
      <4>4. Cardinality(Holders(r)') = 0
        BY <2>11, <2>12, FS_EmptySet
      <4> QED
        BY <2>3, <2>11, <2>12, <3>1, <4>2, <4>3, <4>4 DEF KeptAt
    <3>2. CASE k # r
      BY <2>3, <2>12, <3>2, KeptDef DEF PermitInv, KeptAt, QueueInv
    <3> QED
      BY <3>1, <3>2
  <2> QED
    BY <2>8, <2>9, <2>10, <2>13, KeptDefNext DEF PermitInv
<1> QED
  BY <1>1, <1>2

LEMMA PollStep ==
  ASSUME PermitInv, NEW r \in Requests, Poll(r)
  PROVE  PermitInv'
<1>1. PICK g \in Requests : g = job[r].gate
  BY DEF Poll, PermitInv, JobInv, Placed, At
<1>2. job[r].pc = "cloned" /\ IsJob(job[r]) /\ \A k \in Requests : KeptAt(k)
  BY KeptDef DEF Poll, At, PermitInv, JobInv
<1>3. IsFiniteSet(Holders(g)) /\ Cardinality(Holders(g)) \in Nat /\ r \notin Holders(g)
  BY <1>2, HoldersFinite DEF Holders, Holds
<1>4. r \notin ToSet(queue[g])
  BY <1>2 DEF KeptAt, InLine, At
<1>5. CASE free[g] > 0
  <2> DEFINE next == [job[r] EXCEPT !.pc = "admitted"]
  <2>1. /\ free' = [free EXCEPT ![g] = @ - 1] /\ UNCHANGED <<queue, gate, size>>
        /\ job' = [job EXCEPT ![r] = next]
    BY <1>1, <1>5 DEF Poll, PermitInv, JobInv
  <2>2. IsJob(next) /\ next.pc = "admitted" /\ next.gate = g
    BY <1>1, <1>2, SetField
  <2> HIDE DEF next
  <2>3. JobInv' /\ job'[r] = next /\ \A s \in Requests \ {r} : job'[s] = job[s]
    BY <2>1, <2>2, MoveStep DEF PermitInv
  <2>4. GateInv'
    BY <1>1, <2>1, <2>2, <2>3, GateStays DEF PermitInv, Fresh
  <2>5. free[g] \in Nat /\ size[g] \in Nat /\ free[g] - 1 \in Nat
    BY <1>5 DEF PermitInv, QueueInv
  <2>6. QueueInv'
    BY <2>1, <2>5 DEF PermitInv, QueueInv
  <2>7. ASSUME NEW k \in Requests
        PROVE  /\ Holders(k)' = IF k = g THEN Holders(g) \cup {r} ELSE Holders(k)
               /\ InLine(k)' = InLine(k)
    BY <1>1, <1>2, <2>2, <2>3 DEF Holders, InLine, Holds, At
  <2>8. Cardinality(Holders(g) \cup {r}) = Cardinality(Holders(g)) + 1
    BY <1>3, FS_AddElement
  <2>9. ASSUME NEW k \in Requests PROVE KeptAt(k)'
    <3>1. CASE k = g
      <4>1. queue[g] = <<>> /\ queue'[g] = <<>> /\ free'[g] = free[g] - 1
        BY <1>2, <1>5, <2>1 DEF KeptAt, PermitInv, QueueInv
      <4>2. free'[g] + Cardinality(Holders(g)') = size'[g]
        <5>1. Cardinality(Holders(g)') = Cardinality(Holders(g)) + 1 /\ size'[g] = size[g]
          BY <2>1, <2>7, <2>8
        <5>2. free[g] + Cardinality(Holders(g)) = size[g]
          BY <1>2 DEF KeptAt
        <5> QED
          BY <1>3, <2>5, <4>1, <5>1, <5>2
      <4>3. ToSet(queue'[g]) = InLine(g)'
        BY <1>2, <2>1, <2>7 DEF KeptAt
      <4> QED
        BY <3>1, <4>1, <4>2, <4>3 DEF KeptAt
    <3>2. CASE k # g
      BY <1>2, <2>1, <2>7, <3>2 DEF KeptAt, PermitInv, QueueInv
    <3> QED
      BY <3>1, <3>2
  <2> QED
    BY <2>3, <2>4, <2>6, <2>9, KeptDefNext DEF PermitInv
<1>6. CASE ~(free[g] > 0)
  <2> DEFINE next == [job[r] EXCEPT !.pc = "queued"]
  <2>1. /\ queue' = [queue EXCEPT ![g] = Append(@, r)] /\ UNCHANGED <<free, gate, size>>
        /\ job' = [job EXCEPT ![r] = next]
    BY <1>1, <1>6 DEF Poll, PermitInv, JobInv
  <2>2. IsJob(next) /\ next.pc = "queued" /\ next.gate = g
    BY <1>1, <1>2, SetField
  <2> HIDE DEF next
  <2>3. JobInv' /\ job'[r] = next /\ \A s \in Requests \ {r} : job'[s] = job[s]
    BY <2>1, <2>2, MoveStep DEF PermitInv
  <2>4. GateInv'
    BY <1>1, <2>1, <2>2, <2>3, GateStays DEF PermitInv, Fresh
  <2>5. /\ Append(queue[g], r) \in Seq(Requests) /\ Distinct(Append(queue[g], r))
        /\ ToSet(Append(queue[g], r)) = ToSet(queue[g]) \cup {r}
    BY <1>4, AddLast DEF PermitInv, QueueInv
  <2>6. QueueInv'
    BY <2>1, <2>5 DEF PermitInv, QueueInv
  <2>7. ASSUME NEW k \in Requests
        PROVE  /\ Holders(k)' = Holders(k)
               /\ InLine(k)' = IF k = g THEN InLine(g) \cup {r} ELSE InLine(k)
    BY <1>1, <1>2, <2>2, <2>3 DEF Holders, InLine, Holds, At
  <2>8. ASSUME NEW k \in Requests PROVE KeptAt(k)'
    <3>1. CASE k = g
      <4>1. free[g] = 0 /\ queue'[g] = Append(queue[g], r)
        BY <1>6, <2>1 DEF PermitInv, QueueInv
      <4>2. ToSet(queue'[g]) = InLine(g)'
        BY <1>2, <2>5, <2>7, <4>1 DEF KeptAt
      <4> QED
        BY <1>2, <2>1, <2>7, <3>1, <4>1, <4>2 DEF KeptAt
    <3>2. CASE k # g
      BY <1>2, <2>1, <2>7, <3>2 DEF KeptAt, PermitInv, QueueInv
    <3> QED
      BY <3>1, <3>2
  <2> QED
    BY <2>3, <2>4, <2>6, <2>8, KeptDefNext DEF PermitInv
<1> QED
  BY <1>5, <1>6

LEMMA TrackStep ==
  ASSUME PermitInv, NEW r \in Requests, Track(r)
  PROVE  PermitInv'
<1>1. IsJob(job[r]) /\ Holds(r)
  BY DEF PermitInv, JobInv, Track, At, Holds
<1>2. PICK t : job' = [job EXCEPT ![r].pc = "running", ![r].todo = t]
  BY DEF Track
<1>a. PICK a : a = [job[r] EXCEPT !.pc = "running"]
  OBVIOUS
<1>20. IsJob(a) /\ a.pc = "running" /\ a.model = job[r].model /\ a.gate = job[r].gate
  BY <1>1, <1>a, SetField
<1>z. PICK next : next = [a EXCEPT !.todo = t]
  OBVIOUS
<1>21. IsJob(next) /\ next.pc = "running" /\ next.model = job[r].model /\ next.gate = job[r].gate
  BY <1>20, <1>z, SetField
<1>3. job' = [job EXCEPT ![r] = next]
  BY <1>2, <1>a, <1>z DEF PermitInv, JobInv
<1> QED
  BY <1>1, <1>3, <1>21, GoOnStep DEF Track

\* What an answered batch makes of the jobs.
Answered(r, jobs, d, n, t, p) ==
    jobs = [job EXCEPT ![r].data = d, ![r].tokens = n, ![r].todo = t, ![r].pc = p]

\* The request goes on, or ends and gives its permit back.
LEMMA AnswerStep ==
  ASSUME PermitInv, NEW r \in Requests, Holds(r), NEW d, NEW n, NEW t, NEW p, NEW jobs,
         Answered(r, jobs, d, n, t, p),
         UNCHANGED <<gate, size>>,
         \/ p = "answered" /\ GiveBack(r, jobs)
         \/ p = "running" /\ job' = jobs /\ UNCHANGED <<free, queue>>
  PROVE  PermitInv'
<1>1. IsJob(job[r])
  BY DEF PermitInv, JobInv
<1>a. PICK a : a = [job[r] EXCEPT !.data = d]
  OBVIOUS
<1>20. IsJob(a) /\ a.pc = job[r].pc /\ a.model = job[r].model /\ a.gate = job[r].gate
  BY <1>1, <1>a, SetField
<1>b. PICK b : b = [a EXCEPT !.tokens = n]
  OBVIOUS
<1>21. IsJob(b) /\ b.pc = job[r].pc /\ b.model = job[r].model /\ b.gate = job[r].gate
  BY <1>20, <1>b, SetField
<1>c. PICK c : c = [b EXCEPT !.todo = t]
  OBVIOUS
<1>22. IsJob(c) /\ c.pc = job[r].pc /\ c.model = job[r].model /\ c.gate = job[r].gate
  BY <1>21, <1>c, SetField
<1>z. PICK next : next = [c EXCEPT !.pc = p]
  OBVIOUS
<1>23. IsJob(next) /\ next.pc = p /\ next.model = job[r].model /\ next.gate = job[r].gate
  BY <1>22, <1>z, SetField
<1>2. jobs = [job EXCEPT ![r] = next]
  BY <1>a, <1>b, <1>c, <1>z DEF Answered, PermitInv, JobInv
<1>3. /\ jobs = [s \in Requests |-> jobs[s]] /\ jobs[r] = next
      /\ \A s \in Requests \ {r} : jobs[s] = job[s]
  BY <1>2 DEF PermitInv, JobInv
<1>4. CASE p = "answered" /\ GiveBack(r, jobs)
  BY <1>3, <1>4, <1>23, GiveBackStep DEF Ended
<1>5. CASE p = "running" /\ job' = jobs /\ UNCHANGED <<free, queue>>
  BY <1>2, <1>5, <1>23, GoOnStep
<1> QED
  BY <1>4, <1>5

LEMMA EmbedBatchStep ==
  ASSUME PermitInv, NEW r \in Requests, EmbedBatch(r)
  PROVE  PermitInv'
<1>1. PICK reversed \in BOOLEAN :
       LET batch  == Head(job[r].todo)
           last   == Len(job[r].todo) = 1
           tokens == job[r].tokens + Total(batch)
           jobs   == [job EXCEPT ![r].data = Merge(@, Reply(batch, reversed)),
                                 ![r].tokens = tokens, ![r].todo = Tail(@),
                                 ![r].pc = IF last THEN "answered" ELSE "running"]
       IN  IF last THEN GiveBack(r, jobs)
           ELSE job' = jobs /\ UNCHANGED <<free, queue>>
  BY DEF EmbedBatch
<1> DEFINE tokens == job[r].tokens + Total(Head(job[r].todo))
           data == Merge(job[r].data, Reply(Head(job[r].todo), reversed))
           jobs(p) == [job EXCEPT ![r].data = data, ![r].tokens = tokens,
                                  ![r].todo = Tail(job[r].todo), ![r].pc = p]
<1>2. \/ GiveBack(r, jobs("answered"))
      \/ job' = jobs("running") /\ UNCHANGED <<free, queue>>
  BY <1>1
<1>3. \A p : Answered(r, jobs(p), data, tokens, Tail(job[r].todo), p)
  BY DEF Answered
<1>4. Holds(r) /\ UNCHANGED <<gate, size>>
  BY DEF EmbedBatch, At, Holds
<1> HIDE DEF jobs, data, tokens
<1> QED
  BY <1>2, <1>3, <1>4, AnswerStep

LEMMA RerankAllStep ==
  ASSUME PermitInv, NEW r \in Requests, RerankAll(r)
  PROVE  PermitInv'
<1>0. PICK reversed \in BOOLEAN :
        LET items == Reply(job[r].input, reversed)
        IN  GiveBack(r, [job EXCEPT ![r].data = Rank(items, job[r].topN),
                                    ![r].tokens = Len(items), ![r].todo = <<>>,
                                    ![r].pc = "answered"])
  BY DEF RerankAll
<1> DEFINE items == Reply(job[r].input, reversed)
           data == Rank(items, job[r].topN)
           jobs == [job EXCEPT ![r].data = data, ![r].tokens = Len(items), ![r].todo = <<>>,
                               ![r].pc = "answered"]
<1>1. GiveBack(r, jobs)
  BY <1>0
<1>2. Answered(r, jobs, data, Len(items), <<>>, "answered")
  BY DEF Answered
<1>3. Holds(r) /\ UNCHANGED <<gate, size>>
  BY DEF RerankAll, At, Holds
<1> HIDE DEF jobs, data, items
<1> QED
  BY <1>1, <1>2, <1>3, AnswerStep

\* The model, its profile and a stuttering step touch neither gates nor requests.
LEMMA OtherStep ==
  ASSUME PermitInv, Unload \/ Refresh \/ Finished \/ UNCHANGED vars
  PROVE  PermitInv'
<1>1. UNCHANGED <<gate, size, free, queue, job>>
  BY DEF Unload, Refresh, Finished, vars
<1>2. JobInv' /\ GateInv'
  BY <1>1 DEF PermitInv, JobInv, GateInv, IsJob, At
<1>3. \A s \in Requests :
          /\ Holds(s)' <=> Holds(s)
          /\ At(s, "queued")' <=> At(s, "queued")
          /\ job'[s].gate = job[s].gate
  BY <1>1 DEF Holds, At
<1> QED
  BY <1>1, <1>2, <1>3, QuietStep

LEMMA HandlerStep ==
  ASSUME PermitInv, NEW r \in Requests, Handler(r)
  PROVE  PermitInv'
<1>1. CASE Embed(r) \/ Rerank(r) \/ Reject(r)
  BY <1>1, ArriveStep
<1>2. CASE EnsureLoaded(r) \/ LoadFails(r)
  BY <1>2, LoadStep
<1>3. CASE Admission(r)
  BY <1>3, AdmissionStep
<1>4. CASE Poll(r)
  BY <1>4, PollStep
<1>5. CASE QueueTimeout(r)
  BY <1>5, LeaveStep DEF QueueTimeout
<1>6. CASE Track(r)
  BY <1>6, TrackStep
<1>7. CASE EmbedBatch(r)
  BY <1>7, EmbedBatchStep
<1>8. CASE RerankAll(r)
  BY <1>8, RerankAllStep
<1>9. CASE CallFails(r)
  BY <1>9, LeaveStep DEF CallFails
<1>10. CASE Disconnect(r)
  BY <1>10, LeaveStep DEF Disconnect
<1> QED
  BY <1>1, <1>2, <1>3, <1>4, <1>5, <1>6, <1>7, <1>8, <1>9, <1>10 DEF Handler

(* For any number of requests, a gate's permits are neither lost nor       *)
(* duplicated, whichever way its callers leave, and nobody waits beside a  *)
(* free one, even at a gate that a new plan has replaced                   *)
(* (EmbeddingAdmission::acquire and the drop of its permit).               *)
THEOREM PermitsKeptCorrect == Spec => []PermitsKept
<1>1. Init => PermitInv
  BY InitPermits
<1>2. PermitInv /\ [Next]_vars => PermitInv'
  BY HandlerStep, OtherStep DEF Next
<1>3. PermitInv => PermitsKept
  BY DEF PermitInv
<1> QED
  BY <1>1, <1>2, <1>3, PTL DEF Spec

-----------------------------------------------------------------------------
(* Induction *)

\* A set of naturals that is not empty has a least element.
LEMMA LeastNatural ==
  ASSUME NEW S \in SUBSET Nat, S # {}
  PROVE  \E n \in S : \A m \in S : n <= m
<1>1. PICK top \in S : TRUE
  OBVIOUS
<1> DEFINE D == 0 .. top
           T == {0 .. k : k \in {k \in S : k <= top}}
<1>2. IsFiniteSet(D)
  BY <1>1, FS_Interval
<1>3. T \subseteq SUBSET D
  BY <1>1
<1>4. SUBSET D = FiniteSubsetsOf(D)
  BY <1>2, FS_FiniteSubsetsOfFinite
<1>5. 0 .. top \in T
  BY <1>1
<1> HIDE DEF T
<1>6. \E x \in T : \A y \in T : ~ (<<y, x>> \in StrictSubsetOrdering(D))
  <2>1. IsWellFoundedOn(StrictSubsetOrdering(D), SUBSET D)
    BY <1>4, FS_StrictSubsetOrderingWellFounded
  <2>2. T # {}
    BY <1>5
  <2> HIDE DEF D
  <2>3. QED BY <2>1, <2>2, <1>3, WFMin
<1>7. PICK x \in T : \A y \in T : ~ (<<y, x>> \in StrictSubsetOrdering(D))
  BY <1>6
<1>8. PICK n \in S : n <= top /\ x = 0 .. n
  BY DEF T
<1>9. ASSUME NEW m \in S PROVE n <= m
  <2>1. SUFFICES ASSUME m < n PROVE FALSE
    BY <1>8, <1>9
  <2>2. 0 .. m \in T
    BY <2>1, <1>8, <1>1 DEF T
  <2>3. 0 .. m \subseteq 0 .. n /\ n \in 0 .. n /\ n \notin 0 .. m
    BY <2>1, <1>8
  <2>4. <<0 .. m, 0 .. n>> \in StrictSubsetOrdering(D)
    BY <2>2, <2>3, <1>3, <1>8 DEF StrictSubsetOrdering
  <2>5. QED BY <2>2, <2>4, <1>7, <1>8
<1>10. QED BY <1>9

\* Induction up to N, for a property given as the set of the numbers that have it.
LEMMA Climb ==
  ASSUME NEW N \in Nat, NEW S, 0 \in S, \A k \in 1..N : k - 1 \in S => k \in S
  PROVE  \A k \in 0..N : k \in S
<1> DEFINE Bad == {k \in 0..N : k \notin S}
<1>1. SUFFICES ASSUME Bad # {} PROVE FALSE
  OBVIOUS
<1>2. PICK k \in Bad : \A j \in Bad : k <= j
  <2>1. Bad \in SUBSET Nat
    OBVIOUS
  <2> HIDE DEF Bad
  <2>2. QED BY <1>1, <2>1, LeastNatural
<1>3. k \in 1..N /\ k - 1 \in 0..N /\ k - 1 \notin Bad
  BY <1>2
<1>4. QED BY <1>2, <1>3

-----------------------------------------------------------------------------
(* Sums *)

\* The function that Total is defined by exists.
LEMMA TotalUnfolds ==
  ASSUME NEW s \in Seq(Nat)
  PROVE  \E f : /\ f[0] = 0
                /\ \A i \in 1..Len(s) : f[i] = f[i - 1] + s[i]
                /\ Total(s) = f[Len(s)]
<1> DEFINE N == Len(s)
           After(f, i) == IF i = 0 THEN 0 ELSE f[i - 1] + s[i]
           Has(k) == \E f : f = [i \in 0..k |-> After(f, i)]
<1>1. N \in Nat
  OBVIOUS
<1> HIDE DEF N
<1>2. Has(0)
  <2> DEFINE f == [i \in 0..0 |-> 0]
  <2>1. \A i \in 0..0 : After(f, i) = 0
    <3>1. \A i \in 0..0 : i = 0
      OBVIOUS
    <3> QED
      BY <3>1
  <2>2. f = [i \in 0..0 |-> After(f, i)]
    <3> HIDE DEF After
    <3> QED
      BY <2>1
  <2> QED
    BY <2>2
<1>3. ASSUME NEW k \in 1..N, Has(k - 1) PROVE Has(k)
  <2>1. PICK f : f = [i \in 0..(k - 1) |-> After(f, i)]
    BY <1>3
  <2> DEFINE g == [i \in 0..k |-> After(f, i)]
  <2>2. \A i \in 0..(k - 1) : g[i] = f[i]
    <3> HIDE DEF After
    <3>1. \A i \in 0..(k - 1) : i \in 0..k
      BY <1>1
    <3>2. \A i \in 0..(k - 1) : f[i] = After(f, i)
      BY <2>1
    <3> QED
      BY <3>1, <3>2
  <2>3. \A i \in 0..k : After(g, i) = After(f, i)
    <3> HIDE DEF g
    <3>1. \A i \in 0..k : i # 0 => i - 1 \in 0..(k - 1)
      BY <1>1
    <3>2. \A i \in 0..k : i # 0 => g[i - 1] = f[i - 1]
      BY <2>2, <3>1
    <3> QED
      BY <3>2
  <2>4. g = [i \in 0..k |-> After(g, i)]
    <3>1. g = [i \in 0..k |-> After(f, i)]
      OBVIOUS
    <3> HIDE DEF g, After
    <3> QED
      BY <2>3, <3>1
  <2> QED
    BY <2>4
<1>4. Has(N)
  <2> HIDE DEF Has
  <2> DEFINE Good == {k \in 0..N : Has(k)}
  <2>1. 0 \in Good
    BY <1>1, <1>2
  <2>2. \A k \in 1..N : k - 1 \in Good => k \in Good
    BY <1>1, <1>3
  <2>3. \A k \in 0..N : k \in Good
    <3> HIDE DEF Good
    <3> QED
      BY <1>1, <2>1, <2>2, Climb
  <2> QED
    BY <2>3, <1>1
<1> DEFINE F == CHOOSE g : g = [i \in 0..N |-> After(g, i)]
<1>5. F = [i \in 0..N |-> After(F, i)]
  <2> HIDE DEF After
  <2> QED
    BY <1>4
<1>6. Total(s) = F[N]
  BY DEF Total, N
<1> HIDE DEF F
<1>7. \A i \in 0..N : F[i] = After(F, i)
  <2> HIDE DEF After
  <2> QED
    BY <1>5
<1>8. F[0] = 0
  BY <1>1, <1>7
<1>9. \A i \in 1..N : F[i] = F[i - 1] + s[i]
  BY <1>1, <1>7
<1> QED
  BY <1>6, <1>8, <1>9 DEF N

\* The sums of the heads of a sequence.
Sums(f, s) == f[0] = 0 /\ \A i \in 1..Len(s) : f[i] = f[i - 1] + s[i]

\* There is one way to sum.
LEMMA SumsAgree ==
  ASSUME NEW s \in Seq(Nat), NEW t \in Seq(Nat), NEW n \in 0..Len(s), n <= Len(t),
         \A i \in 1..n : s[i] = t[i], NEW f, Sums(f, s), NEW g, Sums(g, t)
  PROVE  f[n] = g[n] /\ f[n] \in Nat
<1> DEFINE Good == {k \in 0..n : f[k] = g[k] /\ f[k] \in Nat}
<1>1. n \in Nat /\ Len(s) \in Nat /\ Len(t) \in Nat
  OBVIOUS
<1>2. 0 \in Good
  BY <1>1 DEF Sums
<1>3. ASSUME NEW k \in 1..n, k - 1 \in Good PROVE k \in Good
  <2>1. k \in 1..Len(s) /\ k \in 1..Len(t) /\ s[k] \in Nat /\ s[k] = t[k]
    BY <1>1
  <2>2. f[k] = f[k - 1] + s[k] /\ g[k] = g[k - 1] + t[k]
    BY <2>1 DEF Sums
  <2> QED
    BY <1>3, <2>1, <2>2
<1> HIDE DEF Good
<1>4. \A k \in 0..n : k \in Good
  BY <1>1, <1>2, <1>3, Climb
<1> QED
  BY <1>1, <1>4 DEF Good

\* Nothing sums to nothing.
LEMMA TotalEmpty == Total(<<>>) = 0
<1>1. <<>> \in Seq(Nat) /\ Len(<<>>) = 0
  OBVIOUS
<1> QED
  BY <1>1, TotalUnfolds

\* Total of a head of a sequence, by the sums of the sequence.
LEMMA TotalHead ==
  ASSUME NEW s \in Seq(Nat), NEW f, Sums(f, s), NEW n \in 0..Len(s)
  PROVE  Total(SubSeq(s, 1, n)) = f[n] /\ f[n] \in Nat
<1> DEFINE t == SubSeq(s, 1, n)
<1>1. t \in Seq(Nat) /\ Len(t) = n /\ n \in Nat /\ \A i \in 1..n : t[i] = s[i]
  OBVIOUS
<1> HIDE DEF t
<1>2. PICK g : Sums(g, t) /\ Total(t) = g[n]
  BY <1>1, TotalUnfolds DEF Sums
<1>3. f[n] = g[n] /\ f[n] \in Nat
  BY <1>1, <1>2, SumsAgree
<1> QED
  BY <1>2, <1>3 DEF t

\* What the sums of a sequence come to.
LEMMA TotalIsSum ==
  ASSUME NEW s \in Seq(Nat), NEW f, Sums(f, s)
  PROVE  Total(s) = f[Len(s)] /\ Total(s) \in Nat
<1>1. Len(s) \in 0..Len(s) /\ SubSeq(s, 1, Len(s)) = s
  OBVIOUS
<1> QED
  BY <1>1, TotalHead

\* A sum of naturals is one.
LEMMA TotalType ==
  ASSUME NEW s \in Seq(Nat)
  PROVE  Total(s) \in Nat
  BY TotalUnfolds, TotalIsSum DEF Sums

\* One more number.
LEMMA TotalAppend ==
  ASSUME NEW s \in Seq(Nat), NEW e \in Nat
  PROVE  Total(Append(s, e)) = Total(s) + e
<1> DEFINE t == Append(s, e)
           n == Len(s)
<1>1. t \in Seq(Nat) /\ Len(t) = n + 1 /\ n \in Nat /\ t[n + 1] = e /\ SubSeq(t, 1, n) = s
      /\ n \in 0..Len(t) /\ n + 1 \in 1..Len(t)
  OBVIOUS
<1> HIDE DEF t, n
<1>2. PICK f : Sums(f, t)
  BY <1>1, TotalUnfolds DEF Sums
<1>3. Total(t) = f[n + 1] /\ Total(s) = f[n]
  <2>1. Total(t) = f[Len(t)]
    BY <1>1, <1>2, TotalIsSum
  <2>2. Total(SubSeq(t, 1, n)) = f[n]
    BY <1>1, <1>2, TotalHead
  <2> QED
    BY <1>1, <2>1, <2>2
<1>4. f[n + 1] = f[n] + e
  <2>1. f[n + 1] = f[(n + 1) - 1] + t[n + 1]
    BY <1>1, <1>2 DEF Sums
  <2>2. (n + 1) - 1 = n
    BY <1>1
  <2> QED
    BY <1>1, <2>1, <2>2
<1> QED
  BY <1>3, <1>4 DEF t

\* A head grows by the batch that follows it.
LEMMA TotalGrows ==
  ASSUME NEW s \in Seq(Nat), NEW a \in 0..Len(s), NEW b \in a..Len(s)
  PROVE  Total(SubSeq(s, 1, a)) + Total(SubSeq(s, a + 1, b)) = Total(SubSeq(s, 1, b))
<1> DEFINE n == b - a
           part == SubSeq(s, a + 1, b)
<1>1. /\ part \in Seq(Nat) /\ Len(part) = n /\ \A i \in 1..n : part[i] = s[a + i]
      /\ a \in Nat /\ b \in Nat /\ n \in Nat /\ Len(s) \in Nat /\ a <= b /\ b <= Len(s)
  <2>1. a \in Nat /\ b \in Nat /\ n \in Nat /\ Len(s) \in Nat /\ a <= b /\ b <= Len(s)
    OBVIOUS
  <2>2. part \in Seq(Nat) /\ Len(part) = n
    BY <2>1
  <2>3. \A i \in 1..n : part[i] = s[a + i]
    BY <2>1
  <2> QED
    BY <2>1, <2>2, <2>3
<1>2. PICK f : Sums(f, s)
  BY TotalUnfolds DEF Sums
<1>3. PICK g : Sums(g, part)
  BY <1>1, TotalUnfolds DEF Sums
<1> HIDE DEF part
<1> DEFINE Good == {k \in 0..n : f[a] + g[k] = f[a + k]}
<1>4. f[a] \in Nat
  BY <1>2, TotalHead
<1>5. 0 \in Good
  BY <1>1, <1>3, <1>4 DEF Sums
<1>6. ASSUME NEW k \in 1..n, k - 1 \in Good PROVE k \in Good
  <2>1. a + k \in 1..Len(s) /\ k \in 1..Len(part) /\ k - 1 \in 0..Len(part) /\ (a + k) - 1 = a + (k - 1)
    BY <1>1
  <2>2. f[a + k] = f[(a + k) - 1] + s[a + k] /\ g[k] = g[k - 1] + part[k] /\ part[k] = s[a + k]
    BY <1>1, <1>2, <1>3, <2>1 DEF Sums
  <2>3. g[k - 1] \in Nat /\ s[a + k] \in Nat
    BY <1>1, <1>3, <2>1, TotalHead
  <2>4. f[a] + g[k - 1] = f[a + (k - 1)]
    BY <1>6
  <2> HIDE DEF n
  <2>5. f[a] + g[k] = f[a + k]
    BY <1>4, <2>1, <2>2, <2>3, <2>4
  <2> QED
    BY <1>6, <2>5
<1> HIDE DEF Good
<1>7. n \in Good
  <2> HIDE DEF n
  <2>1. \A k \in 0..n : k \in Good
    BY <1>1, <1>5, <1>6, Climb
  <2> QED
    BY <1>1, <2>1
<1>8. f[a] + g[n] = f[b]
  <2>1. a + n = b
    BY <1>1
  <2> QED
    BY <1>7, <2>1 DEF Good
<1>9. Total(SubSeq(s, 1, a)) = f[a] /\ Total(SubSeq(s, 1, b)) = f[b]
  BY <1>1, <1>2, TotalHead
<1>10. Total(part) = g[n]
  BY <1>1, <1>3, TotalIsSum
<1> QED
  BY <1>8, <1>9, <1>10 DEF part
-----------------------------------------------------------------------------
(* Batches *)

\* todo cuts what texts has after its a-th text and up to its b-th, in order.
Cut(todo, texts, a, b) ==
    \E ends \in [0..Len(todo) -> 0..Len(texts)] :
        /\ ends[0] = a /\ ends[Len(todo)] = b
        /\ \A k \in 1..Len(todo) :
               ends[k - 1] <= ends[k] /\ todo[k] = SubSeq(texts, ends[k - 1] + 1, ends[k])

\* No batch is estimated over limit.
Fits(todo, limit) == \A i \in DOMAIN todo : Estimate(todo[i]) <= limit

\* Before the first batch.
LEMMA CutNothing ==
  ASSUME NEW texts \in Seq(Nat)
  PROVE  Cut(<<>>, texts, 0, 0)
<1> DEFINE ends == [k \in 0..0 |-> 0]
<1>1. ends \in [0..Len(<<>>) -> 0..Len(texts)] /\ ends[0] = 0 /\ Len(<<>>) = 0
  OBVIOUS
<1>2. \A k \in 1..Len(<<>>) : FALSE
  OBVIOUS
<1> HIDE DEF ends
<1> QED
  BY <1>1, <1>2 DEF Cut

\* One more batch.
LEMMA CutAppend ==
  ASSUME NEW texts \in Seq(Nat), NEW todo \in Seq(Seq(Nat)), NEW a, NEW b \in 0..Len(texts),
         Cut(todo, texts, a, b), NEW c \in b..Len(texts),
         NEW batch, batch = SubSeq(texts, b + 1, c), NEW out, out = Append(todo, batch)
  PROVE  Cut(out, texts, a, c)
<1> DEFINE n == Len(todo)
<1>1. PICK ends \in [0..n -> 0..Len(texts)] :
        /\ ends[0] = a /\ ends[n] = b
        /\ \A k \in 1..n :
               ends[k - 1] <= ends[k] /\ todo[k] = SubSeq(texts, ends[k - 1] + 1, ends[k])
  BY DEF Cut
<1>2. /\ n \in Nat /\ Len(texts) \in Nat /\ Len(out) = n + 1 /\ out[n + 1] = batch
      /\ \A k \in 1..n : out[k] = todo[k]
  <2>1. batch \in Seq(Nat)
    OBVIOUS
  <2> QED
    BY <2>1
<1> HIDE DEF n
<1> DEFINE new == [k \in 0..(n + 1) |-> IF k = n + 1 THEN c ELSE ends[k]]
<1>3. new \in [0..(n + 1) -> 0..Len(texts)] /\ new[n + 1] = c /\ \A k \in 0..n : new[k] = ends[k]
  BY <1>1, <1>2
<1> HIDE DEF new
<1>4. new[0] = a
  BY <1>1, <1>2, <1>3
<1>5. ASSUME NEW k \in 1..(n + 1)
      PROVE  new[k - 1] <= new[k] /\ out[k] = SubSeq(texts, new[k - 1] + 1, new[k])
  <2>1. CASE k = n + 1
    <3>1. k - 1 = n /\ n \in 0..n
      BY <1>2, <2>1
    <3>2. new[k - 1] = b /\ new[k] = c
      BY <1>1, <1>3, <2>1, <3>1
    <3> QED
      BY <1>2, <2>1, <3>2
  <2>2. CASE k # n + 1
    <3>1. k \in 1..n /\ k - 1 \in 0..n /\ k \in 0..n
      BY <1>2, <2>2
    <3> QED
      BY <1>1, <1>2, <1>3, <3>1
  <2> QED
    BY <2>1, <2>2
<1>6. new \in [0..Len(out) -> 0..Len(texts)] /\ new[Len(out)] = c
  BY <1>2, <1>3
<1>7. \A k \in 1..Len(out) : new[k - 1] <= new[k] /\ out[k] = SubSeq(texts, new[k - 1] + 1, new[k])
  BY <1>2, <1>5
<1> QED
  BY <1>4, <1>6, <1>7 DEF Cut

\* A first batch, and the others.
CutsFirst(todo, texts, a, b) ==
    \E c \in 0..Len(texts) :
        /\ a \in 0..Len(texts) /\ a <= c
        /\ Head(todo) = SubSeq(texts, a + 1, c)
        /\ Cut(Tail(todo), texts, c, b)
        /\ Len(todo) = 1 => c = b

\* What is cut is cut batch by batch.
LEMMA CutTail ==
  ASSUME NEW texts \in Seq(Nat), NEW todo \in Seq(Seq(Nat)), todo # <<>>,
         NEW a, NEW b, Cut(todo, texts, a, b)
  PROVE  CutsFirst(todo, texts, a, b)
<1> DEFINE n == Len(todo)
<1>1. PICK ends \in [0..n -> 0..Len(texts)] :
        /\ ends[0] = a /\ ends[n] = b
        /\ \A k \in 1..n :
               ends[k - 1] <= ends[k] /\ todo[k] = SubSeq(texts, ends[k - 1] + 1, ends[k])
  BY DEF Cut
<1> DEFINE rest == Tail(todo)
<1>2. /\ n \in Nat \ {0} /\ Head(todo) = todo[1] /\ Len(rest) = n - 1
      /\ \A k \in 1..(n - 1) : rest[k] = todo[k + 1]
  OBVIOUS
<1> HIDE DEF n, rest
<1> DEFINE new == [k \in 0..(n - 1) |-> ends[k + 1]]
<1>3. /\ new \in [0..(n - 1) -> 0..Len(texts)] /\ new[0] = ends[1] /\ new[n - 1] = b
      /\ \A k \in 0..(n - 1) : new[k] = ends[k + 1]
  <2>1. \A k \in 0..(n - 1) : k + 1 \in 0..n
    BY <1>2
  <2>2. 0 \in 0..(n - 1) /\ n - 1 \in 0..(n - 1) /\ 0 + 1 = 1 /\ (n - 1) + 1 = n
    BY <1>2
  <2> QED
    BY <1>1, <2>1, <2>2
<1> HIDE DEF new
<1>4. ASSUME NEW k \in 1..(n - 1)
      PROVE  new[k - 1] <= new[k] /\ rest[k] = SubSeq(texts, new[k - 1] + 1, new[k])
  <2>1. k + 1 \in 1..n /\ k - 1 \in 0..(n - 1) /\ k \in 0..(n - 1) /\ (k + 1) - 1 = (k - 1) + 1
    BY <1>2
  <2>2. new[k - 1] = ends[(k + 1) - 1] /\ new[k] = ends[k + 1]
    BY <1>3, <2>1
  <2> QED
    BY <1>1, <1>2, <2>1, <2>2
<1>5. Cut(rest, texts, ends[1], b)
  BY <1>2, <1>3, <1>4 DEF Cut
<1>6. /\ ends[1] \in 0..Len(texts) /\ a \in 0..Len(texts) /\ a <= ends[1]
      /\ todo[1] = SubSeq(texts, a + 1, ends[1])
  <2>1. 1 \in 1..n /\ 0 \in 0..n /\ 1 \in 0..n /\ 1 - 1 = 0
    BY <1>2
  <2> QED
    BY <1>1, <2>1
<1>7. n = 1 => ends[1] = b
  BY <1>1
<1> QED
  BY <1>2, <1>5, <1>6, <1>7 DEF rest, n, CutsFirst

\* An estimate is a natural.
LEMMA TokensType ==
  ASSUME NEW text \in Nat
  PROVE  EstimateTokens(text) \in Nat
  BY DEF EstimateTokens

\* One more text.
LEMMA EstimateAppend ==
  ASSUME NEW s \in Seq(Nat), NEW e \in Nat
  PROVE  Estimate(s) \in Nat /\ Estimate(Append(s, e)) = Estimate(s) + EstimateTokens(e)
<1> DEFINE t == Append(s, e)
           a == [i \in DOMAIN s |-> EstimateTokens(s[i])]
           b == [i \in DOMAIN t |-> EstimateTokens(t[i])]
           n == Len(s)
<1>1. /\ n \in Nat /\ DOMAIN s = 1..n /\ DOMAIN t = 1..(n + 1)
      /\ \A i \in 1..n : s[i] \in Nat /\ t[i] = s[i]
      /\ t[n + 1] = e
  OBVIOUS
<1> HIDE DEF n, t
<1>2. \A i \in 1..n : EstimateTokens(s[i]) \in Nat /\ t[i] = s[i]
  BY <1>1, TokensType
<1>3. EstimateTokens(t[n + 1]) = EstimateTokens(e) /\ EstimateTokens(e) \in Nat
  BY <1>1, TokensType
<1>4. a \in [1..n -> Nat] /\ \A i \in 1..n : a[i] = EstimateTokens(s[i])
  <2> HIDE DEF a
  <2>1. a = [i \in 1..n |-> EstimateTokens(s[i])]
    BY <1>1 DEF a
  <2> QED
    BY <1>2, <2>1
<1>5. b = Append(a, EstimateTokens(e))
  <2> DEFINE z == EstimateTokens(e)
             c == Append(a, z)
  <2> HIDE DEF a, b, z
  <2>1. b = [i \in 1..(n + 1) |-> EstimateTokens(t[i])]
    BY <1>1 DEF b
  <2>2. \A i \in 1..(n + 1) : i \in 1..n \/ i = n + 1
    BY <1>1
  <2>3. b = [i \in 1..(n + 1) |-> IF i = n + 1 THEN z ELSE a[i]]
    <3>1. \A i \in 1..(n + 1) : EstimateTokens(t[i]) = IF i = n + 1 THEN z ELSE a[i]
      BY <1>2, <1>3, <1>4, <2>2 DEF z
    <3> QED
      BY <2>1, <3>1
  <2>4. a \in Seq(Nat) /\ Len(a) = n
    BY <1>1, <1>4
  <2>5. c = [i \in 1..(n + 1) |-> IF i = n + 1 THEN z ELSE a[i]]
    <3>1. z \in Nat
      BY <1>3 DEF z
    <3>2. c \in Seq(Nat) /\ Len(c) = n + 1 /\ c[n + 1] = z /\ \A i \in 1..n : c[i] = a[i]
      BY <1>1, <2>4, <3>1
    <3> HIDE DEF c
    <3>3. c = [i \in 1..(n + 1) |-> c[i]]
      BY <1>1, <3>2
    <3>4. \A i \in 1..(n + 1) : c[i] = IF i = n + 1 THEN z ELSE a[i]
      BY <2>2, <3>2
    <3> QED
      BY <3>3, <3>4
  <2>6. b = c
    BY <2>3, <2>5
  <2> QED
    BY <2>6 DEF z
<1>6. a \in Seq(Nat)
  <2> HIDE DEF a
  <2> QED
    BY <1>1, <1>4
<1> HIDE DEF a, b
<1>7. Total(b) = Total(a) + EstimateTokens(e) /\ Total(a) \in Nat
  BY <1>3, <1>5, <1>6, TotalAppend, TotalType
<1> QED
  BY <1>7 DEF Estimate, a, b, t

\* An empty batch costs nothing.
LEMMA EstimateEmpty == Estimate(<<>>) = 0
<1>1. [i \in DOMAIN <<>> |-> EstimateTokens(<<>>[i])] = <<>>
  OBVIOUS
<1> QED
  BY <1>1, TotalEmpty DEF Estimate

\* The function that ChunkEmbeddingInput is defined by exists.
LEMMA ChunkUnfolds ==
  ASSUME NEW texts \in Seq(Nat), NEW max
  PROVE  \E f : /\ f[0] = [out |-> <<>>, cur |-> <<>>]
                /\ \A i \in 1..Len(texts) : f[i] = Put(f[i - 1], texts[i], max)
                /\ ChunkEmbeddingInput(texts, max) =
                     IF f[Len(texts)].cur = <<>> THEN <<texts>>
                     ELSE Append(f[Len(texts)].out, f[Len(texts)].cur)
<1> DEFINE N == Len(texts)
           first == [out |-> <<>>, cur |-> <<>>]
           After(f, i) == IF i = 0 THEN first ELSE Put(f[i - 1], texts[i], max)
           Has(k) == \E f : f = [i \in 0..k |-> After(f, i)]
<1>1. N \in Nat
  OBVIOUS
<1> HIDE DEF N
<1>2. Has(0)
  <2> DEFINE f == [i \in 0..0 |-> first]
  <2>1. \A i \in 0..0 : After(f, i) = first
    <3>1. \A i \in 0..0 : i = 0
      OBVIOUS
    <3> QED
      BY <3>1
  <2>2. f = [i \in 0..0 |-> After(f, i)]
    <3> HIDE DEF After
    <3> QED
      BY <2>1
  <2> QED
    BY <2>2
<1>3. ASSUME NEW k \in 1..N, Has(k - 1) PROVE Has(k)
  <2>1. PICK f : f = [i \in 0..(k - 1) |-> After(f, i)]
    BY <1>3
  <2> DEFINE g == [i \in 0..k |-> After(f, i)]
  <2>2. \A i \in 0..(k - 1) : g[i] = f[i]
    <3> HIDE DEF After
    <3>1. \A i \in 0..(k - 1) : i \in 0..k
      BY <1>1
    <3>2. \A i \in 0..(k - 1) : f[i] = After(f, i)
      BY <2>1
    <3> QED
      BY <3>1, <3>2
  <2>3. \A i \in 0..k : After(g, i) = After(f, i)
    <3> HIDE DEF g
    <3>1. \A i \in 0..k : i # 0 => i - 1 \in 0..(k - 1)
      BY <1>1
    <3>2. \A i \in 0..k : i # 0 => g[i - 1] = f[i - 1]
      BY <2>2, <3>1
    <3> QED
      BY <3>2
  <2>4. g = [i \in 0..k |-> After(g, i)]
    <3>1. g = [i \in 0..k |-> After(f, i)]
      OBVIOUS
    <3> HIDE DEF g, After
    <3> QED
      BY <2>3, <3>1
  <2> QED
    BY <2>4
<1>4. Has(N)
  <2> HIDE DEF Has
  <2> DEFINE Good == {k \in 0..N : Has(k)}
  <2>1. 0 \in Good
    BY <1>1, <1>2
  <2>2. \A k \in 1..N : k - 1 \in Good => k \in Good
    BY <1>1, <1>3
  <2>3. \A k \in 0..N : k \in Good
    <3> HIDE DEF Good
    <3> QED
      BY <1>1, <2>1, <2>2, Climb
  <2> QED
    BY <2>3, <1>1
<1> DEFINE F == CHOOSE g : g = [i \in 0..N |-> After(g, i)]
<1>5. F = [i \in 0..N |-> After(F, i)]
  <2> HIDE DEF After
  <2> QED
    BY <1>4
<1>6. ChunkEmbeddingInput(texts, max) =
        IF F[N].cur = <<>> THEN <<texts>> ELSE Append(F[N].out, F[N].cur)
  BY DEF ChunkEmbeddingInput, N
<1> HIDE DEF F
<1>7. \A i \in 0..N : F[i] = After(F, i)
  <2> HIDE DEF After
  <2> QED
    BY <1>5
<1>8. F[0] = first
  BY <1>1, <1>7
<1>9. \A i \in 1..N : F[i] = Put(F[i - 1], texts[i], max)
  BY <1>1, <1>7
<1> QED
  BY <1>6, <1>8, <1>9 DEF N

\* The batches of the first i texts: closed ones up to the e-th, and an open one.
Batched(acc, texts, limit, i) ==
    /\ acc = [out |-> acc.out, cur |-> acc.cur]
    /\ acc.out \in Seq(Seq(Nat)) /\ Fits(acc.out, limit)
    /\ \E e \in 0..i : /\ Cut(acc.out, texts, 0, e)
                       /\ acc.cur = SubSeq(texts, e + 1, i)
                       /\ i # 0 => e < i
    /\ Estimate(acc.cur) <= limit

\* One more batch that fits.
LEMMA FitsAppend ==
  ASSUME NEW todo \in Seq(Seq(Nat)), NEW limit \in Nat, Fits(todo, limit),
         NEW batch \in Seq(Nat), Estimate(batch) <= limit, NEW out, out = Append(todo, batch)
  PROVE  Fits(out, limit) /\ out \in Seq(Seq(Nat)) /\ out # <<>>
<1>1. /\ out \in Seq(Seq(Nat)) /\ Len(out) = Len(todo) + 1 /\ Len(todo) \in Nat
      /\ out[Len(todo) + 1] = batch /\ \A i \in 1..Len(todo) : out[i] = todo[i]
      /\ DOMAIN out = 1..(Len(todo) + 1) /\ DOMAIN todo = 1..Len(todo)
  OBVIOUS
<1>2. \A i \in 1..(Len(todo) + 1) : i \in 1..Len(todo) \/ i = Len(todo) + 1
  BY <1>1
<1>3. Fits(out, limit)
  BY <1>1, <1>2 DEF Fits
<1>4. out # <<>>
  BY <1>1
<1> QED
  BY <1>1, <1>3, <1>4

\* One more text is put: the invariant of the greedy loop.
LEMMA PutBatches ==
  ASSUME NEW texts \in Seq(Nat), NEW limit \in Nat,
         \A i \in DOMAIN texts : EstimateTokens(texts[i]) <= limit,
         NEW i \in 1..Len(texts), NEW acc, Batched(acc, texts, limit, i - 1),
         NEW new, new = Put(acc, texts[i], limit)
  PROVE  Batched(new, texts, limit, i)
<1> DEFINE text == texts[i]
<1>1. /\ Len(texts) \in Nat /\ i \in Nat \ {0} /\ i - 1 \in Nat /\ i - 1 <= Len(texts) /\ i <= Len(texts)
      /\ text \in Nat /\ i \in DOMAIN texts
  OBVIOUS
<1>2. EstimateTokens(text) \in Nat /\ EstimateTokens(text) <= limit
  BY <1>1, TokensType
<1>3. PICK e \in 0..(i - 1) :
        /\ Cut(acc.out, texts, 0, e)
        /\ acc.cur = SubSeq(texts, e + 1, i - 1)
        /\ i - 1 # 0 => e < i - 1
  BY DEF Batched
<1>4. /\ acc.out \in Seq(Seq(Nat)) /\ Fits(acc.out, limit) /\ Estimate(acc.cur) <= limit
  BY DEF Batched
<1>5. e \in Nat /\ e <= i - 1 /\ e < i /\ e \in 0..i /\ e \in 0..Len(texts) /\ i - 1 \in e..Len(texts)
  BY <1>1, <1>3
<1>6. acc.cur \in Seq(Nat)
  BY <1>1, <1>3, <1>5
<1>7. Estimate(acc.cur) \in Nat /\ Estimate(Append(acc.cur, text)) = Estimate(acc.cur) + EstimateTokens(text)
  BY <1>1, <1>6, EstimateAppend
<1>8. CASE acc.cur # <<>> /\ Estimate(acc.cur) + EstimateTokens(text) > limit
  <2>1. new = [out |-> Append(acc.out, acc.cur), cur |-> <<text>>]
    BY <1>8 DEF Put
  <2>2. new.out = Append(acc.out, acc.cur) /\ new.cur = <<text>> /\ new = [out |-> new.out, cur |-> new.cur]
    BY <2>1
  <2>3. Fits(new.out, limit) /\ new.out \in Seq(Seq(Nat))
    BY <1>4, <1>6, <2>2, FitsAppend
  <2>4. Cut(new.out, texts, 0, i - 1)
    BY ONLY <1>3, <1>4, <1>5, <2>2, texts \in Seq(Nat), CutAppend
  <2>5. <<text>> = SubSeq(texts, (i - 1) + 1, i)
    <3>1. (i - 1) + 1 = i
      BY <1>1
    <3>2. SubSeq(texts, i, i) = <<text>>
      <4> DEFINE one == SubSeq(texts, i, i)
      <4>1. one \in Seq(Nat) /\ Len(one) = 1 /\ one[1] = text
        BY <1>1
      <4> HIDE DEF one
      <4>2. one = <<one[1]>>
        BY <4>1
      <4> QED
        BY <4>1, <4>2 DEF one
    <3> QED
      BY <3>1, <3>2
  <2>6. Estimate(<<text>>) = EstimateTokens(text)
    <3>1. Append(<<>>, text) = <<text>> /\ <<>> \in Seq(Nat)
      BY <1>1
    <3>2. Estimate(Append(<<>>, text)) = Estimate(<<>>) + EstimateTokens(text)
      BY <1>1, <3>1, EstimateAppend
    <3> QED
      BY <1>2, <3>1, <3>2, EstimateEmpty
  <2>7. i - 1 \in 0..i /\ i - 1 < i
    BY <1>1
  <2> QED
    BY <1>2, <2>2, <2>3, <2>4, <2>5, <2>6, <2>7 DEF Batched
<1>9. CASE ~(acc.cur # <<>> /\ Estimate(acc.cur) + EstimateTokens(text) > limit)
  <2>1. new = [out |-> acc.out, cur |-> Append(acc.cur, text)]
    BY <1>9 DEF Put
  <2>2. new.out = acc.out /\ new.cur = Append(acc.cur, text) /\ new = [out |-> new.out, cur |-> new.cur]
    BY <2>1
  <2>3. new.cur = SubSeq(texts, e + 1, i)
    <3>1. SubSeq(texts, e + 1, i) = Append(SubSeq(texts, e + 1, i - 1), texts[i])
      BY <1>1, <1>5
    <3> QED
      BY <1>3, <2>2, <3>1
  <2>4. Estimate(new.cur) <= limit
    <3>1. CASE acc.cur = <<>>
      BY <1>2, <1>7, <2>2, <3>1, EstimateEmpty
    <3>2. CASE acc.cur # <<>>
      BY <1>2, <1>7, <1>9, <2>2, <3>2
    <3> QED
      BY <3>1, <3>2
  <2> QED
    BY <1>3, <1>4, <1>5, <2>2, <2>3, <2>4 DEF Batched
<1> QED
  BY <1>8, <1>9

\* ChunkEmbeddingInput loses no text, keeps their order, and no batch is too large.
LEMMA ChunkCuts ==
  ASSUME NEW texts \in Seq(Nat), NEW limit \in Nat,
         \A i \in DOMAIN texts : EstimateTokens(texts[i]) <= limit,
         NEW todo, todo = ChunkEmbeddingInput(texts, limit)
  PROVE  /\ todo \in Seq(Seq(Nat)) /\ todo # <<>> /\ Fits(todo, limit)
         /\ Cut(todo, texts, 0, Len(texts))
<1> DEFINE N == Len(texts)
<1>1. N \in Nat /\ 0 \in 0..N /\ N \in 0..N
  OBVIOUS
<1>2. PICK f : /\ f[0] = [out |-> <<>>, cur |-> <<>>]
               /\ \A i \in 1..N : f[i] = Put(f[i - 1], texts[i], limit)
               /\ todo = IF f[N].cur = <<>> THEN <<texts>> ELSE Append(f[N].out, f[N].cur)
  BY ChunkUnfolds
<1> DEFINE Good == {i \in 0..N : Batched(f[i], texts, limit, i)}
<1>3. 0 \in Good
  <2>1. f[0].out = <<>> /\ f[0].cur = <<>> /\ f[0] = [out |-> f[0].out, cur |-> f[0].cur]
    BY <1>2
  <2>2. <<>> = SubSeq(texts, 0 + 1, 0) /\ <<>> \in Seq(Seq(Nat)) /\ 0 \in 0..0
    OBVIOUS
  <2>3. Fits(<<>>, limit)
    BY DEF Fits
  <2>4. Batched(f[0], texts, limit, 0)
    BY <2>1, <2>2, <2>3, CutNothing, EstimateEmpty DEF Batched
  <2> QED
    BY <1>1, <2>4
<1>4. \A i \in 1..N : i - 1 \in Good => i \in Good
  <2> SUFFICES ASSUME NEW i \in 1..N, i - 1 \in Good PROVE i \in Good
    OBVIOUS
  <2>1. Batched(f[i - 1], texts, limit, i - 1)
    OBVIOUS
  <2>2. f[i] = Put(f[i - 1], texts[i], limit)
    BY <1>2
  <2>3. Batched(f[i], texts, limit, i)
    BY <2>1, <2>2, PutBatches
  <2> QED
    BY <1>1, <2>3
<1> HIDE DEF Good
<1>5. N \in Good
  <2> HIDE DEF N
  <2>1. \A i \in 0..N : i \in Good
    BY <1>1, <1>3, <1>4, Climb
  <2> QED
    BY <1>1, <2>1
<1>6. Batched(f[N], texts, limit, N)
  BY <1>5 DEF Good
<1>7. PICK e \in 0..N : /\ Cut(f[N].out, texts, 0, e)
                        /\ f[N].cur = SubSeq(texts, e + 1, N)
                        /\ N # 0 => e < N
  BY <1>6 DEF Batched
<1>8. f[N].out \in Seq(Seq(Nat)) /\ Fits(f[N].out, limit) /\ Estimate(f[N].cur) <= limit
  BY <1>6 DEF Batched
<1>9. CASE f[N].cur = <<>>
  <2>1. N = 0
    <3> SUFFICES ASSUME N # 0 PROVE FALSE
      OBVIOUS
    <3>1. e \in Nat /\ e < N
      BY <1>1, <1>7
    <3>2. Len(SubSeq(texts, e + 1, N)) = N - e
      BY <1>1, <3>1
    <3> QED
      BY <1>1, <1>7, <1>9, <3>1, <3>2
  <2>2. texts = <<>> /\ texts = SubSeq(texts, 0 + 1, 0)
    BY <2>1
  <2>3. todo = Append(<<>>, texts)
    BY <1>2, <1>9
  <2>4. Fits(<<>>, limit) /\ <<>> \in Seq(Seq(Nat)) /\ Estimate(texts) <= limit
    BY <2>2, EstimateEmpty DEF Fits
  <2>5. Fits(todo, limit) /\ todo \in Seq(Seq(Nat)) /\ todo # <<>>
    BY <2>3, <2>4, FitsAppend
  <2>6. 0 \in 0..Len(texts) /\ 0 \in 0..Len(texts) /\ N = 0
    BY <1>1, <2>1
  <2>7. Cut(todo, texts, 0, 0)
    BY <2>2, <2>3, <2>4, <2>6, CutNothing, CutAppend
  <2> QED
    BY <2>5, <2>6, <2>7
<1>10. CASE f[N].cur # <<>>
  <2>1. todo = Append(f[N].out, f[N].cur)
    BY <1>2, <1>10
  <2>2. f[N].cur \in Seq(Nat) /\ e \in 0..Len(texts) /\ Len(texts) \in e..Len(texts)
    BY <1>1, <1>7
  <2>3. Fits(todo, limit) /\ todo \in Seq(Seq(Nat)) /\ todo # <<>>
    BY <1>8, <2>1, <2>2, FitsAppend
  <2>4. Cut(todo, texts, 0, Len(texts))
    BY <1>7, <1>8, <2>1, <2>2, CutAppend
  <2> QED
    BY <2>3, <2>4
<1> QED
  BY <1>9, <1>10
-----------------------------------------------------------------------------
(* Answers *)

\* The fields of an answer.
LEMMA ItemsHave ==
  ASSUME NEW data \in Seq(Item)
  PROVE  /\ DOMAIN data = 1..Len(data)
         /\ \A i \in 1..Len(data) :
                /\ data[i] = [index |-> data[i].index, of |-> data[i].of]
                /\ data[i].index \in Nat /\ data[i].of \in Nat
<1>1. \A i \in 1..Len(data) : data[i] \in Item
  OBVIOUS
<1>2. DOMAIN data = 1..Len(data)
  OBVIOUS
<1> QED
  BY <1>1, <1>2 DEF Item

\* data holds one embedding for each text, under the text's position.
Embedded(data, texts) ==
    /\ data \in Seq(Item) /\ Len(data) = Len(texts)
    /\ \A i \in 1..Len(texts) :
           /\ data[i].index + 1 \in 1..Len(texts)
           /\ data[i].of = texts[data[i].index + 1]
    /\ \A k \in 1..Len(texts) : \E i \in 1..Len(texts) : data[i].index = k - 1

\* The backend answers for every text of a batch, in either order, each under its own position.
LEMMA ReplyEmbeds ==
  ASSUME NEW batch \in Seq(Nat), NEW reversed \in BOOLEAN,
         NEW items, items = Reply(batch, reversed)
  PROVE  /\ Embedded(items, batch)
         /\ \A i, j \in 1..Len(batch) : items[i].index = items[j].index => i = j
<1> DEFINE n == Len(batch)
           straight == [i \in DOMAIN batch |-> [index |-> i - 1, of |-> batch[i]]]
<1>1. n \in Nat /\ DOMAIN batch = 1..n /\ \A i \in 1..n : batch[i] \in Nat
  OBVIOUS
<1> HIDE DEF n
<1>2. /\ straight \in [1..n -> Item]
      /\ \A i \in 1..n : straight[i].index = i - 1 /\ straight[i].of = batch[i]
  <2>1. \A i \in 1..n : [index |-> i - 1, of |-> batch[i]] \in Item
    BY <1>1 DEF Item
  <2> QED
    BY <1>1, <2>1
<1> HIDE DEF straight
<1>3. straight \in Seq(Item) /\ Len(straight) = n
  BY <1>1, <1>2
<1>4. CASE ~reversed
  <2>1. items = straight
    BY <1>4 DEF Reply, straight
  <2>2. \A i \in 1..n : i - 1 + 1 = i /\ items[i].index = i - 1 /\ items[i].of = batch[i]
    BY <1>1, <1>2, <2>1
  <2>3. \A i, j \in 1..n : i - 1 = j - 1 => i = j
    BY <1>1
  <2>4. \A i \in 1..n : items[i].index + 1 = i
    BY <2>2
  <2> QED
    BY <1>1, <1>3, <2>1, <2>2, <2>3, <2>4 DEF Embedded, n
<1>5. CASE reversed
  <2>1. items = [i \in 1..n |-> straight[(n - i) + 1]]
    <3>1. items = Reverse(straight)
      BY <1>5 DEF Reply, straight
    <3> QED
      BY <1>3, <3>1 DEF Reverse
  <2>2. \A i \in 1..n : (n - i) + 1 \in 1..n /\ ((n - i) + 1) - 1 = n - i /\ (n - ((n - i) + 1)) + 1 = i
    BY <1>1
  <2>3. \A i \in 1..n : items[i] = straight[(n - i) + 1] /\ items[i] \in Item
    BY <1>2, <2>1, <2>2
  <2>4. items \in Seq(Item) /\ Len(items) = n
    BY <1>1, <2>1, <2>3
  <2>5. \A i \in 1..n : /\ items[i].index = n - i /\ items[i].index + 1 = (n - i) + 1
                        /\ items[i].of = batch[(n - i) + 1]
    BY <1>1, <1>2, <2>2, <2>3
  <2>6. \A k \in 1..n : \E i \in 1..n : items[i].index = k - 1
    <3> TAKE k \in 1..n
    <3>1. (n - k) + 1 \in 1..n /\ n - ((n - k) + 1) = k - 1
      BY <1>1
    <3> QED
      BY <2>5, <3>1
  <2>7. \A i, j \in 1..n : n - i = n - j => i = j
    BY <1>1
  <2>8. \A i \in 1..n : items[i].index + 1 \in 1..n /\ items[i].of = batch[items[i].index + 1]
    BY <2>2, <2>5
  <2> QED
    BY <2>4, <2>5, <2>6, <2>7, <2>8 DEF Embedded, n
<1> QED
  BY <1>4, <1>5

\* A batch is merged behind those before it.
LEMMA MergeEmbeds ==
  ASSUME NEW texts \in Seq(Nat), NEW a \in 0..Len(texts), NEW c \in 0..Len(texts), a <= c,
         NEW data, Embedded(data, SubSeq(texts, 1, a)),
         NEW items, Embedded(items, SubSeq(texts, a + 1, c)),
         NEW out, out = Merge(data, items)
  PROVE  Embedded(out, SubSeq(texts, 1, c))
<1> DEFINE old == SubSeq(texts, 1, a)
           batch == SubSeq(texts, a + 1, c)
           all == SubSeq(texts, 1, c)
           n == c - a
<1>1. a \in Nat /\ c \in Nat /\ n \in Nat /\ Len(texts) \in Nat /\ a <= c /\ c <= Len(texts) /\ a + n = c
  OBVIOUS
<1>2. /\ Len(old) = a /\ \A k \in 1..a : old[k] = texts[k]
      /\ Len(all) = c /\ \A k \in 1..c : all[k] = texts[k]
  BY <1>1
<1>3. Len(batch) = n /\ \A k \in 1..n : batch[k] = texts[a + k]
  <2>1. Len(batch) = n
    BY <1>1
  <2>2. \A k \in 1..n : batch[k] = texts[a + k]
    BY <1>1
  <2> QED
    BY <2>1, <2>2
<1> HIDE DEF old, batch, all, n
<1>4. /\ data \in Seq(Item) /\ Len(data) = a
      /\ \A i \in 1..a : data[i].index + 1 \in 1..a /\ data[i].of = texts[data[i].index + 1]
      /\ \A k \in 1..a : \E i \in 1..a : data[i].index = k - 1
  BY <1>2 DEF Embedded, old
<1>5. /\ items \in Seq(Item) /\ Len(items) = n
      /\ \A i \in 1..n : items[i].index + 1 \in 1..n /\ items[i].of = texts[a + (items[i].index + 1)]
      /\ \A k \in 1..n : \E i \in 1..n : items[i].index = k - 1
  BY <1>3 DEF Embedded, batch
<1> DEFINE moved == [i \in DOMAIN items |-> [items[i] EXCEPT !.index = @ + Len(data)]]
<1>6. /\ \A i \in 1..n : /\ items[i] = [index |-> items[i].index, of |-> items[i].of]
                         /\ items[i].index \in Nat /\ items[i].of \in Nat
      /\ DOMAIN items = 1..n
  BY <1>5, ItemsHave
<1>7. \A i \in 1..n : [items[i] EXCEPT !.index = @ + Len(data)] =
                        [index |-> items[i].index + a, of |-> items[i].of]
  <2> SUFFICES ASSUME NEW i \in 1..n
               PROVE  [items[i] EXCEPT !.index = @ + Len(data)] =
                        [index |-> items[i].index + a, of |-> items[i].of]
    OBVIOUS
  <2>1. PICK x, y : items[i] = [index |-> x, of |-> y]
    BY <1>6
  <2>2. [items[i] EXCEPT !.index = @ + Len(data)] = [index |-> x + a, of |-> y]
    BY <1>4, <2>1
  <2> QED
    BY <2>1, <2>2
<1>8. \A i \in 1..n : [index |-> items[i].index + a, of |-> items[i].of] \in Item
  BY <1>1, <1>6 DEF Item
<1>9. /\ moved \in [1..n -> Item]
      /\ \A i \in 1..n : moved[i].index = items[i].index + a /\ moved[i].of = items[i].of
  <2>1. moved = [i \in 1..n |-> [index |-> items[i].index + a, of |-> items[i].of]]
    BY <1>6, <1>7
  <2> HIDE DEF moved
  <2> QED
    BY <1>8, <2>1
<1>10. out = data \o moved
  BY DEF Merge
<1> HIDE DEF moved
<1>11. moved \in Seq(Item) /\ Len(moved) = n
  BY <1>1, <1>9
<1>12. /\ out \in Seq(Item) /\ Len(out) = c
       /\ \A i \in 1..a : out[i] = data[i]
       /\ \A i \in 1..n : out[a + i] = moved[i]
  <2>1. data \in Seq(Item) /\ Len(data) = a
    BY <1>4
  <2>2. out \in Seq(Item) /\ Len(out) = a + n
    BY ONLY <1>1, <1>10, <1>11, <2>1
  <2>3. \A i \in 1..a : out[i] = data[i]
    BY ONLY <1>1, <1>10, <1>11, <2>1
  <2>4. \A i \in 1..n : out[a + i] = moved[i]
    <3> TAKE i \in 1..n
    <3>1. a + i > a /\ a + i <= a + n /\ (a + i) - a = i /\ a + i \in Nat
      BY <1>1
    <3> QED
      BY ONLY <1>1, <1>10, <1>11, <2>1, <3>1
  <2> QED
    BY <1>1, <2>2, <2>3, <2>4
<1>13. ASSUME NEW i \in 1..c
       PROVE  out[i].index + 1 \in 1..c /\ out[i].of = all[out[i].index + 1]
  <2>1. CASE i <= a
    <3>1. i \in 1..a
      BY <1>1, <2>1
    <3>2. data[i].index + 1 \in 1..a /\ data[i].of = texts[data[i].index + 1]
      BY <1>4, <3>1
    <3>3. data[i].index + 1 \in 1..c
      BY <1>1, <3>2
    <3> QED
      BY <1>2, <1>12, <3>1, <3>2, <3>3
  <2>2. CASE i > a
    <3> DEFINE j == i - a
    <3>1. j \in 1..n /\ a + j = i
      BY <1>1, <2>2
    <3> HIDE DEF j
    <3>2. out[i].index = items[j].index + a /\ out[i].of = texts[a + (items[j].index + 1)]
      BY <1>5, <1>9, <1>12, <3>1
    <3>3. items[j].index \in Nat /\ items[j].index + 1 \in 1..n
      BY <1>5, <1>6, <3>1
    <3>4. out[i].index + 1 = a + (items[j].index + 1) /\ out[i].index + 1 \in 1..c
      <4> DEFINE x == items[j].index
      <4>1. x \in Nat /\ x + 1 \in 1..n /\ out[i].index = x + a
        BY <3>2, <3>3
      <4> HIDE DEF x
      <4>2. (x + a) + 1 = a + (x + 1) /\ a + (x + 1) \in 1..c
        BY <1>1, <4>1
      <4> QED
        BY <4>1, <4>2 DEF x
    <3> QED
      BY <1>2, <3>2, <3>4
  <2> QED
    BY <1>1, <2>1, <2>2
<1>14. ASSUME NEW k \in 1..c PROVE \E i \in 1..c : out[i].index = k - 1
  <2>1. CASE k <= a
    <3>1. k \in 1..a
      BY <1>1, <2>1
    <3>2. PICK i \in 1..a : data[i].index = k - 1
      BY <1>4, <3>1
    <3>3. i \in 1..c
      BY <1>1
    <3> QED
      BY <1>12, <3>2, <3>3
  <2>2. CASE k > a
    <3> DEFINE j == k - a
    <3>1. j \in 1..n /\ a + j = k
      BY <1>1, <2>2
    <3> HIDE DEF j
    <3>2. PICK i \in 1..n : items[i].index = j - 1
      BY <1>5, <3>1
    <3>3. a + i \in 1..c /\ (j - 1) + a = k - 1
      BY <1>1, <3>1
    <3> QED
      BY <1>9, <1>12, <3>2, <3>3
  <2> QED
    BY <1>1, <2>1, <2>2
<1> QED
  BY <1>2, <1>12, <1>13, <1>14 DEF Embedded, all

\* The first document is the one with none ahead, and so on.
Ordered(items, order) ==
    /\ order \in [1..Len(items) -> 1..Len(items)]
    /\ \A n \in 1..Len(items) : Sorted(items)[n] = items[order[n]]
    /\ \A i \in 1..Len(items) : \E n \in 1..Len(items) : order[n] = i
    /\ \A m, n \in 1..Len(items) :
           m < n => order[m] # order[n] /\ items[order[m]].of >= items[order[n]].of

\* Sorted is an order of the documents.
LEMMA SortedOrders ==
  ASSUME NEW items \in Seq(Item)
  PROVE  \E order : Ordered(items, order)
<1> DEFINE N == Len(items)
           D == 1..N
           front == [i \in D |-> Ahead(items, i)]
           rank == [i \in D |-> Cardinality(front[i])]
<1>1. N \in Nat /\ DOMAIN items = D /\ \A i \in D : i \in Nat /\ items[i].of \in Nat
  <2>1. \A i \in D : items[i].of \in Nat
    BY ItemsHave
  <2>2. N \in Nat /\ DOMAIN items = D /\ \A i \in D : i \in Nat
    OBVIOUS
  <2> QED
    BY <2>1, <2>2
<1>2. \A i \in D : front[i] = {j \in D : items[j].of > items[i].of \/ (items[j].of = items[i].of /\ j < i)}
  BY <1>1 DEF Ahead
<1>3. \A i, j \in D : j \in front[i] <=> items[j].of > items[i].of \/ (items[j].of = items[i].of /\ j < i)
  BY <1>2
<1>4. IsFiniteSet(D) /\ Cardinality(D) = N
  BY <1>1, FS_Interval
<1> HIDE DEF front
<1>5. \A i \in D : front[i] \in SUBSET D /\ i \notin front[i]
  BY <1>1, <1>2
<1>6. \A i, j \in D : i # j => i \in front[j] \/ j \in front[i]
  BY <1>1, <1>3
<1>7. \A i, j \in D : i \in front[j] => front[i] \subseteq front[j]
  <2> SUFFICES ASSUME NEW i \in D, NEW j \in D, i \in front[j], NEW k \in front[i] PROVE k \in front[j]
    OBVIOUS
  <2>1. k \in D
    BY <1>5
  <2>2. /\ items[i].of > items[j].of \/ (items[i].of = items[j].of /\ i < j)
        /\ items[k].of > items[i].of \/ (items[k].of = items[i].of /\ k < i)
    BY <1>3, <2>1
  <2>3. /\ items[i].of \in Nat /\ items[j].of \in Nat /\ items[k].of \in Nat
        /\ i \in Nat /\ j \in Nat /\ k \in Nat
    BY <1>1, <2>1
  <2>4. items[k].of > items[j].of \/ (items[k].of = items[j].of /\ k < j)
    BY ONLY <2>2, <2>3
  <2> QED
    BY <1>3, <2>1, <2>4
<1>8. \A i \in D : IsFiniteSet(front[i]) /\ Cardinality(front[i]) \in Nat
  BY <1>4, <1>5, FS_Subset, FS_CardinalityType
<1>9. \A i \in D : rank[i] \in 0..(N - 1)
  <2> TAKE i \in D
  <2>1. front[i] \in SUBSET D /\ front[i] # D
    BY <1>5
  <2>2. Cardinality(front[i]) <= N /\ Cardinality(front[i]) # N
    BY <1>4, <2>1, FS_Subset
  <2> QED
    BY <1>1, <1>8, <2>2
<1>10. \A i, j \in D : i \in front[j] => rank[i] < rank[j]
  <2> SUFFICES ASSUME NEW i \in D, NEW j \in D, i \in front[j]
               PROVE  Cardinality(front[i]) < Cardinality(front[j])
    OBVIOUS
  <2>1. front[i] \in SUBSET front[j] /\ front[i] # front[j]
    BY <1>5, <1>7
  <2>2. Cardinality(front[i]) <= Cardinality(front[j]) /\ Cardinality(front[j]) # Cardinality(front[i])
    BY <1>8, <2>1, FS_Subset
  <2> QED
    BY <1>8, <2>2
<1>11. \A i \in D : rank[i] \in Int
  BY <1>9
<1>12. \A i, j \in D : rank[i] = rank[j] => i = j
  BY <1>6, <1>10, <1>11
<1>13. rank \in Injection(D, 0..(N - 1))
  BY <1>9, <1>12 DEF Injection, IsInjective
<1>14. IsFiniteSet(0..(N - 1)) /\ Cardinality(0..(N - 1)) = N
  BY <1>1, FS_Interval
<1>15. rank \in Surjection(D, 0..(N - 1))
  BY <1>4, <1>13, <1>14, FS_Injection
<1>16. \A n \in 0..(N - 1) : \E i \in D : rank[i] = n
  BY <1>15 DEF Surjection
<1>17. \A i \in D : rank[i] = Cardinality(Ahead(items, i))
  BY DEF front
<1> HIDE DEF rank
<1> DEFINE order == [n \in D |-> CHOOSE i \in D : Cardinality(Ahead(items, i)) = n - 1]
<1>18. \A n \in D : order[n] \in D /\ rank[order[n]] = n - 1
  <2> TAKE n \in D
  <2>1. \E i \in D : Cardinality(Ahead(items, i)) = n - 1
    <3>1. n - 1 \in 0..(N - 1)
      BY <1>1
    <3> QED
      BY <1>16, <1>17, <3>1
  <2> QED
    BY <1>17, <2>1
<1>19. \A n \in D : Sorted(items)[n] = items[order[n]]
  BY <1>1 DEF Sorted
<1>20. order \in [D -> D]
  BY <1>18
<1> HIDE DEF order
<1>21. \A i \in D : \E n \in D : order[n] = i
  <2> TAKE i \in D
  <2> DEFINE n == rank[i] + 1
  <2>1. n \in D /\ n - 1 = rank[i]
    BY <1>1, <1>9
  <2>2. order[n] \in D /\ rank[order[n]] = rank[i]
    BY <1>18, <2>1
  <2>3. order[n] = i
    BY <1>12, <2>2
  <2> QED
    BY <2>1, <2>3
<1>22. ASSUME NEW m \in D, NEW n \in D, m < n
       PROVE  order[m] # order[n] /\ items[order[m]].of >= items[order[n]].of
  <2>1. /\ order[m] \in D /\ order[n] \in D /\ rank[order[m]] = m - 1 /\ rank[order[n]] = n - 1
        /\ m \in Nat /\ n \in Nat
    BY <1>1, <1>18
  <2>2. order[m] # order[n] /\ ~(order[n] \in front[order[m]])
    BY <1>10, <1>22, <2>1
  <2>3. order[m] \in front[order[n]]
    BY <1>6, <2>1, <2>2
  <2>4. items[order[m]].of \in Nat /\ items[order[n]].of \in Nat
    BY <1>1, <2>1
  <2> QED
    BY <1>3, <2>1, <2>2, <2>3, <2>4
<1>23. Ordered(items, order)
  BY <1>19, <1>20, <1>21, <1>22 DEF Ordered
<1> QED
  BY <1>23

\* RankedAnswer of one request.
Ranked(d, scores, topN) ==
    /\ d \in Seq(Item)
    /\ Len(d) = IF topN = 0 THEN Len(scores) ELSE Least(topN, Len(scores))
    /\ \A i \in 1..Len(d) : d[i].index + 1 \in 1..Len(scores) /\ d[i].of = scores[d[i].index + 1]
    /\ \A i, j \in 1..Len(d) : i < j => d[i].of >= d[j].of /\ d[i].index # d[j].index
    /\ \A i \in 1..Len(d), j \in 1..Len(scores) :
           (\A k \in 1..Len(d) : d[k].index + 1 # j) => d[i].of >= scores[j]

\* What Rank keeps is ranked.
LEMMA RankRanks ==
  ASSUME NEW scores \in Seq(Nat), NEW topN \in Nat, NEW items, Embedded(items, scores),
         \A i, j \in 1..Len(scores) : items[i].index = items[j].index => i = j,
         NEW d, d = Rank(items, topN)
  PROVE  Ranked(d, scores, topN)
<1> DEFINE N == Len(scores)
           L == IF topN = 0 THEN N ELSE Least(topN, N)
<1>1. /\ items \in Seq(Item) /\ Len(items) = N /\ N \in Nat
      /\ \A i \in 1..N : items[i].index + 1 \in 1..N /\ items[i].of = scores[items[i].index + 1]
      /\ \A k \in 1..N : \E i \in 1..N : items[i].index = k - 1
      /\ \A i \in 1..N : items[i].index \in Nat /\ items[i].of \in Nat
  <2>1. /\ items \in Seq(Item) /\ Len(items) = N /\ N \in Nat
        /\ \A i \in 1..N : items[i].index + 1 \in 1..N /\ items[i].of = scores[items[i].index + 1]
        /\ \A k \in 1..N : \E i \in 1..N : items[i].index = k - 1
    <3>1. N \in Nat
      OBVIOUS
    <3> HIDE DEF N
    <3> QED
      BY <3>1 DEF Embedded, N
  <2>2. \A i \in 1..Len(items) : items[i].index \in Nat /\ items[i].of \in Nat
    BY <2>1, ItemsHave
  <2> QED
    BY <2>1, <2>2
<1>2. \A i, j \in 1..N : items[i].index = items[j].index => i = j
  OBVIOUS
<1>3. PICK order : /\ order \in [1..N -> 1..N]
                   /\ \A n \in 1..N : Sorted(items)[n] = items[order[n]]
                   /\ \A i \in 1..N : \E n \in 1..N : order[n] = i
                   /\ \A m, n \in 1..N :
                        m < n => order[m] # order[n] /\ items[order[m]].of >= items[order[n]].of
  <2>1. PICK order : Ordered(items, order)
    BY <1>1, SortedOrders
  <2> QED
    BY <1>1, <2>1 DEF Ordered
<1>4. L \in Nat /\ L <= N /\ L = IF topN = 0 THEN N ELSE Least(topN, N)
  BY <1>1 DEF Least
<1>5. Sorted(items) \in Seq(Item) /\ Len(Sorted(items)) = N
  <2>1. DOMAIN items = 1..N
    BY <1>1
  <2>2. Sorted(items) = [n \in 1..N |-> items[order[n]]]
    <3> DEFINE e(n) == items[CHOOSE i \in DOMAIN items : Cardinality(Ahead(items, i)) = n - 1]
    <3>1. Sorted(items) = [n \in 1..N |-> e(n)]
      BY <2>1 DEF Sorted
    <3> HIDE DEF e
    <3>2. \A n \in 1..N : e(n) = items[order[n]]
      BY <1>3, <3>1
    <3> QED
      BY <3>1, <3>2
  <2>3. \A n \in 1..N : items[order[n]] \in Item
    <3>1. \A i \in 1..N : items[i] \in Item
      BY <1>1
    <3> QED
      BY <1>3, <3>1
  <2> DEFINE all == Sorted(items)
  <2>4. all \in [1..N -> Item]
    BY <2>2, <2>3
  <2> HIDE DEF all, N
  <2>5. all \in Seq(Item) /\ Len(all) = N
    BY <1>1, <2>4
  <2> QED
    BY <2>5 DEF all
<1> HIDE DEF N, L
<1>6. d \in Seq(Item) /\ Len(d) = L /\ \A n \in 1..L : d[n] = items[order[n]]
  <2>1. \A n \in 1..L : n \in 1..N
    BY <1>1, <1>4
  <2>2. CASE topN = 0
    <3>1. d = Sorted(items) /\ L = N
      BY <1>4, <2>2 DEF Rank
    <3> QED
      BY <1>3, <1>5, <2>1, <3>1
  <2>3. CASE topN # 0
    <3>1. d = SubSeq(Sorted(items), 1, L)
      BY <1>1, <1>4, <2>3 DEF Rank
    <3>2. d \in Seq(Item) /\ Len(d) = L /\ \A n \in 1..L : d[n] = Sorted(items)[n]
      BY <1>1, <1>4, <1>5, <3>1
    <3> QED
      BY <1>3, <2>1, <3>2
  <2> QED
    BY <2>2, <2>3
<1>7. \A n \in 1..L : n \in 1..N /\ order[n] \in 1..N /\ n \in Nat
  <2>1. \A n \in 1..L : n \in 1..N /\ n \in Nat
    BY <1>1, <1>4
  <2> QED
    BY <1>3, <2>1
<1>8. \A i \in 1..L : d[i].index + 1 \in 1..N /\ d[i].of = scores[d[i].index + 1]
  BY <1>1, <1>6, <1>7
<1>9. ASSUME NEW i \in 1..L, NEW j \in 1..L, i < j
      PROVE  d[i].of >= d[j].of /\ d[i].index # d[j].index
  <2>1. order[i] # order[j] /\ items[order[i]].of >= items[order[j]].of
    BY <1>3, <1>7, <1>9
  <2>2. items[order[i]].index # items[order[j]].index
    BY <1>2, <1>7, <2>1
  <2> QED
    BY <1>6, <2>1, <2>2
<1>10. ASSUME NEW i \in 1..L, NEW j \in 1..N, \A k \in 1..L : d[k].index + 1 # j
       PROVE  d[i].of >= scores[j]
  <2>1. PICK p \in 1..N : items[p].index = j - 1
    BY <1>1
  <2>2. PICK q \in 1..N : order[q] = p
    BY <1>3
  <2>3. items[p].index + 1 = j /\ items[p].of = scores[j]
    BY <1>1, <2>1
  <2>4. q \notin 1..L
    BY <1>6, <1>10, <2>2, <2>3
  <2>5. i < q
    BY <1>1, <1>4, <2>4
  <2>6. items[order[i]].of >= items[order[q]].of
    BY <1>3, <1>7, <2>5
  <2> QED
    BY <1>6, <2>2, <2>3, <2>6
<1> QED
  BY <1>4, <1>6, <1>8, <1>9, <1>10 DEF Ranked, N
-----------------------------------------------------------------------------
(* What a request has got so far *)

Asked == {"loading", "loaded", "answered"} \cup Placed

Billed(j) == IF j.model = Embedder THEN Total(j.input) ELSE Len(j.input)

\* A prefix of the texts is embedded and counted, and the batches to come cut the rest.
Underway(j) ==
    /\ j.todo \in Seq(Seq(Nat)) /\ j.todo # <<>> /\ Fits(j.todo, j.limit)
    /\ \E done \in 0..Len(j.input) :
           /\ Cut(j.todo, j.input, done, Len(j.input))
           /\ Embedded(j.data, SubSeq(j.input, 1, done))
           /\ j.tokens = Total(SubSeq(j.input, 1, done))

Fine(j, billed) ==
    /\ j.pc \notin {"running", "answered"} => j.data = <<>> /\ j.tokens = 0
    /\ j.pc \in Asked => j.model \in Models /\ j.input \in Seq(Nat)
    /\ j.pc \in Asked /\ j.model = Reranker => j.topN \in Nat
    /\ j.pc \in Placed /\ j.model = Embedder =>
           /\ j.limit \in Nat
           /\ \A i \in DOMAIN j.input : EstimateTokens(j.input[i]) <= j.limit
    /\ j.pc = "running" /\ j.model = Embedder => Underway(j)
    /\ j.pc = "answered" /\ j.model = Embedder => Embedded(j.data, j.input)
    /\ j.pc = "answered" /\ j.model = Reranker => Ranked(j.data, j.input, j.topN)
    /\ billed # 0 => j.pc = "answered" /\ billed = Billed(j)

ProfileInv ==
    /\ profile = [m \in Models |-> profile[m]]
    /\ \A m \in Models : profile[m] \in Plans[m] \cup {NoProfile}

AnswerInv ==
    /\ ProfileInv
    /\ usage = [r \in Requests |-> usage[r]]
    /\ \A r \in Requests : Fine(job[r], usage[r])

\* Nothing is asked, answered or billed.
LEMMA InitAnswers == Init => AnswerInv
<1> SUFFICES ASSUME Init PROVE AnswerInv
  OBVIOUS
<1>1. ProfileInv
  BY DEF Init, ProfileInv
<1>2. ASSUME NEW r \in Requests PROVE Fine(job[r], usage[r])
  BY DEF Init, NewJob, Fine, Asked, Placed
<1>3. usage = [r \in Requests |-> usage[r]]
  BY DEF Init
<1> QED
  BY <1>1, <1>2, <1>3 DEF AnswerInv

\* What AnswerInv comes to.
LEMMA FineIsWhole ==
  ASSUME AnswerInv
  PROVE  AnswerWhole
<1>1. \A r \in Requests : Fine(job[r], usage[r])
  BY DEF AnswerInv
<1>2. EmbeddedOnce
  <2> SUFFICES ASSUME NEW r \in Requests, At(r, "answered"), job[r].model = Embedder
               PROVE  /\ Len(job[r].data) = Len(job[r].input)
                      /\ {job[r].data[i].index : i \in DOMAIN job[r].data}
                             = {i - 1 : i \in DOMAIN job[r].input}
                      /\ \A i \in DOMAIN job[r].data :
                             job[r].data[i].of = job[r].input[job[r].data[i].index + 1]
    BY DEF EmbeddedOnce
  <2> DEFINE d == job[r].data
             t == job[r].input
             n == Len(t)
  <2>1. Embedded(d, t) /\ t \in Seq(Nat)
    BY <1>1 DEF Fine, At, Asked
  <2>2. DOMAIN t = 1..n /\ n \in Nat
    BY <2>1
  <2>3. /\ d \in Seq(Item) /\ Len(d) = n
        /\ \A i \in 1..n : d[i].index + 1 \in 1..n /\ d[i].of = t[d[i].index + 1]
        /\ \A k \in 1..n : \E i \in 1..n : d[i].index = k - 1
    BY <2>1 DEF Embedded
  <2>4. DOMAIN d = 1..n /\ \A i \in 1..n : d[i].index \in Nat
    BY <2>3, ItemsHave
  <2> HIDE DEF d, t, n
  <2>5. ASSUME NEW i \in 1..n PROVE d[i].index \in {k - 1 : k \in 1..n}
    <3>1. d[i].index = (d[i].index + 1) - 1 /\ d[i].index + 1 \in 1..n
      BY <2>3, <2>4
    <3> QED
      BY <3>1
  <2>6. ASSUME NEW k \in 1..n PROVE k - 1 \in {d[i].index : i \in 1..n}
    BY <2>3
  <2>7. {d[i].index : i \in 1..n} = {k - 1 : k \in 1..n}
    BY <2>5, <2>6
  <2> QED
    BY <2>2, <2>3, <2>4, <2>7 DEF d, t, n
<1>3. BatchFits
  BY <1>1 DEF BatchFits, At, Fine, Underway, Fits
<1>4. UsageWhole
  BY <1>1 DEF UsageWhole, At, Fine, Billed
<1>5. RankedAnswer
  <2> SUFFICES ASSUME NEW r \in Requests, At(r, "answered"), job[r].model = Reranker
               PROVE  LET d == job[r].data
                          in == {d[i].index + 1 : i \in DOMAIN d}
                          n == Len(job[r].input)
                      IN  /\ Len(d) = IF job[r].topN = 0 THEN n ELSE Least(job[r].topN, n)
                          /\ \A i \in DOMAIN d : d[i].of = job[r].input[d[i].index + 1]
                          /\ \A i, j \in DOMAIN d : i < j => d[i].of >= d[j].of /\ d[i].index # d[j].index
                          /\ \A i \in in, j \in 1..n \ in : job[r].input[i] >= job[r].input[j]
    BY DEF RankedAnswer
  <2> DEFINE d == job[r].data
             s == job[r].input
             top == job[r].topN
             n == Len(s)
             in == {d[i].index + 1 : i \in DOMAIN d}
  <2>1. Ranked(d, s, top)
    BY <1>1 DEF Fine, At
  <2> HIDE DEF d, s, top, n
  <2>2. d \in Seq(Item) /\ DOMAIN d = 1..Len(d)
    BY <2>1 DEF Ranked
  <2>3. /\ Len(d) = IF top = 0 THEN n ELSE Least(top, n)
        /\ \A i \in 1..Len(d) : d[i].index + 1 \in 1..n /\ d[i].of = s[d[i].index + 1]
        /\ \A i, j \in 1..Len(d) : i < j => d[i].of >= d[j].of /\ d[i].index # d[j].index
        /\ \A i \in 1..Len(d), j \in 1..n :
               (\A k \in 1..Len(d) : d[k].index + 1 # j) => d[i].of >= s[j]
    BY <2>1 DEF Ranked, n
  <2>4. ASSUME NEW i \in in, NEW j \in 1..n \ in PROVE s[i] >= s[j]
    <3>1. PICK p \in 1..Len(d) : i = d[p].index + 1
      BY <2>2
    <3>2. \A k \in 1..Len(d) : d[k].index + 1 # j
      BY <2>2
    <3> QED
      BY <2>3, <3>1, <3>2
  <2> QED
    BY <2>2, <2>3, <2>4 DEF d, s, top, n
<1> QED
  BY <1>2, <1>3, <1>4, <1>5 DEF AnswerWhole

-----------------------------------------------------------------------------
(* Who else moves *)

\* A request stays as it is, or is handed a permit.
Stays(s) ==
    \/ job'[s] = job[s]
    \/ job[s].pc = "queued" /\ job'[s] = [job[s] EXCEPT !.pc = "admitted"]

\* Who moves when a permit is given back.
LEMMA GiveBackMoves ==
  ASSUME PermitInv, NEW r \in Requests, Holds(r), NEW jobs,
         jobs = [s \in Requests |-> jobs[s]], \A s \in Requests \ {r} : jobs[s] = job[s],
         GiveBack(r, jobs)
  PROVE  job'[r] = jobs[r] /\ \A s \in Requests \ {r} : Stays(s)
<1>1. PICK g \in Requests : g = job[r].gate
  BY DEF PermitInv, JobInv, Placed, Holds
<1>2. CASE queue[g] = <<>>
  BY <1>1, <1>2 DEF GiveBack, Stays
<1>3. CASE queue[g] # <<>>
  <2> DEFINE h == Head(queue[g])
  <2>1. job' = [jobs EXCEPT ![h].pc = "admitted"]
    BY <1>1, <1>3 DEF GiveBack
  <2>2. h \in Requests /\ h \in InLine(g)
    <3>1. KeptAt(g) /\ queue[g] \in Seq(Requests) /\ Distinct(queue[g])
      BY KeptDef DEF PermitInv, QueueInv
    <3>2. h \in ToSet(queue[g]) /\ h \in Requests
      BY <1>3, <3>1, RemoveHead
    <3> QED
      BY <3>1, <3>2 DEF KeptAt
  <2> HIDE DEF h
  <2>3. h # r /\ jobs[h] = job[h] /\ job[h].pc = "queued"
    BY <2>2 DEF InLine, Holds, At
  <2>4. /\ job'[h] = [job[h] EXCEPT !.pc = "admitted"] /\ job'[r] = jobs[r]
        /\ \A s \in Requests \ {r, h} : job'[s] = job[s]
    BY <2>1, <2>2, <2>3
  <2> QED
    BY <2>3, <2>4 DEF Stays
<1> QED
  BY <1>2, <1>3

\* Who moves when a request leaves.
LEMMA LeaveMoves ==
  ASSUME PermitInv, NEW r \in Requests, Leave(r)
  PROVE  /\ job'[r] = [NewJob EXCEPT !.pc = "over"] /\ \A s \in Requests \ {r} : Stays(s)
<1> DEFINE over == [NewJob EXCEPT !.pc = "over"]
           jobs == [job EXCEPT ![r] = over]
<1> HIDE DEF over
<1>1. /\ jobs = [s \in Requests |-> jobs[s]] /\ jobs[r] = over
      /\ \A s \in Requests \ {r} : jobs[s] = job[s]
  BY DEF PermitInv, JobInv
<1>2. CASE Holds(r)
  <2>1. GiveBack(r, jobs)
    BY <1>2 DEF Leave, over
  <2> HIDE DEF jobs
  <2>2. job'[r] = over /\ \A s \in Requests \ {r} : Stays(s)
    BY <1>1, <1>2, <2>1, GiveBackMoves
  <2> QED
    BY <2>2 DEF over
<1>3. CASE ~Holds(r)
  <2>1. job' = jobs
    BY <1>3 DEF Leave, over
  <2> QED
    BY <1>1, <2>1 DEF Stays, over
<1> QED
  BY <1>2, <1>3

\* To be handed a permit changes nothing a request has got.
LEMMA FineStays ==
  ASSUME NEW s \in Requests, IsJob(job[s]), Fine(job[s], usage[s]), Stays(s), usage'[s] = usage[s]
  PROVE  Fine(job'[s], usage'[s])
<1>1. CASE job'[s] = job[s]
  BY <1>1
<1>2. CASE job[s].pc = "queued" /\ job'[s] = [job[s] EXCEPT !.pc = "admitted"]
  <2> DEFINE j == job[s]
             k == job'[s]
  <2>1. /\ k.pc = "admitted" /\ k.model = j.model /\ k.input = j.input /\ k.topN = j.topN
        /\ k.limit = j.limit /\ k.data = j.data /\ k.tokens = j.tokens
    BY <1>2 DEF IsJob
  <2>2. Fine(j, usage[s]) /\ j.pc = "queued"
    BY <1>2
  <2> HIDE DEF j, k
  <2>3. Fine(k, usage[s])
    BY <2>1, <2>2 DEF Fine, Asked, Placed
  <2> QED
    BY <2>3 DEF k
<1> QED
  BY <1>1, <1>2 DEF Stays

\* A step in which r moves.
LEMMA AnswersMove ==
  ASSUME PermitInv, AnswerInv, NEW r \in Requests, ProfileInv', Fine(job'[r], usage'[r]),
         \A s \in Requests \ {r} : Stays(s) /\ usage'[s] = usage[s],
         usage' = [s \in Requests |-> usage'[s]]
  PROVE  AnswerInv'
<1>1. ASSUME NEW s \in Requests PROVE Fine(job'[s], usage'[s])
  <2>1. IsJob(job[s]) /\ Fine(job[s], usage[s])
    BY DEF PermitInv, JobInv, AnswerInv
  <2> QED
    BY <2>1, FineStays
<1> QED
  BY <1>1 DEF AnswerInv

\* A request that leaves has nothing and is billed nothing.
LEMMA LeaveAnswers ==
  ASSUME PermitInv, AnswerInv, NEW r \in Requests, job[r].pc # "answered", Leave(r),
         ProfileInv', usage' = usage
  PROVE  AnswerInv'
<1> DEFINE over == [NewJob EXCEPT !.pc = "over"]
<1>1. job'[r] = over /\ \A s \in Requests \ {r} : Stays(s)
  BY LeaveMoves
<1>2. usage[r] = 0
  BY DEF AnswerInv, Fine
<1>3. over.pc = "over" /\ over.data = <<>> /\ over.tokens = 0
  BY DEF NewJob
<1> HIDE DEF over
<1>4. Fine(over, usage[r])
  BY <1>2, <1>3 DEF Fine, Asked, Placed
<1>5. Fine(job'[r], usage'[r])
  BY <1>1, <1>4
<1> QED
  BY <1>1, <1>5, AnswersMove DEF AnswerInv
-----------------------------------------------------------------------------
(* The steps *)

\* The profiles stay those that a load may leave, or none.
LEMMA ProfilesKept ==
  ASSUME ProfileInv, NEW r \in Requests, JobInv,
         EnsureLoaded(r) \/ Refresh \/ UNCHANGED profile
  PROVE  ProfileInv'
<1>1. CASE UNCHANGED profile
  BY <1>1 DEF ProfileInv
<1>2. CASE Refresh
  BY <1>2 DEF ProfileInv, Refresh
<1>3. CASE EnsureLoaded(r) /\ ~UNCHANGED profile
  <2>1. job[r].model \in Models
    BY <1>3 DEF EnsureLoaded, JobInv
  <2>2. PICK p \in Plans[job[r].model] : profile' = [profile EXCEPT ![job[r].model] = p]
    BY <1>3 DEF EnsureLoaded
  <2> QED
    BY <2>1, <2>2 DEF ProfileInv
<1> QED
  BY <1>1, <1>2, <1>3

\* A new request.
LEMMA ArriveAnswers ==
  ASSUME PermitInv, AnswerInv, NEW r \in Requests, Embed(r) \/ Rerank(r) \/ Reject(r)
  PROVE  AnswerInv'
<1>1. /\ ProfileInv' /\ job[r].pc = "new" /\ usage' = usage
      /\ IsJob(job[r]) /\ Fine(job[r], usage[r]) /\ job = [s \in Requests |-> job[s]]
  BY ProfilesKept DEF AnswerInv, PermitInv, JobInv, Embed, Rerank, Reject, At
<1>2. usage[r] = 0 /\ job[r].data = <<>> /\ job[r].tokens = 0
  BY <1>1 DEF Fine
<1>3. ASSUME Leave(r) PROVE AnswerInv'
  BY <1>1, <1>3, LeaveAnswers
<1>4. CASE Embed(r)
  <2>1. PICK texts \in Inputs :
            job' = [job EXCEPT ![r].pc = "loading", ![r].model = Embedder, ![r].input = texts]
    BY <1>4 DEF Embed
  <2>2. PICK a : a = [job[r] EXCEPT !.pc = "loading"]
    OBVIOUS
  <2>3. PICK b : b = [a EXCEPT !.model = Embedder]
    OBVIOUS
  <2>4. PICK next : next = [b EXCEPT !.input = texts]
    OBVIOUS
  <2>5. next = [job[r] EXCEPT !.pc = "loading", !.model = Embedder, !.input = texts]
    BY <2>2, <2>3, <2>4
  <2>6. job' = [job EXCEPT ![r] = next]
    BY <1>1, <2>1, <2>5
  <2>7. /\ next.pc = "loading" /\ next.model = Embedder /\ next.input = texts
        /\ next.topN = job[r].topN /\ next.data = job[r].data /\ next.tokens = job[r].tokens
    BY <1>1, <2>2, <2>3, <2>4 DEF IsJob
  <2>8. texts \in Seq(Nat) /\ Embedder \in Models /\ Embedder # Reranker
    BY EmbeddingsAssumption DEF Models
  <2>9. Fine(next, usage[r])
    BY <1>2, <2>7, <2>8 DEF Fine, Asked, Placed
  <2>10. job'[r] = next /\ \A s \in Requests \ {r} : Stays(s)
    BY <1>1, <2>6 DEF Stays
  <2> QED
    BY <1>1, <2>9, <2>10, AnswersMove DEF AnswerInv
<1>5. CASE Rerank(r) /\ ~Leave(r)
  <2>1. PICK q \in Rankings :
            job' = [job EXCEPT ![r].pc = "loading", ![r].model = Reranker,
                               ![r].input = q.scores, ![r].topN = q.topN]
    BY <1>5 DEF Rerank
  <2>2. PICK a : a = [job[r] EXCEPT !.pc = "loading"]
    OBVIOUS
  <2>3. PICK b : b = [a EXCEPT !.model = Reranker]
    OBVIOUS
  <2>4. PICK c : c = [b EXCEPT !.input = q.scores]
    OBVIOUS
  <2>5. PICK next : next = [c EXCEPT !.topN = q.topN]
    OBVIOUS
  <2>6. next = [job[r] EXCEPT !.pc = "loading", !.model = Reranker, !.input = q.scores, !.topN = q.topN]
    BY <2>2, <2>3, <2>4, <2>5
  <2>7. job' = [job EXCEPT ![r] = next]
    BY <1>1, <2>1, <2>6
  <2>8. /\ next.pc = "loading" /\ next.model = Reranker /\ next.input = q.scores
        /\ next.topN = q.topN /\ next.data = job[r].data /\ next.tokens = job[r].tokens
    BY <1>1, <2>2, <2>3, <2>4, <2>5 DEF IsJob
  <2>9. q.scores \in Seq(Nat) /\ q.topN \in Nat /\ Reranker \in Models
    BY EmbeddingsAssumption DEF Models
  <2>10. Fine(next, usage[r])
    BY <1>2, <2>8, <2>9 DEF Fine, Asked, Placed
  <2>11. job'[r] = next /\ \A s \in Requests \ {r} : Stays(s)
    BY <1>1, <2>7 DEF Stays
  <2> QED
    BY <1>1, <2>10, <2>11, AnswersMove DEF AnswerInv
<1> QED
  BY <1>3, <1>4, <1>5 DEF Reject

\* A load that succeeds or fails.
LEMMA LoadAnswers ==
  ASSUME PermitInv, AnswerInv, NEW r \in Requests, EnsureLoaded(r) \/ LoadFails(r)
  PROVE  AnswerInv'
<1>1. /\ ProfileInv' /\ job[r].pc = "loading" /\ usage' = usage
      /\ IsJob(job[r]) /\ Fine(job[r], usage[r]) /\ job = [s \in Requests |-> job[s]]
  BY ProfilesKept DEF AnswerInv, PermitInv, JobInv, EnsureLoaded, LoadFails, At
<1>2. CASE LoadFails(r)
  BY <1>1, <1>2, LeaveAnswers DEF LoadFails
<1>3. CASE EnsureLoaded(r)
  <2>1. PICK next : next = [job[r] EXCEPT !.pc = "loaded"]
    OBVIOUS
  <2>2. job' = [job EXCEPT ![r] = next]
    BY <1>1, <1>3, <2>1 DEF EnsureLoaded
  <2>3. /\ next.pc = "loaded" /\ next.model = job[r].model /\ next.input = job[r].input
        /\ next.topN = job[r].topN /\ next.data = job[r].data /\ next.tokens = job[r].tokens
    BY <1>1, <2>1 DEF IsJob
  <2>4. Fine(next, usage[r])
    BY <1>1, <2>3 DEF Fine, Asked, Placed
  <2>5. job'[r] = next /\ \A s \in Requests \ {r} : Stays(s)
    BY <1>1, <2>2 DEF Stays
  <2> QED
    BY <1>1, <2>4, <2>5, AnswersMove DEF AnswerInv
<1> QED
  BY <1>2, <1>3

\* The micro-batch is never larger than the batch.
LEMMA LimitsType ==
  ASSUME ProfileInv, NEW m \in Models, NEW lim, lim = EffectiveBatchLimits(profile[m])
  PROVE  lim.batch \in Nat /\ lim.ubatch \in Nat /\ lim.ubatch <= lim.batch
<1>1. profile[m].batch \in Nat /\ profile[m].ubatch \in Nat
  <2>1. profile[m] = NoProfile \/ profile[m] \in Plans[m] \ {NoProfile}
    BY DEF ProfileInv
  <2> QED
    BY <2>1, EmbeddingsAssumption DEF NoProfile
<1>2. Pins.batch \in Nat /\ Pins.ubatch \in Nat /\ Floor \in Nat
  BY EmbeddingsAssumption
<1> QED
  BY <1>1, <1>2 DEF EffectiveBatchLimits, OrElse, Least

\* The gate's critical section: the limits are read, and what cannot fit is refused.
LEMMA AdmissionAnswers ==
  ASSUME PermitInv, AnswerInv, NEW r \in Requests, Admission(r)
  PROVE  AnswerInv'
<1> DEFINE m == job[r].model
           lim == EffectiveBatchLimits(profile[m])
           bad == m = Embedder /\ Oversized(job[r].input, lim.ubatch)
<1>1. /\ ProfileInv' /\ job[r].pc = "loaded" /\ usage' = usage /\ ProfileInv
      /\ IsJob(job[r]) /\ Fine(job[r], usage[r]) /\ job = [s \in Requests |-> job[s]]
  BY ProfilesKept DEF AnswerInv, PermitInv, JobInv, Admission, At
<1>2. m \in Models /\ job[r].input \in Seq(Nat) /\ (m = Reranker => job[r].topN \in Nat)
  BY <1>1 DEF Fine, Asked
<1>3. CASE bad
  BY <1>1, <1>3, LeaveAnswers DEF Admission
<1>4. CASE ~bad
  <2>1. PICK g : job' = [job EXCEPT ![r].pc = "cloned", ![r].gate = g, ![r].limit = lim.batch]
    BY <1>4 DEF Admission
  <2>2. lim.batch \in Nat /\ lim.ubatch \in Nat /\ lim.ubatch <= lim.batch
    BY <1>1, <1>2, LimitsType
  <2>3. m = Embedder => \A i \in DOMAIN job[r].input : EstimateTokens(job[r].input[i]) <= lim.batch
    <3> SUFFICES ASSUME m = Embedder, NEW i \in DOMAIN job[r].input
                 PROVE  EstimateTokens(job[r].input[i]) <= lim.batch
      OBVIOUS
    <3> DEFINE est == EstimateTokens(job[r].input[i])
    <3>1. ~(est > lim.ubatch)
      BY <1>4 DEF Oversized
    <3>2. est \in Nat
      <4>1. job[r].input[i] \in Nat
        BY <1>2
      <4> QED
        BY <4>1, TokensType
    <3> HIDE DEF est, lim
    <3>3. est <= lim.batch
      BY <2>2, <3>1, <3>2
    <3> QED
      BY <3>3 DEF est
  <2> HIDE DEF lim, bad
  <2>4. PICK a : a = [job[r] EXCEPT !.pc = "cloned"]
    OBVIOUS
  <2>5. PICK b : b = [a EXCEPT !.gate = g]
    OBVIOUS
  <2>6. PICK next : next = [b EXCEPT !.limit = lim.batch]
    OBVIOUS
  <2>7. next = [job[r] EXCEPT !.pc = "cloned", !.gate = g, !.limit = lim.batch]
    BY <2>4, <2>5, <2>6
  <2>8. job' = [job EXCEPT ![r] = next]
    BY <1>1, <2>1, <2>7
  <2>9. /\ next.pc = "cloned" /\ next.model = job[r].model /\ next.input = job[r].input
        /\ next.topN = job[r].topN /\ next.limit = lim.batch
        /\ next.data = job[r].data /\ next.tokens = job[r].tokens
    BY <1>1, <2>4, <2>5, <2>6 DEF IsJob
  <2>10. usage[r] = 0 /\ job[r].data = <<>> /\ job[r].tokens = 0
    BY <1>1 DEF Fine
  <2>11. Fine(next, usage[r])
    BY <1>2, <2>2, <2>3, <2>9, <2>10 DEF Fine, Asked, Placed
  <2>12. job'[r] = next /\ \A s \in Requests \ {r} : Stays(s)
    BY <1>1, <2>8 DEF Stays
  <2> QED
    BY <1>1, <2>11, <2>12, AnswersMove DEF AnswerInv
<1> QED
  BY <1>3, <1>4

\* The semaphore.
LEMMA PollAnswers ==
  ASSUME PermitInv, AnswerInv, NEW r \in Requests, Poll(r)
  PROVE  AnswerInv'
<1>1. /\ ProfileInv' /\ job[r].pc = "cloned" /\ usage' = usage
      /\ IsJob(job[r]) /\ Fine(job[r], usage[r]) /\ job = [s \in Requests |-> job[s]]
  BY ProfilesKept DEF AnswerInv, PermitInv, JobInv, Poll, At
<1>2. PICK p \in {"admitted", "queued"} : job' = [job EXCEPT ![r].pc = p]
  BY DEF Poll
<1>3. PICK next : next = [job[r] EXCEPT !.pc = p]
  OBVIOUS
<1>4. job' = [job EXCEPT ![r] = next]
  BY <1>1, <1>2, <1>3
<1>5. /\ next.pc = p /\ next.model = job[r].model /\ next.input = job[r].input
      /\ next.topN = job[r].topN /\ next.limit = job[r].limit
      /\ next.data = job[r].data /\ next.tokens = job[r].tokens
  BY <1>1, <1>3 DEF IsJob
<1>6. p # "running" /\ p # "answered" /\ p \in Placed /\ p \in Asked
  BY DEF Placed, Asked
<1>7. "cloned" \in Placed /\ "cloned" \in Asked
  BY DEF Placed, Asked
<1>8. Fine(next, usage[r])
  BY <1>1, <1>5, <1>6, <1>7 DEF Fine
<1>9. job'[r] = next /\ \A s \in Requests \ {r} : Stays(s)
  BY <1>1, <1>4 DEF Stays
<1> QED
  BY <1>1, <1>8, <1>9, AnswersMove DEF AnswerInv

\* The batches are cut.
LEMMA TrackAnswers ==
  ASSUME PermitInv, AnswerInv, NEW r \in Requests, Track(r)
  PROVE  AnswerInv'
<1>1. /\ ProfileInv' /\ job[r].pc = "admitted" /\ usage' = usage
      /\ IsJob(job[r]) /\ Fine(job[r], usage[r]) /\ job = [s \in Requests |-> job[s]]
  BY ProfilesKept DEF AnswerInv, PermitInv, JobInv, Track, At
<1> DEFINE t == IF job[r].model = Embedder THEN ChunkEmbeddingInput(job[r].input, job[r].limit)
                ELSE <<job[r].input>>
<1>2. job' = [job EXCEPT ![r].pc = "running", ![r].todo = t]
  BY DEF Track
<1>3. /\ job[r].model \in Models /\ job[r].input \in Seq(Nat) /\ usage[r] = 0
      /\ job[r].model = Reranker => job[r].topN \in Nat
      /\ job[r].data = <<>> /\ job[r].tokens = 0
      /\ job[r].model = Embedder =>
           /\ job[r].limit \in Nat
           /\ \A i \in DOMAIN job[r].input : EstimateTokens(job[r].input[i]) <= job[r].limit
  BY <1>1 DEF Fine, Asked, Placed
<1>4. job[r].model = Embedder => /\ t \in Seq(Seq(Nat)) /\ t # <<>> /\ Fits(t, job[r].limit)
                                /\ Cut(t, job[r].input, 0, Len(job[r].input))
  BY <1>3, ChunkCuts
<1> HIDE DEF t
<1>5. PICK a : a = [job[r] EXCEPT !.pc = "running"]
  OBVIOUS
<1>6. PICK next : next = [a EXCEPT !.todo = t]
  OBVIOUS
<1>7. next = [job[r] EXCEPT !.pc = "running", !.todo = t]
  BY <1>5, <1>6
<1>8. job' = [job EXCEPT ![r] = next]
  BY <1>1, <1>2, <1>7
<1>9. /\ next.pc = "running" /\ next.model = job[r].model /\ next.input = job[r].input
      /\ next.topN = job[r].topN /\ next.limit = job[r].limit /\ next.todo = t
      /\ next.data = job[r].data /\ next.tokens = job[r].tokens
  BY <1>1, <1>5, <1>6 DEF IsJob
<1>10. ASSUME job[r].model = Embedder PROVE Underway(next)
  <2>1. SubSeq(job[r].input, 1, 0) = <<>> /\ 0 \in 0..Len(job[r].input)
    BY <1>3
  <2>2. Embedded(<<>>, <<>>)
    BY DEF Embedded
  <2> QED
    BY <1>3, <1>4, <1>9, <1>10, <2>1, <2>2, TotalEmpty DEF Underway
<1>11. Fine(next, usage[r])
  BY <1>3, <1>9, <1>10 DEF Fine, Asked, Placed
<1>12. job'[r] = next /\ \A s \in Requests \ {r} : Stays(s)
  BY <1>1, <1>8 DEF Stays
<1> QED
  BY <1>1, <1>11, <1>12, AnswersMove DEF AnswerInv

\* What an answered batch makes of the request it answers.
LEMMA AnsweredJob ==
  ASSUME JobInv, NEW r \in Requests, NEW d, NEW n, NEW t, NEW p, NEW jobs,
         Answered(r, jobs, d, n, t, p)
  PROVE  /\ jobs = [s \in Requests |-> jobs[s]] /\ \A s \in Requests \ {r} : jobs[s] = job[s]
         /\ jobs[r].pc = p /\ jobs[r].data = d /\ jobs[r].tokens = n /\ jobs[r].todo = t
         /\ jobs[r].model = job[r].model /\ jobs[r].input = job[r].input
         /\ jobs[r].topN = job[r].topN /\ jobs[r].limit = job[r].limit
<1>1. IsJob(job[r]) /\ job = [s \in Requests |-> job[s]]
  BY DEF JobInv
<1>2. PICK a : a = [job[r] EXCEPT !.data = d]
  OBVIOUS
<1>3. PICK b : b = [a EXCEPT !.tokens = n]
  OBVIOUS
<1>4. PICK c : c = [b EXCEPT !.todo = t]
  OBVIOUS
<1>5. PICK next : next = [c EXCEPT !.pc = p]
  OBVIOUS
<1>6. jobs = [job EXCEPT ![r] = next]
  BY <1>1, <1>2, <1>3, <1>4, <1>5 DEF Answered
<1>7. /\ next.pc = p /\ next.data = d /\ next.tokens = n /\ next.todo = t
      /\ next.model = job[r].model /\ next.input = job[r].input
      /\ next.topN = job[r].topN /\ next.limit = job[r].limit
  BY <1>1, <1>2, <1>3, <1>4, <1>5 DEF IsJob
<1> QED
  BY <1>1, <1>6, <1>7

\* An embedded batch: the prefix that is embedded and counted grows by it.
LEMMA BatchAnswers ==
  ASSUME PermitInv, AnswerInv, NEW r \in Requests, EmbedBatch(r)
  PROVE  AnswerInv'
<1>1. /\ ProfileInv' /\ job[r].pc = "running" /\ job[r].model = Embedder /\ Holds(r)
      /\ IsJob(job[r]) /\ Fine(job[r], usage[r]) /\ JobInv /\ usage = [s \in Requests |-> usage[s]]
  BY ProfilesKept DEF AnswerInv, PermitInv, JobInv, EmbedBatch, At, Holds
<1>2. /\ Underway(job[r]) /\ job[r].input \in Seq(Nat) /\ usage[r] = 0
      /\ job[r].limit \in Nat
      /\ \A i \in DOMAIN job[r].input : EstimateTokens(job[r].input[i]) <= job[r].limit
  BY <1>1 DEF Fine, Asked, Placed
<1> DEFINE j == job[r]
           texts == job[r].input
           todo == job[r].todo
           batch == Head(todo)
           tokens == job[r].tokens + Total(batch)
<1>3. PICK reversed \in BOOLEAN :
       LET last   == Len(job[r].todo) = 1
           jobs   == [job EXCEPT ![r].data = Merge(@, Reply(batch, reversed)),
                                 ![r].tokens = tokens, ![r].todo = Tail(@),
                                 ![r].pc = IF last THEN "answered" ELSE "running"]
       IN  /\ Spent(r, tokens, last)
           /\ IF last THEN GiveBack(r, jobs)
              ELSE job' = jobs /\ UNCHANGED <<free, queue>>
  BY DEF EmbedBatch
<1> DEFINE items == Reply(batch, reversed)
           data == Merge(job[r].data, items)
           p == IF Len(todo) = 1 THEN "answered" ELSE "running"
           jobs == [job EXCEPT ![r].data = data, ![r].tokens = tokens,
                               ![r].todo = Tail(todo), ![r].pc = p]
<1>4. /\ Spent(r, tokens, Len(todo) = 1)
      /\ IF Len(todo) = 1 THEN GiveBack(r, jobs) ELSE job' = jobs /\ UNCHANGED <<free, queue>>
  BY <1>3
<1>5. Answered(r, jobs, data, tokens, Tail(todo), p)
  BY DEF Answered
<1> HIDE DEF jobs, data, tokens, items, batch, p
<1>6. /\ jobs = [s \in Requests |-> jobs[s]] /\ \A s \in Requests \ {r} : jobs[s] = job[s]
      /\ jobs[r].pc = p /\ jobs[r].data = data /\ jobs[r].tokens = tokens
      /\ jobs[r].todo = Tail(todo) /\ jobs[r].model = Embedder /\ jobs[r].input = texts
      /\ jobs[r].limit = job[r].limit
  BY <1>1, <1>5, AnsweredJob
<1>7. job'[r] = jobs[r] /\ \A s \in Requests \ {r} : Stays(s)
  BY <1>1, <1>4, <1>6, GiveBackMoves DEF Stays
<1>8. PICK done \in 0..Len(texts) :
          /\ Cut(todo, texts, done, Len(texts))
          /\ Embedded(job[r].data, SubSeq(texts, 1, done))
          /\ job[r].tokens = Total(SubSeq(texts, 1, done))
  BY <1>2 DEF Underway
<1>9. todo \in Seq(Seq(Nat)) /\ todo # <<>> /\ Fits(todo, job[r].limit)
  BY <1>2 DEF Underway
<1> HIDE DEF texts, todo
<1>10. texts \in Seq(Nat)
  BY <1>2 DEF texts
<1>11. PICK c \in 0..Len(texts) :
          /\ done <= c /\ batch = SubSeq(texts, done + 1, c)
          /\ Cut(Tail(todo), texts, c, Len(texts))
          /\ Len(todo) = 1 => c = Len(texts)
  <2>1. PICK c \in 0..Len(texts) :
            /\ done <= c /\ Head(todo) = SubSeq(texts, done + 1, c)
            /\ Cut(Tail(todo), texts, c, Len(texts))
            /\ Len(todo) = 1 => c = Len(texts)
    <3>1. CutsFirst(todo, texts, done, Len(texts))
      BY <1>8, <1>9, <1>10, CutTail
    <3> QED
      BY <3>1 DEF CutsFirst
  <2> QED
    BY <2>1 DEF batch
<1>12. batch \in Seq(Nat) /\ Embedded(items, batch)
  <2>1. batch \in Seq(Nat)
    BY <1>10, <1>8, <1>11
  <2> QED
    BY <2>1, ReplyEmbeds DEF items
<1>13. Embedded(data, SubSeq(texts, 1, c))
  <2>1. Embedded(items, SubSeq(texts, done + 1, c))
    BY <1>11, <1>12
  <2> QED
    BY <1>10, <1>8, <1>11, <2>1, MergeEmbeds DEF data
<1>14. tokens = Total(SubSeq(texts, 1, c))
  <2>1. c \in done..Len(texts)
    BY <1>8, <1>11
  <2>2. Total(SubSeq(texts, 1, done)) + Total(SubSeq(texts, done + 1, c)) = Total(SubSeq(texts, 1, c))
    BY <1>10, <2>1, TotalGrows
  <2>3. tokens = Total(SubSeq(texts, 1, done)) + Total(SubSeq(texts, done + 1, c))
    BY <1>8, <1>11 DEF tokens
  <2> QED
    BY <2>2, <2>3
<1>15. /\ usage' = [s \in Requests |-> usage'[s]]
       /\ \A s \in Requests \ {r} : usage'[s] = usage[s]
       /\ usage'[r] = 0 \/ (Len(todo) = 1 /\ usage'[r] = tokens)
  BY <1>1, <1>2, <1>4 DEF Spent
<1> DEFINE next == job'[r]
<1>16. /\ next.pc = p /\ next.data = data /\ next.tokens = tokens
       /\ next.todo = Tail(todo) /\ next.model = Embedder /\ next.input = texts
       /\ next.limit = job[r].limit
  BY <1>6, <1>7
<1>17. /\ Embedder \in Models /\ Embedder # Reranker
       /\ \A i \in DOMAIN texts : EstimateTokens(texts[i]) <= job[r].limit
  BY <1>2, EmbeddingsAssumption DEF Models, texts
<1> HIDE DEF next
<1>18. CASE Len(todo) = 1
  <2>1. c = Len(texts) /\ SubSeq(texts, 1, c) = texts
    BY <1>10, <1>11, <1>18
  <2>2. Embedded(data, texts) /\ tokens = Total(texts) /\ p = "answered"
    BY <1>13, <1>14, <1>18, <2>1 DEF p
  <2>3. Billed(next) = tokens
    BY <1>16, <2>2 DEF Billed
  <2>4. Fine(next, usage'[r])
    BY <1>10, <1>17, <1>15, <1>16, <2>2, <2>3 DEF Fine, Asked, Placed
  <2> QED
    BY <1>1, <1>7, <1>15, <2>4, AnswersMove DEF next
<1>19. CASE Len(todo) # 1
  <2>1. p = "running" /\ usage'[r] = 0
    BY <1>15, <1>19 DEF p
  <2>2. /\ Tail(todo) \in Seq(Seq(Nat)) /\ Tail(todo) # <<>>
        /\ \A i \in DOMAIN Tail(todo) : i + 1 \in DOMAIN todo /\ Tail(todo)[i] = todo[i + 1]
    <3>1. todo \in Seq(Seq(Nat)) /\ todo # <<>> /\ Len(todo) # 1
      BY <1>9, <1>19
    <3>2. PICK n \in Nat : n = Len(todo)
      BY <3>1
    <3>3. n # 0 /\ n # 1 /\ todo \in [1..n -> Seq(Nat)]
      BY ONLY <3>1, <3>2
    <3>4. n - 1 \in Nat /\ n - 1 # 0 /\ \A i \in 1..(n - 1) : i + 1 \in 1..n
      BY <3>3
    <3>5. Tail(todo) \in Seq(Seq(Nat)) /\ Len(Tail(todo)) = n - 1
      BY <3>1, <3>2
    <3>6. DOMAIN Tail(todo) = 1..(n - 1) /\ DOMAIN todo = 1..n
      BY <3>3, <3>5, LenProperties
    <3>7. Tail(todo) # <<>>
      BY <3>4, <3>5
    <3>8. \A i \in 1..(n - 1) : Tail(todo)[i] = todo[i + 1]
      BY <3>1, <3>2
    <3> QED
      BY <3>4, <3>5, <3>6, <3>7, <3>8
  <2>3. Fits(Tail(todo), job[r].limit)
    BY <1>9, <2>2 DEF Fits
  <2>4. Underway(next)
    BY <1>11, <1>13, <1>14, <1>16, <2>2, <2>3 DEF Underway
  <2>5. Fine(next, usage'[r])
    BY <1>10, <1>17, <1>2, <1>16, <2>1, <2>4 DEF Fine, Asked, Placed
  <2> QED
    BY <1>1, <1>7, <1>15, <2>5, AnswersMove DEF next
<1> QED
  BY <1>18, <1>19

\* The ranking.
LEMMA RerankAnswers ==
  ASSUME PermitInv, AnswerInv, NEW r \in Requests, RerankAll(r)
  PROVE  AnswerInv'
<1>1. /\ ProfileInv' /\ job[r].pc = "running" /\ job[r].model = Reranker /\ Holds(r)
      /\ IsJob(job[r]) /\ Fine(job[r], usage[r]) /\ JobInv /\ usage = [s \in Requests |-> usage[s]]
  BY ProfilesKept DEF AnswerInv, PermitInv, JobInv, RerankAll, At, Holds
<1>2. job[r].input \in Seq(Nat) /\ job[r].topN \in Nat /\ usage[r] = 0
  BY <1>1 DEF Fine, Asked, Placed
<1>3. PICK reversed \in BOOLEAN :
        LET items == Reply(job[r].input, reversed)
        IN  /\ Spent(r, Len(items), TRUE)
            /\ GiveBack(r, [job EXCEPT ![r].data = Rank(items, job[r].topN),
                                       ![r].tokens = Len(items), ![r].todo = <<>>,
                                       ![r].pc = "answered"])
  BY DEF RerankAll
<1> DEFINE scores == job[r].input
           items == Reply(scores, reversed)
           data == Rank(items, job[r].topN)
           n == Len(items)
           jobs == [job EXCEPT ![r].data = data, ![r].tokens = n, ![r].todo = <<>>,
                               ![r].pc = "answered"]
<1>4. Spent(r, n, TRUE) /\ GiveBack(r, jobs)
  BY <1>3
<1>5. Answered(r, jobs, data, n, <<>>, "answered")
  BY DEF Answered
<1>6. /\ Embedded(items, scores)
      /\ \A i, k \in 1..Len(scores) : items[i].index = items[k].index => i = k
  BY <1>2, ReplyEmbeds
<1> HIDE DEF items
<1>7. Ranked(data, scores, job[r].topN)
  BY <1>2, <1>6, RankRanks
<1>8. n = Len(scores)
  BY <1>6 DEF Embedded
<1> HIDE DEF jobs, data, n
<1>9. /\ jobs = [s \in Requests |-> jobs[s]] /\ \A s \in Requests \ {r} : jobs[s] = job[s]
      /\ jobs[r].pc = "answered" /\ jobs[r].data = data /\ jobs[r].model = Reranker
      /\ jobs[r].input = scores /\ jobs[r].topN = job[r].topN
  BY <1>1, <1>5, AnsweredJob
<1>10. job'[r] = jobs[r] /\ \A s \in Requests \ {r} : Stays(s)
  BY <1>1, <1>4, <1>9, GiveBackMoves
<1>11. /\ usage' = [s \in Requests |-> usage'[s]]
       /\ \A s \in Requests \ {r} : usage'[s] = usage[s]
       /\ usage'[r] \in {0, n}
  BY <1>1, <1>2, <1>4 DEF Spent
<1>12. Reranker \in Models /\ Embedder # Reranker
  BY EmbeddingsAssumption DEF Models
<1> DEFINE next == job'[r]
<1>13. /\ next.pc = "answered" /\ next.data = data /\ next.model = Reranker
       /\ next.input = scores /\ next.topN = job[r].topN
  BY <1>9, <1>10
<1> HIDE DEF next
<1>14. Billed(next) = n
  BY <1>8, <1>12, <1>13 DEF Billed
<1>15. Fine(next, usage'[r])
  BY <1>2, <1>7, <1>11, <1>12, <1>13, <1>14 DEF Fine, Asked, Placed
<1> QED
  BY <1>1, <1>10, <1>11, <1>15, AnswersMove DEF next

\* Every other way out.
LEMMA GoneAnswers ==
  ASSUME PermitInv, AnswerInv, NEW r \in Requests, QueueTimeout(r) \/ CallFails(r) \/ Disconnect(r)
  PROVE  AnswerInv'
<1>1. Leave(r) /\ usage' = usage /\ profile' = profile /\ job[r].pc # "answered"
  BY DEF QueueTimeout, CallFails, Disconnect, At
<1>2. ProfileInv'
  BY <1>1 DEF AnswerInv, ProfileInv
<1> QED
  BY <1>1, <1>2, LeaveAnswers

\* The model, its profile and a stuttering step leave the requests alone.
LEMMA QuietAnswers ==
  ASSUME PermitInv, AnswerInv, Unload \/ Refresh \/ Finished \/ UNCHANGED vars
  PROVE  AnswerInv'
<1>1. job' = job /\ usage' = usage
  BY DEF Unload, Refresh, Finished, vars
<1>2. ProfileInv'
  BY DEF AnswerInv, ProfileInv, Unload, Refresh, Finished, vars
<1> QED
  BY <1>1, <1>2 DEF AnswerInv

\* One case for each action.
LEMMA HandlerAnswers ==
  ASSUME PermitInv, AnswerInv, NEW r \in Requests, Handler(r)
  PROVE  AnswerInv'
<1>1. CASE Embed(r) \/ Rerank(r) \/ Reject(r)
  BY <1>1, ArriveAnswers
<1>2. CASE EnsureLoaded(r) \/ LoadFails(r)
  BY <1>2, LoadAnswers
<1>3. CASE Admission(r)
  BY <1>3, AdmissionAnswers
<1>4. CASE Poll(r)
  BY <1>4, PollAnswers
<1>5. CASE Track(r)
  BY <1>5, TrackAnswers
<1>6. CASE EmbedBatch(r)
  BY <1>6, BatchAnswers
<1>7. CASE RerankAll(r)
  BY <1>7, RerankAnswers
<1>8. CASE QueueTimeout(r) \/ CallFails(r) \/ Disconnect(r)
  BY <1>8, GoneAnswers
<1> QED
  BY <1>1, <1>2, <1>3, <1>4, <1>5, <1>6, <1>7, <1>8 DEF Handler

(* For any number of requests, any inputs, plans and limits, an answer     *)
(* holds one embedding per text under its position, however the input was  *)
(* cut and whatever order the backend replied in; no batch is over the     *)
(* limit its handler read; a ranking is whole and sorted; and only an      *)
(* answered request is billed, once and for everything (embeddings and     *)
(* rerank).                                                                *)
THEOREM AnswerWholeCorrect == Spec => []AnswerWhole
<1>1. Init => PermitInv /\ AnswerInv
  BY InitPermits, InitAnswers
<1>2. PermitInv /\ AnswerInv /\ [Next]_vars => (PermitInv /\ AnswerInv)'
  BY HandlerStep, OtherStep, HandlerAnswers, QuietAnswers DEF Next
<1>3. PermitInv /\ AnswerInv => AnswerWhole
  BY FineIsWhole
<1> QED
  BY <1>1, <1>2, <1>3, PTL DEF Spec
=============================================================================
