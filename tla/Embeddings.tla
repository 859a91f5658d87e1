---------------------------- MODULE Embeddings ----------------------------
(***************************************************************************)
(* POST /v1/embeddings and POST /v1/rerank: the handlers, the admission    *)
(* gates they queue at (src/src/embedding_admission.rs), and the two       *)
(* things that move under a handler between its awaits, the loaded model   *)
(* and the runtime profile of its configuration.                           *)
(*                                                                         *)
(* A text is its length in bytes.  A gate is named after the request whose *)
(* acquire() created it: a request acquires at most once.                  *)
(***************************************************************************)
EXTENDS Integers, Sequences, FiniteSets, SequencesExt

CONSTANTS
    Requests,     \* the requests the server receives
    Embedder,     \* a model of kind embedding
    Reranker,     \* a model of kind reranker
    None,
    Floor,        \* EMBEDDING_BATCH_FLOOR
    Pins,         \* the -b / -ub flags of the embedder: [batch, ubatch], 0 when absent
    Plans,        \* model |-> the runtime profiles a load may leave: [batch, ubatch]
    Inputs,       \* embedding inputs, sequences of texts
    Rankings      \* rerank requests: [scores, topN], topN = 0 when absent

Models == {Embedder, Reranker}
NoProfile == [batch |-> 0, ubatch |-> 0]

ASSUME EmbeddingsAssumption ==
    /\ Embedder # Reranker /\ None \notin Models \cup Requests
    /\ IsFiniteSet(Requests)
    /\ Floor \in Nat \ {0}
    /\ Pins.batch \in Nat /\ Pins.ubatch \in Nat
    /\ \A m \in Models : \A p \in Plans[m] \ {NoProfile} :
           /\ p.batch \in Nat /\ p.ubatch \in Nat
           /\ p.batch >= p.ubatch /\ p.ubatch > 0
    /\ Inputs \subseteq Seq(Nat)
    /\ \A q \in Rankings : q.scores \in Seq(Nat) /\ q.topN \in Nat

VARIABLES
    server,    \* the model whose process answers, or None
    profile,   \* model |-> ModelConfig::runtime_profile
    gate,      \* model |-> the request that created its gate, or None
    size,      \* gate |-> its permits
    free,      \* gate |-> available_permits()
    queue,     \* gate |-> the callers its semaphore holds, in order
    job,       \* request |-> the locals of its handler
    usage      \* request |-> tokens recorded in token_usage
vars == <<server, profile, gate, size, free, queue, job, usage>>

Least(a, b) == IF a <= b THEN a ELSE b
OrElse(a, b) == IF a # 0 THEN a ELSE b
Total(seq) ==
    LET sum[i \in 0..Len(seq)] == IF i = 0 THEN 0 ELSE sum[i - 1] + seq[i]
    IN  sum[Len(seq)]

EstimateTokens(text) == (text + 3) \div 4
Estimate(texts) == Total([i \in DOMAIN texts |-> EstimateTokens(texts[i])])

BalancedConcurrency(batch) == IF batch > Floor THEN 2 ELSE 1
ReadConcurrency(m) ==
    IF profile[m] = NoProfile THEN 1 ELSE BalancedConcurrency(profile[m].batch)

EffectiveBatchLimits(p) ==
    LET batch == OrElse(p.batch, OrElse(Pins.batch, Floor))
    IN  [batch  |-> batch,
         ubatch |-> Least(OrElse(p.ubatch, OrElse(Pins.ubatch, Floor)), batch)]

Oversized(texts, ubatch) == \E i \in DOMAIN texts : EstimateTokens(texts[i]) > ubatch

(* Greedy batches in order; an empty list is forwarded as one empty batch. *)
Put(acc, text, max) ==
    IF acc.cur # <<>> /\ Estimate(acc.cur) + EstimateTokens(text) > max
    THEN [out |-> Append(acc.out, acc.cur), cur |-> <<text>>]
    ELSE [out |-> acc.out, cur |-> Append(acc.cur, text)]
ChunkEmbeddingInput(texts, max) ==
    LET put[i \in 0..Len(texts)] ==
            IF i = 0 THEN [out |-> <<>>, cur |-> <<>>] ELSE Put(put[i - 1], texts[i], max)
        end == put[Len(texts)]
    IN  IF end.cur = <<>> THEN <<texts>> ELSE Append(end.out, end.cur)

-----------------------------------------------------------------------------
NewJob == [pc |-> "new", model |-> None, input |-> <<>>, topN |-> 0, gate |-> None,
           limit |-> 0, todo |-> <<>>, data |-> <<>>, tokens |-> 0]

Init ==
    /\ server = None
    /\ profile = [m \in Models |-> NoProfile]
    /\ gate = [m \in Models |-> None]
    /\ size = [r \in Requests |-> 0]
    /\ free = [r \in Requests |-> 0]
    /\ queue = [r \in Requests |-> <<>>]
    /\ job = [r \in Requests |-> NewJob]
    /\ usage = [r \in Requests |-> 0]

At(r, pc) == job[r].pc = pc
Ended == {"over", "answered"}
Holds(r) == job[r].pc \in {"admitted", "running"}

(* Dropping the permit: the semaphore hands it to its first waiter.        *)
\* Mutant: the permit goes back although somebody waits.
GiveBackOnly(r, jobs) ==
    LET g == job[r].gate
    IN  /\ free' = [free EXCEPT ![g] = @ + 1]
        /\ job' = jobs
        /\ UNCHANGED queue
GiveBack(r, jobs) ==
    LET g == job[r].gate
    IN  IF queue[g] = <<>>
        THEN /\ free' = [free EXCEPT ![g] = @ + 1]
             /\ job' = jobs
             /\ UNCHANGED queue
        ELSE /\ job' = [jobs EXCEPT ![Head(queue[g])].pc = "admitted"]
             /\ queue' = [queue EXCEPT ![g] = Tail(@)]
             /\ UNCHANGED free

(* The handler returns an error or is dropped, and its guards with it.     *)
Leave(r) ==
    LET jobs == [job EXCEPT ![r] = [NewJob EXCEPT !.pc = "over"]]
    IN  IF Holds(r)
        THEN GiveBack(r, jobs)
        ELSE /\ job' = jobs
             /\ queue' = IF At(r, "queued")
                         THEN [queue EXCEPT ![job[r].gate] =
                                   RemoveAt(@, CHOOSE i \in DOMAIN @ : @[i] = r)]
                         ELSE queue
             /\ UNCHANGED free

-----------------------------------------------------------------------------
(* The scheduler, as the handlers see it.                                  *)

(* ensure_loaded: the model already serves, or it is loaded in the place   *)
(* of another and the plan that worked becomes its runtime profile.        *)
EnsureLoaded(r) ==
    /\ At(r, "loading")
    /\ LET m == job[r].model
       IN  IF server = m THEN UNCHANGED <<server, profile>>
           ELSE \E p \in Plans[m] :
                    server' = m /\ profile' = [profile EXCEPT ![m] = p]
    /\ job' = [job EXCEPT ![r].pc = "loaded"]
    /\ UNCHANGED <<gate, size, free, queue, usage>>

LoadFails(r) ==
    /\ At(r, "loading") /\ server # job[r].model
    /\ server' = None
    /\ Leave(r)
    /\ UNCHANGED <<profile, gate, size, usage>>

(* The process dies, or a watcher unloads the model.                       *)
Unload ==
    /\ server # None
    /\ server' = None
    /\ UNCHANGED <<profile, gate, size, free, queue, job, usage>>

(* replace_models installs configurations built from the registry, which   *)
(* have no runtime profile; the process keeps running.                     *)
Refresh ==
    /\ \E m \in Models : profile[m] # NoProfile
    /\ profile' = [m \in Models |-> NoProfile]
    /\ UNCHANGED <<server, gate, size, free, queue, job, usage>>

-----------------------------------------------------------------------------
(* The handlers.                                                           *)

Embed(r) ==
    /\ At(r, "new")
    /\ \E texts \in Inputs :
           job' = [job EXCEPT ![r].pc = "loading", ![r].model = Embedder, ![r].input = texts]
    /\ UNCHANGED <<server, profile, gate, size, free, queue, usage>>

Rerank(r) ==
    /\ At(r, "new")
    /\ \E q \in Rankings :
           IF q.scores = <<>> THEN Leave(r)
           ELSE /\ job' = [job EXCEPT ![r].pc = "loading", ![r].model = Reranker,
                                      ![r].input = q.scores, ![r].topN = q.topN]
                /\ UNCHANGED <<free, queue>>
    /\ UNCHANGED <<server, profile, gate, size, usage>>

(* A model nobody registered, or of another kind.                          *)
Reject(r) ==
    /\ At(r, "new")
    /\ Leave(r)
    /\ UNCHANGED <<server, profile, gate, size, usage>>

(* The gates' critical section: create, replace when idle, clone.          *)
NeedsGate(m, want) ==
    \/ gate[m] = None
    \/ size[gate[m]] # want /\ free[gate[m]] = size[gate[m]]

PickGate(r, m) ==
    LET want == ReadConcurrency(m)
        g    == IF NeedsGate(m, want) THEN r ELSE gate[m]
    IN  /\ gate' = [gate EXCEPT ![m] = g]
        /\ size' = [size EXCEPT ![r] = IF g = r THEN want ELSE 0]
        /\ free' = [free EXCEPT ![r] = IF g = r THEN want ELSE 0]

(* The rest of the handler up to the semaphore: read the configuration     *)
(* again, refuse what cannot fit, clone the gate.                          *)
Admission(r) ==
    LET m   == job[r].model
        lim == EffectiveBatchLimits(profile[m])
        bad == m = Embedder /\ Oversized(job[r].input, lim.ubatch)
    IN  /\ At(r, "loaded")
        /\ IF bad
           THEN Leave(r) /\ UNCHANGED <<gate, size>>
           ELSE /\ PickGate(r, m)
                /\ job' = [job EXCEPT ![r].pc = "cloned", ![r].gate = gate'[m],
                                      ![r].limit = lim.batch]
                /\ UNCHANGED queue
        /\ UNCHANGED <<server, profile, usage>>

(* acquire_owned is polled for the first time.                             *)
Poll(r) ==
    LET g == job[r].gate
    IN  /\ At(r, "cloned")
        /\ IF free[g] > 0
           THEN /\ free' = [free EXCEPT ![g] = @ - 1]
                /\ job' = [job EXCEPT ![r].pc = "admitted"]
                /\ UNCHANGED queue
           ELSE /\ queue' = [queue EXCEPT ![g] = Append(@, r)]
                /\ job' = [job EXCEPT ![r].pc = "queued"]
                /\ UNCHANGED free
        /\ UNCHANGED <<server, profile, gate, size, usage>>

\* Mutant: an acquire without a deadline.
NoQueueTimeout(r) == FALSE /\ UNCHANGED vars
QueueTimeout(r) ==
    /\ At(r, "queued")
    /\ Leave(r)
    /\ UNCHANGED <<server, profile, gate, size, usage>>

(* track_request, and the batches are cut.                                 *)
Track(r) ==
    /\ At(r, "admitted")
    /\ job' = [job EXCEPT ![r].pc = "running",
                          ![r].todo = IF job[r].model = Embedder
                                      THEN ChunkEmbeddingInput(job[r].input, job[r].limit)
                                      ELSE <<job[r].input>>]
    /\ UNCHANGED <<server, profile, gate, size, free, queue, usage>>

(* One embedding per text, numbered from zero in the response, in an order *)
(* of the backend's choosing.                                              *)
Reply(batch, reversed) ==
    LET items == [i \in DOMAIN batch |-> [index |-> i - 1, of |-> batch[i]]]
    IN  IF reversed THEN Reverse(items) ELSE items

\* Mutant: the indices of a later batch start at zero again.
MergeAsIs(data, items) == data \o items
Merge(data, items) ==
    data \o [i \in DOMAIN items |-> [items[i] EXCEPT !.index = @ + Len(data)]]

(* token_db.record after the last batch; its error is ignored.             *)
Spent(r, tokens, last) ==
    \/ last /\ usage' = [usage EXCEPT ![r] = tokens]
    \/ UNCHANGED usage

EmbedBatch(r) ==
    /\ At(r, "running") /\ job[r].model = Embedder /\ server = Embedder
    /\ \E reversed \in BOOLEAN :
       LET batch  == Head(job[r].todo)
           last   == Len(job[r].todo) = 1
           tokens == job[r].tokens + Total(batch)
           jobs   == [job EXCEPT ![r].data = Merge(@, Reply(batch, reversed)),
                                 ![r].tokens = tokens, ![r].todo = Tail(@),
                                 ![r].pc = IF last THEN "answered" ELSE "running"]
       IN  /\ Spent(r, tokens, last)
           /\ IF last THEN GiveBack(r, jobs)
              ELSE job' = jobs /\ UNCHANGED <<free, queue>>
    /\ UNCHANGED <<server, profile, gate, size>>

(* The results, best first; equal scores keep the backend's order.         *)
Ahead(items, i) ==
    {j \in DOMAIN items : items[j].of > items[i].of \/ (items[j].of = items[i].of /\ j < i)}
Sorted(items) ==
    [n \in DOMAIN items |->
        items[CHOOSE i \in DOMAIN items : Cardinality(Ahead(items, i)) = n - 1]]
Rank(items, topN) ==
    IF topN = 0 THEN Sorted(items)
    ELSE SubSeq(Sorted(items), 1, Least(topN, Len(items)))

RerankAll(r) ==
    /\ At(r, "running") /\ job[r].model = Reranker /\ server = Reranker
    /\ \E reversed \in BOOLEAN :
       LET items == Reply(job[r].input, reversed)
       IN  /\ Spent(r, Len(items), TRUE)
           /\ GiveBack(r, [job EXCEPT ![r].data = Rank(items, job[r].topN),
                                      ![r].tokens = Len(items), ![r].todo = <<>>,
                                      ![r].pc = "answered"])
    /\ UNCHANGED <<server, profile, gate, size>>

(* An error status, a refused connection, an unreadable body: `?`.         *)
CallFails(r) ==
    /\ At(r, "running")
    /\ Leave(r)
    /\ UNCHANGED <<server, profile, gate, size, usage>>

(* The client hangs up: the handler's future is dropped where it waits.    *)
Disconnect(r) ==
    /\ job[r].pc \in {"loading", "queued", "admitted", "running"}
    /\ Leave(r)
    /\ UNCHANGED <<server, profile, gate, size, usage>>

Handler(r) ==
    \/ Embed(r) \/ Rerank(r) \/ Reject(r) \/ EnsureLoaded(r) \/ LoadFails(r)
    \/ Admission(r) \/ Poll(r) \/ QueueTimeout(r) \/ Track(r)
    \/ EmbedBatch(r) \/ RerankAll(r) \/ CallFails(r) \/ Disconnect(r)

Finished == (\A r \in Requests : job[r].pc \in Ended) /\ UNCHANGED vars
Next == (\E r \in Requests : Handler(r)) \/ Unload \/ Refresh \/ Finished

(* A handler whose next step awaits nothing takes it, and the deadline of  *)
(* the queue expires.  Nothing is assumed of the backend or the scheduler. *)
Fairness == \A r \in Requests : WF_vars(Admission(r) \/ Poll(r) \/ QueueTimeout(r))
Spec == Init /\ [][Next]_vars
FairSpec == Spec /\ Fairness

-----------------------------------------------------------------------------
Item == [index : Nat, of : Nat]
TypeOK ==
    /\ server \in Models \cup {None}
    /\ \A m \in Models : profile[m] \in Plans[m] \cup {NoProfile}
    /\ gate \in [Models -> Requests \cup {None}]
    /\ size \in [Requests -> 0..2] /\ free \in [Requests -> 0..2]
    /\ \A r \in Requests :
           /\ job[r].pc \in Ended \cup {"new", "loading", "loaded", "cloned", "queued",
                                        "admitted", "running"}
           /\ job[r].data \in Seq(Item) /\ usage[r] \in Nat

(* A gate's permits are neither lost nor duplicated, whichever way its     *)
(* callers leave (answer, error, timeout, hang-up), and no caller waits at *)
(* a gate that has a permit to give.                                       *)
PermitsKept ==
    \A g \in Requests :
        /\ free[g] + Cardinality({r \in Requests : Holds(r) /\ job[r].gate = g}) = size[g]
        /\ queue[g] # <<>> => free[g] = 0
        /\ ToSet(queue[g]) = {r \in Requests : At(r, "queued") /\ job[r].gate = g}

(* However the input was cut and whatever order the backend replied in,    *)
(* the answer holds for each text one embedding, under the text's position. *)
EmbeddedOnce ==
    \A r \in Requests :
        At(r, "answered") /\ job[r].model = Embedder =>
            /\ Len(job[r].data) = Len(job[r].input)
            /\ {job[r].data[i].index : i \in DOMAIN job[r].data}
                   = {i - 1 : i \in DOMAIN job[r].input}
            /\ \A i \in DOMAIN job[r].data :
                   job[r].data[i].of = job[r].input[job[r].data[i].index + 1]

(* No batch is estimated over the batch size its handler read, single      *)
(* texts included: those were measured against the micro-batch.            *)
BatchFits ==
    \A r \in Requests : At(r, "running") /\ job[r].model = Embedder =>
        \A i \in DOMAIN job[r].todo : Estimate(job[r].todo[i]) <= job[r].limit

(* A request that failed or was dropped halfway is not billed for the      *)
(* batches it did get, and an answered one is billed once, for all.        *)
UsageWhole ==
    \A r \in Requests :
        usage[r] # 0 => /\ At(r, "answered")
                        /\ usage[r] = IF job[r].model = Embedder THEN Total(job[r].input)
                                      ELSE Len(job[r].input)

(* A reranked answer names each document at most once, with its score,     *)
(* best first; there are top_n of them, and none left out beats one in.    *)
RankedAnswer ==
    \A r \in Requests :
        At(r, "answered") /\ job[r].model = Reranker =>
            LET d == job[r].data
                in == {d[i].index + 1 : i \in DOMAIN d}
                n == Len(job[r].input)
            IN  /\ Len(d) = IF job[r].topN = 0 THEN n ELSE Least(job[r].topN, n)
                /\ \A i \in DOMAIN d : d[i].of = job[r].input[d[i].index + 1]
                /\ \A i, j \in DOMAIN d : i < j => d[i].of >= d[j].of /\ d[i].index # d[j].index
                /\ \A i \in in, j \in 1..n \ in : job[r].input[i] >= job[r].input[j]

(* Answers are whole, of both endpoints, and so is what they cost.         *)
AnswerWhole == EmbeddedOnce /\ BatchFits /\ UsageWhole /\ RankedAnswer

(* A caller that reached the gate is admitted or sent away, even when      *)
(* those before it never finish.                                           *)
QueueEnds ==
    \A r \in Requests : job[r].pc \in {"cloned", "queued"} ~> job[r].pc \notin {"cloned", "queued"}
=============================================================================
