--------------------------- MODULE DownloadsProofs ---------------------------
(***************************************************************************)
(* Proofs about downloads, for any commands, any sizes of the files on the  *)
(* hub and any number of cuts, kills and repetitions: what models.toml is   *)
(* given a source for is whole, a resumed file has every byte once, and the *)
(* server loads no part of a file.  The invariants follow the blocks of a   *)
(* file from the connection that wrote them to the check that reads them.   *)
(***************************************************************************)
EXTENDS Downloads, FiniteSetTheorems, FunctionTheorems, WellFoundedInduction, TLAPS

-----------------------------------------------------------------------------
(* Types *)

Blocks == Seq({Hole} \cup Revisions)
Places == SUBSET (Nat \ {0})
Phases == Over \cup {"file", "aria2", "native", "asked", "stream", "verify", "register", "refresh"}
PullType ==
    [phase : Phases, at : {1, 2}, listed : {0} \cup Revisions, snapshot : SUBSET {"gguf", "vllm"}]
TransferType == [rev : {0} \cup Revisions, next : Nat, append : BOOLEAN, got : Places, fallback : BOOLEAN]

Active(p) == pull[p].phase \notin Over

\* A command at work has a subcommand, a file of its repository and a listing, and
\* a transfer the revision it is of.
ActiveOK(p) ==
    /\ kind[p] # "none" /\ pull[p].at \in DOMAIN Serving(kind[p])
    /\ pull[p].listed \in Revisions
    /\ pull[p].phase \in {"aria2", "asked", "stream"} => transfer[p].rev \in Revisions
    /\ pull[p].phase = "asked" /\ ~transfer[p].append => transfer[p].next = 1
    /\ pull[p].phase \in {"asked", "stream"} => transfer[p].next # 0

TypeInv ==
    /\ kind \in [Pulls -> {"gguf", "vllm", "none"}] /\ hub \in Revisions
    /\ disk \in [Files -> Blocks]
    /\ DOMAIN control \subseteq Files /\ control \in [DOMAIN control -> Places]
    /\ registered \subseteq {"gguf", "vllm"} /\ loaded \in BOOLEAN
    /\ pull \in [Pulls -> PullType] /\ transfer \in [Pulls -> TransferType]
    /\ \A p \in Pulls : Active(p) => ActiveOK(p)

-----------------------------------------------------------------------------
(* Invariants *)

\* Until commands overlap, those at work have different subcommands.
ApartInv ==
    "overlap" \notin troubled =>
        \A p, q \in Pulls : Active(p) /\ Active(q) /\ p # q => kind[p] # kind[q]

\* The files of its repository a command has verified.
Verified(p) ==
    {Serving(kind[p])[j] : j \in {j \in DOMAIN Serving(kind[p]) :
                                     j < pull[p].at \/ pull[p].phase \in {"register", "refresh"}}}

\* Until commands overlap, what a command has verified stays as it was.
VerifiedInv ==
    "overlap" \notin troubled =>
        \A p \in Pulls : Active(p) =>
            \A f \in Verified(p) \cap Summed : disk[f] = Whole(f, pull[p].listed)

\* What a control file has down as fetched is there, and what else is there was
\* fetched for it.
Exact(f) ==
    /\ Len(disk[f]) <= Size[f][hub]
    /\ \A i \in DOMAIN disk[f] : disk[f][i] \in {Hole, hub}
    /\ IF f \in DOMAIN control
       THEN \A i \in control[f] : i \in DOMAIN disk[f] /\ disk[f][i] = hub
       ELSE \A i \in DOMAIN disk[f] : disk[f][i] = hub

\* A transfer is of the revision on the hub, aria2c and its control file agree, and
\* the native downloader is at the end of the file.
Current(p) ==
    LET f == File(p) IN
    /\ pull[p].listed = hub
    /\ pull[p].phase \in {"aria2", "asked", "stream"} => transfer[p].rev = hub
    /\ pull[p].phase = "aria2" => f \in DOMAIN control /\ control[f] = transfer[p].got
    /\ pull[p].phase \in {"asked", "stream"} => f \notin DOMAIN control
    /\ pull[p].phase = "stream" \/ (pull[p].phase = "asked" /\ transfer[p].append) =>
           transfer[p].next = Len(disk[f]) + 1

ExactInv ==
    troubled = {} =>
        /\ hub = 1
        /\ \A f \in Files : Exact(f)
        /\ \A p \in Pulls : Active(p) => Current(p)

-----------------------------------------------------------------------------
(* Files *)

\* A write at an offset keeps what was there and fills the gap with holes.
LEMMA WriteProperties ==
  ASSUME NEW blocks \in Blocks, NEW at \in Nat \ {0}, NEW block \in {Hole} \cup Revisions
  PROVE  /\ Write(blocks, at, block) \in Blocks
         /\ Len(Write(blocks, at, block)) = IF at > Len(blocks) THEN at ELSE Len(blocks)
         /\ \A i \in DOMAIN Write(blocks, at, block) :
               Write(blocks, at, block)[i] =
                   IF i = at THEN block ELSE IF i <= Len(blocks) THEN blocks[i] ELSE Hole
  BY DEF Write, Blocks

-----------------------------------------------------------------------------
(* Type correctness *)

LEMMA TypeInit == Init => TypeInv
<1> SUFFICES ASSUME Init PROVE TypeInv
  OBVIOUS
<1>1. NewPull \in PullType /\ NoTransfer \in TransferType
  BY DEF NewPull, PullType, NoTransfer, TransferType, Phases, Over, Places, Revisions
<1>2. /\ pull \in [Pulls -> PullType] /\ transfer \in [Pulls -> TransferType]
      /\ \A p \in Pulls : ~Active(p)
  BY <1>1 DEF Init, NewPull, Active, Over
<1>3. disk \in [Files -> Blocks]
  BY DEF Init, Files, Blocks
<1>4. kind \in [Pulls -> {"gguf", "vllm", "none"}]
  BY DownloadsAssumption DEF Init
<1>5. hub \in Revisions /\ registered \subseteq {"gguf", "vllm"}
  BY DEF Init, Revisions
<1>8. loaded \in BOOLEAN
  BY DEF Init
<1>6. DOMAIN control \subseteq Files /\ control \in [DOMAIN control -> Places]
  BY DEF Init
<1>7. QED BY <1>2, <1>3, <1>4, <1>5, <1>6, <1>8 DEF TypeInv

\* What the helpers of the commands do to the locals.
LEMMA EntersPhase ==
  ASSUME TypeInv, NEW p \in Pulls, NEW phase \in Phases, Enters(p, phase)
  PROVE  /\ pull' \in [Pulls -> PullType]
         /\ pull'[p].phase = phase /\ pull'[p].at = pull[p].at /\ pull'[p].listed = pull[p].listed
         /\ \A q \in Pulls \ {p} : pull'[q] = pull[q]
  BY DEF TypeInv, Enters, PullType

LEMMA StartsTransfer ==
  ASSUME TypeInv, NEW p \in Pulls, NEW new \in TransferType, Transfers(p, new)
  PROVE  /\ transfer' \in [Pulls -> TransferType] /\ transfer'[p] = new
         /\ \A q \in Pulls \ {p} : transfer'[q] = transfer[q]
  BY DEF TypeInv, Transfers

LEMMA NoTransferType ==
  NoTransfer \in TransferType /\ [NoTransfer EXCEPT !.fallback = TRUE] \in TransferType
  BY DEF NoTransfer, TransferType, Places

LEMMA ComesToRest ==
  ASSUME TypeInv, NEW p \in Pulls, NEW phase \in Over, Again(p, phase)
  PROVE  /\ pull' \in [Pulls -> PullType] /\ transfer' \in [Pulls -> TransferType]
         /\ pull'[p].phase = phase /\ transfer'[p] = NoTransfer
         /\ \A q \in Pulls \ {p} : pull'[q] = pull[q] /\ transfer'[q] = transfer[q]
<1>1. [NewPull EXCEPT !.phase = phase] \in PullType /\ [NewPull EXCEPT !.phase = phase].phase = phase
  BY DEF NewPull, PullType, Phases, Revisions
<1> DEFINE new == [NewPull EXCEPT !.phase = phase]
<1>2. pull' = [pull EXCEPT ![p] = new] /\ Transfers(p, NoTransfer)
  BY DEF Again
<1> HIDE DEF new
<1>3. pull' \in [Pulls -> PullType] /\ pull'[p] = new /\ \A q \in Pulls \ {p} : pull'[q] = pull[q]
  BY <1>1, <1>2 DEF TypeInv, new
<1>4. QED BY <1>1, <1>2, <1>3, StartsTransfer, NoTransferType DEF new

LEMMA ControlType ==
  ASSUME TypeInv, NEW f \in Files
  PROVE  /\ Forgotten(f) => /\ DOMAIN control' = DOMAIN control \ {f}
                            /\ control' \in [DOMAIN control' -> Places]
                            /\ \A g \in DOMAIN control' : control'[g] = control[g]
         /\ \A blocks \in Places : Noted(f, blocks) =>
               /\ DOMAIN control' = DOMAIN control \cup {f}
               /\ control' \in [DOMAIN control' -> Places]
               /\ control'[f] = blocks
               /\ \A g \in DOMAIN control \ {f} : control'[g] = control[g]
  BY DEF TypeInv, Forgotten, Noted

LEMMA ActiveFile ==
  ASSUME TypeInv, NEW p \in Pulls, Active(p)
  PROVE  File(p) \in Files /\ disk[File(p)] \in Blocks /\ Len(disk[File(p)]) \in Nat
<1>1. kind[p] \in {"gguf", "vllm"} /\ pull[p].at \in DOMAIN Serving(kind[p])
  BY DEF TypeInv, ActiveOK
<1>2. File(p) \in Files
  BY <1>1 DEF File, Serving, Files
<1>3. QED BY <1>2 DEF TypeInv, Blocks

\* A command's step is type correct when it is for the command itself.
LEMMA CommandTypes ==
  ASSUME TypeInv, NEW p \in Pulls, UNCHANGED <<kind, hub>>,
         pull' \in [Pulls -> PullType], transfer' \in [Pulls -> TransferType],
         \A q \in Pulls \ {p} : pull'[q] = pull[q] /\ transfer'[q] = transfer[q],
         (Active(p) => ActiveOK(p))',
         disk' \in [Files -> Blocks],
         DOMAIN control' \subseteq Files, control' \in [DOMAIN control' -> Places],
         registered' \subseteq {"gguf", "vllm"}, UNCHANGED loaded
  PROVE  TypeInv'
<1>1. \A q \in Pulls : (Active(q) => ActiveOK(q))'
  BY DEF TypeInv, Active, ActiveOK
<1>2. QED BY <1>1 DEF TypeInv

\* Commands that come to rest leave nothing to check.
LEMMA AtRest ==
  ASSUME TypeInv, NEW p \in Pulls, NEW phase \in Over, Again(p, phase)
  PROVE  (Active(p) => ActiveOK(p))'
  BY ComesToRest DEF Active

LEMMA TypeStep == TypeInv /\ [Next]_vars => TypeInv'
<1> SUFFICES ASSUME TypeInv, [Next]_vars PROVE TypeInv'
  OBVIOUS
<1> USE DEF world, server, command
<1>1. ASSUME NEW e \in Uploads, Upload(e) PROVE TypeInv'
  BY <1>1 DEF Upload, TypeInv, Active, ActiveOK
<1>2. CASE Revise
  BY <1>2 DEF Revise, TypeInv, Active, ActiveOK, Revisions
<1>3. CASE Rescan
  BY <1>3 DEF Rescan, Rescanned, TypeInv, Active, ActiveOK
<1>4. CASE Load
  BY <1>4 DEF Load, TypeInv, Active, ActiveOK
<1>5. CASE Unload
  BY <1>5 DEF Unload, TypeInv, Active, ActiveOK
<1>6. ASSUME NEW p \in Pulls, Choose(p) PROVE TypeInv'
  BY <1>6 DEF Choose, TypeInv, Active, ActiveOK
<1>7. ASSUME NEW p \in Pulls, Begin(p) PROVE TypeInv'
  <2>1. ASSUME NEW phase \in Over, Again(p, phase) PROVE TypeInv'
    BY <1>7, <2>1, ComesToRest, AtRest, CommandTypes DEF Begin, TypeInv
  <2> DEFINE new == [NewPull EXCEPT !.phase = "file", !.listed = hub,
                                    !.snapshot = IF kind[p] = "vllm" THEN registered ELSE {}]
  <2>2. CASE pull' = [pull EXCEPT ![p] = new] /\ UNCHANGED transfer
    <3>1. /\ new \in PullType
          /\ new.phase = "file" /\ new.at = 1 /\ new.listed \in Revisions
      BY DEF NewPull, PullType, Phases, TypeInv, Revisions
    <3> HIDE DEF new
    <3>2. /\ pull' \in [Pulls -> PullType] /\ pull'[p] = new
          /\ \A q \in Pulls \ {p} : pull'[q] = pull[q]
      BY <2>2, <3>1 DEF TypeInv
    <3>3. (Active(p) => ActiveOK(p))'
      BY <1>7, <3>1, <3>2 DEF Begin, ActiveOK, Serving, Revisions
    <3>4. QED BY <1>7, <2>2, <3>2, <3>3, CommandTypes DEF Begin, TypeInv
  <2>3. QED BY <1>7, <2>1, <2>2 DEF Begin, Over
<1>8. ASSUME NEW p \in Pulls, StartAria2(p) PROVE TypeInv'
  <2> DEFINE known == IF File(p) \in DOMAIN control THEN control[File(p)] ELSE DOMAIN disk[File(p)]
             new == [NoTransfer EXCEPT !.rev = hub, !.got = known]
  <2>1. ActiveOK(p) /\ File(p) \in Files
    BY <1>8, ActiveFile DEF StartAria2, TypeInv, Active, Over
  <2>2. known \in Places
    BY <2>1 DEF TypeInv, Blocks, Places
  <2>3. new \in TransferType /\ new.rev \in Revisions
    BY <2>2 DEF NoTransfer, TransferType, TypeInv
  <2>4. Enters(p, "aria2") /\ Transfers(p, new) /\ Noted(File(p), known)
    BY <1>8 DEF StartAria2
  <2> HIDE DEF known, new
  <2>5. (Active(p) => ActiveOK(p))'
    BY <1>8, <2>1, <2>3, <2>4, EntersPhase, StartsTransfer DEF StartAria2, ActiveOK, Phases
  <2>6. DOMAIN control' \subseteq Files /\ control' \in [DOMAIN control' -> Places]
    BY <2>1, <2>2, <2>4, ControlType DEF TypeInv
  <2>7. QED
    BY <1>8, <2>3, <2>4, <2>5, <2>6, EntersPhase, StartsTransfer, CommandTypes
       DEF StartAria2, Phases, TypeInv
<1>9. ASSUME NEW p \in Pulls, Aria2Fetches(p) PROVE TypeInv'
  <2>1. ActiveOK(p) /\ File(p) \in Files /\ disk[File(p)] \in Blocks
    BY <1>9, ActiveFile DEF Aria2Fetches, TypeInv, Active, Over
  <2>2. PICK i \in 1..Size[File(p)][transfer[p].rev] \ transfer[p].got :
          /\ disk' = [disk EXCEPT ![File(p)] = Write(@, i, transfer[p].rev)]
          /\ transfer' = [transfer EXCEPT ![p].got = @ \cup {i}]
          /\ Noted(File(p), transfer[p].got \cup {i})
    BY <1>9 DEF Aria2Fetches
  <2>3. transfer[p].rev \in Revisions /\ transfer[p].got \cup {i} \in Places /\ i \in Nat \ {0}
    BY <1>9, <2>1, DownloadsAssumption DEF Aria2Fetches, ActiveOK, TypeInv, TransferType, Places
  <2>4. disk' \in [Files -> Blocks]
    BY <2>1, <2>2, <2>3, WriteProperties DEF TypeInv
  <2>5. /\ transfer' \in [Pulls -> TransferType] /\ transfer'[p].rev = transfer[p].rev
        /\ \A q \in Pulls \ {p} : transfer'[q] = transfer[q]
    BY <2>2, <2>3 DEF TypeInv, TransferType
  <2>6. (Active(p) => ActiveOK(p))'
    BY <1>9, <2>1, <2>5 DEF Aria2Fetches, ActiveOK
  <2>7. DOMAIN control' \subseteq Files /\ control' \in [DOMAIN control' -> Places]
    <3> DEFINE got == transfer[p].got \cup {i}
    <3>1. got \in Places /\ Noted(File(p), got)
      BY <2>2, <2>3
    <3> HIDE DEF got
    <3>2. QED BY <2>1, <3>1, ControlType DEF TypeInv
  <2>8. QED
    BY <1>9, <2>4, <2>5, <2>6, <2>7, CommandTypes DEF Aria2Fetches, TypeInv
<1>10. ASSUME NEW p \in Pulls, NEW clears, Fetched(p, clears), Active(p), UNCHANGED <<world, disk, server>> PROVE TypeInv'
  <2>1. ActiveOK(p) /\ File(p) \in Files
    BY <1>10, ActiveFile DEF TypeInv
  <2>2. Enters(p, "verify") /\ Transfers(p, NoTransfer) /\ (Forgotten(File(p)) \/ UNCHANGED control)
    BY <1>10 DEF Fetched
  <2>3. (Active(p) => ActiveOK(p))'
    BY <1>10, <2>1, <2>2, EntersPhase DEF ActiveOK, Phases
  <2>4. DOMAIN control' \subseteq Files /\ control' \in [DOMAIN control' -> Places]
    BY <2>1, <2>2, ControlType DEF TypeInv
  <2>5. QED
    BY <1>10, <2>2, <2>3, <2>4, EntersPhase, StartsTransfer, NoTransferType, CommandTypes
       DEF Phases, TypeInv
<1>11. ASSUME NEW p \in Pulls, Aria2Done(p) PROVE TypeInv'
  BY <1>11, <1>10 DEF Aria2Done, Active, Over
<1>12. ASSUME NEW p \in Pulls, Aria2Fails(p) PROVE TypeInv'
  <2>1. ActiveOK(p) /\ Enters(p, "native") /\ Transfers(p, [NoTransfer EXCEPT !.fallback = TRUE])
    BY <1>12 DEF Aria2Fails, TypeInv, Active, Over
  <2>2. (Active(p) => ActiveOK(p))'
    BY <1>12, <2>1, EntersPhase DEF Aria2Fails, ActiveOK, Phases
  <2>3. QED
    BY <1>12, <2>1, <2>2, EntersPhase, StartsTransfer, NoTransferType, CommandTypes
       DEF Aria2Fails, Phases, TypeInv
<1>13. ASSUME NEW p \in Pulls, StartNative(p) PROVE TypeInv'
  <2>1. ActiveOK(p) /\ Enters(p, "native")
    BY <1>13 DEF StartNative, TypeInv, Active, Over
  <2>2. (Active(p) => ActiveOK(p))'
    BY <1>13, <2>1, EntersPhase DEF StartNative, ActiveOK, Phases
  <2>3. QED
    BY <1>13, <2>1, <2>2, EntersPhase, CommandTypes DEF StartNative, Phases, TypeInv
<1>14. ASSUME NEW p \in Pulls, Ask(p) PROVE TypeInv'
  <2>1. ActiveOK(p) /\ Active(p)
    BY <1>14 DEF Ask, TypeInv, Active, Over
  <2>2. ASSUME NEW partial \in BOOLEAN, Asks(p, partial), UNCHANGED control PROVE TypeInv'
    <3> DEFINE new == [rev |-> hub, append |-> partial, got |-> {},
                       fallback |-> transfer[p].fallback,
                       next |-> IF partial THEN Len(disk[File(p)]) + 1 ELSE 1]
    <3>1. new \in TransferType /\ new.rev \in Revisions /\ (~new.append => new.next = 1) /\ new.next # 0
      BY <2>1, ActiveFile DEF TransferType, TypeInv, Places
    <3>2. Enters(p, "asked") /\ Transfers(p, new)
      BY <2>2 DEF Asks
    <3> HIDE DEF new
    <3>3. (Active(p) => ActiveOK(p))'
      BY <1>14, <2>1, <3>1, <3>2, EntersPhase, StartsTransfer DEF Ask, ActiveOK, Phases
    <3>4. QED
      BY <1>14, <2>2, <3>1, <3>2, <3>3, EntersPhase, StartsTransfer, CommandTypes
         DEF Ask, Phases, TypeInv
  <2>3. QED BY <1>14, <1>10, <2>1, <2>2 DEF Ask
<1>15. ASSUME NEW p \in Pulls, Open(p) PROVE TypeInv'
  <2>1. ActiveOK(p) /\ File(p) \in Files /\ Enters(p, "stream") /\ UNCHANGED transfer
    BY <1>15, ActiveFile DEF Open, TypeInv, Active, Over
  <2>2. transfer[p].next # 0
    BY <1>15, <2>1 DEF Open, ActiveOK
  <2>3. (Active(p) => ActiveOK(p))'
    BY <1>15, <2>1, <2>2, EntersPhase DEF Open, ActiveOK, Phases
  <2>4. disk' \in [Files -> Blocks]
    BY <1>15, <2>1 DEF Open, TypeInv, Blocks
  <2>5. QED
    BY <1>15, <2>1, <2>3, <2>4, EntersPhase, CommandTypes DEF Open, Phases, TypeInv
<1>16. ASSUME NEW p \in Pulls, Chunk(p) PROVE TypeInv'
  <2>1. ActiveOK(p) /\ File(p) \in Files /\ disk[File(p)] \in Blocks /\ Len(disk[File(p)]) \in Nat
    BY <1>16, ActiveFile DEF Chunk, TypeInv, Active, Over
  <2> DEFINE at == IF transfer[p].append THEN Len(disk[File(p)]) + 1 ELSE transfer[p].next
  <2>2. transfer[p].rev \in Revisions /\ at \in Nat \ {0} /\ transfer[p].next \in Nat
    BY <1>16, <2>1 DEF Chunk, ActiveOK, TypeInv, TransferType
  <2>3. disk' = [disk EXCEPT ![File(p)] = Write(@, at, transfer[p].rev)]
    BY <1>16, <2>1 DEF Chunk, TypeInv
  <2> HIDE DEF at
  <2>4. disk' \in [Files -> Blocks]
    BY <2>1, <2>2, <2>3, WriteProperties DEF TypeInv
  <2> DEFINE next == transfer[p].next + 1
  <2>8. next \in Nat /\ next # 0 /\ transfer' = [transfer EXCEPT ![p].next = next]
    BY <1>16, <2>2 DEF Chunk
  <2> HIDE DEF next
  <2>5. /\ transfer' \in [Pulls -> TransferType]
        /\ transfer'[p].rev = transfer[p].rev /\ transfer'[p].next # 0
        /\ \A q \in Pulls \ {p} : transfer'[q] = transfer[q]
    BY <2>8 DEF TypeInv, TransferType
  <2>6. (Active(p) => ActiveOK(p))'
    BY <1>16, <2>1, <2>5 DEF Chunk, ActiveOK
  <2>7. QED BY <1>16, <2>4, <2>5, <2>6, CommandTypes DEF Chunk, TypeInv
<1>17. ASSUME NEW p \in Pulls, StreamEnds(p) PROVE TypeInv'
  BY <1>17, <1>10 DEF StreamEnds, Active, Over
<1>18. ASSUME NEW p \in Pulls, Verify(p) PROVE TypeInv'
  <2>1. ActiveOK(p)
    BY <1>18 DEF Verify, TypeInv, Active, Over
  <2>2. CASE Again(p, "failed")
    BY <1>18, <2>2, ComesToRest, AtRest, CommandTypes DEF Verify, TypeInv, Over
  <2>3. CASE Enters(p, "register") /\ UNCHANGED transfer
    <3>1. (Active(p) => ActiveOK(p))'
      BY <1>18, <2>1, <2>3, EntersPhase DEF Verify, ActiveOK, Phases
    <3>2. QED BY <1>18, <2>3, <3>1, EntersPhase, CommandTypes DEF Verify, Phases, TypeInv
  <2>4. CASE /\ pull[p].at < Len(Serving(kind[p]))
             /\ pull' = [pull EXCEPT ![p].phase = "file", ![p].at = @ + 1] /\ UNCHANGED transfer
    <3>1. pull[p].at = 1 /\ 2 \in DOMAIN Serving(kind[p])
      BY <2>1, <2>4 DEF TypeInv, ActiveOK, Serving
    <3>2. /\ pull' \in [Pulls -> PullType]
          /\ pull'[p].phase = "file" /\ pull'[p].at = 2 /\ pull'[p].listed = pull[p].listed
          /\ \A q \in Pulls \ {p} : pull'[q] = pull[q]
      BY <2>4, <3>1 DEF TypeInv, PullType, Phases
    <3>3. (Active(p) => ActiveOK(p))'
      BY <1>18, <2>1, <3>1, <3>2 DEF Verify, ActiveOK
    <3>4. QED BY <1>18, <2>4, <3>2, <3>3, CommandTypes DEF Verify, TypeInv
  <2>5. QED BY <1>18, <2>2, <2>3, <2>4 DEF Verify
<1>19. ASSUME NEW p \in Pulls, Enters(p, "refresh"), Active(p), registered' \subseteq {"gguf", "vllm"},
              UNCHANGED <<world, disk, control, loaded, transfer>> PROVE TypeInv'
  <2>1. (Active(p) => ActiveOK(p))'
    BY <1>19, EntersPhase DEF TypeInv, ActiveOK, Phases
  <2>2. QED BY <1>19, <2>1, EntersPhase, CommandTypes DEF Phases, TypeInv
<1>20. ASSUME NEW p \in Pulls, RegisterGguf(p) PROVE TypeInv'
  <2>1. CASE Again(p, "failed") /\ UNCHANGED registered
    BY <1>20, <2>1, ComesToRest, AtRest, CommandTypes DEF RegisterGguf, TypeInv, Over
  <2>2. QED BY <1>20, <1>19, <2>1 DEF RegisterGguf, TypeInv, Active, Over
<1>21. ASSUME NEW p \in Pulls, RegisterVllm(p) PROVE TypeInv'
  BY <1>21, <1>19 DEF RegisterVllm, TypeInv, PullType, Active, Over
<1>22. ASSUME NEW p \in Pulls, Refresh(p) PROVE TypeInv'
  <2>1. registered' \subseteq {"gguf", "vllm"}
    BY <1>22 DEF Refresh, Rescanned, TypeInv
  <2>2. QED BY <1>22, <2>1, ComesToRest, AtRest, CommandTypes DEF Refresh, TypeInv, Over
<1>23. ASSUME NEW p \in Pulls, Repeat(p) PROVE TypeInv'
  BY <1>23, ComesToRest, AtRest, CommandTypes DEF Repeat, TypeInv, Over
<1>24. ASSUME NEW p \in Pulls, Cut(p) PROVE TypeInv'
  BY <1>24, ComesToRest, AtRest, CommandTypes DEF Cut, TypeInv, Over
<1>25. ASSUME NEW p \in Pulls, Kill(p) PROVE TypeInv'
  BY <1>25, ComesToRest, AtRest, CommandTypes DEF Kill, TypeInv, Over
<1>26. CASE UNCHANGED vars
  BY <1>26 DEF vars, TypeInv, Active, ActiveOK
<1> QED
  BY <1>1, <1>2, <1>3, <1>4, <1>5, <1>6, <1>7, <1>8, <1>9, <1>11, <1>12, <1>13, <1>14, <1>15,
     <1>16, <1>17, <1>18, <1>20, <1>21, <1>22, <1>23, <1>24, <1>25, <1>26 DEF Next, Step

-----------------------------------------------------------------------------
(* What a step does to a command and to the files *)

Begins(p) ==
    /\ ~Active(p) /\ pull'[p].phase = "file" /\ pull'[p].at = 1 /\ pull'[p].listed = hub
    /\ Alongside(p) => "overlap" \in troubled'
    /\ \A q \in Pulls \ {p} : pull'[q] = pull[q]
Continues(p) ==
    /\ Active(p) /\ pull'[p].listed = pull[p].listed
    /\ Verified(p)' \subseteq Verified(p)
Verifies(p) ==
    /\ Active(p) /\ pull'[p].listed = pull[p].listed
    /\ Verified(p)' \subseteq Verified(p) \cup {File(p)}
    /\ Matches(File(p), pull[p].listed) /\ UNCHANGED disk
Works(p) == Active(p)' => Begins(p) \/ Continues(p) \/ Verifies(p)

Writing(p) == pull[p].phase \in {"aria2", "asked", "stream"}
Untouched(f) == disk'[f] = disk[f] \/ \E p \in Pulls : Writing(p) /\ f = File(p)

Framed ==
    /\ kind' = kind /\ troubled \subseteq troubled'
    /\ \A p \in Pulls : Works(p)
    /\ \A f \in Files : Untouched(f)

\* A step of one command leaves the others alone.
LEMMA OneWorks ==
  ASSUME TypeInv, NEW p \in Pulls, UNCHANGED kind,
         \A q \in Pulls \ {p} : pull'[q] = pull[q],
         Works(p)
  PROVE  \A q \in Pulls : Works(q)
  BY DEF Works, Continues, Active, Verified

LEMMA SamePhase ==
  ASSUME TypeInv, NEW p \in Pulls, Active(p), UNCHANGED kind,
         NEW phase \in Phases, phase \in {"register", "refresh"} <=> pull[p].phase \in {"register", "refresh"},
         Enters(p, phase)
  PROVE  \A q \in Pulls : Works(q)
<1>1. Continues(p)
  BY EntersPhase DEF Continues, Verified
<1>2. QED BY <1>1, EntersPhase, OneWorks DEF Works

LEMMA RestWorks ==
  ASSUME TypeInv, NEW p \in Pulls, UNCHANGED kind, NEW phase \in Over, Again(p, phase)
  PROVE  \A q \in Pulls : Works(q)
  BY ComesToRest, OneWorks DEF Works, Active

LEMMA Frame == TypeInv /\ [Next]_vars => Framed
<1> SUFFICES ASSUME TypeInv, [Next]_vars PROVE Framed
  OBVIOUS
<1> USE DEF world, server, command
<1>1. ASSUME UNCHANGED <<kind, pull>>, troubled \subseteq troubled', \A f \in Files : Untouched(f)
      PROVE  Framed
  BY <1>1 DEF Framed, Works, Continues, Active, Verified
<1>2. ASSUME UNCHANGED <<kind, disk, pull>>, troubled \subseteq troubled' PROVE Framed
  BY <1>1, <1>2 DEF Untouched
<1>3. ASSUME NEW e \in Uploads, Upload(e) PROVE Framed
  BY <1>2, <1>3 DEF Upload
<1>4. CASE Revise \/ Rescan \/ Load \/ Unload \/ \E p \in Pulls : Choose(p)
  BY <1>2, <1>4 DEF Revise, Rescan, Load, Unload, Choose
<1>5. ASSUME NEW p \in Pulls, Begin(p) PROVE Framed
  <2>1. ASSUME NEW phase \in Over, Again(p, phase), UNCHANGED troubled PROVE Framed
    BY <1>5, <2>1, RestWorks DEF Begin, Framed, Untouched
  <2> DEFINE new == [NewPull EXCEPT !.phase = "file", !.listed = hub,
                                    !.snapshot = IF kind[p] = "vllm" THEN registered ELSE {}]
  <2>2. ASSUME pull' = [pull EXCEPT ![p] = new],
               troubled' = troubled \cup (IF Alongside(p) THEN {"overlap"} ELSE {})
        PROVE  Framed
    <3>1. new.phase = "file" /\ new.at = 1 /\ new.listed = hub
      BY DEF NewPull
    <3> HIDE DEF new
    <3>2. pull'[p] = new /\ \A q \in Pulls \ {p} : pull'[q] = pull[q]
      BY <2>2 DEF TypeInv
    <3>3. Begins(p)
      BY <1>5, <2>2, <3>1, <3>2 DEF Begin, Begins, Active, Over
    <3>4. \A q \in Pulls : Works(q)
      BY <1>5, <3>2, <3>3, OneWorks DEF Begin, Works
    <3>5. QED BY <1>5, <2>2, <3>4 DEF Begin, Framed, Untouched
  <2>3. QED BY <1>5, <2>1, <2>2 DEF Begin, Over
<1>6. ASSUME NEW p \in Pulls, StartAria2(p) \/ StartNative(p) \/ Aria2Fails(p) PROVE Framed
  <2>1. Enters(p, "aria2") \/ Enters(p, "native")
    BY <1>6 DEF StartAria2, StartNative, Aria2Fails
  <2>2. \A q \in Pulls : Works(q)
    BY <1>6, <2>1, SamePhase DEF StartAria2, StartNative, Aria2Fails, Active, Over, Phases
  <2>3. QED BY <1>6, <2>2 DEF StartAria2, StartNative, Aria2Fails, Framed, Untouched
<1>7. ASSUME NEW p \in Pulls, Aria2Fetches(p) \/ Chunk(p) PROVE Framed
  <2>1. File(p) \in Files
    BY <1>7, ActiveFile DEF Aria2Fetches, Chunk, Active, Over
  <2>2. \A f \in Files : Untouched(f)
    BY <1>7, <2>1 DEF Aria2Fetches, Chunk, Untouched, Writing, TypeInv
  <2>3. QED BY <1>7, <1>1, <2>2 DEF Aria2Fetches, Chunk
<1>8. ASSUME NEW p \in Pulls, NEW clears, Fetched(p, clears), pull[p].phase \in {"aria2", "native", "stream"},
             UNCHANGED <<kind, disk>>, troubled \subseteq troubled' PROVE Framed
  BY <1>8, SamePhase DEF Fetched, Active, Over, Phases, Framed, Untouched
<1>9. ASSUME NEW p \in Pulls, Aria2Done(p) \/ StreamEnds(p) PROVE Framed
  BY <1>8, <1>9 DEF Aria2Done, StreamEnds
<1>10. ASSUME NEW p \in Pulls, Ask(p) PROVE Framed
  <2>1. ASSUME NEW partial \in BOOLEAN, Asks(p, partial) PROVE Framed
    BY <1>10, <2>1, SamePhase DEF Ask, Asks, Active, Over, Phases, Framed, Untouched
  <2>2. QED BY <1>8, <1>10, <2>1 DEF Ask
<1>11. ASSUME NEW p \in Pulls, Open(p) PROVE Framed
  <2>1. File(p) \in Files /\ \A q \in Pulls : Works(q)
    BY <1>11, ActiveFile, SamePhase DEF Open, Active, Over, Phases
  <2>2. \A f \in Files : Untouched(f)
    BY <1>11, <2>1 DEF Open, Untouched, Writing, TypeInv
  <2>3. QED BY <1>11, <2>1, <2>2 DEF Open, Framed
<1>12. ASSUME NEW p \in Pulls, Verify(p) PROVE Framed
  <2>1. Active(p) /\ ActiveOK(p)
    BY <1>12 DEF Verify, TypeInv, Active, Over
  <2>2. CASE Again(p, "failed")
    BY <1>12, <2>2, RestWorks DEF Verify, Over, Framed, Untouched
  <2>3. ASSUME Matches(File(p), pull[p].listed), pull'[p].listed = pull[p].listed,
               Verified(p)' \subseteq Verified(p) \cup {File(p)},
               \A q \in Pulls \ {p} : pull'[q] = pull[q]
        PROVE  Framed
    <3>1. Works(p)
      BY <1>12, <2>1, <2>3 DEF Verify, Works, Verifies
    <3>2. QED BY <1>12, <2>3, <3>1, OneWorks DEF Verify, Framed, Untouched
  <2>4. CASE Enters(p, "register") /\ Matches(File(p), pull[p].listed)
             /\ pull[p].at >= Len(Serving(kind[p]))
    <3>1. Verified(p)' \subseteq Verified(p) \cup {File(p)}
      BY <1>12, <2>1, <2>4, EntersPhase DEF Verify, Verified, File, ActiveOK, Serving, Phases, TypeInv
    <3>2. QED BY <2>3, <2>4, <3>1, EntersPhase DEF Phases
  <2>5. CASE /\ Matches(File(p), pull[p].listed) /\ pull[p].at < Len(Serving(kind[p]))
             /\ pull' = [pull EXCEPT ![p].phase = "file", ![p].at = @ + 1]
    <3>1. pull[p].at = 1
      BY <2>1, <2>5 DEF TypeInv, ActiveOK, Serving
    <3>2. /\ pull'[p].phase = "file" /\ pull'[p].at = 2 /\ pull'[p].listed = pull[p].listed
          /\ \A q \in Pulls \ {p} : pull'[q] = pull[q]
      BY <2>5, <3>1 DEF TypeInv, PullType
    <3>3. Verified(p)' \subseteq Verified(p) \cup {File(p)}
      BY <1>12, <2>1, <3>1, <3>2 DEF Verify, Verified, File, ActiveOK, Serving, TypeInv
    <3>4. QED BY <2>3, <2>5, <3>2, <3>3
  <2>6. QED
    <3>1. pull[p].at \in {1, 2} /\ Len(Serving(kind[p])) \in Nat
      BY DEF TypeInv, PullType, Serving
    <3>2. QED BY <1>12, <2>2, <2>4, <2>5, <3>1 DEF Verify
<1>13. ASSUME NEW p \in Pulls, RegisterGguf(p) \/ RegisterVllm(p) PROVE Framed
  <2>1. CASE Again(p, "failed")
    BY <1>13, <2>1, RestWorks DEF RegisterGguf, RegisterVllm, Over, Framed, Untouched
  <2>2. CASE Enters(p, "refresh")
    BY <1>13, <2>2, SamePhase DEF RegisterGguf, RegisterVllm, Active, Over, Phases, Framed, Untouched
  <2>3. QED BY <1>13, <2>1, <2>2 DEF RegisterGguf, RegisterVllm
<1>14. ASSUME NEW p \in Pulls, Refresh(p) \/ Repeat(p) \/ Cut(p) \/ Kill(p) PROVE Framed
  <2>1. \A q \in Pulls : Works(q)
    BY <1>14, RestWorks DEF Refresh, Repeat, Cut, Kill, Over
  <2>2. QED BY <1>14, <2>1 DEF Refresh, Repeat, Cut, Kill, Framed, Untouched
<1>15. CASE UNCHANGED vars
  BY <1>2, <1>15 DEF vars
<1> QED
  BY <1>3, <1>4, <1>5, <1>6, <1>7, <1>9, <1>10, <1>11, <1>12, <1>13, <1>14, <1>15 DEF Next, Step

-----------------------------------------------------------------------------
(* What is registered is whole *)

LEMMA ApartStep == TypeInv /\ ApartInv /\ Framed => ApartInv'
<1> SUFFICES ASSUME TypeInv, ApartInv, Framed, "overlap" \notin troubled',
                    NEW p \in Pulls, NEW q \in Pulls, Active(p)', Active(q)', p # q
             PROVE  kind'[p] # kind'[q]
  BY DEF ApartInv
<1>1. /\ "overlap" \notin troubled /\ kind' = kind
      /\ Begins(p) \/ (Active(p) /\ Active(p)')
      /\ Begins(q) \/ (Active(q) /\ Active(q)')
  BY DEF Framed, Works, Continues, Verifies
<1>2. CASE Active(p) /\ Active(q)
  BY <1>1, <1>2 DEF ApartInv
<1>3. QED
  BY <1>1, <1>2 DEF Begins, Alongside, Active

\* Commands of different subcommands have no file in common.
LEMMA OwnFiles ==
  ASSUME TypeInv, NEW p \in Pulls, NEW q \in Pulls, Active(p), Active(q), kind[p] # kind[q]
  PROVE  File(q) # File(p) /\ File(q) \notin Verified(p)
<1>1. /\ kind[p] \in {"gguf", "vllm"} /\ pull[p].at \in DOMAIN Serving(kind[p])
      /\ kind[q] \in {"gguf", "vllm"} /\ pull[q].at \in DOMAIN Serving(kind[q])
  BY DEF TypeInv, ActiveOK
<1>2. QED BY <1>1 DEF Verified, File, Serving

\* Nor does a command write to a file it has verified.
LEMMA WritesOn ==
  ASSUME TypeInv, NEW p \in Pulls, Writing(p)
  PROVE  Active(p) /\ File(p) \notin Verified(p)
<1>1. Active(p) /\ ActiveOK(p)
  BY DEF TypeInv, Writing, Active, Over
<1>2. kind[p] \in {"gguf", "vllm"} /\ pull[p].at \in DOMAIN Serving(kind[p])
  BY <1>1 DEF TypeInv, ActiveOK
<1>3. QED BY <1>1, <1>2 DEF Writing, Verified, File, Serving

LEMMA FilesServed == ASSUME NEW p, TypeInv, p \in Pulls PROVE Verified(p) \subseteq Files
  BY DEF Verified, Serving, Files, TypeInv

LEMMA VerifiedStep == TypeInv /\ ApartInv /\ VerifiedInv /\ Framed => VerifiedInv'
<1> SUFFICES ASSUME TypeInv, ApartInv, VerifiedInv, Framed, "overlap" \notin troubled',
                    NEW p \in Pulls, Active(p)', NEW f \in Verified(p)', f \in Summed
             PROVE  disk'[f] = Whole(f, pull'[p].listed)
  BY DEF VerifiedInv
<1>1. "overlap" \notin troubled /\ kind' = kind /\ Works(p)
  BY DEF Framed
<1>2. CASE Begins(p)
  BY <1>1, <1>2 DEF Begins, Verified, Serving
<1>3. CASE Verifies(p)
  BY <1>1, <1>3 DEF Verifies, VerifiedInv, Matches
<1>4. CASE Continues(p)
  <2>1. f \in Verified(p) /\ pull'[p].listed = pull[p].listed /\ disk[f] = Whole(f, pull[p].listed)
    BY <1>1, <1>4 DEF Continues, VerifiedInv
  <2>2. ASSUME NEW q \in Pulls, Writing(q) PROVE f # File(q)
    <3>1. CASE q = p
      BY <2>1, <2>2, <3>1, WritesOn
    <3>2. CASE q # p
      BY <1>1, <1>4, <2>1, <2>2, <3>2, WritesOn, OwnFiles DEF ApartInv, Continues
    <3>3. QED BY <3>1, <3>2
  <2>3. f \in Files
    BY <2>1, FilesServed
  <2>4. QED BY <2>1, <2>2, <2>3 DEF Framed, Untouched
<1>5. QED BY <1>1, <1>2, <1>3, <1>4 DEF Works

LEMMA VerifiedInvariance == Spec => [](TypeInv /\ ApartInv /\ VerifiedInv)
<1>1. Init => ApartInv /\ VerifiedInv
  BY DEF Init, ApartInv, VerifiedInv, Active, NewPull, Over
<1>2. TypeInv /\ ApartInv /\ VerifiedInv /\ [Next]_vars => (TypeInv /\ ApartInv /\ VerifiedInv)'
  BY TypeStep, Frame, ApartStep, VerifiedStep
<1>3. QED BY <1>1, <1>2, TypeInit, PTL DEF Spec

\* Whatever was on the disk, however transfers were cut, killed and resumed: the
\* file an entry is written for is the one the tree listed (cmd_pull, cmd_pull_vllm).
THEOREM RegistersWholeCorrect == Spec => RegistersWhole
<1>1. TypeInv /\ VerifiedInv /\ [Next]_vars =>
        [\A p \in Pulls :
          pull[p].phase = "register" /\ pull'[p].phase = "refresh" /\ "overlap" \notin troubled =>
              \A f \in Range(Serving(kind[p])) \cap Summed : disk[f] = Whole(f, pull[p].listed)]_vars
  <2> SUFFICES ASSUME TypeInv, VerifiedInv, NEW p \in Pulls, pull[p].phase = "register",
                      "overlap" \notin troubled, NEW f \in Range(Serving(kind[p])), f \in Summed
               PROVE  disk[f] = Whole(f, pull[p].listed)
    OBVIOUS
  <2>1. Active(p) /\ f \in Verified(p)
    BY DEF Active, Over, Verified, Range
  <2>2. QED BY <2>1 DEF VerifiedInv
<1>2. QED BY <1>1, VerifiedInvariance, PTL DEF Spec, RegistersWhole

-----------------------------------------------------------------------------
(* Resuming is exact *)

\* A step of a command that leaves files and control files alone.
LEMMA ExactSame ==
  ASSUME TypeInv, ExactInv, troubled = {}, NEW p \in Pulls,
         UNCHANGED <<kind, hub, disk, control>>,
         \A q \in Pulls \ {p} : pull'[q] = pull[q] /\ transfer'[q] = transfer[q],
         (Active(p) => Current(p))'
  PROVE  ExactInv'
<1>1. \A f \in Files : Exact(f)'
  BY DEF ExactInv, Exact
<1>2. \A q \in Pulls : (Active(q) => Current(q))'
  BY DEF ExactInv, Active, Current, File
<1>3. QED BY <1>1, <1>2 DEF ExactInv

\* A step of a command on its own file leaves those of the others alone.
LEMMA ExactOwn ==
  ASSUME TypeInv, ApartInv, ExactInv, troubled = {}, NEW p \in Pulls, Active(p), NEW f, f = File(p),
         UNCHANGED <<kind, hub>>,
         \A q \in Pulls \ {p} : pull'[q] = pull[q] /\ transfer'[q] = transfer[q],
         \A g \in Files \ {f} : /\ disk'[g] = disk[g]
                                /\ g \in DOMAIN control' <=> g \in DOMAIN control
                                /\ g \in DOMAIN control => control'[g] = control[g],
         Exact(f)', (Active(p) => Current(p))'
  PROVE  ExactInv'
<1>1. \A g \in Files : Exact(g)'
  BY DEF ExactInv, Exact
<1>2. ASSUME NEW q \in Pulls, q # p, Active(q)' PROVE Current(q)'
  <2>1. Active(q) /\ Current(q) /\ File(q)' = File(q)
    BY <1>2 DEF ExactInv, Active, File
  <2>2. File(q) \in Files \ {f}
    BY <1>2, <2>1, ActiveFile, OwnFiles DEF ApartInv
  <2>3. QED BY <1>2, <2>1, <2>2 DEF Current
<1>3. QED BY <1>1, <1>2 DEF ExactInv

LEMMA ExactStep == TypeInv /\ ApartInv /\ ExactInv /\ [Next]_vars => ExactInv'
<1> SUFFICES ASSUME TypeInv, ApartInv, ExactInv, [Next]_vars, troubled' = {} PROVE ExactInv'
  BY DEF ExactInv
<1>1. troubled = {}
  BY Frame DEF Framed
<1>2. hub = 1 /\ (\A f \in Files : Exact(f)) /\ \A p \in Pulls : Active(p) => Current(p)
  BY <1>1 DEF ExactInv
<1> USE DEF world, server, command
<1>3. ASSUME UNCHANGED <<kind, hub, disk, control, pull, transfer>> PROVE ExactInv'
  BY <1>2, <1>3 DEF ExactInv, Exact, Current, Active, File
<1>4. ASSUME NEW e \in Uploads, Upload(e) PROVE ExactInv'
  BY <1>3, <1>4 DEF Upload
<1>5. CASE Revise
  BY <1>5 DEF Revise
<1>6. CASE Rescan \/ Load \/ Unload \/ \E p \in Pulls : Choose(p)
  BY <1>3, <1>6 DEF Rescan, Load, Unload, Choose
<1>7. ASSUME NEW p \in Pulls, NEW phase \in Over, Again(p, phase), UNCHANGED <<kind, hub, disk, control>>
      PROVE  ExactInv'
  BY <1>1, <1>7, ComesToRest, ExactSame DEF Active
<1>8. ASSUME NEW p \in Pulls, Active(p), UNCHANGED <<kind, hub, disk, control>>,
             NEW phase \in {"native", "verify", "register", "refresh"}, Enters(p, phase),
             NEW new \in TransferType, Transfers(p, new) \/ UNCHANGED transfer
      PROVE  ExactInv'
  <2>1. \A q \in Pulls \ {p} : pull'[q] = pull[q] /\ transfer'[q] = transfer[q]
    BY <1>8, EntersPhase, StartsTransfer DEF Phases
  <2>2. Current(p)'
    BY <1>2, <1>8, EntersPhase DEF Current, Phases
  <2>3. QED BY <1>1, <1>8, <2>1, <2>2, ExactSame
<1>9. ASSUME NEW p \in Pulls, Begin(p) PROVE ExactInv'
  <2>1. ASSUME NEW phase \in Over, Again(p, phase) PROVE ExactInv'
    BY <1>7, <1>9, <2>1 DEF Begin
  <2> DEFINE new == [NewPull EXCEPT !.phase = "file", !.listed = hub,
                                    !.snapshot = IF kind[p] = "vllm" THEN registered ELSE {}]
  <2>2. ASSUME pull' = [pull EXCEPT ![p] = new], UNCHANGED transfer PROVE ExactInv'
    <3>1. new.phase = "file" /\ new.listed = hub
      BY DEF NewPull
    <3> HIDE DEF new
    <3>2. pull'[p] = new /\ \A q \in Pulls \ {p} : pull'[q] = pull[q]
      BY <2>2 DEF TypeInv
    <3>3. Current(p)'
      BY <1>9, <3>1, <3>2 DEF Begin, Current
    <3>4. QED BY <1>1, <1>9, <2>2, <3>2, <3>3, ExactSame DEF Begin
  <2>3. QED BY <1>9, <2>1, <2>2 DEF Begin, Over
<1>10. ASSUME NEW p \in Pulls, StartAria2(p) PROVE ExactInv'
  <2> DEFINE f == File(p)
             known == IF f \in DOMAIN control THEN control[f] ELSE DOMAIN disk[f]
             new == [NoTransfer EXCEPT !.rev = hub, !.got = known]
  <2>1. Active(p) /\ f \in Files /\ disk[f] \in Blocks
    BY <1>10, ActiveFile DEF StartAria2, Active, Over
  <2>2. known \in Places
    BY <2>1 DEF TypeInv, Blocks, Places
  <2>3. new \in TransferType /\ new.rev = hub /\ new.got = known
    BY <2>2 DEF NoTransfer, TransferType, TypeInv
  <2>4. Enters(p, "aria2") /\ Transfers(p, new) /\ Noted(f, known)
    BY <1>10 DEF StartAria2
  <2>5. \A i \in known : i \in DOMAIN disk[f] /\ disk[f][i] = hub
    BY <1>2, <2>1 DEF Exact
  <2>6. Exact(f) /\ Current(p)
    BY <1>2, <2>1
  <2>7. f' = f
    BY <2>4, <1>10, EntersPhase DEF StartAria2, File, Phases
  <2> HIDE DEF known, new, f
  <2>8. /\ DOMAIN control' = DOMAIN control \cup {f} /\ control'[f] = known
        /\ \A g \in DOMAIN control \ {f} : control'[g] = control[g]
    BY <2>1, <2>2, <2>4, ControlType
  <2>9. Exact(f)'
    BY <1>10, <2>5, <2>6, <2>7, <2>8 DEF StartAria2, Exact
  <2>10. Current(p)'
    BY <1>10, <2>3, <2>4, <2>6, <2>7, <2>8, EntersPhase, StartsTransfer DEF StartAria2, Current, Phases, f
  <2>11. \A q \in Pulls \ {p} : pull'[q] = pull[q] /\ transfer'[q] = transfer[q]
    BY <2>3, <2>4, EntersPhase, StartsTransfer DEF Phases
  <2>12. QED
    BY <1>1, <1>10, <2>1, <2>7, <2>8, <2>9, <2>10, <2>11, ExactOwn DEF StartAria2, f
<1>11. ASSUME NEW p \in Pulls, Aria2Fetches(p) PROVE ExactInv'
  <2> DEFINE f == File(p)
  <2>1. Active(p) /\ f \in Files /\ disk[f] \in Blocks
    BY <1>11, ActiveFile DEF Aria2Fetches, Active, Over
  <2>2. Exact(f) /\ Current(p) /\ hub \in Revisions
    BY <1>2, <2>1 DEF TypeInv
  <2>3. transfer[p].rev = hub /\ f \in DOMAIN control /\ control[f] = transfer[p].got
    BY <1>11, <2>2 DEF Aria2Fetches, Current
  <2>4. PICK n \in 1..Size[f][hub] \ control[f] :
          /\ disk' = [disk EXCEPT ![f] = Write(@, n, hub)]
          /\ transfer' = [transfer EXCEPT ![p].got = @ \cup {n}]
          /\ Noted(f, control[f] \cup {n})
    BY <1>11, <2>3 DEF Aria2Fetches
  <2> DEFINE got == control[f] \cup {n}
  <2>5. n \in Nat \ {0} /\ n <= Size[f][hub] /\ Size[f][hub] \in Nat
    BY <2>1, <2>2, <2>4, DownloadsAssumption
  <2>6. got \in Places
    BY <2>3, <2>5 DEF TypeInv, Places
  <2>7. Noted(f, got) /\ control[f] \subseteq got /\ got \subseteq control[f] \cup {n}
    BY <2>4
  <2>8. /\ transfer'[p].rev = hub /\ transfer'[p].got = got
        /\ \A q \in Pulls \ {p} : pull'[q] = pull[q] /\ transfer'[q] = transfer[q]
    BY <1>11, <2>3, <2>4 DEF Aria2Fetches, TypeInv, TransferType
  <2>9. disk'[f] = Write(disk[f], n, hub) /\ \A g \in Files \ {f} : disk'[g] = disk[g]
    BY <2>1, <2>4 DEF TypeInv
  <2>10. f' = f
    BY <1>11 DEF Aria2Fetches, File
  <2> HIDE DEF got, f
  <2>11. /\ DOMAIN control' = DOMAIN control \cup {f} /\ control'[f] = got
         /\ \A g \in DOMAIN control \ {f} : control'[g] = control[g]
    BY <2>1, <2>6, <2>7, ControlType
  <2>12. /\ disk'[f] \in Blocks
         /\ Len(disk'[f]) = IF n > Len(disk[f]) THEN n ELSE Len(disk[f])
         /\ \A j \in DOMAIN disk'[f] :
               disk'[f][j] = IF j = n THEN hub ELSE IF j <= Len(disk[f]) THEN disk[f][j] ELSE Hole
    <3> DEFINE written == Write(disk[f], n, hub)
    <3>1. disk[f] \in Blocks /\ n \in Nat \ {0} /\ hub \in {Hole} \cup Revisions
      BY <2>1, <2>2, <2>5
    <3>2. /\ written \in Blocks
          /\ Len(written) = IF n > Len(disk[f]) THEN n ELSE Len(disk[f])
          /\ \A j \in DOMAIN written :
                written[j] = IF j = n THEN hub ELSE IF j <= Len(disk[f]) THEN disk[f][j] ELSE Hole
      BY ONLY <3>1, WriteProperties, SMTT(60)
    <3>3. disk'[f] = written
      BY <2>9
    <3> HIDE DEF written
    <3>4. QED BY <3>2, <3>3
  <2>13. DOMAIN disk[f] = 1..Len(disk[f]) /\ Len(disk[f]) \in Nat /\ DOMAIN disk'[f] = 1..Len(disk'[f])
    BY <2>1, <2>12 DEF Blocks
  <2>14. Len(disk[f]) <= Size[f][hub] /\ Len(disk'[f]) <= Size[f][hub]
    BY <2>2, <2>5, <2>12, <2>13 DEF Exact
  <2>15. \A j \in DOMAIN disk'[f] : disk'[f][j] \in {Hole, hub}
    BY <2>2, <2>12, <2>13 DEF Exact
  <2>16. ASSUME NEW j \in got PROVE j \in DOMAIN disk'[f] /\ disk'[f][j] = hub
    <3>1. CASE j = n
      BY <2>5, <2>12, <2>13, <3>1
    <3>2. CASE j \in control[f] /\ j # n
      <4>1. j \in 1..Len(disk[f]) /\ disk[f][j] = hub
        BY <2>2, <2>3, <2>13, <3>2 DEF Exact
      <4>2. QED BY <2>5, <2>12, <2>13, <3>2, <4>1
    <3>3. QED BY <2>7, <2>16, <3>1, <3>2
  <2>17. Exact(f)'
    BY <1>11, <2>10, <2>11, <2>14, <2>15, <2>16 DEF Aria2Fetches, Exact
  <2>18. Current(p)'
    BY <1>11, <2>2, <2>8, <2>10, <2>11 DEF Aria2Fetches, Current, f
  <2>19. QED
    BY <1>1, <1>11, <2>1, <2>8, <2>9, <2>10, <2>11, <2>17, <2>18, ExactOwn DEF Aria2Fetches, f
<1>12. ASSUME NEW p \in Pulls, Active(p), NEW clears, Fetched(p, clears), UNCHANGED <<kind, hub, disk>>,
              clears \/ File(p) \notin DOMAIN control,
              \A i \in DOMAIN disk[File(p)] : disk[File(p)][i] = hub
       PROVE  ExactInv'
  <2> DEFINE f == File(p)
  <2>1. f \in Files /\ Exact(f) /\ Current(p) /\ f' = f
    BY <1>2, <1>12, ActiveFile, EntersPhase DEF Fetched, File, Phases
  <2>2. Enters(p, "verify") /\ Transfers(p, NoTransfer)
        /\ (Forgotten(f) \/ (UNCHANGED control /\ f \notin DOMAIN control))
    BY <1>12 DEF Fetched
  <2> HIDE DEF f
  <2>3. /\ DOMAIN control' = DOMAIN control \ {f}
        /\ \A g \in DOMAIN control' : control'[g] = control[g]
    BY <2>1, <2>2, ControlType
  <2>4. \A q \in Pulls \ {p} : pull'[q] = pull[q] /\ transfer'[q] = transfer[q]
    BY <2>2, EntersPhase, StartsTransfer, NoTransferType DEF Phases
  <2>5. Exact(f)'
    BY <1>12, <2>1, <2>3 DEF Exact, f
  <2>6. Current(p)'
    BY <1>12, <2>1, <2>2, EntersPhase DEF Current, Phases
  <2>7. QED
    BY <1>1, <1>12, <2>1, <2>3, <2>4, <2>5, <2>6, ExactOwn DEF f
<1>13. ASSUME NEW p \in Pulls, Aria2Done(p) PROVE ExactInv'
  <2>1. Active(p) /\ File(p) \in Files /\ disk[File(p)] \in Blocks
    BY <1>13, ActiveFile DEF Aria2Done, Active, Over
  <2>2. Exact(File(p)) /\ Current(p) /\ hub \in Revisions
    BY <1>2, <2>1 DEF TypeInv
  <2>3. 1..Size[File(p)][hub] \subseteq control[File(p)] /\ File(p) \in DOMAIN control
    BY <1>13, <2>2 DEF Aria2Done, Current
  <2>4. Size[File(p)][hub] \in Nat /\ Len(disk[File(p)]) \in Nat
        /\ DOMAIN disk[File(p)] = 1..Len(disk[File(p)])
    BY <2>1, <2>2, DownloadsAssumption DEF Blocks
  <2>5. \A i \in DOMAIN disk[File(p)] : disk[File(p)][i] = hub
    BY <2>2, <2>3, <2>4 DEF Exact
  <2>6. QED BY <1>12, <1>13, <2>1, <2>5 DEF Aria2Done
<1>14. ASSUME NEW p \in Pulls, Aria2Fails(p) \/ StartNative(p) PROVE ExactInv'
  BY <1>8, <1>14, NoTransferType DEF Aria2Fails, StartNative, Active, Over
<1>15. ASSUME NEW p \in Pulls, Ask(p) PROVE ExactInv'
  <2> DEFINE f == File(p)
  <2>1. Active(p) /\ f \in Files /\ disk[f] \in Blocks
    BY <1>15, ActiveFile DEF Ask, Active, Over
  <2>2. Exact(f) /\ Current(p) /\ f \notin DOMAIN control
    BY <1>2, <1>15, <2>1 DEF Ask, Handover
  <2>3. CASE Fetched(p, transfer[p].fallback)
    BY <1>12, <1>15, <2>1, <2>2, <2>3 DEF Ask, Exact
  <2>4. ASSUME NEW partial \in BOOLEAN, Asks(p, partial), UNCHANGED control PROVE ExactInv'
    <3> DEFINE new == [rev |-> hub, append |-> partial, got |-> {},
                       fallback |-> transfer[p].fallback,
                       next |-> IF partial THEN Len(disk[f]) + 1 ELSE 1]
    <3>1. /\ new \in TransferType /\ new.rev = hub /\ new.append = partial
          /\ partial => new.next = Len(disk[f]) + 1
      BY <2>1 DEF TransferType, TypeInv, Places, Blocks
    <3>2. Enters(p, "asked") /\ Transfers(p, new)
      BY <2>4 DEF Asks
    <3> HIDE DEF new
    <3>3. Current(p)'
      BY <1>15, <2>2, <2>4, <3>1, <3>2, EntersPhase, StartsTransfer DEF Ask, Current, File, Phases
    <3>4. \A q \in Pulls \ {p} : pull'[q] = pull[q] /\ transfer'[q] = transfer[q]
      BY <3>1, <3>2, EntersPhase, StartsTransfer DEF Phases
    <3>5. QED BY <1>1, <1>15, <2>4, <3>3, <3>4, ExactSame DEF Ask
  <2>5. QED BY <1>15, <2>3, <2>4 DEF Ask
<1>16. ASSUME NEW p \in Pulls, Open(p) PROVE ExactInv'
  <2> DEFINE f == File(p)
  <2>1. Active(p) /\ f \in Files /\ disk[f] \in Blocks /\ ActiveOK(p)
    BY <1>16, ActiveFile DEF Open, Active, Over, TypeInv
  <2>2. Exact(f) /\ Current(p) /\ f \notin DOMAIN control /\ transfer[p].rev = hub
    BY <1>2, <1>16, <2>1 DEF Open, Current
  <2>3. f' = f /\ pull'[p].phase = "stream" /\ pull'[p].listed = pull[p].listed
        /\ \A q \in Pulls \ {p} : pull'[q] = pull[q]
    BY <1>16, EntersPhase DEF Open, File, Phases
  <2>4. CASE transfer[p].append
    <3>1. Current(p)'
      BY <1>16, <2>2, <2>3, <2>4 DEF Open, Current
    <3>2. QED BY <1>1, <1>16, <2>3, <2>4, <3>1, ExactSame DEF Open
  <2>5. CASE ~transfer[p].append
    <3>1. /\ disk'[f] = <<>> /\ \A g \in Files \ {f} : disk'[g] = disk[g]
          /\ transfer[p].next = 1
      BY <1>16, <2>1, <2>5 DEF Open, TypeInv, ActiveOK
    <3> HIDE DEF f
    <3>2. Size[f][hub] \in Nat
      BY <2>1, DownloadsAssumption DEF TypeInv
    <3>3. Exact(f)'
      BY <1>16, <2>2, <2>3, <3>1, <3>2 DEF Open, Exact
    <3>4. Current(p)'
      BY <1>16, <2>2, <2>3, <3>1 DEF Open, Current, f
    <3>5. QED BY <1>1, <1>16, <2>1, <2>3, <3>1, <3>3, <3>4, ExactOwn DEF Open, f
  <2>6. QED BY <2>4, <2>5
<1>17. ASSUME NEW p \in Pulls, Chunk(p) PROVE ExactInv'
  <2> DEFINE f == File(p)
             at == Len(disk[f]) + 1
  <2>1. Active(p) /\ f \in Files /\ disk[f] \in Blocks
    BY <1>17, ActiveFile DEF Chunk, Active, Over
  <2>2. Exact(f) /\ Current(p) /\ f \notin DOMAIN control /\ transfer[p].rev = hub /\ hub \in Revisions
        /\ transfer[p].next = at
    BY <1>2, <1>17, <2>1 DEF Chunk, Current, TypeInv
  <2>3. disk' = [disk EXCEPT ![f] = Write(disk[f], at, hub)]
    BY <1>17, <2>1, <2>2 DEF Chunk, TypeInv
  <2>4. /\ at \in Nat \ {0} /\ at <= Size[f][hub] /\ Len(disk[f]) \in Nat
        /\ DOMAIN disk[f] = 1..Len(disk[f])
    BY <1>17, <2>1, <2>2 DEF Chunk, Blocks
  <2>5. /\ transfer'[p].rev = hub /\ transfer'[p].next = at + 1
        /\ \A q \in Pulls \ {p} : pull'[q] = pull[q] /\ transfer'[q] = transfer[q]
    BY <1>17, <2>2 DEF Chunk, TypeInv, TransferType
  <2>6. f' = f
    BY <1>17 DEF Chunk, File
  <2> DEFINE written == Write(disk[f], at, hub)
  <2>7. disk'[f] = written /\ \A g \in Files \ {f} : disk'[g] = disk[g]
    BY <2>1, <2>3 DEF TypeInv
  <2> HIDE DEF f
  <2>8. /\ written \in Blocks /\ Len(written) = at
        /\ \A j \in DOMAIN written : written[j] = IF j = at THEN hub ELSE disk[f][j]
    <3> HIDE DEF at
    <3>1. /\ written \in Blocks
          /\ Len(written) = IF at > Len(disk[f]) THEN at ELSE Len(disk[f])
          /\ \A j \in DOMAIN written :
                written[j] = IF j = at THEN hub ELSE IF j <= Len(disk[f]) THEN disk[f][j] ELSE Hole
      BY <2>1, <2>2, <2>4, WriteProperties
    <3> HIDE DEF written
    <3> USE DEF at
    <3>2. Len(written) = at
      BY <2>4, <3>1
    <3>3. DOMAIN written = 1..Len(written)
      BY <3>1 DEF Blocks
    <3>4. QED BY <2>4, <3>1, <3>2, <3>3
  <2> HIDE DEF written
  <2>9. DOMAIN written = 1..at
    BY <2>8 DEF Blocks
  <2>10. \A j \in DOMAIN written : written[j] = hub
    BY <2>2, <2>4, <2>8, <2>9 DEF Exact
  <2>11. Exact(f)'
    BY <1>17, <2>2, <2>4, <2>6, <2>7, <2>8, <2>10 DEF Chunk, Exact
  <2>12. Current(p)'
    BY <1>17, <2>2, <2>5, <2>6, <2>7, <2>8 DEF Chunk, Current, f
  <2>13. QED BY <1>1, <1>17, <2>1, <2>5, <2>6, <2>7, <2>11, <2>12, ExactOwn DEF Chunk, f
<1>18. ASSUME NEW p \in Pulls, StreamEnds(p) PROVE ExactInv'
  <2>1. Active(p) /\ File(p) \in Files
    BY <1>18, ActiveFile DEF StreamEnds, Active, Over
  <2>2. Exact(File(p)) /\ File(p) \notin DOMAIN control
    BY <1>2, <1>18, <2>1 DEF StreamEnds, Current
  <2>3. QED BY <1>12, <1>18, <2>1, <2>2 DEF StreamEnds, Exact
<1>19. ASSUME NEW p \in Pulls, Verify(p) PROVE ExactInv'
  <2>1. Active(p) /\ Current(p)
    BY <1>2, <1>19 DEF Verify, Active, Over
  <2>2. CASE Again(p, "failed")
    BY <1>7, <1>19, <2>2 DEF Verify, Over
  <2>3. CASE Enters(p, "register") /\ UNCHANGED transfer
    BY <1>8, <1>19, <2>1, <2>3, NoTransferType DEF Verify
  <2>4. CASE pull' = [pull EXCEPT ![p].phase = "file", ![p].at = @ + 1] /\ UNCHANGED transfer
    <3>1. /\ pull'[p].phase = "file" /\ pull'[p].listed = pull[p].listed
          /\ \A q \in Pulls \ {p} : pull'[q] = pull[q]
      BY <2>4 DEF TypeInv, PullType
    <3>2. Current(p)'
      BY <1>19, <2>1, <3>1 DEF Verify, Current
    <3>3. QED BY <1>1, <1>19, <2>4, <3>1, <3>2, ExactSame DEF Verify
  <2>5. QED BY <1>19, <2>2, <2>3, <2>4 DEF Verify
<1>20. ASSUME NEW p \in Pulls, RegisterGguf(p) \/ RegisterVllm(p) PROVE ExactInv'
  <2>1. CASE Again(p, "failed")
    BY <1>7, <1>20, <2>1 DEF RegisterGguf, RegisterVllm, Over
  <2>2. CASE Enters(p, "refresh") /\ UNCHANGED transfer
    BY <1>8, <1>20, <2>2, NoTransferType DEF RegisterGguf, RegisterVllm, Active, Over
  <2>3. QED BY <1>20, <2>1, <2>2 DEF RegisterGguf, RegisterVllm
<1>21. ASSUME NEW p \in Pulls, Refresh(p) \/ Repeat(p) \/ Cut(p) \/ Kill(p) PROVE ExactInv'
  BY <1>7, <1>21 DEF Refresh, Repeat, Cut, Kill, Over
<1>22. CASE UNCHANGED vars
  BY <1>3, <1>22 DEF vars
<1> QED
  BY <1>4, <1>5, <1>6, <1>9, <1>10, <1>11, <1>13, <1>14, <1>15, <1>16, <1>17, <1>18, <1>19,
     <1>20, <1>21, <1>22 DEF Next, Step

\* Only a load loads.
LEMMA LoadsOnly == [Next]_vars /\ ~loaded /\ loaded' => Load
  BY DEF Next, Step, vars, world, server, command, Upload, Revise, Rescan, Unload, Choose, Begin,
         StartAria2, Aria2Fetches, Aria2Done, Aria2Fails, StartNative, Ask, Open, Chunk, StreamEnds,
         Verify, RegisterGguf, RegisterVllm, Refresh, Repeat, Cut, Kill

LEMMA ExactInvariance == Spec => [](TypeInv /\ ApartInv /\ ExactInv)
<1>1. Init => ApartInv
  BY DEF Init, ApartInv, Active, NewPull, Over
<1>2. Init => ExactInv
  <2> SUFFICES ASSUME Init PROVE ExactInv
    OBVIOUS
  <2>1. hub = 1 /\ \A p \in Pulls : ~Active(p)
    BY DEF Init, Active, NewPull, Over
  <2>2. ASSUME NEW f \in Files PROVE Exact(f)
    <3>1. Size[f][hub] \in Nat
      BY <2>1, DownloadsAssumption DEF Revisions
    <3>2. disk[f] = <<>> /\ f \notin DOMAIN control
      BY DEF Init
    <3>3. QED BY <3>1, <3>2 DEF Exact
  <2>3. QED BY <2>1, <2>2 DEF ExactInv
<1>3. TypeInv /\ ApartInv /\ ExactInv /\ [Next]_vars => (TypeInv /\ ApartInv /\ ExactInv)'
  BY TypeStep, Frame, ApartStep, ExactStep
<1>4. QED BY <1>1, <1>2, <1>3, TypeInit, PTL DEF Spec

Part(f, rev, blocks) == Len(blocks) <= Size[f][rev] /\ \A i \in DOMAIN blocks : blocks[i] = rev

\* A file with the blocks of one revision, no more of them than the revision has, is
\* a prefix of it; with as many, it is the revision.
LEMMA PartOfOne ==
  ASSUME NEW f \in Files, NEW rev \in Revisions, NEW blocks \in Blocks,
         Part(f, rev, blocks)
  PROVE  /\ IsPrefix(blocks, Whole(f, rev))
         /\ Len(blocks) = Size[f][rev] => blocks = Whole(f, rev)
<1>1. Size[f][rev] \in Nat
  BY DownloadsAssumption
<1>2. Whole(f, rev) \in Seq(Revisions) /\ Len(Whole(f, rev)) = Size[f][rev]
  BY <1>1 DEF Whole
<1>3. blocks \in Seq({Hole} \cup Revisions) /\ Len(blocks) \in Nat /\ DOMAIN blocks = 1..Len(blocks)
  BY DEF Blocks
<1>4. \A i \in 1..Len(blocks) : blocks[i] = rev /\ Whole(f, rev)[i] = rev
  BY <1>1, <1>3 DEF Whole, Part
<1>5. SubSeq(blocks, 1, Len(blocks)) = SubSeq(Whole(f, rev), 1, Len(blocks))
  BY <1>1, <1>2, <1>3, <1>4 DEF Part
<1>6. IsPrefix(blocks, Whole(f, rev))
  BY <1>2, <1>5 DEF IsPrefix, Part
<1>7. ASSUME Len(blocks) = Size[f][rev] PROVE blocks = Whole(f, rev)
  <2> DEFINE whole == Whole(f, rev)
             n == Len(blocks)
  <2>1. blocks \in [1..n -> Revisions] /\ whole \in [1..n -> Revisions]
    BY <1>1, <1>3, <1>4, <1>7 DEF Whole
  <2>2. \A i \in 1..n : blocks[i] = whole[i]
    BY <1>4
  <2> HIDE DEF whole, n
  <2>3. blocks = [i \in 1..n |-> blocks[i]] /\ whole = [i \in 1..n |-> whole[i]]
    BY <2>1
  <2>4. blocks = whole
    BY <2>2, <2>3
  <2>5. QED BY <2>4 DEF whole
<1>8. QED BY <1>6, <1>7

\* However transfers were cut and whichever downloader returned to the file: what
\* is there of it is a prefix (download_file_auto, download_url_to_path).
THEOREM ResumesExactlyCorrect == Spec => []ResumesExactly
<1>1. TypeInv /\ ExactInv => ResumesExactly
  <2> SUFFICES ASSUME TypeInv, ExactInv, troubled = {}, NEW f \in Files, f \notin DOMAIN control
               PROVE  IsPrefix(disk[f], Whole(f, hub))
    BY DEF ResumesExactly
  <2>1. /\ hub \in Revisions /\ disk[f] \in Blocks
        /\ Part(f, hub, disk[f])
    BY DEF TypeInv, ExactInv, Exact, Part
  <2>2. QED BY <2>1, PartOfOne
<1>2. QED BY <1>1, ExactInvariance, PTL

\* A server that finds a file while it is written loads it when it is whole and not
\* before (preflight_model_file, check_gguf_integrity).
THEOREM LoadsWholeCorrect == Spec => LoadsWhole
<1>1. TypeInv /\ ExactInv /\ [Next]_vars =>
        [~loaded /\ loaded' /\ troubled = {} /\ "gguf" \notin DOMAIN control =>
          disk["gguf"] = Whole("gguf", hub)]_vars
  <2> SUFFICES ASSUME TypeInv, ExactInv, [Next]_vars, ~loaded, loaded', troubled = {},
                      "gguf" \notin DOMAIN control
               PROVE  disk["gguf"] = Whole("gguf", hub)
    OBVIOUS
  <2> DEFINE blocks == disk["gguf"]
  <2>1. /\ "gguf" \in Files /\ hub \in Revisions /\ blocks \in Blocks
        /\ Part("gguf", hub, blocks)
    BY DEF TypeInv, ExactInv, Exact, Files, Part
  <2>2. Intact(blocks)
    BY LoadsOnly DEF Load
  <2>3. Len(blocks) \in Nat /\ DOMAIN blocks = 1..Len(blocks) /\ Size["gguf"][hub] \in Nat
    BY <2>1, DownloadsAssumption DEF Blocks
  <2> HIDE DEF blocks
  <2>4. Head(blocks) = hub
    BY <2>1, <2>2, <2>3 DEF Intact, Readable, Blocks, Part
  <2>5. Len(blocks) = Size["gguf"][hub]
    BY <2>1, <2>2, <2>3, <2>4 DEF Intact, Part
  <2>6. blocks = Whole("gguf", hub)
    BY <2>1, <2>5, PartOfOne
  <2>7. QED BY <2>6 DEF blocks
<1>2. QED BY <1>1, ExactInvariance, PTL DEF Spec, LoadsWhole

-----------------------------------------------------------------------------
(* Induction *)

\* A set of naturals that is not empty has a least element.
LEMMA LeastNatural ==
  ASSUME NEW S \in SUBSET Nat, S # {}
  PROVE  \E n \in S : \A m \in S : n <= m
<1>1. PICK top \in S : TRUE
  OBVIOUS
<1> DEFINE D == 0 .. top
           T == {0 .. k : k \in {k \in S : k <= top}}
<1>2. IsFiniteSet(D)
  BY <1>1, FS_Interval
<1>3. T \subseteq SUBSET D
  BY <1>1
<1>4. SUBSET D = FiniteSubsetsOf(D)
  BY <1>2, FS_FiniteSubsetsOfFinite
<1>5. 0 .. top \in T
  BY <1>1
<1> HIDE DEF T
<1>6. \E x \in T : \A y \in T : ~ (<<y, x>> \in StrictSubsetOrdering(D))
  <2>1. IsWellFoundedOn(StrictSubsetOrdering(D), SUBSET D)
    BY <1>4, FS_StrictSubsetOrderingWellFounded
  <2>2. T # {}
    BY <1>5
  <2> HIDE DEF D
  <2>3. QED BY <2>1, <2>2, <1>3, WFMin
<1>7. PICK x \in T : \A y \in T : ~ (<<y, x>> \in StrictSubsetOrdering(D))
  BY <1>6
<1>8. PICK n \in S : n <= top /\ x = 0 .. n
  BY DEF T
<1>9. ASSUME NEW m \in S PROVE n <= m
  <2>1. SUFFICES ASSUME m < n PROVE FALSE
    BY <1>8, <1>9
  <2>2. 0 .. m \in T
    BY <2>1, <1>8, <1>1 DEF T
  <2>3. 0 .. m \subseteq 0 .. n /\ n \in 0 .. n /\ n \notin 0 .. m
    BY <2>1, <1>8
  <2>4. <<0 .. m, 0 .. n>> \in StrictSubsetOrdering(D)
    BY <2>2, <2>3, <1>3, <1>8 DEF StrictSubsetOrdering
  <2>5. QED BY <2>2, <2>4, <1>7, <1>8
<1>10. QED BY <1>9

\* Induction up to N, for a property given as the set of the numbers that have it.
LEMMA Climb ==
  ASSUME NEW N \in Nat, NEW S, 0 \in S, \A k \in 1..N : k - 1 \in S => k \in S
  PROVE  \A k \in 0..N : k \in S
<1> DEFINE Bad == {k \in 0..N : k \notin S}
<1>1. SUFFICES ASSUME Bad # {} PROVE FALSE
  OBVIOUS
<1>2. PICK k \in Bad : \A j \in Bad : k <= j
  <2>1. Bad \in SUBSET Nat
    OBVIOUS
  <2> HIDE DEF Bad
  <2>2. QED BY <1>1, <2>1, LeastNatural
<1>3. k \in 1..N /\ k - 1 \in 0..N /\ k - 1 \notin Bad
  BY <1>2
<1>4. QED BY <1>2, <1>3

-----------------------------------------------------------------------------
(* What is listed and what is selected *)

\* The bytes of a split model are a number.
LEMMA BytesType ==
  ASSUME NEW shards, IsFiniteSet(shards),
         \A n \in 1..Cardinality(shards) : (CHOOSE e \in shards : e.part = n).size \in Nat
  PROVE  Bytes(shards) \in Nat
<1> DEFINE N == Cardinality(shards)
           SizeOf(n) == (CHOOSE e \in shards : e.part = n).size
           After(f, n) == IF n = 0 THEN 0 ELSE f[n - 1] + SizeOf(n)
           Has(k) == \E f : f = [n \in 0..k |-> After(f, n)]
<1>1. N \in Nat
  BY FS_CardinalityType
<1>0. Bytes(shards) = (CHOOSE f : f = [n \in 0..N |-> After(f, n)])[N]
  BY DEF Bytes
<1>2. \A n \in 1..N : SizeOf(n) \in Nat
  OBVIOUS
<1> HIDE DEF N, SizeOf
<1>3. Has(0)
  <2> DEFINE f == [n \in 0..0 |-> 0]
  <2>1. \A n \in 0..0 : After(f, n) = 0
    <3>1. \A n \in 0..0 : n = 0
      OBVIOUS
    <3> QED
      BY <3>1
  <2>2. f = [n \in 0..0 |-> After(f, n)]
    <3> HIDE DEF After
    <3> QED
      BY <2>1
  <2> QED
    BY <2>2
<1>4. ASSUME NEW k \in 1..N, Has(k - 1) PROVE Has(k)
  <2>1. PICK f : f = [n \in 0..(k - 1) |-> After(f, n)]
    BY <1>4
  <2> DEFINE g == [n \in 0..k |-> After(f, n)]
  <2>2. \A n \in 0..(k - 1) : g[n] = f[n]
    <3> HIDE DEF After
    <3>1. \A n \in 0..(k - 1) : n \in 0..k
      BY <1>1
    <3>2. \A n \in 0..(k - 1) : f[n] = After(f, n)
      BY <2>1
    <3> QED
      BY <3>1, <3>2
  <2>3. \A n \in 0..k : After(g, n) = After(f, n)
    <3> HIDE DEF g
    <3>1. \A n \in 0..k : n # 0 => n - 1 \in 0..(k - 1)
      BY <1>1
    <3>2. \A n \in 0..k : n # 0 => g[n - 1] = f[n - 1]
      BY <2>2, <3>1
    <3> QED
      BY <3>2
  <2>4. g = [n \in 0..k |-> After(g, n)]
    <3>1. g = [n \in 0..k |-> After(f, n)]
      OBVIOUS
    <3> HIDE DEF g, After
    <3> QED
      BY <2>3, <3>1
  <2> QED
    BY <2>4
<1>5. Has(N)
  <2> HIDE DEF Has
  <2> DEFINE Good == {k \in 0..N : Has(k)}
  <2>1. 0 \in Good
    BY <1>1, <1>3
  <2>2. \A k \in 1..N : k - 1 \in Good => k \in Good
    BY <1>1, <1>4
  <2>3. \A k \in 0..N : k \in Good
    <3> HIDE DEF Good
    <3> QED
      BY <1>1, <2>1, <2>2, Climb
  <2> QED
    BY <2>3, <1>1
<1> DEFINE F == CHOOSE f : f = [n \in 0..N |-> After(f, n)]
<1>6. F = [n \in 0..N |-> After(F, n)]
  <2> HIDE DEF After
  <2> QED
    BY <1>5
<1>7. Bytes(shards) = F[N]
  BY <1>0
<1> HIDE DEF F
<1>8. \A n \in 0..N : F[n] = After(F, n)
  <2> HIDE DEF After
  <2> QED
    BY <1>6
<1> DEFINE Sums == {n \in 0..N : F[n] \in Nat}
<1>9. 0 \in Sums
  BY <1>1, <1>8
<1>10. \A n \in 1..N : n - 1 \in Sums => n \in Sums
  BY <1>1, <1>2, <1>8
<1> HIDE DEF Sums
<1>11. \A n \in 0..N : n \in Sums
  BY <1>1, <1>9, <1>10, Climb
<1> QED
  BY <1>1, <1>7, <1>11 DEF Sums

\* The shards of a set that is whole are its parts, one of each.
LEMMA PartsComplete ==
  ASSUME NEW shards, IsFiniteSet(shards), WholeSet(shards), NEW e \in shards,
         \A d \in shards : d.total \in Nat /\ d.part \in 1..d.total
  PROVE  {d.part : d \in shards} = 1..e.total /\ Cardinality(shards) = e.total
<1> DEFINE f == [d \in shards |-> d.part]
<1>1. \A d \in shards : d.total = e.total
  BY DEF WholeSet
<1>2. \A d, g \in shards : d.part = g.part => d = g
  BY DEF WholeSet
<1>3. Cardinality(shards) = e.total /\ e.total \in Nat
  BY DEF WholeSet
<1>4. f \in Injection(shards, 1..e.total)
  BY <1>1, <1>2 DEF Injection, IsInjective
<1>5. IsFiniteSet(1..e.total) /\ Cardinality(1..e.total) = e.total
  BY <1>3, FS_Interval
<1> HIDE DEF f
<1>6. f \in Surjection(shards, 1..e.total)
  BY <1>3, <1>4, <1>5, FS_Injection
<1>7. \A n \in 1..e.total : \E d \in shards : f[d] = n
  BY <1>6 DEF Surjection
<1> QED
  BY <1>1, <1>3, <1>7 DEF f

Usable(entries) == {e \in ModelEntries(entries) : ~e.aux}
Singles(entries) == {[quant |-> e.label, bytes |-> e.size] : e \in {e \in Usable(entries) : Single(e)}}
Stems(entries) == {e.stem : e \in {e \in Usable(entries) : ~Single(e)}}
SplitOf(shards) == [quant |-> (CHOOSE e \in shards : TRUE).group, bytes |-> Bytes(shards)]
Splits(entries) ==
    {SplitOf(Shards(Usable(entries), s)) : s \in {s \in Stems(entries) : WholeSet(Shards(Usable(entries), s))}}
Named(entries) == {o \in Singles(entries) \cup Splits(entries) : o.quant # ""}

\* The options are the least of each name.
LEMMA OptionsAre ==
  ASSUME NEW entries
  PROVE  CompleteModelOptions(entries) =
            {o \in Named(entries) : \A p \in Named(entries) : p.quant = o.quant => o.bytes <= p.bytes}
  BY DEF CompleteModelOptions, Named, Singles, Splits, SplitOf, Stems, Usable

\* Every option of a name, least or not, stands for files that are there.
LEMMA NamedWhole ==
  ASSUME NEW entries \in SUBSET Uploads, IsFiniteSet(entries), NEW o \in Named(entries)
  PROVE  o.bytes \in Nat /\ \E files \in SUBSET ModelEntries(entries) : StandsFor(o, files)
<1>1. Usable(entries) \subseteq ModelEntries(entries) /\ ModelEntries(entries) \subseteq entries
  BY DEF Usable, ModelEntries
<1>2. CASE o \in Singles(entries)
  <2>1. PICK e \in Usable(entries) : Single(e) /\ o = [quant |-> e.label, bytes |-> e.size]
    BY <1>2 DEF Singles
  <2>2. o.quant = e.label /\ o.bytes = e.size
    BY <2>1
  <2>3. e.size \in Nat
    BY <1>1, UploadsAssumption
  <2>4. {e} \in SUBSET ModelEntries(entries)
    BY <1>1
  <2>5. StandsFor(o, {e})
    BY <2>1, <2>2 DEF StandsFor
  <2> QED
    BY <2>2, <2>3, <2>4, <2>5
<1>3. CASE o \in Splits(entries)
  <2>1. PICK s \in Stems(entries) : /\ WholeSet(Shards(Usable(entries), s))
                                    /\ o = SplitOf(Shards(Usable(entries), s))
    BY <1>3 DEF Splits
  <2> DEFINE files == Shards(Usable(entries), s)
  <2>2. PICK e \in files : e = (CHOOSE d \in files : TRUE)
    <3>1. \E e \in files : TRUE
      BY DEF Stems, Shards
    <3> QED
      BY <3>1
  <2>3. files \subseteq ModelEntries(entries) /\ files \subseteq Uploads /\ files \subseteq entries
    BY <1>1 DEF Shards
  <2>4. \A d \in files : ~Single(d) /\ d.stem = s
    BY DEF Shards
  <2>5. WholeSet(files) /\ o = SplitOf(files)
    BY <2>1
  <2> HIDE DEF files
  <2>6. IsFiniteSet(files)
    BY <2>3, FS_Subset
  <2>7. o.quant = e.group /\ o.bytes = Bytes(files)
    BY <2>2, <2>5 DEF SplitOf
  <2>8. \A d \in files : d.total \in Nat /\ d.part \in 1..d.total /\ d.size \in Nat
    BY <2>3, <2>4, UploadsAssumption
  <2>9. \A d \in files : d.group = e.group /\ d.stem = e.stem
    BY <2>3, <2>4, UploadsAssumption
  <2>10. {d.part : d \in files} = 1..e.total /\ Cardinality(files) = e.total
    BY <2>5, <2>6, <2>8, PartsComplete
  <2>11. Bytes(files) \in Nat
    <3>1. ASSUME NEW n \in 1..Cardinality(files)
          PROVE  (CHOOSE d \in files : d.part = n).size \in Nat
      <4>1. \E d \in files : d.part = n
        BY <2>10
      <4>2. (CHOOSE d \in files : d.part = n) \in files
        BY <4>1
      <4> QED
        BY <2>8, <4>2
    <3> QED
      BY <2>6, <3>1, BytesType
  <2>12. StandsFor(o, files)
    BY <2>7, <2>9, <2>10 DEF StandsFor
  <2> QED
    BY <2>3, <2>7, <2>11, <2>12
<1> QED
  BY <1>2, <1>3 DEF Named

\* Listing and selecting agree on any finite set of entries.
LEMMA AgreesOnTree ==
  ASSUME tree \subseteq Uploads, IsFiniteSet(tree)
  PROVE  SelectionAgrees
<1> DEFINE Models == ModelEntries(tree)
<1>1. OptionsWhole
  <2> SUFFICES ASSUME NEW o \in CompleteModelOptions(tree)
               PROVE  \E files \in SUBSET ModelEntries(tree) : StandsFor(o, files)
    BY DEF OptionsWhole
  <2>1. o \in Named(tree)
    BY OptionsAre
  <2> QED
    BY <2>1, NamedWhole
<1>2. SearchAgrees
  <2> SUFFICES ASSUME NEW e \in SelectEntry(tree, "AUTO", Capacity)
               PROVE  \E o \in CompleteModelOptions(tree) :
                         o.quant = e.label /\ o.bytes <= e.size /\ IsSupported(o.bytes, Capacity)
    BY DEF SearchAgrees
  <2>1. /\ e \in Models /\ ~e.aux /\ Single(e) /\ e.label # "" /\ IsSupported(e.size, Capacity)
    BY DEF SelectEntry, SelectQuantEntry, AutoCandidates
  <2>2. e.size \in Nat
    BY <2>1, UploadsAssumption DEF ModelEntries
  <2> DEFINE own == [quant |-> e.label, bytes |-> e.size]
             sizes == {p.bytes : p \in {p \in Named(tree) : p.quant = e.label}}
  <2>3. own.quant = e.label /\ own.bytes = e.size
    OBVIOUS
  <2>4. own \in Named(tree)
    <3>1. own \in Singles(tree)
      BY <2>1 DEF Singles, Usable
    <3> QED
      BY <2>1, <2>3, <3>1 DEF Named
  <2> HIDE DEF own
  <2>5. e.size \in sizes
    BY <2>3, <2>4
  <2>6. sizes \in SUBSET Nat
    BY NamedWhole
  <2>7. PICK n \in sizes : \A m \in sizes : n <= m
    <3> HIDE DEF sizes
    <3> QED
      BY <2>5, <2>6, LeastNatural
  <2>8. PICK o \in Named(tree) : o.quant = e.label /\ o.bytes = n
    BY <2>7
  <2>9. \A p \in Named(tree) : p.quant = o.quant => o.bytes <= p.bytes
    BY <2>7, <2>8
  <2>10. o \in CompleteModelOptions(tree)
    BY <2>9, OptionsAre
  <2>11. o.bytes \in Nat /\ o.bytes <= e.size
    BY <2>5, <2>6, <2>7, <2>8
  <2>12. IsSupported(o.bytes, Capacity)
    <3>1. Capacity \in Nat
      BY DownloadsAssumption
    <3>2. e.size * 120 <= Capacity * 100
      BY <2>1 DEF IsSupported
    <3>3. o.bytes * 120 <= Capacity * 100
      BY ONLY <2>2, <2>11, <3>1, <3>2
    <3> QED
      BY <3>3 DEF IsSupported
  <2> QED
    BY <2>8, <2>10, <2>11, <2>12
<1> QED
  BY <1>1, <1>2 DEF SelectionAgrees

\* A repository lists finitely many entries.
TreeInv == tree \subseteq Uploads /\ IsFiniteSet(tree)

\* For any repository and any capacity: what `auto` takes is listed as supported,
\* and what is listed is there, whole and of the size it says.
THEOREM SelectionAgreesCorrect == Spec => []SelectionAgrees
<1>1. Init => TreeInv
  BY FS_EmptySet DEF Init, TreeInv
<1>2. TreeInv /\ [Next]_vars => TreeInv'
  <2> SUFFICES ASSUME TreeInv, [Next]_vars PROVE TreeInv'
    OBVIOUS
  <2>1. tree' = tree \/ tree' = {} \/ \E e \in Uploads : tree' = tree \cup {e}
    <3>1. ASSUME NEW p \in Pulls, Step(p) \/ Cut(p) \/ Kill(p) PROVE tree' = tree \/ tree' = {}
      BY <3>1 DEF Step, Cut, Kill, Choose, Begin, StartAria2, Aria2Fetches, Aria2Done, Aria2Fails,
                  StartNative, Ask, Open, Chunk, StreamEnds, Verify, RegisterGguf, RegisterVllm,
                  Refresh, Repeat, world
    <3> QED
      BY <3>1 DEF Next, Upload, Revise, Rescan, Load, Unload, world, vars
  <2>2. ASSUME NEW e \in Uploads PROVE IsFiniteSet(tree \cup {e}) /\ tree \cup {e} \subseteq Uploads
    BY <2>2, FS_AddElement DEF TreeInv
  <2> QED
    BY <2>1, <2>2, FS_EmptySet DEF TreeInv
<1>3. TreeInv => SelectionAgrees
  BY AgreesOnTree DEF TreeInv
<1> QED
  BY <1>1, <1>2, <1>3, PTL DEF Spec
=============================================================================
