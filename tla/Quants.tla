------------------------------- MODULE Quants -------------------------------
(***************************************************************************)
(* Which file of a repository a quantization names, in `models search`     *)
(* (complete_model_options) and in `models pull --quant`                   *)
(* (select_quant_entry), both in src/src/config/models_cmd.rs.             *)
(*                                                                         *)
(* A tree entry is what those functions read of a path:                    *)
(*   stem    the path without its shard suffix                             *)
(*   label   extract_quant of the path, "" when it finds none              *)
(*   group   extract_quant of the stem of a shard: file_stem() cuts a      *)
(*           stem at its last dot, so a dotted name loses its label        *)
(*   part, total   the shard indices, 0 and 0 for a single file            *)
(*   side    a projector, adapter or vocabulary (is_model_gguf is FALSE)   *)
(*   aux     an MTP or DSpark part (is_auxiliary_model_file)               *)
(*   draft   a drafter or speculator token (contains_auxiliary_token)      *)
(*   size    its bytes                                                     *)
(* A repository whose own name has a draft token refuses `auto` outright,   *)
(* as one does whose every entry is a draft.                               *)
(***************************************************************************)
EXTENDS Integers, Sequences, FiniteSets, SequencesExt

Refused == "refused"

Single(e) == e.total = 0

\* Four fifths of the capacity are for weights.
IsSupported(size, capacity) == size * 120 <= capacity * 100

ModelEntries(tree) == {e \in tree : ~e.side}

Shards(tree, stem) == {e \in tree : ~Single(e) /\ e.stem = stem}

\* A set of shards: one total, each part once, every part present.
WholeSet(shards) ==
    /\ \A e, d \in shards : e.total = d.total /\ (e.part = d.part => e = d)
    /\ \A e \in shards : Cardinality(shards) = e.total

\* The sizes are added in the order of the parts.
Bytes(shards) ==
    LET sum[n \in 0..Cardinality(shards)] ==
            IF n = 0 THEN 0 ELSE sum[n - 1] + (CHOOSE e \in shards : e.part = n).size
    IN  sum[Cardinality(shards)]

CompleteModelOptions(tree) ==
    LET usable  == {e \in ModelEntries(tree) : ~e.aux}
        singles == {[quant |-> e.label, bytes |-> e.size] : e \in {e \in usable : Single(e)}}
        stems   == {e.stem : e \in {e \in usable : ~Single(e)}}
        splits  == {[quant |-> (CHOOSE e \in Shards(usable, s) : TRUE).group,
                     bytes |-> Bytes(Shards(usable, s))] :
                        s \in {s \in stems : WholeSet(Shards(usable, s))}}
        named   == {o \in singles \cup splits : o.quant # ""}
    IN  {o \in named : \A p \in named : p.quant = o.quant => o.bytes <= p.bytes}

\* The labels a family name prefers; a family of any other digit is alike.
Preferences ==
    [Q4 |-> <<"Q4_K_M", "Q4_K_S", "Q4_0", "Q4_1">>,
     Q8 |-> <<"Q8_K_M", "Q8_K_S", "Q8_0", "Q8_1">>]

\* The label a selector stands for, Refused when a family has none.
Target(tree, selector) ==
    IF selector = "K_M" THEN "Q4_K_M"
    ELSE IF selector \in DOMAIN Preferences
         THEN LET offered == SelectSeq(Preferences[selector],
                                       LAMBDA l : \E e \in tree : e.label = l)
              IN  IF offered = <<>> THEN Refused ELSE Head(offered)
         ELSE selector

\* Mutant: `auto` may take one shard of a split model.
AutoCandidatesSharded(tree, capacity) ==
    {e \in tree : ~e.aux /\ ~e.draft /\ e.label # "" /\ IsSupported(e.size, capacity)}

AutoCandidates(tree, capacity) ==
    {e \in tree : ~e.aux /\ ~e.draft /\ Single(e) /\ e.label # "" /\ IsSupported(e.size, capacity)}

\* The entries select_quant_entry may return: several of one size leave the
\* order of the tree to decide, none means an error.
SelectQuantEntry(tree, selector, capacity) ==
    IF selector = "AUTO"
    THEN {e \in AutoCandidates(tree, capacity) :
             \A d \in AutoCandidates(tree, capacity) : d.size <= e.size}
    ELSE LET matches == {e \in tree : e.label = Target(tree, selector)}
         IN  IF Cardinality(matches) = 1 THEN matches ELSE {}

\* `models pull` without --quant takes the only model file there is.
SelectEntry(tree, selector, capacity) ==
    LET models == ModelEntries(tree)
    IN  IF selector = ""
        THEN IF Cardinality(models) = 1 THEN models ELSE {}
        ELSE SelectQuantEntry(models, selector, capacity)
=============================================================================
