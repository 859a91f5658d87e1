----------------------------- MODULE MCDownloads -----------------------------
(* An instance of Downloads for TLC: two GGUF commands on one file, or one  *)
(* vLLM command on two files; the second revision of the weights is a block *)
(* longer than the first, that of the other files as long.                 *)
EXTENDS Downloads

CONSTANTS p1, p2

MCScenarios == {p1 :> "gguf" @@ p2 :> "gguf", p1 :> "vllm" @@ p2 :> "none"}
MCSize == [f \in Files |-> IF f = "gguf" THEN <<2, 2>> ELSE IF f = "weights" THEN <<2, 3>> ELSE <<1, 1>>]

File1(stem, label, size) ==
    [stem |-> stem, label |-> label, group |-> "", part |-> 0, total |-> 0,
     side |-> FALSE, aux |-> FALSE, draft |-> FALSE, size |-> size]
Shard(stem, group, part, total, size) ==
    [File1(stem, "Q8_0", size) EXCEPT !.group = group, !.part = part, !.total = total]

MCUploads ==
    {File1("a", "Q4_K_M", 2), File1("b", "Q4_K_M", 3), File1("c", "Q8_0", 5), File1("d", "", 1),
     File1("e", "Q4_0", 4),
     Shard("s", "Q8_0", 1, 2, 2), Shard("s", "Q8_0", 2, 2, 1), Shard("s", "Q8_0", 2, 2, 2),
     Shard("s", "Q8_0", 3, 3, 1), Shard("v2.5", "", 1, 1, 3),
     [File1("g", "Q4_K_M", 1) EXCEPT !.aux = TRUE], [File1("h", "F16", 1) EXCEPT !.side = TRUE],
     [File1("i", "Q8_0", 2) EXCEPT !.draft = TRUE]}
MCSelectors == {"", "AUTO", "K_M", "Q4", "Q8_0"}
=============================================================================
