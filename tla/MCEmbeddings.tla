---------------------------- MODULE MCEmbeddings ----------------------------
(* An instance of Embeddings for TLC: a floor of 2 tokens stands for 2048, *)
(* a large plan for one that fits twice as much, and texts of one to three  *)
(* tokens for those below and above it.                                    *)
EXTENDS Embeddings

MCPins == [batch |-> 2, ubatch |-> 3]
Small == [batch |-> 2, ubatch |-> 2]
Large == [batch |-> 4, ubatch |-> 4]
MCPlans == [m \in Models |-> IF m = Embedder THEN {Small, Large} ELSE {Small}]
MCInputs == {<<4, 8, 3>>, <<9, 2>>}
MCRankings == {[scores |-> <<>>, topN |-> 0], [scores |-> <<1, 3, 2>>, topN |-> 2]}
=============================================================================
