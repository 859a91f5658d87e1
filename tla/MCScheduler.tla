----------------------------- MODULE MCScheduler -----------------------------
(* Instance values for the scheduler's runs. *)
EXTENDS Scheduler, TLC

CONSTANTS a, b, c, h1, h2

TwoModels   == {a, b}
ThreeModels == {a, b, c}
OnlyB       == {b}
OneHandler  == {h1}
TwoHandlers == {h1, h2}

NoRegistry  == {}
DropOrKeepB == {{a}, {a, b}}

HandlerSymmetry == Permutations(Handler)

=============================================================================
