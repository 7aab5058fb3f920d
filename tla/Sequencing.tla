------------------------------ MODULE Sequencing ------------------------------
(* Op of x, where TLC is to evaluate x before and not within Op: the deep   *)
(* compositions of the compiler's passes are evaluated step by step.        *)
Then(x, Op(_)) == CHOOSE y \in {Op(v) : v \in {x}} : TRUE
=============================================================================
