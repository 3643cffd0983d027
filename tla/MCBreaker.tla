------------------------------ MODULE MCBreaker ------------------------------
(* One endpoint, two callers.  Breakers of different endpoints share no     *)
(* state.                                                                   *)
EXTENDS Breaker, TLC

CallerSymmetry == Permutations(Callers)
=============================================================================
