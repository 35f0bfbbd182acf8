------------------------------ MODULE MCEffects ------------------------------
(* EffectProperties on small instances. *)
EXTENDS EffectProperties, TLC

Interchangeable ==
    Permutations(Executor) \cup Permutations(Slot) \cup Permutations(Digest)
=============================================================================
