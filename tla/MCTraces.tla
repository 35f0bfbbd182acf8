------------------------------ MODULE MCTraces ------------------------------
(* Two runs: one of a conversation and one of its own. *)
EXTENDS TraceProperties

CONSTANTS s1, s2, k1

OneInChat == [s \in Sessions |-> IF s = s1 THEN k1 ELSE None]
TwoAndOne == [s \in Sessions |-> IF s = s1 THEN 2 ELSE 1]
=============================================================================
