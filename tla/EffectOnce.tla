----------------------------- MODULE EffectOnce -----------------------------
(***************************************************************************)
(* What the side-effect ledger promises about one tool call: the tool acts *)
(* on the world at most once, and everyone who gets an answer gets the one *)
(* answer of that one run.  An effect may be lost: then nobody ever gets   *)
(* an answer, for the tool may have acted or may still act.                *)
(***************************************************************************)
EXTENDS Naturals

VARIABLES
    stage,     \* "open", "claimed", "succeeded", "failed", "lost"
    performed, \* how often the tool acted
    answers    \* the answers given out so far

vars == <<stage, performed, answers>>

Init == stage = "open" /\ performed = 0 /\ answers = {}

Claim ==
    /\ stage = "open"
    /\ stage' = "claimed"
    /\ UNCHANGED <<performed, answers>>

Perform ==
    /\ stage \in {"claimed", "lost"}
    /\ performed = 0
    /\ performed' = 1
    /\ UNCHANGED <<stage, answers>>

\* The outcome is settled for good before anyone hears of it.
Settle ==
    /\ stage = "claimed"
    /\ performed = 1
    /\ stage' \in {"succeeded", "failed"}
    /\ UNCHANGED <<performed, answers>>

Lose ==
    /\ stage = "claimed"
    /\ stage' = "lost"
    /\ UNCHANGED <<performed, answers>>

Reply ==
    /\ \/ stage = "succeeded" /\ answers' = {"success"}
       \/ stage = "failed"    /\ answers' = {"failure"}
    /\ UNCHANGED <<stage, performed>>

Next == Claim \/ Perform \/ Settle \/ Lose \/ Reply

Spec == Init /\ [][Next]_vars
=============================================================================
