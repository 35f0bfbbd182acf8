------------------------------- MODULE MCChat -------------------------------
(* Small instances of the chat, for TLC. *)
EXTENDS ChatProperties

CONSTANTS c1, c2, c3, c4, c5

(* Each conversation has its own bounds.  In the first three the user      *)
(* stays: two runs without tools and two requests at once; one run with a  *)
(* tool call and one request at a time; the same with a fault.  Between    *)
(* the last two the user turns: one run without tools and two requests at  *)
(* once in c4, and nothing to do in c5.                                    *)
RunsOf == [c \in Conversations |->
             CASE c = c1 -> 2 [] c \in {c2, c3, c4} -> 1 [] c = c5 -> 0]
ToolsOf == [c \in Conversations |->
              CASE c = c2 -> {"failed"} [] c = c3 -> {"completed"} [] OTHER -> {}]
RequestsOf == [c \in Conversations |-> IF c \in {c1, c4} THEN 2 ELSE 1]
FaultsOf == [c \in Conversations |-> IF c = c3 THEN 1 ELSE 0]

(* The gap at start-up: two requests at once. *)
TwoAtOnce == [c \in Conversations |-> 2]
=============================================================================
