------------------------------- MODULE RunLog -------------------------------
(***************************************************************************)
(* What a durable run promises to those who never see leases, versions or  *)
(* processes: one log, in which each entry continues the entry before it,  *)
(* written by what looks like a single writer; a failed run is reopened    *)
(* only by a new attempt; a finished or cancelled run is closed for good.  *)
(***************************************************************************)
EXTENDS Naturals, Sequences

VARIABLES
    phase,  \* "waiting", "running", "failed", "completed", "cancelled"
    log     \* entries [continues, attempt]

vars == <<phase, log>>

Entry(n) == [continues |-> Len(log), attempt |-> n]

CurrentAttempt == log[Len(log)].attempt

Init ==
    /\ phase \in {"waiting", "running", "failed"}
    /\ log = <<[continues |-> 0, attempt |-> 1]>>

Begin  == phase = "waiting" /\ phase' = "running" /\ UNCHANGED log

Extend ==
    /\ phase = "running"
    /\ log' = Append(log, Entry(CurrentAttempt))
    /\ UNCHANGED phase

Settle ==
    /\ phase = "running"
    /\ phase' \in {"completed", "failed"}
    /\ UNCHANGED log

Reopen ==
    /\ phase = "failed"
    /\ phase' = "running"
    /\ log' = Append(log, Entry(CurrentAttempt + 1))

Cancel ==
    /\ phase \in {"waiting", "running"}
    /\ phase' = "cancelled"
    /\ UNCHANGED log

Next == Begin \/ Extend \/ Settle \/ Reopen \/ Cancel

Spec == Init /\ [][Next]_vars
=============================================================================
