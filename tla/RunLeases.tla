------------------------------ MODULE RunLeases ------------------------------
(***************************************************************************)
(* The run_leases table of one durable run (durable/lease.py) and the      *)
(* transactions LeaseManager runs on it.  Every method opens one BEGIN     *)
(* IMMEDIATE transaction, so a method is one atomic step; the clock,       *)
(* however, is read BEFORE the transaction starts, so each transaction     *)
(* takes the time it works with as the parameter now, which may lie behind *)
(* clock by the time it commits.                                           *)
(*                                                                         *)
(* A lease token is a fresh uuid4; here it is the row's position in        *)
(* leases, which is as fresh and, unlike a uuid, orders the rows by age.   *)
(* No statement of lease.py relates two runs, so one run is enough.        *)
(***************************************************************************)
EXTENDS Integers, Sequences

CONSTANTS
    Owner,  \* the owner_ids that callers pass
    Ttl     \* lease_ttl, in ticks of the clock

ASSUME TtlAssumption == Ttl \in Nat \ {0}

VARIABLES
    clock,   \* the UTC clock every manager reads
    leases   \* the rows of run_leases for this run, oldest first

NoToken == 0

ReleaseReason == {"none", "explicit_release", "expired_takeover"}

LeaseRow == [owner       : Owner,
             expires     : Nat,
             reason      : ReleaseReason,   \* "none" while released_at IS NULL
             predecessor : Nat]             \* NoToken, or the token taken over

Token == DOMAIN leases

\* _active_lease_row: the rows with released_at IS NULL.
ActiveTokens == {t \in Token : leases[t].reason = "none"}

\* Mutations: a ttl subtracted, and a successor that does not name the row it
\* replaces.
GrantedRowBackdated(o, now, pred) ==
    [owner |-> o, expires |-> now - Ttl, reason |-> "none", predecessor |-> pred]
GrantedRowUnlinked(o, now, pred) ==
    [owner |-> o, expires |-> now + Ttl, reason |-> "none", predecessor |-> NoToken]

\* A lease granted at time now, replacing the row pred.
GrantedRow(o, now, pred) ==
    [owner |-> o, expires |-> now + Ttl, reason |-> "none", predecessor |-> pred]

-----------------------------------------------------------------------------
(* LeaseManager's transactions.  Each is the committing path; the test that *)
(* raises instead is its Can... predicate.                                  *)

\* Mutation: the active row is not looked for.
CanAcquireAlways == TRUE

CanAcquire == ActiveTokens = {}

AcquireLease(o, now) ==
    /\ CanAcquire
    /\ leases' = Append(leases, GrantedRow(o, now, NoToken))

\* The active row must be the caller's own, and not yet expired at now.
CanRenew(t, o, now) ==
    /\ t \in ActiveTokens
    /\ leases[t].owner = o
    /\ leases[t].expires > now

RenewLease(t, o, now) ==
    /\ CanRenew(t, o, now)
    /\ leases' = [leases EXCEPT ![t].expires = now + Ttl]

\* Releasing does not ask whether the lease has expired, only that it is the
\* caller's and that nobody released it before.
CanRelease(t, o) ==
    /\ t \in ActiveTokens
    /\ leases[t].owner = o

ReleaseLease(t, o) ==
    /\ CanRelease(t, o)
    /\ leases' = [leases EXCEPT ![t].reason = "explicit_release"]

\* Mutation: a live lease is taken as well.
CanTakeOverAnytime(t, now) == t \in ActiveTokens

CanTakeOver(t, now) ==
    /\ t \in ActiveTokens
    /\ leases[t].expires <= now

\* One transaction releases the expired row and grants its successor.
TakeOverLease(t, o, now) ==
    /\ CanTakeOver(t, now)
    /\ leases' = Append([leases EXCEPT ![t].reason = "expired_takeover"],
                        GrantedRow(o, now, t))

\* _assert_lease_write of durable/repository.py: the test every leased write
\* makes inside its own transaction, against the time its caller read.
LeaseWritable(t, o, checkedAt) ==
    /\ t \in ActiveTokens
    /\ leases[t].owner = o
    /\ leases[t].expires > checkedAt
=============================================================================
