---------------------------- MODULE AccountLock ----------------------------
(***************************************************************************)
(* The account lock and the connection pool.                               *)
(* withProviderAccountSerialization takes the advisory lock of a Mengantar *)
(* account on a connection of its own and keeps that connection while it   *)
(* waits and while it holds the lock.  The work inside opens transactions  *)
(* on the same pool (lockPool is dbPool).  The pool gives connections in   *)
(* the order of asking and waits without a timeout.                        *)
(*                                                                         *)
(* A request claims in one transaction, rechecks its claim under the lock, *)
(* talks to Mengantar, and records in another transaction: after the lock  *)
(* (submissions and payments), or still under it (cancellations).  The     *)
(* further orders of a batch repeat this from the lock on and hold nothing *)
(* in between.                                                             *)
(***************************************************************************)
EXTENDS Naturals, FiniteSets

CONSTANTS
    Requests,  \* requests that need the lock of an account
    AccountOf, \* the account of each
    Cancels,   \* those that cancel
    PoolSize   \* connections of the pool: 10, the default of pg

ASSUME PoolAssumption ==
    /\ IsFiniteSet(Requests)
    /\ Cancels \subseteq Requests
    /\ PoolSize \in Nat \ {0}

VARIABLE stage \* where each request is

\* Stages in which a request asks the pool for a connection, and the stage it
\* reaches with it.
Granted == [entering |-> "claiming", connecting |-> "waiting", locked |-> "rechecking",
            keeping |-> "storing", leaving |-> "recording"]

\* Stages inside the lock.
Inside == {"locked", "rechecking", "sending", "keeping", "storing"}

\* Stages of a running transaction.
InTransaction == {"claiming", "rechecking", "storing", "recording"}

\* Stages that hold the connection of the lock.
OnLockConnection == Inside \cup {"waiting"}

Stages == {"idle", "entering", "connecting", "leaving"} \cup InTransaction \cup OnLockConnection

\* Mutant of Used: the claim's transaction stays open as long as the lock is needed.
UsedHoldingClaim ==
    Cardinality({r \in Requests : stage[r] \in InTransaction})
      + 2 * Cardinality({r \in Requests : stage[r] \in OnLockConnection})

\* Connections in use.
Used == Cardinality({r \in Requests : stage[r] \in InTransaction})
          + Cardinality({r \in Requests : stage[r] \in OnLockConnection})

TypeOK ==
    /\ stage \in [Requests -> Stages]
    /\ \A r \in Requests : stage[r] \in {"keeping", "storing"} => r \in Cancels

Init == stage = [r \in Requests |-> "idle"]

Goes(r, next) == stage' = [stage EXCEPT ![r] = next]

Begin(r) == stage[r] = "idle" /\ Goes(r, "entering")

\* pool.connect, by a transaction or for the lock.
Connect(r) ==
    /\ stage[r] \in DOMAIN Granted
    /\ Used < PoolSize
    /\ Goes(r, Granted[stage[r]])

\* The claim commits, or finds nothing to claim.
EndClaim(r) ==
    /\ stage[r] = "claiming"
    /\ Goes(r, "connecting") \/ Goes(r, "idle")

\* pg_advisory_lock
Lock(r) ==
    /\ stage[r] = "waiting"
    /\ \A q \in Requests \ {r} : AccountOf[q] = AccountOf[r] => stage[q] \notin Inside
    /\ Goes(r, "locked")

\* Where a request goes when the work under the lock ends: the finally block
\* unlocks and releases the connection; a submission or payment then records.
Afterwards(r) == IF r \in Cancels THEN "idle" ELSE "leaving"

\* The claim is still ours, or not, or the transaction failed.
EndRecheck(r) ==
    /\ stage[r] = "rechecking"
    /\ Goes(r, "sending") \/ Goes(r, Afterwards(r))

\* Mutant of Answer: every request records under the lock.
AnswerKeeping(r) ==
    /\ stage[r] = "sending"
    /\ Goes(r, "keeping") \/ Goes(r, Afterwards(r))

\* Mengantar answered or the HTTP client timed out; a confirmed deletion is
\* recorded under the lock.
Answer(r) ==
    /\ stage[r] = "sending"
    /\ \/ r \in Cancels /\ Goes(r, "keeping")
       \/ Goes(r, Afterwards(r))

\* Mutant of EndStore: the attempts to record are not bounded.
EndStoreUnbounded(r) == stage[r] = "storing" /\ (Goes(r, "idle") \/ Goes(r, "keeping"))

\* The deletion is recorded, or its last attempt failed; the RECORD_ATTEMPTS
\* attempts are taken as one.
EndStore(r) == stage[r] = "storing" /\ Goes(r, "idle")

EndRecord(r) == stage[r] = "recording" /\ Goes(r, "idle")

\* The process restarts: every connection is closed.
Restart ==
    /\ \E r \in Requests : stage[r] # "idle"
    /\ stage' = [r \in Requests |-> "idle"]

Proceeds(r) == EndClaim(r) \/ EndRecheck(r) \/ Answer(r) \/ EndStore(r) \/ EndRecord(r)

Next ==
    \/ \E r \in Requests : Begin(r) \/ Connect(r) \/ Lock(r) \/ Proceeds(r)
    \/ Restart

Spec == Init /\ [][Next]_stage

\* The pool serves in the order of asking, and PostgreSQL grants the lock so; a
\* transaction ends, and so does an HTTP call.
Fairness ==
    \A r \in Requests : SF_stage(Connect(r)) /\ SF_stage(Lock(r)) /\ WF_stage(Proceeds(r))

FairSpec == Spec /\ Fairness

-----------------------------------------------------------------------------
\* The holder of an account lock gets the connection its work needs: one is free
\* or belongs to a transaction that needs nothing more.  Waiters can never fill
\* the pool against the one they wait for.
HolderServed ==
    \A r \in Requests : stage[r] \in {"locked", "keeping"} =>
        \/ Used < PoolSize
        \/ \E q \in Requests : stage[q] \in InTransaction

\* "Batches ... serialize per derived Mengantar account key; unrelated accounts
\* may proceed independently" (the screening matrix): every request ends.
RequestsProceed == \A r \in Requests : stage[r] # "idle" ~> stage[r] = "idle"
=============================================================================
