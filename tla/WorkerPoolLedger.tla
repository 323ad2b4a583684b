-------------------------- MODULE WorkerPoolLedger --------------------------
(***************************************************************************)
(* WorkerPool implements EventLedger.                                      *)
(***************************************************************************)
EXTENDS WorkerPool

\* The entries ahead of the cursor wait; those a worker was ever given were
\* handed out; the Pending Entries List holds the outstanding ones.
Waiting      == {m \in 1..published : m > cursor}
Handed       == {m \in Msgs : deliveries[m] > 0}
DeadLettered == {m \in Msgs : dlq[m] > 0}

Ledger == INSTANCE EventLedger WITH
    Events       <- Msgs,
    waiting      <- Waiting,
    handed       <- Handed,
    outstanding  <- pending,
    processed    <- returned,
    deadLettered <- DeadLettered

\* The pool keeps the queue's promise: each of its steps, the failing and
\* crashing ones included, is one step of the ledger or changes nothing in
\* it; in particular nothing leaves the PEL (XACK) that has not been run or
\* dead-lettered before (consumer.py:62-63 and 79-80).
ImplementsLedger == Ledger!Spec

=============================================================================
