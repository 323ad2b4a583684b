---------------------------- MODULE EventLedger ----------------------------
(***************************************************************************)
(* What the event queue promises its producers, with no workers, cursor or *)
(* counters in it: an accepted event waits, is handed out, and is taken    *)
(* off the books only once it has been processed or dead-lettered.  An     *)
(* event may be handed out again (replayed) at any time.                   *)
(*                                                                         *)
(* WorkerPoolLedger shows that WorkerPool implements it.                   *)
(***************************************************************************)
CONSTANT Events

VARIABLES
    waiting,       \* accepted, to be handed out
    handed,        \* handed out at least once
    outstanding,   \* handed out and not taken off the books since
    processed,     \* run to a normal return
    deadLettered   \* copied to the dead-letter queue

ledger == <<waiting, handed, outstanding, processed, deadLettered>>

Init ==
    /\ waiting = {}
    /\ handed = {}
    /\ outstanding = {}
    /\ processed = {}
    /\ deadLettered = {}

Accept(e) ==
    /\ e \notin waiting \union handed
    /\ waiting' = waiting \union {e}
    /\ UNCHANGED <<handed, outstanding, processed, deadLettered>>

HandOut(e) ==
    /\ e \in waiting
    /\ waiting' = waiting \ {e}
    /\ handed' = handed \union {e}
    /\ outstanding' = outstanding \union {e}
    /\ UNCHANGED <<processed, deadLettered>>

Process(e) ==
    /\ e \in handed
    /\ processed' = processed \union {e}
    /\ UNCHANGED <<waiting, handed, outstanding, deadLettered>>

DeadLetter(e) ==
    /\ e \in handed
    /\ deadLettered' = deadLettered \union {e}
    /\ UNCHANGED <<waiting, handed, outstanding, processed>>

Settle(e) ==
    /\ e \in processed \union deadLettered
    /\ outstanding' = outstanding \ {e}
    /\ UNCHANGED <<waiting, handed, processed, deadLettered>>

Replay(S) ==
    /\ S \subseteq handed
    /\ waiting' = waiting \union S
    /\ UNCHANGED <<handed, outstanding, processed, deadLettered>>

Next ==
    \/ \E e \in Events : \/ Accept(e)
                         \/ HandOut(e)
                         \/ Process(e)
                         \/ DeadLetter(e)
                         \/ Settle(e)
    \/ \E S \in SUBSET handed : Replay(S)

Spec == Init /\ [][Next]_ledger

=============================================================================
