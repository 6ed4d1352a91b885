------------------------------ MODULE Settlement ------------------------------
(***************************************************************************)
(* What the payment actions promise, without callers, keys, transactions or *)
(* failures: a payment is proposed once, for one task; the escrow of a task *)
(* is funded once and settled once, one way; and what the payment's record  *)
(* says of a settlement is what its escrow did.  PaymentSettlement is shown *)
(* to implement it.                                                         *)
(***************************************************************************)
CONSTANTS Payments, Tasks, NoTask

VARIABLES of,     \* the task a payment was proposed for, or NoTask
          record, \* the recorded status of a payment
          held    \* the escrow of a task

deal == <<of, record, held>>

Init ==
    /\ of = [p \in Payments |-> NoTask]
    /\ record = [p \in Payments |-> "pending"]
    /\ held = [t \in Tasks |-> "none"]

Propose(p, t) ==
    /\ of[p] = NoTask
    /\ of' = [of EXCEPT ![p] = t]
    /\ UNCHANGED <<record, held>>

Fund(t) ==
    /\ held[t] = "none"
    /\ held' = [held EXCEPT ![t] = "funded"]
    /\ UNCHANGED <<of, record>>

Settle(t, outcome) ==
    /\ held[t] = "funded" /\ outcome \in {"released", "refunded"}
    /\ held' = [held EXCEPT ![t] = outcome]
    /\ UNCHANGED <<of, record>>

\* The record may lag behind the escrow, or doubt it, but not run ahead of it.
Truthful(p, s) == \/ s \in {"authorized", "failed"}
                  \/ s = "completed" /\ held[of[p]] = "released"
                  \/ s = "refunded" /\ held[of[p]] = "refunded"

Note(p, s) ==
    /\ of[p] # NoTask /\ Truthful(p, s)
    /\ record' = [record EXCEPT ![p] = s]
    /\ UNCHANGED <<of, held>>

Next ==
    \/ \E p \in Payments : (\E t \in Tasks : Propose(p, t))
                             \/ \E s \in {"authorized", "failed", "completed", "refunded"} : Note(p, s)
    \/ \E t \in Tasks : Fund(t) \/ \E o \in {"released", "refunded"} : Settle(t, o)

Spec == Init /\ [][Next]_deal
=============================================================================
