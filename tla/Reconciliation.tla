----------------------------- MODULE Reconciliation -----------------------------
(***************************************************************************)
(* The terminal notifications of one payment and their reconciliation.       *)
(* Settlements are calls of PaymentSettlement that were begun while the       *)
(* payment was authorized, seen at their commit; reconcilers are processes    *)
(* whose reads each see what is committed when they are made.                 *)
(***************************************************************************)
EXTENDS Integers, FiniteSets

CONSTANTS Keys,            \* idempotency keys of settlements
          Reconcilers,     \* processes
          MaxSettlements,  \* bound: settlements that commit
          MaxFaults,       \* bound: overwritten transitions and lost notices
          MaxReconciliations

Recipients == {"payer", "payee"}
Final == [release |-> "completed", refund |-> "refunded"]

VARIABLES
    status,     \* payments.status: "authorized", "completed" or "refunded"
    by,         \* the action whose call made it terminal, or "none"
    completed,  \* keys of the completed transitions of each action
    events,     \* a2a_events of the payment's thread
    notices,    \* payment_notifications
    sent,       \* message ids given out
    reconciler, \* what each process has read
    verdicts,   \* payment_reconciliations
    settlements, losses, faults

reconciliationVars ==
    <<status, by, completed, events, notices, sent, reconciler, verdicts, settlements, losses, faults>>

Resting == [pc |-> "idle", repair |-> FALSE, seen |-> "authorized", events |-> {}, done |-> FALSE, notices |-> {}, losses |-> 0]

ReconciliationInit ==
    /\ status = "authorized" /\ by = "none"
    /\ completed = [a \in DOMAIN Final |-> {}]
    /\ events = {} /\ notices = {} /\ sent = 0
    /\ reconciler = [r \in Reconcilers |-> Resting]
    /\ verdicts = {}
    /\ settlements = 0 /\ losses = 0 /\ faults = 0

-----------------------------------------------------------------------------
(* Settlements *)

\* emit_terminal_payment_notifications: a message of its own for each recipient.
Messages(action) ==
    {[id |-> sent + 1, type |-> action, to |-> "payer"], [id |-> sent + 2, type |-> action, to |-> "payee"]}

\* _store_payment_notification: a message has one row, which a second delivery replaces.
Stored(messages) == {n \in notices : \A m \in messages : n.id # m.id} \cup messages

\* The commit of a release or refund, with the status that the escrow read back maps to:
\* unchanged while it waits for approvals; and the escrow, not the action, decides.
Settle ==
    /\ settlements < MaxSettlements /\ settlements' = settlements + 1
    /\ \E action \in DOMAIN Final, key \in Keys :
         /\ events' = events \cup Messages(action) /\ notices' = Stored(Messages(action))
         /\ completed' = [completed EXCEPT ![action] = @ \cup {key}]
         /\ \/ UNCHANGED <<status, by>>
            \/ status = "authorized" /\ status' \in {"completed", "refunded"} /\ by' = action
    /\ sent' = sent + 2
    /\ UNCHANGED <<reconciler, verdicts, losses, faults>>

\* A call with the same key fails later and overwrites the completed transition.
LateFailure ==
    /\ faults < MaxFaults /\ faults' = faults + 1
    /\ \E action \in DOMAIN Final : \E key \in completed[action] :
         completed' = [completed EXCEPT ![action] = @ \ {key}]
    /\ UNCHANGED <<status, by, events, notices, sent, reconciler, verdicts, settlements, losses>>

\* A notification is lost: the case the repair is for.
LoseNotice ==
    /\ faults < MaxFaults /\ faults' = faults + 1 /\ losses' = losses + 1
    /\ \E n \in notices : notices' = notices \ {n}
    /\ UNCHANGED <<status, by, completed, events, sent, reconciler, verdicts, settlements>>

-----------------------------------------------------------------------------
(* reconcile_payment, a step per read *)

Reads(r, from, state) == reconciler[r].pc = from /\ reconciler' = [reconciler EXCEPT ![r] = state]
UnchangedTables == UNCHANGED <<status, by, completed, events, notices, sent, verdicts, settlements, losses, faults>>

ReadPayment(r) ==
    /\ \E repair \in BOOLEAN : Reads(r, "idle", [Resting EXCEPT !.pc = "events", !.repair = repair, !.seen = status])
    /\ Cardinality(verdicts) < MaxReconciliations
    /\ UnchangedTables

ReadEvents(r) ==
    /\ Reads(r, "events", [reconciler[r] EXCEPT !.pc = "transitions", !.events = events])
    /\ UnchangedTables

\* The action that settles a payment of the status that was read
Expected(seen) == {a \in DOMAIN Final : Final[a] = seen}

ReadTransitions(r) ==
    /\ Reads(r, "transitions", [reconciler[r] EXCEPT
                !.pc = "notices", !.done = \A a \in Expected(reconciler[r].seen) : completed[a] # {}])
    /\ UnchangedTables

ReadNotices(r) ==
    /\ Reads(r, "notices", [reconciler[r] EXCEPT !.pc = "commit", !.notices = notices, !.losses = losses])
    /\ UnchangedTables

\* Mutant: any notification of the recipient is taken for the final one.
NotifiedAnyhow(stored, action, to) == \E n \in stored : n.to = to

\* existing_by_recipient has this key
Notified(stored, action, to) == \E n \in stored : n.type = action /\ n.to = to

\* The events a notification of this type for this recipient is rebuilt from
Rebuildable(stored, action, to) == {e \in stored : e.type = action /\ e.to = to}

\* _rebuild_notification_from_event takes the earliest.
Earliest(stored) == CHOOSE e \in stored : \A f \in stored : e.id <= f.id

Verdict(issues, repaired) ==
    CASE issues > 0 /\ repaired > 0 -> "manual_review"
      [] issues > 0 /\ repaired = 0 -> "mismatch"
      [] issues = 0 /\ repaired > 0 -> "repaired"
      [] issues = 0 /\ repaired = 0 -> "matched"

\* Two processes that rebuild from the same event: the second rolls back.
ReconcileCommit(r) ==
    LET k == reconciler[r]
        missing == {m \in [type : Expected(k.seen), to : Recipients] : ~Notified(k.notices, m.type, m.to)}
        repairable == {m \in missing : k.repair /\ Rebuildable(k.events, m.type, m.to) # {}}
        rebuilt == {Earliest(Rebuildable(k.events, m.type, m.to)) : m \in repairable}
        early == Expected(k.seen) = {} /\ k.notices # {}
        issues == Cardinality(missing \ repairable) + (IF k.done THEN 0 ELSE 1) + (IF early THEN 1 ELSE 0) IN
    /\ Reads(r, "commit", Resting)
    /\ IF \E e \in rebuilt, n \in notices : e.id = n.id THEN UNCHANGED <<notices, verdicts>>
       ELSE /\ notices' = notices \cup rebuilt
            /\ verdicts' = verdicts \cup
                 {[number |-> Cardinality(verdicts) + 1, expected |-> Expected(k.seen), repair |-> k.repair,
                   verdict |-> Verdict(issues, Cardinality(rebuilt)), missing |-> missing \ repairable,
                   losses |-> k.losses]}
    /\ UNCHANGED <<status, by, completed, events, sent, settlements, losses, faults>>

ReconciliationNext ==
    \/ Settle \/ LateFailure \/ LoseNotice
    \/ \E r \in Reconcilers :
         ReadPayment(r) \/ ReadEvents(r) \/ ReadTransitions(r) \/ ReadNotices(r) \/ ReconcileCommit(r)

ReconciliationSpec == ReconciliationInit /\ [][ReconciliationNext]_reconciliationVars

-----------------------------------------------------------------------------
(* Properties *)

\* Although a reconciler reads the status, the events and the notifications at different
\* times, and another may repair or a call settle meanwhile: a settled payment it calls
\* matched or repaired has the final notification of both recipients, and one that it may
\* repair it reports incomplete only if a call for the other action settled the payment.
ReconciliationIsTrue ==
    \A v \in verdicts :
        /\ v.verdict \in {"matched", "repaired"} /\ v.losses = losses =>
             \A a \in v.expected, p \in Recipients : \E n \in notices : n.type = a /\ n.to = p
        /\ v.repair /\ v.missing # {} => by \notin v.expected
=============================================================================
