--------------------------- MODULE PaymentSettlement ---------------------------
(***************************************************************************)
(* Escrowed payments: the proposal, authorize, release and refund actions  *)
(* (agents/negotiator/tools/payment_tools.py and                           *)
(* agents/verifier/tools/payment_tools.py), the idempotency wrapper they   *)
(* run under (shared/payments/service.py), the x402 client that turns them *)
(* into contract calls (shared/protocols/x402.py), and the TaskEscrow      *)
(* contract as that client uses it.                                        *)
(*                                                                         *)
(* Callers are the processes and coroutines that can have a payment call   *)
(* in flight: the API process and the verifier and negotiator A2A servers, *)
(* which share the database.  A caller loses control only at an await, and *)
(* every await of these calls is on the chain, so a step here is the code  *)
(* between two awaits.                                                     *)
(***************************************************************************)
EXTENDS Integers, FiniteSets

CONSTANTS Payments,          \* payment ids that may be generated
          Tasks,             \* task ids; the escrow on chain is keyed by them
          Keys,              \* the run:node:attempt or task:todo:attempt part of an idempotency key
          Callers,           \* calls that may be in flight at once
          Requests,          \* the calls issued: a subset of Request
          Offline,           \* PAYMENT_MODE = offline
          ApprovalsRequired, \* TASK_ESCROW_DEFAULT_APPROVALS
          MaxCalls           \* bound: calls begun in a behaviour

NoTask == "no task"
NoPayment == "no payment"
NoKey == "no key"

Statuses == {"pending", "authorized", "completed", "failed", "refunded"}
Actions == {"proposal", "authorize", "release", "refund"}
EscrowStates == {"none", "funded", "released", "refunded"}

Request == [action : {"proposal"}, task : Tasks, key : Keys]
             \cup [action : Actions \ {"proposal"}, payment : Payments, key : Keys]

ASSUME PaymentAssumption ==
    /\ Requests \subseteq Request
    /\ Offline \in BOOLEAN
    /\ ApprovalsRequired \in Nat \ {0}
    /\ MaxCalls \in Nat
    /\ NoTask \notin Tasks
    /\ NoPayment \notin Payments
    /\ NoKey \notin Keys

VARIABLES
    task,     \* payments.task_id; NoTask while the row does not exist
    status,   \* payments.status
    trans,    \* payment_state_transitions.state of a (payment, action, key), or "none"
    notified, \* payment_notifications: pairs (payer and payee) of a payment, by type
    escrow,   \* TaskEscrow: state and approvals, and the payment that funded it
    mempool,  \* contract calls sent and not yet mined
    call,     \* per caller: the local state of its coroutine
    begun     \* calls begun, bounded by MaxCalls

dbVars == <<task, status, trans, notified>>
chainVars == <<escrow, mempool>>
vars == <<task, status, trans, notified, escrow, mempool, call, begun>>

Idle == [pc |-> "idle", action |-> "proposal", payment |-> NoPayment, task |-> NoTask,
         key |-> NoKey, seen |-> "pending", read |-> "none"]

Init ==
    /\ task = [p \in Payments |-> NoTask]
    /\ status = [p \in Payments |-> "pending"]
    /\ trans = [p \in Payments |-> [a \in Actions |-> [k \in Keys |-> "none"]]]
    /\ notified = [p \in Payments |-> [a \in {"release", "refund"} |-> 0]]
    /\ escrow = [t \in Tasks |-> [state |-> "none", release |-> 0, refund |-> 0,
                                  owner |-> NoPayment]]
    /\ mempool = {}
    /\ call = [c \in Callers |-> Idle]
    /\ begun = 0

Exists(p) == task[p] # NoTask

\* Mutant: the unique constraint is missing.
TaskKeyUnconstrained(p, t, a, k) == FALSE

\* uq_payment_state_transitions_task_idempotency: another payment of the task
\* already has a row for this action and key, so an INSERT is refused.
TaskKeyTaken(p, t, a, k) == \E q \in Payments \ {p} : task[q] = t /\ trans[q][a][k] # "none"

\* ensure_no_terminal_conflict: release and refund exclude each other's terminal
\* status; proposal and authorize are not checked.
TerminalConflict(a, s) == \/ a = "release" /\ s = "refunded"
                          \/ a = "refund" /\ s = "completed"

\* _map_escrow_status_to_payment_status
StatusFor(e) == CASE e = "released" -> "completed"
                  [] e = "refunded" -> "refunded"
                  [] e = "funded" -> "authorized"
                  [] e = "none" -> "failed"

\* Mutants: the outcome asked for is taken for the outcome reached; the escrow
\* state is stored unmapped.
NewStatusAsRequested(a, e) == IF a = "authorize" THEN "authorized"
                              ELSE IF a = "release" THEN "completed" ELSE "refunded"
NewStatusUnmapped(a, e) == IF a = "authorize" THEN "authorized" ELSE e

\* The status a call writes: authorize ignores the receipt, release and refund
\* take the escrow they read back, the offline mode what was asked for.
NewStatus(a, e) == CASE a = "authorize" -> "authorized"
                     [] a # "authorize" /\ ~Offline -> StatusFor(e)
                     [] a = "release" /\ Offline -> "completed"
                     [] a = "refund" /\ Offline -> "refunded"

\* record_transition inserts or overwrites the row of its key.
Record(p, a, k, s) == trans' = [trans EXCEPT ![p][a][k] = s]

\* What the exception handler of run_idempotent_payment_action persists: after
\* the rollback, a failed transition (unless that INSERT is itself refused).
RecordFailed(p, a, k) ==
    /\ IF TaskKeyTaken(p, task[p], a, k) THEN UNCHANGED trans ELSE Record(p, a, k, "failed")
    /\ UNCHANGED <<task, status, notified>>

\* The call ends, with a result or an exception: its coroutine holds nothing more.
Return(c) == call' = [call EXCEPT ![c] = Idle]

\* Mutant: only a release notifies.
PersistSilentRefund(p, a, k, seen, new) ==
    /\ status' = IF new = seen THEN status ELSE [status EXCEPT ![p] = new]
    /\ notified' = IF a # "release" THEN notified ELSE [notified EXCEPT ![p][a] = @ + 1]
    /\ Record(p, a, k, "completed")
    /\ UNCHANGED task

\* The successful end of a payment action, one database transaction: the ORM
\* writes the status column only when it differs from the value the session
\* loaded; a settlement emits its notification pair; the key is completed.
Persist(p, a, k, seen, new) ==
    /\ status' = IF new = seen THEN status ELSE [status EXCEPT ![p] = new]
    /\ notified' = IF a = "authorize" THEN notified ELSE [notified EXCEPT ![p][a] = @ + 1]
    /\ Record(p, a, k, "completed")
    /\ UNCHANGED task

-----------------------------------------------------------------------------
(* create_payment_request: the lookup by (task, action, key) and the insert  *)
(* are one step in a process and two as other processes see them.            *)

ProposeLookup(c, r) ==
    /\ call[c].pc = "idle" /\ begun < MaxCalls
    /\ r.action = "proposal"
    /\ begun' = begun + 1
    /\ IF \E p \in Payments : task[p] = r.task /\ trans[p]["proposal"][r.key] # "none"
         THEN Return(c)
         ELSE call' = [call EXCEPT ![c] = [Idle EXCEPT !.pc = "insert", !.task = r.task,
                                                      !.key = r.key]]
    /\ UNCHANGED <<dbVars, chainVars>>

\* The new row has an id of its own; an IntegrityError returns the winner's result.
ProposeInsert(c) ==
    /\ call[c].pc = "insert"
    /\ \/ /\ TaskKeyTaken(NoPayment, call[c].task, "proposal", call[c].key)
          /\ UNCHANGED dbVars
       \/ /\ ~TaskKeyTaken(NoPayment, call[c].task, "proposal", call[c].key)
          /\ \E p \in Payments :
               /\ ~Exists(p)
               /\ task' = [task EXCEPT ![p] = call[c].task]
               /\ Record(p, "proposal", call[c].key, "completed")
          /\ UNCHANGED <<status, notified>>
    /\ Return(c)
    /\ UNCHANGED <<chainVars, begun>>

-----------------------------------------------------------------------------
(* authorize_payment, release_payment and reject_and_refund, up to the first *)
(* await: exactly one of these four actions is enabled for a request.        *)

Begin(c, r) ==
    /\ call[c].pc = "idle" /\ begun < MaxCalls
    /\ r.action # "proposal" /\ Exists(r.payment)
    /\ begun' = begun + 1
    /\ UNCHANGED chainVars

\* Mutant: the stored result is not looked up.
RecordedNever(r) == FALSE

\* get_completed_transition_result
Recorded(r) == trans[r.payment][r.action][r.key] = "completed"

\* The terminal-conflict check, and the status check in release's runner.
Refused(r) == \/ TerminalConflict(r.action, status[r.payment])
              \/ r.action = "release" /\ status[r.payment] # "authorized"

\* The key has a completed transition: its stored result is returned.
Replay(c, r) ==
    /\ Begin(c, r) /\ Recorded(r)
    /\ Return(c)
    /\ UNCHANGED dbVars

Refuse(c, r) ==
    /\ Begin(c, r) /\ ~Recorded(r) /\ Refused(r)
    /\ RecordFailed(r.payment, r.action, r.key)
    /\ Return(c)

\* Offline there is no await: the whole call is one step.
SettleOffline(c, r) ==
    /\ Begin(c, r) /\ ~Recorded(r) /\ ~Refused(r)
    /\ Offline
    /\ IF TaskKeyTaken(r.payment, task[r.payment], r.action, r.key)
         THEN UNCHANGED dbVars /\ Return(c)
         ELSE /\ Persist(r.payment, r.action, r.key, status[r.payment], NewStatus(r.action, "none"))
              /\ Return(c)

Start(c, r) ==
    /\ Begin(c, r) /\ ~Recorded(r) /\ ~Refused(r)
    /\ ~Offline
    /\ call' = [call EXCEPT ![c] = [pc |-> "submit", action |-> r.action, payment |-> r.payment,
                                    task |-> task[r.payment], key |-> r.key,
                                    seen |-> status[r.payment], read |-> "none"]]
    /\ UNCHANGED dbVars

-----------------------------------------------------------------------------
(* The chain part of a call, one step per await.                             *)

TxOf(c) == [caller |-> c, fn |-> call[c].action, task |-> call[c].task, payment |-> call[c].payment]

\* _send_transaction up to send_raw_transaction
Submit(c) ==
    /\ call[c].pc = "submit"
    /\ mempool' = mempool \cup {TxOf(c)}
    /\ call' = [call EXCEPT ![c].pc = "wait"]
    /\ UNCHANGED <<dbVars, escrow, begun>>

\* wait_for_transaction_receipt returns once the call is mined; its status is
\* ignored.  authorize is then done; the others read the escrow back.
AwaitReceipt(c) ==
    /\ call[c].pc = "wait" /\ TxOf(c) \notin mempool
    /\ call' = [call EXCEPT ![c].pc = IF call[c].action = "authorize"
                                        THEN "commit" ELSE "read"]
    /\ UNCHANGED <<dbVars, chainVars, begun>>

\* _get_escrow_status
ReadEscrow(c) ==
    /\ call[c].pc = "read"
    /\ call' = [call EXCEPT ![c].pc = "commit", ![c].read = escrow[call[c].task].state]
    /\ UNCHANGED <<dbVars, chainVars, begun>>

\* The rest of the runner and of run_idempotent_payment_action: the commit, or
\* the IntegrityError of another payment's row for the same task and key, which
\* rolls everything back and records nothing.
Commit(c) ==
    LET k == call[c] IN
    /\ k.pc = "commit"
    /\ IF TaskKeyTaken(k.payment, task[k.payment], k.action, k.key)
         THEN UNCHANGED dbVars /\ Return(c)
         ELSE /\ Persist(k.payment, k.action, k.key, k.seen, NewStatus(k.action, k.read))
              /\ Return(c)
    /\ UNCHANGED <<chainVars, begun>>

\* Mutant: the receipt is awaited without a timeout.
RaiseBeforeSend(c) ==
    /\ call[c].pc = "submit"
    /\ RecordFailed(call[c].payment, call[c].action, call[c].key)
    /\ Return(c)
    /\ UNCHANGED <<chainVars, begun>>

\* An RPC error, a rejected nonce or the receipt timeout at any await: the
\* contract call, if it was sent, stays where it is.
Raise(c) ==
    /\ call[c].pc \in {"submit", "wait", "read"}
    /\ RecordFailed(call[c].payment, call[c].action, call[c].key)
    /\ Return(c)
    /\ UNCHANGED <<chainVars, begun>>

\* The caller's process stops: its uncommitted work is gone, its call is not.
Crash(c) ==
    /\ call[c].pc # "idle"
    /\ Return(c)
    /\ UNCHANGED <<dbVars, chainVars, begun>>

-----------------------------------------------------------------------------
(* TaskEscrow, as x402.py uses it: createEscrow funds an unused task id once, *)
(* approvals count while it is funded, the threshold settles it for good.     *)

Outcome(fn) == IF fn = "release" THEN "released" ELSE "refunded"

Approve(e, fn) ==
    [e EXCEPT ![fn] = @ + 1,
              !.state = IF e[fn] + 1 < ApprovalsRequired THEN e.state ELSE Outcome(fn)]

Apply(e, tx) ==
    CASE tx.fn = "authorize" /\ e.state = "none" ->
           [e EXCEPT !.state = "funded", !.owner = tx.payment]
      [] tx.fn # "authorize" /\ e.state = "funded" -> Approve(e, tx.fn)
      [] OTHER -> e

\* A mined call takes effect or reverts.
Mine(tx) ==
    /\ tx \in mempool
    /\ mempool' = mempool \ {tx}
    /\ \/ escrow' = [escrow EXCEPT ![tx.task] = Apply(@, tx)]
       \/ UNCHANGED escrow
    /\ UNCHANGED <<dbVars, call, begun>>

\* Another verifier of the escrow approves from outside this system.
OtherVerifier(t, fn) ==
    /\ escrow[t].state = "funded" /\ ApprovalsRequired > 1
    /\ escrow' = [escrow EXCEPT ![t] = Approve(@, fn)]
    /\ UNCHANGED <<dbVars, mempool, call, begun>>

Progress(c) == ProposeInsert(c) \/ Submit(c) \/ AwaitReceipt(c) \/ ReadEscrow(c) \/ Commit(c) \/ Raise(c)

Next ==
    \/ \E c \in Callers :
         \/ \E r \in Requests :
              \/ ProposeLookup(c, r)
              \/ Replay(c, r) \/ Refuse(c, r) \/ SettleOffline(c, r) \/ Start(c, r)
         \/ Progress(c)
         \/ Crash(c)
    \/ \E tx \in mempool : Mine(tx)
    \/ \E t \in Tasks, fn \in {"release", "refund"} : OtherVerifier(t, fn)

Spec == Init /\ [][Next]_vars

\* The event loop resumes a coroutine whose await ended, and an await on the
\* chain ends at the latest with its timeout (Raise); the chain owes nothing.
FairSpec == Spec /\ \A c \in Callers : WF_vars(Progress(c))

-----------------------------------------------------------------------------
(* Properties *)

CallStates == [pc : {"idle", "insert", "submit", "wait", "read", "commit"}, action : Actions,
               payment : Payments \cup {NoPayment}, task : Tasks \cup {NoTask}, key : Keys \cup {NoKey},
               seen : Statuses, read : EscrowStates]

Transactions == [caller : Callers, fn : Actions \ {"proposal"}, task : Tasks, payment : Payments]

Escrows == [state : EscrowStates, release : 0..ApprovalsRequired, refund : 0..ApprovalsRequired,
            owner : Payments \cup {NoPayment}]

\* Every variable has the type its column, contract field or local has.
TypeOK ==
    /\ task \in [Payments -> Tasks \cup {NoTask}]
    /\ status \in [Payments -> Statuses]
    /\ trans \in [Payments -> [Actions -> [Keys -> {"none", "completed", "failed"}]]]
    /\ notified \in [Payments -> [{"release", "refund"} -> Nat]]
    /\ escrow \in [Tasks -> Escrows]
    /\ mempool \in SUBSET Transactions
    /\ call \in [Callers -> CallStates]
    /\ begun \in 0..MaxCalls

\* The database never claims a settlement the chain did not make: a payment is
\* completed only if the escrow of its task was released, refunded only if it
\* was refunded, whatever calls, timeouts and crashes overlapped.
DatabaseAgreesWithChain ==
    ~Offline => \A p \in Payments :
        /\ status[p] = "completed" => Exists(p) /\ escrow[task[p]].state = "released"
        /\ status[p] = "refunded" => Exists(p) /\ escrow[task[p]].state = "refunded"

\* A settled payment is never settled the other way (ensure_no_terminal_conflict
\* and the escrow read-back together, over stale session reads).
SettlementNeverFlips ==
    [][\A p \in Payments :
          /\ status[p] = "completed" => status'[p] # "refunded"
          /\ status[p] = "refunded" => status'[p] # "completed"]_vars

\* Negotiators racing on one proposal key of a task create one payment.
OnePaymentPerProposalKey ==
    \A p, q \in Payments, k \in Keys :
        Exists(p) /\ task[p] = task[q]
          /\ trans[p]["proposal"][k] # "none" /\ trans[q]["proposal"][k] # "none"
        => p = q

\* A payment reaches a terminal status only together with a notification pair.
SettledIsAnnounced ==
    \A p \in Payments :
        status[p] \in {"completed", "refunded"} => notified[p]["release"] + notified[p]["refund"] > 0

\* A recorded success is what later calls with its key return: it is never lost
\* where no two calls overlap.
RecordedResultStable ==
    [][\A p \in Payments, a \in Actions, k \in Keys :
          trans[p][a][k] = "completed" => trans'[p][a][k] = "completed"]_vars

\* A recorded success is lost at most to a call with its key that was in flight:
\* no call that begins after the record overwrites it, so retries in turn replay.
ResultOutlivesRetries ==
    [][\A p \in Payments, a \in Actions, k \in Keys :
          trans[p][a][k] = "completed" =>
             \/ trans'[p][a][k] = "completed"
             \/ \E c \in Callers : call[c].payment = p /\ call[c].action = a /\ call[c].key = k]_vars

\* As many notification pairs as recorded settlements: no settlement is
\* announced twice under its key, none is recorded without its pair.
OneNoticePerSettlement ==
    \A p \in Payments, a \in {"release", "refund"} :
        notified[p][a] = Cardinality({k \in Keys : trans[p][a][k] = "completed"})

\* Every payment call ends: nothing it awaits holds it forever.
EveryCallReturns == \A c \in Callers : (call[c].pc # "idle") ~> (call[c].pc = "idle")

(* What the documentation and docstrings say, and the code does not do. *)

\* An authorized payment has a funded (or already settled) escrow.
AuthorizedIsFunded ==
    \A p \in Payments : status[p] = "authorized" => escrow[task[p]].state # "none"

=============================================================================
