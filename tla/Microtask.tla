------------------------------- MODULE Microtask -------------------------------
(***************************************************************************)
(* POST /execute: run_orchestrator_task (api/main.py) takes a task through  *)
(* its todos, each by execute_microtask (orchestrator/tools/agent_tools.py): *)
(* negotiate, authorize, execute, verify, ask a human, settle.  Every       *)
(* payment call is a call of PaymentSettlement, on the one escrow of the    *)
(* task.  The coroutine reports to the runtime state of the task            *)
(* (runtime/task_state.py) and its cached snapshot, which the status and    *)
(* review routes read.                                                      *)
(***************************************************************************)
EXTENDS PaymentSettlement, Sequences

CONSTANTS Plan,     \* the todos of a task in order: keys of their payments
          Verdicts  \* what verification may say: a subset of Verdict

\* passed; refund and try again (a quorum, or more attempts allowed); ask a human
Verdict == {"passed", "retry", "review"}

\* The coroutine of a task is its only payment caller.
ASSUME MicrotaskAssumption ==
    /\ Plan \in Seq(Keys) /\ Plan # <<>> /\ \A i, j \in DOMAIN Plan : Plan[i] = Plan[j] => i = j
    /\ Verdicts \subseteq Verdict
    /\ Callers = Tasks

VARIABLES
    at,      \* where the coroutine of a task is: pc, the index of its todo, what was decided
    verdict, \* what became of the work of a todo: none, accepted or rejected
    row,     \* Task.meta["runtime"]
    cache    \* tasks_storage: the snapshot's status and verification_pending, or NoSnapshot

microVars == <<at, verdict, row, cache>>
allVars == <<vars, microVars>>

NoSnapshot == [status |-> "not_found", pending |-> FALSE]
Snapshot(r) == [status |-> r.status, pending |-> r.pending]

NewRow == [step |-> <<"none", NoKey>>, status |-> "processing", log |-> {}, pending |-> FALSE,
           decision |-> "none"]

MicroInit ==
    /\ Init
    /\ at = [t \in Tasks |-> [pc |-> "new", i |-> 1, decision |-> "none"]]
    /\ verdict = [t \in Tasks |-> [k \in Keys |-> "none"]]
    /\ row = [t \in Tasks |-> NewRow]
    /\ cache = [t \in Tasks |-> NoSnapshot]

Todo(t) == Plan[at[t].i]

\* The payment proposed for a todo of a task.
PaymentsOf(t, k) == {p \in Payments : task[p] = t /\ trans[p]["proposal"][k] # "none"}

-----------------------------------------------------------------------------
(* Progress events *)

\* An event of a step; "same" leaves the status of the runtime state alone.
Event(step, k, s) == [step |-> <<step, k>>, status |-> s, overall |-> "same"]
Report(step, k, s, overall) == [Event(step, k, s) EXCEPT !.overall = overall]

\* Mutant: only a change of status writes the column.
AppendOnStatus(r, e) ==
    LET status2 == IF e.overall = "same" THEN r.status ELSE e.overall IN
    IF r.status = status2 THEN r
    ELSE [r EXCEPT !.step = e.step, !.status = status2, !.log = @ \cup {<<e.step, e.status>>}]

\* append_progress_event: the list and the snapshot of events are changed in
\* place, so the ORM writes the column only if the step or the status changed:
\* a second event of one step is not persisted.
Append1(r, e) ==
    LET status2 == IF e.overall = "same" THEN r.status ELSE e.overall IN
    IF r.step = e.step /\ r.status = status2 THEN r
    ELSE [r EXCEPT !.step = e.step, !.status = status2, !.log = @ \cup {<<e.step, e.status>>}]

Append2(r, e, f) == Append1(Append1(r, e), f)

\* update_task_progress, after events with no await between them: the cached
\* snapshot is what the last one read back.
Emit(t, r) ==
    /\ row' = [row EXCEPT ![t] = r]
    /\ cache' = [cache EXCEPT ![t] = Snapshot(r)]

Goto(t, pc) == at' = [at EXCEPT ![t].pc = pc]

Failed(k) == Event("microtask", k, "failed")

\* The microtask returned a failure or raised: run_orchestrator_task's handler.
FailTask(t, r) ==
    /\ Emit(t, Append1(r, Report("orchestrator", NoKey, "failed", "failed")))
    /\ Goto(t, "ended")

-----------------------------------------------------------------------------
(* The coroutine: one step per await.  A payment call begins in the step that *)
(* issues it and goes on by the steps of PaymentSettlement.                   *)

\* Calls authorize, release or refund for the payment of the current todo.
Issue(t, a) ==
    \E r \in Requests :
        /\ r.action = a /\ r.key = Todo(t) /\ r.payment \in PaymentsOf(t, Todo(t))
        /\ Replay(t, r) \/ Refuse(t, r) \/ SettleOffline(t, r) \/ Start(t, r)

\* The call has ended: its transition says whether it returned or raised.
Ended(t) == call[t].pc = "idle"
Succeeded(t, a) == \E p \in PaymentsOf(t, Todo(t)) : trans[p][a][Todo(t)] = "completed"

\* execute_task and run_orchestrator_task up to the first microtask
StartTask(t) ==
    /\ at[t].pc = "new"
    /\ LET started == Append2(row[t], Event("initialization", NoKey, "started"),
                                     Event("orchestrator_analysis", NoKey, "running"))
           analysed == Append2(started, Event("initialization", NoKey, "completed"),
                                       Event("orchestrator_analysis", NoKey, "completed")) IN
       Emit(t, Append1(analysed, Event("planning", NoKey, "completed")))
    /\ Goto(t, "todo")
    /\ UNCHANGED <<vars, verdict>>

\* negotiator_agent: no candidate qualifies, or a payment is proposed.
Negotiate(t) ==
    LET k == Todo(t)
        begin == Append1(row[t], Event("negotiator", k, "running")) IN
    /\ at[t].pc = "todo"
    /\ \/ /\ FailTask(t, Append1(begin, Failed(k)))
          /\ UNCHANGED vars
       \/ /\ Emit(t, begin) /\ Goto(t, "propose")
          /\ \E r \in Requests : r.action = "proposal" /\ r.task = t /\ r.key = k /\ ProposeLookup(t, r)
    /\ UNCHANGED verdict

Authorize(t) ==
    /\ at[t].pc = "propose" /\ Ended(t)
    /\ Issue(t, "authorize")
    /\ Emit(t, Append1(row[t], Event("negotiator", Todo(t), "completed"))) /\ Goto(t, "authorize")
    /\ UNCHANGED verdict

\* executor_agent, once authorize_payment_request reported success.
Execute(t) ==
    LET k == Todo(t) IN
    /\ at[t].pc = "authorize" /\ Ended(t)
    /\ IF Succeeded(t, "authorize")
         THEN Emit(t, Append1(row[t], Event("executor", k, "running"))) /\ Goto(t, "execute")
         ELSE FailTask(t, Append1(row[t], Failed(k)))
    /\ UNCHANGED <<vars, verdict>>

\* The agent failed, or its result breaks the contract: nobody is refunded.
ExecutionFails(t) ==
    /\ at[t].pc = "execute"
    /\ \E s \in {"completed", "failed"} :
         FailTask(t, Append2(row[t], Event("executor", Todo(t), s), Failed(Todo(t))))
    /\ UNCHANGED <<vars, verdict>>

ExecutionSucceeds(t) ==
    /\ at[t].pc = "execute"
    /\ Emit(t, Append2(row[t], Event("executor", Todo(t), "completed"), Event("verifier", NoKey, "running")))
    /\ Goto(t, "verify")
    /\ UNCHANGED <<vars, verdict>>

\* Mutant: the settlement called is the other one.
SettleAsSwapped(t, v, d) ==
    /\ verdict' = [verdict EXCEPT ![t][Todo(t)] = v]
    /\ Issue(t, IF v = "accepted" THEN "refund" ELSE "release")
    /\ at' = [at EXCEPT ![t].pc = "settle", ![t].decision = d]

\* What was decided about the work decides which settlement is called.
SettleAs(t, v, d) ==
    /\ verdict' = [verdict EXCEPT ![t][Todo(t)] = v]
    /\ Issue(t, IF v = "accepted" THEN "release" ELSE "refund")
    /\ at' = [at EXCEPT ![t].pc = "settle", ![t].decision = d]

\* The verification passed, or recommends a retry.
Verified(t) ==
    /\ at[t].pc = "verify"
    /\ \/ "passed" \in Verdicts /\ SettleAs(t, "accepted", "none")
       \/ "retry" \in Verdicts /\ SettleAs(t, "rejected", "rejected")
    /\ Emit(t, Append1(row[t], Event("verifier", NoKey, "completed")))

\* Mutant: the request is not announced, so no snapshot is taken of it.
AskHumanSilently(t) ==
    /\ at[t].pc = "verify" /\ "review" \in Verdicts
    /\ row' = [row EXCEPT ![t].pending = TRUE, ![t].decision = "none"]
    /\ Goto(t, "review")
    /\ UNCHANGED <<vars, verdict, cache>>

\* _request_human_verification
AskHuman(t) ==
    /\ at[t].pc = "verify" /\ "review" \in Verdicts
    /\ Emit(t, Append2([row[t] EXCEPT !.pending = TRUE, !.decision = "none"],
                       Event("verifier", NoKey, "completed"),
                       Event("verification", Todo(t), "waiting_for_human")))
    /\ Goto(t, "review")
    /\ UNCHANGED <<vars, verdict>>

\* Mutant: the wait for an answer has no end.
DecidedByHuman(t) ==
    /\ at[t].pc = "review" /\ row[t].decision # "none"
    /\ SettleAs(t, IF row[t].decision = "approved" THEN "accepted" ELSE "rejected", row[t].decision)
    /\ UNCHANGED <<row, cache>>

\* _wait_for_human_decision: a poll finds the decision, or the hour is over, with
\* no look at an answer that came after the last poll.
Decided(t) ==
    /\ at[t].pc = "review"
    /\ \/ row[t].decision = "approved" /\ SettleAs(t, "accepted", "approved")
       \/ SettleAs(t, "rejected", "rejected")
    /\ UNCHANGED <<row, cache>>

\* persist_verification_state at the end of a microtask: what the microtask acted
\* on replaces what was decided meanwhile.
ClearReview(t) == [row[t] EXCEPT !.pending = FALSE, !.decision = at[t].decision]

\* Mutant: the end of the call is taken for its success.
SettledAnyhow(t, a) == TRUE

\* The settlement returned: an exception would have left the microtask.
SettlementDone(t, a) == Succeeded(t, a)

\* run_orchestrator_task goes on to the next todo, or ends the task.
Advance(t) ==
    at' = [at EXCEPT ![t] = IF @.i = Len(Plan) THEN [@ EXCEPT !.pc = "ended"]
                            ELSE [pc |-> "todo", i |-> @.i + 1, decision |-> "none"]]

\* The todo completed: the next one, or the end of the task.
TodoCompletes(t) ==
    LET k == Todo(t)
        reported == Append1(ClearReview(t), Event("microtask", k, "completed")) IN
    /\ at[t].pc = "settle" /\ Ended(t)
    /\ verdict[t][k] = "accepted" /\ SettlementDone(t, "release")
    /\ Emit(t, IF at[t].i < Len(Plan) THEN reported
               ELSE Append1(reported, Report("orchestrator", NoKey, "completed", "completed")))
    /\ Advance(t)
    /\ UNCHANGED <<vars, verdict>>

TodoFails(t) ==
    /\ at[t].pc = "settle" /\ Ended(t)
    /\ verdict[t][Todo(t)] = "rejected" /\ SettlementDone(t, "refund")
    /\ FailTask(t, Append1(ClearReview(t), Failed(Todo(t))))
    /\ UNCHANGED <<vars, verdict>>

\* release_payment or reject_and_refund raised: no event of the microtask, and
\* the review, if there was one, is left as it is.
SettlementRaises(t) ==
    /\ at[t].pc = "settle" /\ Ended(t)
    /\ ~SettlementDone(t, IF verdict[t][Todo(t)] = "accepted" THEN "release" ELSE "refund")
    /\ FailTask(t, row[t])
    /\ UNCHANGED <<vars, verdict>>

-----------------------------------------------------------------------------
(* Routes and restarts *)

\* The snapshot a review route reads: the cache, else the row.
SeenPending(t) == IF cache[t] # NoSnapshot THEN cache[t].pending ELSE row[t].pending

\* approve_verification
Approve1(t) ==
    /\ SeenPending(t)
    /\ Emit(t, Append1([row[t] EXCEPT !.pending = FALSE, !.decision = "approved"],
                       Event("verification", Todo(t), "completed")))
    /\ UNCHANGED <<vars, at, verdict>>

\* reject_verification, which also reports the task cancelled
Reject1(t) ==
    /\ SeenPending(t)
    /\ Emit(t, Append2([row[t] EXCEPT !.pending = FALSE, !.decision = "rejected"],
                       Event("verification", Todo(t), "failed"),
                       Report("cancellation", NoKey, "cancelled", "CANCELLED")))
    /\ UNCHANGED <<vars, at, verdict>>

\* get_task_status fills an empty cache.
View(t) ==
    /\ cache[t] = NoSnapshot /\ at[t].pc # "new"
    /\ cache' = [cache EXCEPT ![t] = Snapshot(row[t])]
    /\ UNCHANGED <<vars, at, verdict, row>>

\* The process restarts: coroutines and cache are gone and nothing resumes them.
Restart ==
    /\ \E t \in Tasks : at[t].pc \notin {"new", "ended", "lost"}
    /\ at' = [t \in Tasks |-> IF at[t].pc \in {"new", "ended"} THEN at[t]
                              ELSE [at[t] EXCEPT !.pc = "lost"]]
    /\ cache' = [t \in Tasks |-> NoSnapshot]
    /\ call' = [c \in Callers |-> Idle]
    /\ UNCHANGED <<dbVars, chainVars, begun, verdict, row>>

Step(t) == \/ StartTask(t) \/ Negotiate(t) \/ Authorize(t) \/ Execute(t)
           \/ ExecutionFails(t) \/ ExecutionSucceeds(t) \/ Verified(t) \/ AskHuman(t) \/ Decided(t)
           \/ TodoCompletes(t) \/ TodoFails(t) \/ SettlementRaises(t)

Pay(t) == Progress(t) /\ UNCHANGED microVars
Chain == (\E tx \in mempool : Mine(tx)) /\ UNCHANGED microVars

MicroNext ==
    \/ \E t \in Tasks : Step(t) \/ Pay(t) \/ Approve1(t) \/ Reject1(t) \/ View(t)
    \/ Chain
    \/ Restart

MicroSpec == MicroInit /\ [][MicroNext]_allVars

\* The event loop resumes the coroutine: agents are called with a timeout, a
\* review is polled for an hour, and a payment call ends at the latest by Raise.
MicroFairSpec ==
    MicroSpec /\ \A t \in Tasks : WF_allVars(Step(t)) /\ WF_allVars(Pay(t))

-----------------------------------------------------------------------------
(* Properties *)

Reported(t, k, s) == <<<<"microtask", k>>, s>> \in row[t].log

\* A todo is reported completed or, after verification, failed only when the
\* settlement its verdict calls for is on record, and a settlement is on record
\* only for that verdict: no exception, timeout or late review separates them.
VerdictIsSettled ==
    \A t \in Tasks, k \in Keys, p \in Payments : p \in PaymentsOf(t, k) =>
        /\ Reported(t, k, "completed") => trans[p]["release"][k] = "completed"
        /\ Reported(t, k, "failed") /\ verdict[t][k] = "rejected" => trans[p]["refund"][k] = "completed"
        /\ trans[p]["release"][k] # "none" => verdict[t][k] = "accepted"
        /\ trans[p]["refund"][k] # "none" => verdict[t][k] = "rejected"

\* A task whose runtime status is completed has every todo accepted and reported
\* completed in the persisted events, although many events are not persisted.
CompletedTaskIsWhole ==
    \A t \in Tasks : row[t].status = "completed" =>
        \A i \in DOMAIN Plan : verdict[t][Plan[i]] = "accepted" /\ Reported(t, Plan[i], "completed")

\* While a microtask waits for a decision nobody has taken, the review routes
\* see the request, in the cache or in the row, so that a human can answer it.
ReviewIsReachable ==
    \A t \in Tasks : at[t].pc = "review" /\ row[t].decision = "none" => SeenPending(t)

\* The task's escrow pays out only after the work of one of its todos was
\* accepted, and pays back only after one was rejected.
EscrowFollowsVerdict ==
    ApprovalsRequired = 1 => \A t \in Tasks :
        /\ escrow[t].state = "released" => \E k \in Keys : verdict[t][k] = "accepted"
        /\ escrow[t].state = "refunded" => \E k \in Keys : verdict[t][k] = "rejected"

\* A task that was started ends, whatever agents, reviewers and the chain do,
\* unless the process stops.
TaskEnds == \A t \in Tasks : (at[t].pc # "new") ~> (at[t].pc \in {"ended", "lost"})
=============================================================================
