--------------------------- MODULE ResearchRunControl ---------------------------
(***************************************************************************)
(* One research run: its executor (ResearchRunExecutor in                  *)
(* shared/research_runs/service.py), the pause, resume and cancel routes   *)
(* (api/routes/research_runs.py), and the human review of a node's task    *)
(* (api/main.py over shared/runtime/task_state.py).                        *)
(*                                                                         *)
(* Routes and executor are coroutines of one event loop, so a step is the  *)
(* code between two awaits that really suspend: the 0.2 s and 2 s polls,   *)
(* the calls of a microtask, and the graph's hand-over between nodes.      *)
(* A microtask (execute_microtask) is abstracted to how it returns.        *)
(***************************************************************************)
EXTENDS Integers, Sequences

CONSTANTS Length,      \* nodes of the plan, a chain executed in order
          MaxAttempts, \* the run policy's max_node_attempts
          MaxRequests, \* bound: route calls that change anything
          MaxCrashes   \* bound: restarts of the API process

ASSUME RunAssumption ==
    /\ Length \in Nat \ {0}
    /\ MaxAttempts \in 1..5
    /\ MaxRequests \in Nat
    /\ MaxCrashes \in Nat

Nodes == 1..Length
Pausing == {"pause_requested", "paused"}
Cancelling == {"cancel_requested", "cancelled"}
Terminal == {"completed", "failed", "cancelled"}
\* A microtask is in flight.
Busy == {"working", "waiting", "settling"}

VARIABLES
    status,   \* research_runs.status
    ended,    \* research_runs.completed_at is set: nothing resets it
    control,  \* research_runs.meta.control_state
    node,     \* research_run_nodes.status, by position in the chain
    attempts, \* execution_attempts of a node in order, each with its task
    job,      \* where the run's asyncio task is, "none" when there is none
    at,       \* the node the graph executes or will execute next
    verdict,  \* what _wait_for_human_decision returned
    requests, \* route calls so far
    starts,   \* asyncio tasks created for the run
    crashes   \* process restarts so far

rowVars == <<status, ended, control, node, attempts>>
jobVars == <<job, at, verdict, starts>>
boundVars == <<requests, crashes>>
vars == <<status, ended, control, node, attempts, job, at, verdict, requests, starts, crashes>>

\* An attempt and its task: verification_pending and the human's
\* verification_decision in the task's meta, dropped when the task's runtime
\* status is cancelled, and cached, what tasks_storage of the API process says of
\* verification_pending.  A task not under review reads the same whether it is
\* cached or not, so only one under review is ever absent.
Attempt == [status : {"running", "completed", "failed", "cancelled"}, pending : BOOLEAN,
            decision : {"none", "approved", "rejected"}, dropped : BOOLEAN,
            cached : {"absent", "open", "shut"}]

NewAttempt == [status |-> "running", pending |-> FALSE, decision |-> "none",
               dropped |-> FALSE, cached |-> "shut"]

Last(n) == attempts[n][Len(attempts[n])]

\* attempts with the last attempt of n replaced by a.
SetLast(n, a) == [attempts EXCEPT ![n][Len(attempts[n])] = a]

AttemptIds == {x \in Nodes \X (1..(MaxAttempts + MaxRequests)) : x[2] <= Len(attempts[x[1]])}
AttemptAt(x) == attempts[x[1]][x[2]]

\* create_research_run, then _ensure_research_run_job.
Init ==
    /\ status = "pending"
    /\ ended = FALSE
    /\ control = "active"
    /\ node = [n \in Nodes |-> "pending"]
    /\ attempts = [n \in Nodes |-> <<>>]
    /\ job = "scheduled"
    /\ at = 0
    /\ verdict = "none"
    /\ requests = 0
    /\ starts = 1
    /\ crashes = 0

-----------------------------------------------------------------------------
(* The executor.                                                             *)

\* _cancel_pending_nodes, and the same loop in request_cancel_research_run.
CancelledNodes == [n \in Nodes |-> IF node[n] \in {"pending", "blocked"} THEN "cancelled" ELSE node[n]]

\* _block_pending_descendants
BlockedNodes == [n \in Nodes |-> IF node[n] = "pending" THEN "blocked" ELSE node[n]]

\* _run_research_run_job ends and pops the job.
EndJob == job' = "none" /\ at' = 0 /\ verdict' = "none" /\ UNCHANGED starts

\* Mutant: the request is not acknowledged.
MarkPausedStatusOnly == IF status \in Terminal THEN UNCHANGED <<status, control>>
                        ELSE status' = "paused" /\ UNCHANGED control

\* _mark_paused
MarkPaused == IF status \in Terminal THEN UNCHANGED <<status, control>>
              ELSE status' = "paused" /\ control' = "paused"

\* _mark_cancelled
MarkCancelled == status' = "cancelled" /\ ended' = TRUE /\ control' = "cancelled" /\ node' = CancelledNodes

\* run: _mark_started and _build_graph when it begins, then the first
\* _wait_for_control_state, which it repeats every 0.2 s while the run is paused.
EnterRun ==
    /\ job \in {"scheduled", "held"}
    /\ \/ /\ control = "active"
          /\ status' = IF job = "scheduled" /\ status \notin Terminal THEN "running" ELSE status
          /\ job' = "graph" /\ at' = 1
          /\ UNCHANGED <<ended, control, node, verdict, starts>>
       \/ /\ control \in Pausing
          /\ MarkPaused
          /\ job' = "held"
          /\ UNCHANGED <<ended, node, at, verdict, starts>>
       \/ /\ control \in Cancelling
          /\ MarkCancelled
          /\ EndJob
    /\ UNCHANGED <<attempts, boundVars>>

\* Mutant: a failed node counts as settled.
PassNodeFailed ==
    /\ job = "graph" /\ at \in Nodes
    /\ \/ node[at] \in {"completed", "failed"} /\ at' = at + 1 /\ UNCHANGED job
       \/ node[at] = "cancelled" /\ job' = "cancelling" /\ UNCHANGED at
    /\ UNCHANGED <<rowVars, verdict, starts, boundVars>>

\* execute_node of a node already settled: a completed one returns its stored
\* result, a cancelled one raises.
PassNode ==
    /\ job = "graph" /\ at \in Nodes
    /\ \/ node[at] = "completed" /\ at' = at + 1 /\ UNCHANGED job
       \/ node[at] = "cancelled" /\ job' = "cancelling" /\ UNCHANGED at
    /\ UNCHANGED <<rowVars, verdict, starts, boundVars>>

\* Mutant: the attempt does not set the run's status.
EnterNodeSilently ==
    /\ \/ job = "graph" /\ at \in Nodes /\ node[at] \notin {"completed", "cancelled"}
       \/ job = "node_held"
    /\ \/ /\ control = "active"
          /\ attempts' = [attempts EXCEPT ![at] = Append(@, NewAttempt)]
          /\ node' = [node EXCEPT ![at] = "running"]
          /\ job' = "working"
          /\ UNCHANGED <<status, control>>
       \/ /\ control \in Pausing
          /\ MarkPaused
          /\ job' = "node_held"
          /\ UNCHANGED <<node, attempts>>
       \/ /\ control \in Cancelling
          /\ job' = "cancelling"
          /\ UNCHANGED <<status, control, node, attempts>>
    /\ UNCHANGED <<ended, at, verdict, starts, boundVars>>

\* Mutant: the poll goes on when the run is cancelled.
EnterNodePolling ==
    /\ \/ job = "graph" /\ at \in Nodes /\ node[at] \notin {"completed", "cancelled"}
       \/ job = "node_held"
    /\ \/ /\ control = "active"
          /\ attempts' = [attempts EXCEPT ![at] = Append(@, NewAttempt)]
          /\ node' = [node EXCEPT ![at] = "running"]
          /\ status' = "running"
          /\ job' = "working"
          /\ UNCHANGED control
       \/ /\ control # "active"
          /\ IF control \in Pausing THEN MarkPaused ELSE UNCHANGED <<status, control>>
          /\ job' = "node_held"
          /\ UNCHANGED <<node, attempts>>
    /\ UNCHANGED <<ended, at, verdict, starts, boundVars>>

\* execute_node up to the first await of its microtask: the gate, again polled
\* every 0.2 s, then _create_attempt and _initialize_attempt_runtime.
EnterNode ==
    /\ \/ job = "graph" /\ at \in Nodes /\ node[at] \notin {"completed", "cancelled"}
       \/ job = "node_held"
    /\ \/ /\ control = "active"
          /\ attempts' = [attempts EXCEPT ![at] = Append(@, NewAttempt)]
          /\ node' = [node EXCEPT ![at] = "running"]
          /\ status' = "running"
          /\ job' = "working"
          /\ UNCHANGED control
       \/ /\ control \in Pausing
          /\ MarkPaused
          /\ job' = "node_held"
          /\ UNCHANGED <<node, attempts>>
       \/ /\ control \in Cancelling
          /\ job' = "cancelling"
          /\ UNCHANGED <<status, control, node, attempts>>
    /\ UNCHANGED <<ended, at, verdict, starts, boundVars>>

\* The microtask succeeds without review: _finalize_attempt, and the graph goes on.
MicrotaskPasses ==
    /\ job = "working"
    /\ attempts' = SetLast(at, [Last(at) EXCEPT !.status = "completed"])
    /\ node' = [node EXCEPT ![at] = "completed"]
    /\ job' = "graph" /\ at' = at + 1
    /\ UNCHANGED <<status, ended, control, verdict, starts, boundVars>>

\* Mutant: off by one.
ShouldRetryOneMore(completed) == completed <= MaxAttempts

\* _should_retry_attempt; the attempts counted include the one that just failed.
ShouldRetry(completed) == completed < MaxAttempts

\* The microtask fails or raises: _record_attempt_failure, then either
\* _prepare_retry_candidate and the next attempt's _create_attempt, with no look
\* at the control state, or the error is raised.
MicrotaskFails ==
    LET failed == SetLast(at, [Last(at) EXCEPT !.status = "failed"])
    IN  /\ job = "working"
        /\ \/ /\ ShouldRetry(Len(attempts[at]))
              /\ attempts' = [failed EXCEPT ![at] = Append(@, NewAttempt)]
              /\ status' = "running"
              /\ UNCHANGED <<node, job>>
           \/ /\ ~ShouldRetry(Len(attempts[at]))
              /\ attempts' = failed
              /\ node' = [node EXCEPT ![at] = "failed"]
              /\ job' = "failing"
              /\ UNCHANGED status
        /\ UNCHANGED <<ended, control, at, verdict, starts, boundVars>>

\* _attempt_was_cancelled: a failure whose error text contains "cancel", whoever
\* wrote it, counts as a cancellation, is not retried and ends the run.
MicrotaskReportsCancel ==
    /\ job = "working"
    /\ attempts' = SetLast(at, [Last(at) EXCEPT !.status = "cancelled"])
    /\ node' = [node EXCEPT ![at] = "cancelled"]
    /\ job' = "cancelling"
    /\ UNCHANGED <<status, ended, control, at, verdict, starts, boundVars>>

\* _request_human_verification, reached only when the policy allows one attempt;
\* its progress event refreshes the API's cache.
AskHuman ==
    /\ job = "working" /\ MaxAttempts = 1
    /\ attempts' = SetLast(at, [Last(at) EXCEPT !.pending = TRUE, !.cached = "open"])
    /\ job' = "waiting"
    /\ UNCHANGED <<status, ended, control, node, at, verdict, starts, boundVars>>

\* Mutant: the wait has no end.
ReadDecisionForever ==
    /\ job = "waiting" /\ Last(at).decision # "none"
    /\ verdict' = Last(at).decision
    /\ job' = "settling"
    /\ UNCHANGED <<rowVars, at, starts, boundVars>>

\* _wait_for_human_decision: a poll finds a decision, or the last one finds none.
ReadDecision ==
    /\ job = "waiting"
    /\ verdict' = IF Last(at).decision = "approved" THEN "approved" ELSE "rejected"
    /\ job' = "settling"
    /\ UNCHANGED <<rowVars, at, starts, boundVars>>

\* Mutant: the decision itself is stored.
OutcomeUnmapped(a) == IF a.dropped THEN "cancelled" ELSE verdict

\* The status _finalize_attempt or _record_attempt_failure stores after a review.
Outcome(a) == IF a.dropped THEN "cancelled"
              ELSE IF verdict = "approved" THEN "completed" ELSE "failed"

\* After the payment call: the todo's progress event (which refreshes the
\* cache), the decision stored again, and _finalize_attempt.  An approved
\* microtask returns its result to the graph even when the task was cancelled;
\* otherwise a cancelled task raises the cancellation and a rejected one, with
\* its single attempt used up, the failure.
FinishReview ==
    LET a == Last(at)
        ok == verdict = "approved"
    IN  /\ job = "settling"
        /\ attempts' = SetLast(at, [a EXCEPT !.status = Outcome(a), !.pending = FALSE,
                                             !.decision = verdict,
                                             !.cached = IF a.pending THEN "open" ELSE "shut"])
        /\ node' = [node EXCEPT ![at] = Outcome(a)]
        /\ at' = IF ok THEN at + 1 ELSE at
        /\ job' = IF ok THEN "graph" ELSE IF a.dropped THEN "cancelling" ELSE "failing"
        /\ verdict' = "none"
        /\ UNCHANGED <<status, ended, control, starts, boundVars>>

\* release_payment or reject_and_refund raises: the attempt fails, with the single
\* attempt used up so does the run, and the task is left as the decision, or the
\* end of the wait, has left it.
SettlementRaises ==
    /\ job = "settling"
    /\ attempts' = SetLast(at, [Last(at) EXCEPT !.status = "failed"])
    /\ node' = [node EXCEPT ![at] = "failed"]
    /\ job' = "failing" /\ verdict' = "none"
    /\ UNCHANGED <<status, ended, control, at, starts, boundVars>>

\* The graph has returned: _mark_completed, whatever happened to the run since.
Complete ==
    /\ job = "graph" /\ at = Length + 1
    /\ status' = "completed" /\ ended' = TRUE
    /\ EndJob
    /\ UNCHANGED <<control, node, attempts, boundVars>>

\* The graph has raised ResearchRunCancelledError.
StopCancelled ==
    /\ job = "cancelling"
    /\ MarkCancelled
    /\ EndJob
    /\ UNCHANGED <<attempts, boundVars>>

\* The graph has raised anything else: _mark_failed, _block_pending_descendants.
StopFailed ==
    /\ job = "failing"
    /\ \/ status = "cancelled" /\ UNCHANGED <<status, ended>>
       \/ status # "cancelled" /\ status' = "failed" /\ ended' = TRUE
    /\ node' = BlockedNodes
    /\ EndJob
    /\ UNCHANGED <<control, attempts, boundVars>>

-----------------------------------------------------------------------------
(* The routes.  A request that changes nothing is not a step.                *)

Request == requests < MaxRequests /\ requests' = requests + 1 /\ UNCHANGED crashes

\* request_pause_research_run
Pause ==
    /\ Request
    /\ status \notin Terminal /\ control \notin Pausing
    /\ \/ /\ \E n \in Nodes : node[n] = "running"
          /\ control' = "pause_requested"
          /\ UNCHANGED status
       \/ /\ \A n \in Nodes : node[n] # "running"
          /\ control' = "paused"
          /\ status' = "paused"
    /\ UNCHANGED <<ended, node, attempts, jobVars>>

\* Mutant: a second job is created beside a live one.
EnsureJobTwice == job' = "scheduled" /\ at' = 0 /\ starts' = starts + 1 /\ UNCHANGED verdict

\* _ensure_research_run_job
EnsureJob ==
    IF job = "none" THEN job' = "scheduled" /\ starts' = starts + 1 /\ UNCHANGED <<at, verdict>>
    ELSE UNCHANGED jobVars

\* resume_research_run_route: request_resume_research_run leaves a terminal run
\* alone, the route ensures a job in any case.
Resume ==
    /\ Request
    /\ \/ /\ status \in Terminal
          /\ UNCHANGED <<status, control>>
       \/ /\ status \notin Terminal
          /\ control' = "active"
          /\ status' = IF status = "paused" THEN "running" ELSE status
    /\ EnsureJob
    /\ UNCHANGED <<ended, node, attempts>>

\* The one of S created last: nodes are executed in order.
IsNewest(x, S) == x \in S /\ \A y \in S : y[1] < x[1] \/ (y[1] = x[1] /\ y[2] <= x[2])

\* request_cancel_research_run: the newest running attempt under review is
\* rejected and its task cancelled, in the database only; with no running
\* attempt at all the run is cancelled at once.
Cancel ==
    LET running == {x \in AttemptIds : AttemptAt(x).status = "running"}
        waiting == {x \in running : AttemptAt(x).pending}
    IN  /\ Request
        /\ status \notin Terminal
        /\ \/ /\ running = {}
              /\ MarkCancelled
           \/ /\ running # {}
              /\ control' = "cancel_requested"
              /\ UNCHANGED <<status, ended, node>>
        /\ \/ waiting = {} /\ UNCHANGED attempts
           \/ \E x \in waiting :
                 /\ IsNewest(x, waiting)
                 /\ attempts' = [attempts EXCEPT ![x[1]][x[2]] =
                       [@ EXCEPT !.pending = FALSE, !.decision = "rejected", !.dropped = TRUE]]
        /\ UNCHANGED jobVars

\* What approve_verification and reject_verification see: the cache, the database
\* only when the task is not cached.
SeenPending(a) == a.cached = "open" \/ (a.cached = "absent" /\ a.pending)

\* approve_verification
Approve(x) ==
    /\ Request
    /\ SeenPending(AttemptAt(x))
    /\ attempts' = [attempts EXCEPT ![x[1]][x[2]] =
                      [@ EXCEPT !.pending = FALSE, !.decision = "approved", !.cached = "shut"]]
    /\ UNCHANGED <<status, ended, control, node, jobVars>>

\* reject_verification also cancels the task.
Reject(x) ==
    /\ Request
    /\ SeenPending(AttemptAt(x))
    /\ attempts' = [attempts EXCEPT ![x[1]][x[2]] =
                      [@ EXCEPT !.pending = FALSE, !.decision = "rejected", !.dropped = TRUE,
                                !.cached = "shut"]]
    /\ UNCHANGED <<status, ended, control, node, jobVars>>

\* get_task_status caches a task it does not have.
View(x) ==
    /\ AttemptAt(x).cached = "absent" /\ AttemptAt(x).pending
    /\ attempts' = [attempts EXCEPT ![x[1]][x[2]].cached = "open"]
    /\ UNCHANGED <<status, ended, control, node, jobVars, boundVars>>

\* The API process restarts: the job and the cache are gone, and nothing in the
\* application's startup looks for unfinished runs.
Crash ==
    /\ crashes < MaxCrashes
    /\ crashes' = crashes + 1
    /\ EndJob
    /\ attempts' = [n \in Nodes |-> [i \in DOMAIN attempts[n] |->
                       [attempts[n][i] EXCEPT !.cached =
                          IF attempts[n][i].pending THEN "absent" ELSE "shut"]]]
    /\ UNCHANGED <<status, ended, control, node, requests>>

-----------------------------------------------------------------------------
(* What get_research_run_payload shows: the rows, and the reviews of their tasks. *)

\* _derive_attempt_status
ShownAttempt(a) == IF a.pending THEN "waiting_for_review" ELSE IF a.dropped THEN "cancelled" ELSE a.status

ShownNode(n) ==
    IF node[n] \in {"pending", "running"} /\ attempts[n] # <<>> /\ ShownAttempt(Last(n)) = "waiting_for_review"
    THEN "waiting_for_review" ELSE node[n]

\* A running run is shown waiting if any of its attempts is under review, else paused
\* if it is asked to be, else cancelled if that was asked and it had ended before.
ShownStatus ==
    IF status # "running" THEN status
    ELSE IF \E x \in AttemptIds : ShownAttempt(AttemptAt(x)) = "waiting_for_review" THEN "waiting_for_review"
    ELSE IF control = "paused" THEN "paused"
    ELSE IF control = "cancel_requested" /\ ended THEN "cancelled" ELSE status

-----------------------------------------------------------------------------
Executor ==
    \/ EnterRun
    \/ PassNode
    \/ EnterNode
    \/ MicrotaskPasses
    \/ MicrotaskFails
    \/ MicrotaskReportsCancel
    \/ AskHuman
    \/ ReadDecision
    \/ FinishReview
    \/ SettlementRaises
    \/ Complete
    \/ StopCancelled
    \/ StopFailed

Routes ==
    \/ Pause
    \/ Resume
    \/ Cancel
    \/ \E x \in AttemptIds : Approve(x) \/ Reject(x) \/ View(x)

Next == Executor \/ Routes \/ Crash

Spec == Init /\ [][Next]_vars

\* The event loop runs a ready coroutine, the polls are timers, and every call
\* of a microtask is bounded by a timeout.
FairSpec == Spec /\ WF_vars(Executor)

-----------------------------------------------------------------------------
(* Properties.                                                               *)

\* The values of every variable.
TypeOK ==
    /\ status \in {"pending", "running", "paused"} \cup Terminal /\ ended \in BOOLEAN
    /\ control \in {"active"} \cup Pausing \cup Cancelling
    /\ node \in [Nodes -> {"pending", "running", "completed", "failed", "blocked", "cancelled"}]
    /\ attempts \in [Nodes -> Seq(Attempt)]
    /\ job \in {"none", "scheduled", "held", "graph", "node_held", "cancelling", "failing"} \cup Busy
    /\ at \in 0..(Length + 1)
    /\ verdict \in {"none", "approved", "rejected"}
    /\ requests \in 0..MaxRequests
    /\ starts \in 1..(MaxRequests + 1)
    /\ crashes \in 0..MaxCrashes

\* While a microtask runs, and may spend money, the run says it is running and
\* its node and newest attempt say so too: no pause, resume, cancel, retry or
\* restart leaves work going on behind a paused or finished run.  And it is shown:
\* as running or waiting, or as cancelled already when a run that had ended once is
\* asked to cancel.  A review that nobody has decided is shown on the run and its
\* node, and where no restart abandoned an attempt, a run shown waiting does wait,
\* or has a review whose time ran out and whose refund raised.
WorkIsVisible ==
    /\ job \in Busy =>
         /\ status = "running" /\ node[at] = "running" /\ Last(at).status = "running"
         /\ \/ ShownStatus \in {"running", "waiting_for_review"}
            \/ ShownStatus = "cancelled" /\ control = "cancel_requested" /\ ended
    /\ job = "waiting" /\ Last(at).decision = "none" =>
         ShownStatus = "waiting_for_review" /\ ShownNode(at) = "waiting_for_review"
    /\ crashes = 0 /\ ShownStatus = "waiting_for_review" =>
         \/ job \in {"waiting", "settling"}
         \/ \E x \in AttemptIds : /\ AttemptAt(x).status = "failed" /\ AttemptAt(x).pending
                                /\ AttemptAt(x).decision = "none"

\* At most one node is running, which request_pause_research_run relies on when
\* it asks for one_or_none.
OneActiveNode == \A m, n \in Nodes : node[m] = "running" /\ node[n] = "running" => m = n

\* Without a restart of the process, an attempt says it is running only while the
\* job is working on it: no failure, cancellation or review abandons one.
NoOrphanAttempt ==
    crashes = 0 =>
        \A x \in AttemptIds : AttemptAt(x).status = "running" =>
            job \in Busy /\ x = <<at, Len(attempts[at])>>

\* A node gets the attempts of the policy, and one more for each time the
\* executor was started again.
AttemptBudget == \A n \in Nodes : Len(attempts[n]) <= MaxAttempts + starts - 1

\* A reviewer approved the task of node m after it had been cancelled, and the graph
\* went on with the result (run_review_overridden).
Overridden(m) == /\ node[m] = "cancelled" /\ attempts[m] # <<>>
                 /\ Last(m).dropped /\ Last(m).decision = "approved"

\* A node is first tried only while nobody has asked for a pause or a cancellation,
\* and after every node before it has completed, whatever the number of attempts:
\* the one way past a node that did not complete is a reviewer's approval of a task
\* that had been cancelled.
SchedulesInOrder ==
    [][\A n \in Nodes : attempts[n] = <<>> /\ attempts'[n] # <<>> =>
          /\ control = "active"
          /\ \A m \in 1..(n - 1) : node[m] = "completed" \/ Overridden(m)]_vars

\* A completed run has completed every node (where no attempt goes to review).
CompletedIsWhole == status = "completed" => \A n \in Nodes : node[n] = "completed"

\* A failed run has one failed node, everything before it completed and
\* everything after it blocked (where no attempt goes to review).
FailedIsExplained ==
    status = "failed" =>
        \E n \in Nodes : /\ node[n] = "failed"
                         /\ \A m \in 1..(n - 1) : node[m] = "completed"
                         /\ \A m \in (n + 1)..Length : node[m] = "blocked"

\* The nodes account for the run, over retries and restarts: a completed run is whole,
\* a failed one is explained by one node, and no two nodes are running.
NodesExplainStatus == OneActiveNode /\ CompletedIsWhole /\ FailedIsExplained

\* A job comes to its end unless the run is asked to pause, even if nobody
\* answers a review.
JobEnds == (job # "none") ~> (job = "none" \/ control \in Pausing)

\* A pause takes effect, or the run ends first, unless the process restarts.
PauseSettles == (control = "pause_requested") ~>
                    (control # "pause_requested" \/ status \in Terminal \/ crashes > 0)

\* A requested cancellation ends the run, unless another request replaces it or
\* the process restarts.
CancelSettles == (control = "cancel_requested") ~>
                    (control # "cancel_requested" \/ status \in Terminal \/ crashes > 0)

-----------------------------------------------------------------------------
(* What the documentation says and the code does not do.                     *)

\* docs/PHASE1_HANDOFF.md: cancel cancels downstream work.  A cancellation that
\* was accepted is not forgotten.
CancelIsKept == [][control = "cancel_requested" => control' \in Cancelling]_vars

\* docs/PHASE1_HANDOFF.md: cancel auto-rejects review-pending work.  The review
\* of a cancelled task does not end approved.
CancelledReviewIsRejected == \A x \in AttemptIds : AttemptAt(x).dropped => AttemptAt(x).decision # "approved"
=============================================================================
