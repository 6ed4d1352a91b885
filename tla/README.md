# A TLA+ model of Synaptica

Synaptica runs research jobs by hiring agents on a marketplace: it plans a run
as a chain of nodes, negotiates an agent for each, pays it through an escrow on
Hedera, verifies the result (automatically, or by asking a human), and releases
or refunds the payment. This directory models the parts of that program whose
correctness depends on the order of things. TLC checks small instances, and
TLAPS proves the safety properties of the passing runs for every instance. What
stays with TLC alone is liveness, and the four claims of the documentation that
it shows violated (see Proofs and Findings).

## Inventory

| Component | Code | State it keeps | Operations | Modelled by |
|---|---|---|---|---|
| Payment actions | `shared/payments/service.py`, `agents/negotiator/tools/payment_tools.py`, `agents/verifier/tools/payment_tools.py` | `payments`, `payment_state_transitions` | propose, authorize, release, refund | `PaymentSettlement`, abstractly `Settlement` |
| x402 client, TaskEscrow contract | `shared/protocols/x402.py` | escrow per task id (on chain) | create, approve release, approve refund, read status | `PaymentSettlement` |
| Terminal notifications, reconciliation | `shared/payments/runtime.py` | `payment_notifications`, `a2a_events`, `payment_reconciliations` | emit, compare, repair | `PaymentSettlement` (counted), `Reconciliation` |
| Microtask, runtime state of a task | `agents/orchestrator/tools/agent_tools.py`, `api/main.py`, `shared/runtime/task_state.py` | `tasks.meta["runtime"]`, `tasks_storage` cache | negotiate, authorize, execute, verify, ask, settle | `Microtask` |
| Run executor and control | `shared/research_runs/service.py`, `api/routes/research_runs.py` | runs, nodes, attempts, `_running_jobs` | execute, retry, pause, resume, cancel | `ResearchRunControl` |
| Human review | `api/main.py`, `shared/runtime/task_state.py` | review fields of a task | ask, approve, reject, time out | `ResearchRunControl`, `Microtask` |
| Planner, agent catalog, attempts and their traces | `shared/research_runs/planner.py`, `shared/research/catalog.py`, `shared/research_runs/service.py` | nodes, attempts, decisions, evaluations, handoffs | rank, select, reroute, trace | `RunAttempts` |
| Evidence, claims, deep research | `shared/research_runs/service.py`, `deep_research.py`, `agents/research/phase2_knowledge` | artifacts, claims, links, scores | search, curate, cite, persist, score | `Evidence` |
| Verification and quorum | `agents/orchestrator/tools/agent_tools.py`, `agents/verifier/tools/research_verification_tools.py` | quality summary in a result | relay, score, check the contract, vote | `Verification` |
| Credits | `api/routes/credits.py`, `api/routes/research_runs.py` | `user_credits`, `stripe_transactions` | balance, deduct, webhook, reserve | `Credits` |
| Registry sync, registration, payment profiles, hiring | `shared/registry_sync.py`, `api/routes/agents.py`, `shared/registry/registrar.py`, `shared/payments/runtime.py` | agents, profiles, sync state, on-chain registry | refresh, register, verify, propose | `Marketplace` |
| HOL broker | `shared/hol_client.py`, `shared/hol_agent_usability.py`, `api/main.py`, `api/routes/data_agent.py` | contacts, chat sessions, registration of local agents | search, ask, chat, register | `HolBroker` |
| Data agent | `api/routes/data_agent.py` | datasets, files, provenance topic | upload, verify, anchor, reuse | `DataVault` |
| Reputation | `agents/verifier/tools/reputation_tools.py`, `agents/research/base_research_agent.py`, `shared/registry_sync.py` | `agent_reputations`, votes on chain | grade, count, sync | `Reputation` |
| A2A envelopes, legacy pipelines, prompts, Hedera wrappers, frontend | see `PROJECT.json` | | | in part or not, with the reason there |

How they interact: a route creates a run and starts its executor as an asyncio
task; the executor runs `execute_microtask` for each node in turn, and
`POST /execute` for each todo of a task; a microtask calls the payment actions,
which share the database with the verifier and negotiator servers, and the
chain; a microtask that needs a human writes its request into the task row and
polls it, while the routes answer through a cached copy; the run routes write a
control state the executor polls between nodes. Results become artifacts and
claims of the run, and readers of its evidence graph score them. Credits are
reserved when a run is created, and granted by Stripe's webhook. Who can be
hired and paid comes from rows the registry sync, registration jobs and profile
verifications write.

What is hard: a payment call holds a database session over several awaits on the
chain, where it can time out after its transaction was sent; several processes
issue calls for one payment; the executor, the routes and a reviewer write the
same rows; JSON columns are read, awaited over and written back whole; sessions
do not flush before they query; the job table and the cache die with the process
and the rows do not; the registry sync and two of the credit routes run on
threads. `PROJECT.json` lists each such hazard at its line, with the properties
that would catch it.

The modules that share state are composed: `Microtask` extends
`PaymentSettlement`, so that every payment call of a task is a call of that
module. The others meet at an interface small enough to be an input of each (how
a microtask returned, what a result says), which their sections name.

## PaymentSettlement

State: `task`, `status` are the columns of `payments`; `trans` is
`payment_state_transitions` by payment, action and key; `notified` counts
notification pairs; `escrow` and `mempool` are the contract's storage and the
contract calls not yet mined; `call` is the local state of each coroutine.

A step is the code between two awaits. A proposal is a lookup and an insert
(`ProposeLookup`, `ProposeInsert`), since other processes run between them. The
other three actions begin in one of `Replay` (a stored result is returned),
`Refuse` (the conflict or status check raises and the failure is recorded),
`SettleOffline` (no await at all) and `Start`; then `Submit`, `AwaitReceipt`,
`ReadEscrow` and `Commit` follow the awaits. `Raise` is an exception at any of
them, a receipt timeout included, and `Crash` the end of the process; in both, a
call already sent stays in the mempool. `Mine` executes or reverts a call.
`OtherVerifier` is an approval by a verifier outside this system.

The contract is not in the repository (only its ABI is): it is modelled from how
the client uses it (`createEscrow` for an unused id, approvals until a threshold,
a status that settles for good). Requests and keys follow the callers: the
runtime uses one key per attempt, the verifier's own tools have no context and
use the default key, `POST /execute` gives every todo of a task a key.

What is left out: amounts, addresses, gas and nonces (a rejected nonce is a
`Raise`), receipts and metadata, webhooks.

- `DatabaseAgreesWithChain` and `SettlementNeverFlips` are the promises of the
  escrow read-back: whatever a session had loaded, the status it commits is the
  chain's. They are about the chain mode: offline there is no second source of
  truth.
- `SettledIsAnnounced`: no terminal status without a stored notification pair.
- `OnePaymentPerProposalKey`: the lookup and the insert of racing negotiators
  are reconciled by the unique constraint.
- `ResultOutlivesRetries`: a recorded success is lost at most to a call with its
  key that was in flight when it was recorded. The stronger `RecordedResultStable`
  (never lost) and `OneNoticePerSettlement` (announced once for its key) hold
  where calls do not overlap, which `payment_offline` shows, and
  `payment_lost_result` shows the overlap that breaks the first.
- `EveryCallReturns`: no await holds a call forever.

### Settlement, and that PaymentSettlement implements it

`Settlement` says what the payment actions promise, without callers, keys,
transactions or failures: a payment is proposed for one task, the escrow of a
task is funded and settled once, and what the payment's row says may lag behind
the escrow, or doubt it, but not run ahead of it. `PaymentRefinement` maps the
row to the record and the contract's state to the escrow, approvals counted
away, and `payment_concurrent` checks `ImplementsSettlement`: over stale reads,
timeouts, crashes and reverted calls, every step is a step of the promise or
changes nothing it speaks of. The mapping is for the chain mode.

## Microtask

`Microtask` extends `PaymentSettlement` with the coroutine of a task started by
`POST /execute`. State: `at` is where that coroutine is, `verdict` what became of
the work of each todo, `row` the runtime state in the task's meta column and
`cache` its snapshot in `tasks_storage`.

A step goes from one await to the next. A payment call begins in the step that
issues it (`Negotiate`, `Authorize`, `SettleAs`) and goes on by the steps of
`PaymentSettlement` (`Pay`), in which the chain, restarts and the routes come
between. `Append2` appends two events of one step. `Append1` is `append_progress_event` as it is persisted: the event list
is changed in place, so the ORM writes it only when the step or the status
changed, and a second event of one step is not written. `Approve1` and `Reject1`
act on the snapshot. What verification says is an input (`Verdicts`), which
`Verification` looks into. All todos of a task share the escrow of its id.

- `VerdictIsSettled`: a todo is reported completed or rejected only when the
  settlement its verdict calls for is on record, and no settlement contradicts
  the verdict, whatever raised, timed out or was decided late.
- `CompletedTaskIsWhole`: although many events are not persisted, a completed
  task has every todo accepted and reported.
- `ReviewIsReachable`: an undecided request is seen by the review routes.
- `EscrowFollowsVerdict`: the shared escrow pays out only after some todo was
  accepted, and back only after one was rejected.
- `TaskEnds`: a started task ends, unless the process stops.

## ResearchRunControl

State: `status`, `ended` (`completed_at`, which nothing resets) and `control` are
the run's row, `node` its nodes, `attempts` the
attempts of each node with the review fields of their tasks, `job` and `at` say
where the executor's coroutine is, `verdict` what the review returned.

Executor and routes are coroutines of one event loop, so everything between two
real suspensions is one step: `EnterRun` and `EnterNode` are the two polled gates
(`EnterNode` includes the creation of the attempt, as no await separates them),
`PassNode` a node already settled, `MicrotaskPasses`, `MicrotaskFails`,
`MicrotaskReportsCancel` and `AskHuman` how a microtask ends or turns to a human,
`ReadDecision`, `FinishReview` and `SettlementRaises` (the release or refund after
the decision raises) the review, `Complete`, `StopCancelled` and `StopFailed` the
end of the job. Routes: `Pause`, `Resume`, `Cancel`, `Approve`,
`Reject`, and `View`, which fills the cache. `Crash` restarts the process:
the job and the cache are lost and nothing looks for unfinished runs.
`ShownStatus`, `ShownNode` and `ShownAttempt` are the statuses
`get_research_run_payload` derives: a running run is shown waiting, paused, or, if
it is asked to cancel and had ended once before, cancelled.

The verifier's decision is left out, as the executor reads only how the microtask
returned. A review is reached only when the policy allows one attempt
(`max_node_attempts = 1`), as in the code. The plan is the planner's chain. The
graph library's time limit is left out: `run` does not look at what the graph
returns, so a limit that returns instead of raising would end in `Complete`; this
is listed as a hazard.

- `WorkIsVisible`: no microtask, which may spend money, goes on behind a paused
  or finished run, and a review nobody has decided is shown. Two cases of the code
  are left to it. A failed run that was resumed and is then asked to cancel is
  shown as cancelled while its attempt still works. And a review whose time ran out
  and whose refund raised stays shown, although nobody waits for it.
- `AttemptBudget`: the number of attempts, over retries, restarts and resumes.
- `SchedulesInOrder`: a node is first tried after those before it completed, and
  while nobody has asked for a pause or a cancellation. It is checked with one
  attempt per node, the code's default, where reviews are: the one way past a node
  that did not complete is the approval of a cancelled review (`Overridden`, the
  finding `run_review_overridden`), after which a resume goes on to the next node.
- `NoOrphanAttempt`: without a restart, no attempt is left running.
- `NodesExplainStatus`: what the final status says of the nodes, and that no two
  are active. It is checked where no attempt goes to review: a run whose review
  was approved against a cancelled task completes with a cancelled node.
- `JobEnds`, `PauseSettles`, `CancelSettles`: under a fair event loop a job ends,
  even if nobody answers a review, and a pause or cancellation takes effect. The
  last two except a restart of the process: the attempt it leaves running makes
  the cancellation wait for an executor that no longer exists.

## Credits

State: `exists` and `balance` are the user's row, `tx` the transactions of
checkout sessions, `op` what each handler has read, `sent` the HBAR transfers
made. `credited`, `opening` and `taken` are history the properties compare with.

A handler reads in one step and commits in another. Handlers on the event loop
exclude one another in between (`LoopFree`: they do not await), those on threads
exclude nobody. `CommitFails` and the second branch of `Transfer` are commits
refused by a constraint or by a failing database (`DatabaseFails`). `Crash` may
leave transfers sent whose transactions stay pending.

The balance stays a natural number (`TypeOK`), and a checkout is credited once
and paid out at most once (`CreditedOnce`, `TransferredOnce`). With threads
`LedgerBalances` does not hold: `deduct_credits` and `get_balance` write back a
balance they computed before another commit. `LoopLedgerBalances` and
`LoopTransferSettles` say what the event loop alone guarantees.

## Marketplace

State: `chain` is the identity registry, `rows`, `profile` and `sync` are the
tables of agents, payment profiles and the sync state, `thread` what each syncing
thread is doing, `alive` whether the refresh task still runs, `job` the background
registrations, `check` and `payee` what a profile verification and a negotiation
have read.

A sync is `Begin` (stale, and the lock of its process free), `Fetch` (the
registry and the gateways may answer in part; an unreachable registry looks like
an empty one), `Apply` and `Finish`, two commits, either of which may fail. A
registration is `Submit`, `JobLoad`, `JobCall` (the registrar, whose receipt may
not come) and `JobRecord`, which writes back the whole meta column it had read. A
profile verification and a hire read in one step and write in another. `Restart`
writes the catalog again.

- `PayeeIsVerified`: every payment proposed goes to an account that was verified
  for that agent, though a sync may empty an account, and a check without an
  account compares nothing.
- `RegisteredIsOnChain`: a recorded registration is on chain.
- `RegistryIsMirrored`: the registered agents become active in the table again
  after outages, restarts and lost writes, as long as the refresh task lives. It
  dies on any exception but a `RegistrySyncError`, a failed commit for one.

## The services

Seven modules share no state with one another; `MCServices` checks them in one
run, where `focus` chooses which one a behaviour is about and the others rest.

**HolBroker** (`broker` and `registration`): `rows` what past contacts say of an
agent, `use` requests that put a dataset to the best candidates, `chat` sessions,
`meta` and `reg` the HOL fields of a local agent and its registrations, `issued`
what the broker did. The client's calls are the sets of their answers
(`SessionAnswers`, `MessageAnswers`, `RegisterAnswers`): a call that failed after
it was sent may have been acted on. *BrokerIsTrue*: a request never puts a
dataset to one agent twice, however often its searches find an agent, its sessions
fail and it falls back to direct messages; and an agent recorded as registered has the
UAID the broker issued, though an error or a restart may reset its status.

**DataVault** (`vault`): `content` and `file` are rows and stored files, `trust`
the JSON column of verification and proof, `topic` the provenance topic, `request`
what an anchoring or a use awaits with the column as it read it. *TrustIsEarned*:
one dataset of a content has passed, and one that says it is anchored has its
manifest on the topic, although requests write back what they read before.

**Verification** (`verification`): `Relay` is the language model's verdict, parsed
from its reply, `Score` the deterministic verifier; both end in the contract and
the quorum, and write the quality summary into the result. A text is what the
checks find in it; the six scores, their clamps and thresholds are computed.
*VerdictIsEarned*: no guard, rounded coverage, truncated vote or earlier summary
makes up for a claim without known citations, and no output with an ethical issue
or without two required fields is accepted. `Extracted` shows how a reply is
read: fenced objects are read a second time after the whole text, so a fenced
draft wins over a later verdict without fences.

**Evidence** (`evidence`): a run's miner searches in rounds within a budget
(`Round`, `Deepen`), sources are enriched, filtered and cited (`Gathered`,
`Curate`), an answer is persisted (`Complete`), and readers score its claims
(`ReadRecord`, `ReadArtifacts`, `ReadClaims`, `ScoreClaims`). A sort by a key
(`Sorted`, `Prioritized`) gives any of the orders that agree with it, since pages
of the same key keep the order of a search engine. Sessions do not
flush before a query, which `ByKey` shows: rows are found by the keys they had
when the transaction began. For the same reason the scoring in `_mark_completed`
meets no claim, and claims are scored by whoever reads them first.
*EvidenceIsTraceable*: the budget holds, every curated source has one artifact,
cited under the id the answer uses, and every link leads to an artifact.
*ScoresAreEarned*: a score without a gap belongs to a claim that cites curated
sources only.

**RunAttempts** (`attempts`): the chain of nodes with its bindings, the ranking of
agents, the selection of the negotiator, attempts, rerouting, and the rows that
trace an attempt. Built-in agents stay ranked whatever their rows say, so an
inactive one is passed over by the selection only. A success whose task was
cancelled on the last node completes the run with that node cancelled.
*AttemptsAreTrue*: every ended attempt has the one decision that fits it; an agent
is asked again only after all others were named, except where the write of a
result failed, which forgets whom it had asked; and no node works without the
results it is bound to. How many attempts a node may have, resumes included, is
`AttemptBudget` of `ResearchRunControl`: this module has no restart and no resume.
A microtask may be cancelled before it asks an agent (`Cancellations`). The stored `trace_summary` lags by one attempt, again
for want of a flush; nothing reads it.

**Reputation** (`rating`): grades, executions and the registry sync on one row,
which no constraint keeps single, and the votes on chain. Nothing in the
repository imports the two grading tools; they are actions because the module
exports them to agents. *ReputationIsEarned*: every recorded outcome is counted
once, in two rows at the most, scores stay in range, the bonus goes to agents most
of whose tasks succeeded, and a vote has a recorded task of its kind.

**Reconciliation** (`notices`): settlements as seen at their commit (they are
calls begun while the payment was authorized), and reconcilers as a step per
query. `LoseNotice` is the loss the repair is for. *ReconciliationIsTrue*: a
settled payment called matched or repaired has both final notifications, and one
that may be repaired is called incomplete only if a call for the other action
settled it.

## Runs

| Run | Instance | Question |
|---|---|---|
| `payment_concurrent` | two callers, one payment, two approvals, fair | agreement of row, chain and notices; refinement of `Settlement`; calls return |
| `payment_offline` | three payments, two tasks, no chain | one payment and one notice per key |
| `payment_lost_result`, `payment_unfunded` | expected violations | see Findings |
| `microtask` | one task of three todos on one escrow, any verdict, restarts, fair | verdict, settlement and events of a todo agree; tasks end |
| `run_review` | one attempt, two nodes, four requests, one restart, fair | visibility, orphans, order, pauses and cancellations |
| `run_retry` | two attempts, three nodes, five requests, two restarts | budget, meaning of the status |
| `run_cancel_forgotten`, `run_review_overridden` | expected violations | see Findings |
| `credits` | two threads, two coroutines, two sessions, failing commits; or the coroutines alone, fair | clamp, credit once, pay once; exact ledger |
| `marketplace` | a built-in and a submitted agent, the refresh task and a script of another process, one outage, two changes | who is paid; the table mirrors the chain |
| `services` | one service per behaviour | the eight properties above |

Why the bounds are enough. Two callers, two keys and two payments are the fewest
that make every conflict of payments happen: two calls with the same key, with
different keys, and of different payments of the task; `MaxCalls` leaves room for
a proposal, an authorization, both settlements and a retry. Three todos give one
before and one after the one in question on the shared escrow, as three nodes do
for a run with retries, and two for one with reviews, where the order is of a node
and the one before it; two attempts are the fewest with a retry; four requests are a pause, a
resume, a cancellation and an answer in every order. Credits 1 and 2 with a
default of 2 reach zero, the clamp and a refused reservation, and four requests
let two deliveries of one event and two other writers overlap. In the marketplace
one outage leaves one commit or fetch of one sync undone, while two changes give
a second syncer, a re-registration or a restart around it. In `services` two
agents and two overlapping searches give a duplicate candidate, three
registrations an overlap with a reset, two datasets a duplicate and two
anchorings a stale write; pages of each kind, one with two URLs that are one when
normalised, give every key an artifact can have; five agents of three families
leave each node a choice of two or three; three tasks and two syncs reach the
bonus and two rows; two reconcilers, two settlements and one loss give every pair
of reads something between them. The replies and texts of `Verification` lie on
either side of the thresholds that decide the verdict.

## Fairness and deadlock

`FairSpec` of `PaymentSettlement` is weak fairness of each caller's progress:
the event loop resumes a coroutine, and every await on the chain ends at the
latest with its timeout (`Raise`). Nothing is assumed of the chain. `MicroFairSpec`
of `Microtask` adds weak fairness of the coroutine of a task: agents are called with a timeout
and a review is polled for an hour; reviewers owe nothing.
`ResearchRunControl` has weak fairness of the executor: its polls are timers and
each call of a microtask has a timeout; routes and reviewers owe nothing.
`Credits` has weak fairness of each handler, in `MCFairSpec` of the coroutines on
their own. `FairSpec` of `Marketplace` has weak fairness of
time (`Expire`), of the refresh task, which wakes on a timer, and of what another
syncer has begun; nobody owes the start of a forced sync. The other services are
checked for safety only. The specifications without fairness (`Spec`,
`MicroSpec`, `MCSpec`, `VaultSpec`, `ReconciliationSpec`, `VerificationSpec`) are
those the proofs are about. Except for `marketplace`, the runs do not check
deadlock: runs and tasks end, and the requests of an instance are used up, which
is a state where the system may really rest.

## Findings

Runs that expect a violation show where the code does not do what its
documentation says; `PROJECT.json` quotes both sides.

- `payment_lost_result`: a failing call overwrites the completed transition
  recorded for its key while it waited.
- `payment_unfunded`: a reverted `createEscrow` still authorizes the payment.
- `run_cancel_forgotten`: a pause or resume replaces a requested cancellation.
- `run_review_overridden`: an approval overrides the rejection of a cancellation.
  With a resume the run then tries the next node, although the one before it ended
  cancelled.

The modules also show behaviour that no document speaks of and that a reader of
the code may not expect: a restart or a failed commit of the refresh thread leaves
the sync state at "running"; a failed registration may be on chain; an
automatic anchoring that raises removes the file of a committed row; a run may
complete with its last node cancelled; a resumed run may be shown as cancelled while
it works; a draft verdict in fences wins over the
final one. They are named in the sections above and in the comments at their
actions.

## Proofs

Every theorem is about a specification without fairness, for every value of the
constants that satisfies the assumption named in the module (`PaymentAssumption`,
`CreditsAssumption`, `RunAssumption`, `MicrotaskAssumption`, `MarketAssumption`);
where it needs more, that is its hypothesis, given below. The invariant to be
proved is seldom inductive, so each module states a stronger one, shows that it
holds initially and is kept by every action, one step or lemma per action, and
then reads the theorems off it.

| Theorem | Property | Hypothesis |
|---|---|---|
| `PaymentProofs`: `TypeCorrect`, `ChainAgreement`, `OneProposal`, `Announced` | `TypeOK`, `DatabaseAgreesWithChain`, `OnePaymentPerProposalKey`, `SettledIsAnnounced` | |
| `RetriesReplay` | `ResultOutlivesRetries` | |
| `NoFlip`, `PromiseKept` | `SettlementNeverFlips`, `ImplementsSettlement` | the escrow is on chain |
| `OfflineResultsStay` | `RecordedResultStable` | payments are offline |
| `OfflineAnnouncesOnce` | `OneNoticePerSettlement` | offline, finitely many keys |
| `MicrotaskProofs`: `VerdictsAreSettled`, `CompletedIsWhole`, `ReviewsAreReachable`, `EscrowFollows` | `VerdictIsSettled`, `CompletedTaskIsWhole`, `ReviewIsReachable`, `EscrowFollowsVerdict` | |
| `RunControlProofs`: `TypeCorrect`, `BudgetKept`, `NoneAbandoned`, `WorkShown` | `TypeOK`, `AttemptBudget`, `NoOrphanAttempt`, `WorkIsVisible` | |
| `InOrder` | `SchedulesInOrder` | |
| `NodesExplain` | `NodesExplainStatus` | `MaxAttempts > 1` |
| `CreditsProofs`: `BalanceNeverNegative`, `GrantedOnce`, `PaidOutOnce` | `TypeOK`, `CreditedOnce`, `TransferredOnce` | |
| `LoopLedgerExact` | `LoopLedgerBalances` | |
| `MarketplaceProofs`: `PaysTheVerified`, `RegisteredStaysOnChain` | `PayeeIsVerified`, `RegisteredIsOnChain` | |
| `TrustProofs`: `EachToldOnce`, `RegistrationsAreTrue` | `AskedOnce`, `RegisteredHasUaid` | |
| `OnePasses`, `AnchorsHold` | `OnePassedPerContent`, `AnchoredIsOnTopic` | no content is `NoContent` |
| `RatingsAreEarned` | `ReputationIsEarned` of `Reputation` | `GradesOK`, failures graded 0.85 at most |
| `RowsAgreeAlways` | `RowsAgree` | `GradesOK` |
| `VerdictProofs`: `ReconciliationHolds` | `ReconciliationIsTrue` of `Reconciliation` | |
| `AnswersAreCited`, `AcceptancesAreSound` | `ApprovedAnswerIsCited`, `AcceptedIsSound` | `Inputs` |
| `EveryEndIsDecided` | `AttemptsAreTraced` | `AttemptsAssumption` |
| `NobodyIsAskedTwice` | `NobodyAskedAgain`, `InputsAreThere` | `AttemptsAssumption` |
| `EvidenceIsKept`, `NoScoreIsUnearned` | `SearchBudget` with `EvidenceIsTraceable` of `Evidence`, `ScoresAreEarned` of `Evidence` | `EvidenceAssumption` |
| `ServicesProofs`: `BrokerHolds`, `TrustHolds`, `VerdictsHold` | `BrokerIsTrue`, `TrustIsEarned`, `VerdictIsEarned` of `MCServices` | |
| `AttemptsHold`, `EvidenceHolds`, `ScoresHold` | `AttemptsAreTrue`, `EvidenceIsTraceable`, `ScoresAreEarned` of `MCServices` | |
| `ReputationHolds`, `NoticesReconcile` | `ReputationIsEarned`, `ReconciliationIsTrue` of `MCServices` | |

**PaymentProofs.** `DatabaseAgreesWithChain` is not inductive: a commit writes
what its coroutine read from the escrow some steps earlier. `IInv` adds `CallInv`
(what a coroutine at its commit read of a settled escrow is still true, and its
task is the payment's), `EscrowInv` (an escrow that is not settled is below its
threshold, so an approval keeps its type), and `RowInv` (only existing payments
have transitions, so an insert cannot create a second row for a key). `Stable`
names why `CallInv` survives: tasks of payments and settled escrows never change.
`NoFlip` combines the invariant before and after a step with `EscrowFinal`, that a
settled escrow stays as it is; `RetriesReplay` goes through the actions that write
a transition. `PromiseKept` is the refinement of `Settlement`: `WriteStep` says
what a step can do to a payment's row, `EscrowStep` what it can do to an escrow,
and `PromiseStep` maps their combination to a step of the promise or a stutter.
Offline no coroutine ever waits (`OfflineInv`), so a step writes at most one row
and never one that is completed (`OfflineWrites`); that gives both offline
theorems, the second by counting the keys of recorded settlements, of which there
must be finitely many.

**MicrotaskProofs.** A microtask's steps are steps of payments, so `MicroInv`
takes `IInv` of `PaymentProofs` and relates to each call the coroutine that waits
for it: `CallFits` (the call has the key of the current todo, and settles the way
its verdict says), `PlanFits` (todos left behind are accepted and reported, those
to come are undecided), `WholeFits` and `ReviewFits` (what the row and the cache
say of the end and of an open review). `ChainInv` carries verdicts into the
mempool: a settlement sent before a restart follows a verdict, although no
coroutine remembers it. Since all todos share one escrow, it speaks of some todo
of the task. `TaskOK` is stated of one task's values, so that a step of a task
disturbs only its own.

**RunControlProofs.** `IInv` adds to the types `AtInv` (where the graph is, and
how many starts the requests explain), `BudgetInv` (a node the executor has still
to try has one attempt left, which is why the budget grows by one for each start
and no more), `WorkInv` and `OrphanInv`. `InOrder` holds for every policy: its
`OrderInv` says that the graph has passed only nodes that completed or were
overridden, and that an override lasts, because an approved task is out of every
reviewer's reach. `NodesExplain` needs `ChainInv` besides: a node was tried only
when all before it completed. With one attempt per node a review can be approved
against a cancelled task, and then `NodesExplainStatus` fails: `MaxAttempts > 1`
is the policy under which the code never asks for a review.

**CreditsProofs.** `IInv` adds that a reservation about to commit was covered by
the balance it read (`WriteInv`), that a handler on its way to the transfer is
the only one of its session, whose transaction is pending and unpaid
(`TransferInv`), and that a session without a transaction is unpaid
(`UnpaidInv`). On the event loop alone `LoopInv` adds `FreshInv`, that a handler
between its reads and its commit is alone and what it read is the row as it is,
and `NoRowInv`; the ledger is then kept commit by commit, by the cardinality of
the set of credited sessions, which stays finite however many sessions there are.

**MarketplaceProofs.** `ProfileInv` says that the account of a verified profile
was remembered when it was written, `PayeeInv` that a proposal goes to one of
those, and `JobInv` that each registration has a document to register and that
one the registrar confirmed, or a row records, is on chain.

**TrustProofs.** Of the data vault, `OnePassedPerContent` is not inductive, since
a request may write back "passed" from the column it read. `PassInv` therefore
counts a dataset as passed while any request still holds such a column, and
`AnchorInv` asks the same of manifests; `Sound` names what a step may write.
Of reputation, `LoopInv` says that the row the event loop is about to write counts
one outcome more than the row in the table, of which the sync may meanwhile change
the score only; `KnownInv` and `ThreadInv` leave room for the second row the two
sessions can add, and for no third. `RowOK` bounds the quality of a row by the
grades of its outcomes, and `ScoreLemma` and `BonusLemma` turn a score that earns
the bonus into a share of successes. The code accepts any grade between 0 and 1
(`GradesOK`), also for failures: one success and one failure, both graded 1, earn
the bonus. The majority of `RatingsAreEarned` therefore needs failures graded 0.85
at the most, as in the run, and `RowsAgreeAlways` says what is left without that.
Of the broker, `UseOK` says that the candidates left to a request are distinct
and none of them was told. That needs to know what a filter and a stable sort
leave of a search: `ArrangedLemma` shows, without an induction, that they keep
the sequence free of repetitions, because the order is stated by the places it
takes agents from. `RegInv` asks of every column a registration has loaded what
is claimed of the one in the table, so that writing a stale one back does no harm.

**VerdictProofs.** For reconciliation, `SettledInv` says that the call that
settled a payment has left its events, `ReadingOK` that what a process has read
is still true unless a loss was counted meanwhile, and `PastInv` that a verdict
is about the past. That the earliest event is one of the events uses that the
natural numbers are well-founded; `NoIssueLemma` turns a count of no issues into
a set of none. For verification, `VerifyInv` keeps the parts of the result the
contract reads; `Inputs` is what is needed of the types of results, criteria and
texts. The scores are bounded by `ClampLemma`, and `IncompleteLemma` shows that
two missing fields cost more than the threshold leaves, whatever else is scored.
For attempts (`AttemptInv`), `TraceInv` matches the rows of the trace with the
attempts that ended, one for one, which turns the cardinality in
`AttemptsAreTraced` into a place; `ChainInv` says that the nodes before the one
at work are completed, that a completed node has its result and an approval as
its newest row, and how many tries a pending node has left. `NamedInv` is
`NobodyAskedAgain` of one attempt at a time: whoever it asked was not named
before, or everybody who stays fit was. `Staying` shrinks as the market changes,
which is why the property leaves out agents that changed. `AttemptsAssumption`
says that requests ask for whole numbers.

For evidence (`EvidenceInv`), `GatheredInv` and `CuratedInv` say which artifacts
there are before and after the sources are curated, and `ClaimsInv` and
`QueriedInv` what the claims, the links and the queries of a reader know of
them: what was read of claims that are still there is what they are, but for
their scores. The work is in the upsert, which is a fold over sources:
`UpsertedUnfolds` unfolds it source by source, and an invariant on the place
reached shows that each source finds its own row, by its key or its URL, and
turns no other into it. `EvidenceAssumption` is what the code's identifiers
are: citation ids differ from each other and from URLs, no URL is empty, no id or
URL is that of an unknown citation, and there are ids for as many sources as are
asked for (`assign_citation_ids` counts them up).

**ServicesProofs.** The run `services` checks instances of these modules, and a
theorem about a module holds of its instance. Its instances `Hol`, `Local`,
`Vault`, `Rating`, `Verify`, `Attempt`, `Graph` and `Notice` are equal, operator by
operator, to the instances the two proof modules give (`SameBroker`,
`SameRegistrations`, `SameVault`, `SameRating`, `SameVerification`,
`SameAttempts`, `SameEvidence`, `SameNotices`), and the constants satisfy the
hypotheses (`TaskInputs` for verification, `PagesOK` for evidence, the definitions
of the instance for the rest); the eight theorems say the run's own properties.

### Only model-checked

- Liveness (`EveryCallReturns`, `JobEnds`, `PauseSettles`, `CancelSettles`,
  `LoopTransferSettles`, `TaskEnds`, `RegistryIsMirrored`): out of this prover's
  reach under fairness.
- That the evidence of a run gathers and curates something at all, and that each
  action and each branch of these modules is taken: a theorem cannot say it, and
  the coverage of the runs does.

## Not modelled

- Webhooks and A2A envelopes other than terminal messages: what a receiver makes
  of them is outside the repository.
- What language models say, and the agent of `agents/orchestrator/agent.py` and
  the tools in `hol_tools.py` that one may call in any order.
- Text heuristics: the classification of a query, the words that match claims to
  targets, the wording checks of a result, beyond what they find.
- Report packs, serializers and read-only routes; the cached JSON list of agents;
  the `recent_tasks` list of a reputation, which is persisted at most once.
- The time limit of the graph library, which is not in the repository.
- Legacy pipelines, prompts, and the frontend, which polls the routes and on
  whose view nothing else depends.
- Simplifications that a run of the system does not tell apart: a strategy
  "role:x" of a catalog card counts as the family x, and runs of the research
  executor use the single verifier without strict mode, while `Verification`
  covers every policy.

## Plan

Done: the modules and runs above, and the proofs of the safety properties of
every passing run. What is left:

1. Every score of `Verification` stays in 0..100, and no quorum passes what the
   verifier did not accept.
2. The five hazards that `PROJECT.json` lists without a property: nonces of two
   sends from one wallet, webhooks before a commit, the time limit of the graph
   library, credits of a run that failed, and files of a row that was committed.
   Each has the reason there.
3. A refinement for `Credits` and `Marketplace` of the kind `Settlement` is for
   payments.
