----------------------------- MODULE MicrotaskProofs -----------------------------
(***************************************************************************)
(* Proofs about Microtask, for every number of tasks, each with any plan of *)
(* todos, any verdicts, reviewers and restarts, offline or on chain.  What   *)
(* PaymentProofs shows of a payment call is used of every call a coroutine   *)
(* makes.                                                                  *)
(***************************************************************************)
EXTENDS Microtask, PaymentProofs

\* A coroutine that has not yet decided about the work of its todo, and one that
\* may still go on.
Undecided == {"new", "todo", "propose", "authorize", "execute", "verify", "review"}
Working == Undecided \cup {"settle"}

StepNames == {"none", "initialization", "orchestrator_analysis", "planning", "negotiator", "executor",
              "verifier", "verification", "microtask", "orchestrator", "cancellation"}
Steps == StepNames \X (Keys \cup {NoKey})
StepStatuses == {"started", "running", "completed", "failed", "waiting_for_human", "cancelled"}
Overalls == {"processing", "completed", "failed", "CANCELLED"}
Events == [step : Steps, status : StepStatuses, overall : Overalls \cup {"same"}]
Decisions == {"none", "approved", "rejected"}

Places == [pc : Working \cup {"ended", "lost"}, i : DOMAIN Plan, decision : Decisions]
Works == [Keys -> {"none", "accepted", "rejected"}]
States == [step : Steps, status : Overalls, log : SUBSET (Steps \X StepStatuses), pending : BOOLEAN,
           decision : Decisions]
Snapshots == [status : Overalls \cup {"not_found"}, pending : BOOLEAN]

MicroTypeOK ==
    /\ at \in [Tasks -> Places]
    /\ verdict \in [Tasks -> Works]
    /\ row \in [Tasks -> States]
    /\ cache \in [Tasks -> Snapshots]

\* The todos a coroutine at place a has left behind.
Behind(a, k) == \E j \in DOMAIN Plan : j < a.i /\ Plan[j] = k

Said(r, k, s) == <<<<"microtask", k>>, s>> \in r.log

\* The payment call of a task: it has the key of the current todo, and its action
\* is the one the coroutine's place and its verdict call for.
CallFits(t, a, v, c) ==
    /\ c.pc # "idle" => a.pc \in {"propose", "authorize", "settle"} /\ c.task = t /\ c.key = Plan[a.i]
    /\ c.pc = "insert" => a.pc = "propose"
    /\ c.pc \in {"submit", "wait", "read", "commit"} =>
          \/ a.pc = "authorize" /\ c.action = "authorize"
          \/ a.pc = "settle" /\ v[Plan[a.i]] = "accepted" /\ c.action = "release"
          \/ a.pc = "settle" /\ v[Plan[a.i]] = "rejected" /\ c.action = "refund"

\* Todos left behind are accepted and reported; of those to come nothing is
\* decided or reported, and of the current one nothing before it is settled.
PlanFits(a, v, r) ==
    \A k \in Keys :
        /\ Behind(a, k) => v[k] = "accepted" /\ Said(r, k, "completed")
        /\ ~Behind(a, k) /\ (k # Plan[a.i] \/ a.pc \in Undecided) => v[k] = "none"
        /\ ~Behind(a, k) /\ (k # Plan[a.i] \/ a.pc \in Working) =>
              ~Said(r, k, "completed") /\ ~Said(r, k, "failed")
        /\ a.pc \in Working /\ r.step = <<"microtask", k>> => Behind(a, k)
        /\ a.pc = "settle" => v[Plan[a.i]] # "none"

WholeFits(a, v, r) ==
    r.status = "completed" =>
        /\ a.pc = "ended"
        /\ \A i \in DOMAIN Plan : v[Plan[i]] = "accepted" /\ Said(r, Plan[i], "completed")

\* The cache holds nothing or what the row says, and an open request is in the row.
ReviewFits(a, r, s) ==
    /\ s \in {NoSnapshot, Snapshot(r)}
    /\ a.pc = "review" /\ r.decision = "none" => r.pending

TaskOK(t, a, v, r, s, c) == CallFits(t, a, v, c) /\ PlanFits(a, v, r) /\ WholeFits(a, v, r) /\ ReviewFits(a, r, s)

TasksInv == \A t \in Tasks : TaskOK(t, at[t], verdict[t], row[t], cache[t], call[t])

\* Settlements sent to the chain, and those it made, follow a verdict.
Rules(t, v) == \E k \in Keys : verdict[t][k] = v

ChainInv ==
    /\ \A tx \in mempool : /\ tx.fn = "release" => Rules(tx.task, "accepted")
                           /\ tx.fn = "refund" => Rules(tx.task, "rejected")
    /\ \A t \in Tasks : /\ escrow[t].state = "released" => Rules(t, "accepted")
                        /\ escrow[t].state = "refunded" => Rules(t, "rejected")

MicroInv == IInv /\ MicroTypeOK /\ TasksInv /\ ChainInv /\ VerdictIsSettled

-----------------------------------------------------------------------------
(* Lemmas about the plan and the progress events *)

LEMMA PlanFacts ==
    /\ DOMAIN Plan = 1..Len(Plan) /\ Len(Plan) \in Nat /\ 1 \in DOMAIN Plan
    /\ \A i \in DOMAIN Plan : Plan[i] \in Keys
    /\ \A i, j \in DOMAIN Plan : Plan[i] = Plan[j] => i = j
    /\ Callers = Tasks /\ NoKey \notin Keys
<1>1. Plan \in Seq(Keys) /\ Plan # <<>>
  BY MicrotaskAssumption
<1>2. DOMAIN Plan = 1..Len(Plan) /\ Len(Plan) \in Nat /\ Len(Plan) # 0 /\ \A i \in DOMAIN Plan : Plan[i] \in Keys
  BY <1>1
<1> QED BY <1>2, MicrotaskAssumption, PaymentAssumption

\* The todo at hand is not one left behind.
LEMMA CurrentTodo == ASSUME NEW a \in Places PROVE Plan[a.i] \in Keys /\ ~Behind(a, Plan[a.i])
  BY PlanFacts DEF Places, Behind

\* What an event leaves of the state: its step, its status and at most itself.
LEMMA AppendLemma ==
    ASSUME NEW r \in States, NEW e \in Events
    PROVE  LET new == Append1(r, e) IN
           /\ new \in States /\ new.pending = r.pending /\ new.decision = r.decision
           /\ new.step = e.step
           /\ new.status = IF e.overall = "same" THEN r.status ELSE e.overall
           /\ r.log \subseteq new.log /\ new.log \subseteq r.log \cup {<<e.step, e.status>>}
           /\ r.step # e.step => <<e.step, e.status>> \in new.log
<1> DEFINE status2 == IF e.overall = "same" THEN r.status ELSE e.overall
           new == [r EXCEPT !.step = e.step, !.status = status2, !.log = @ \cup {<<e.step, e.status>>}]
<1>1. e.step \in Steps /\ e.status \in StepStatuses /\ status2 \in Overalls
  BY DEF Events, States
<1>2. <<e.step, e.status>> \in Steps \X StepStatuses
  BY <1>1
<1>3. Append1(r, e) = IF r.step = e.step /\ r.status = status2 THEN r ELSE new
  BY DEF Append1
<1> HIDE DEF status2
<1>4. /\ new \in States /\ new.pending = r.pending /\ new.decision = r.decision
      /\ new.step = e.step /\ new.status = status2 /\ new.log = r.log \cup {<<e.step, e.status>>}
  BY <1>1, <1>2 DEF States
<1> HIDE DEF new
<1> QED BY <1>3, <1>4 DEF status2

\* The events of the coroutine and of the routes.
LEMMA EventLemma ==
    ASSUME NEW k \in Keys \cup {NoKey}, NEW s \in StepStatuses, NEW n \in StepNames
    PROVE  /\ Event(n, k, s) \in Events /\ Event(n, k, s).overall = "same"
           /\ Event(n, k, s).step = <<n, k>> /\ Event(n, k, s).status = s
  BY DEF Event, Events, Steps, StepNames

LEMMA ReportLemma ==
    ASSUME NEW k \in Keys \cup {NoKey}, NEW s \in StepStatuses, NEW n \in StepNames, NEW o \in Overalls
    PROVE  /\ Report(n, k, s, o) \in Events /\ Report(n, k, s, o).overall = o
           /\ Report(n, k, s, o).step = <<n, k>> /\ Report(n, k, s, o).status = s
  BY EventLemma DEF Event, Report, Events

\* From r to r2 nothing is reported of any todo but k; Quiet: of none.
Tells(r, r2, k) ==
    /\ \A l \in Keys, s \in {"completed", "failed"} :
         (Said(r, l, s) => Said(r2, l, s)) /\ (Said(r2, l, s) => Said(r, l, s) \/ l = k)
    /\ \A l \in Keys : r2.step = <<"microtask", l>> => r.step = <<"microtask", l>> \/ l = k

Quiet(r, r2) ==
    /\ \A l \in Keys, s \in {"completed", "failed"} : Said(r, l, s) <=> Said(r2, l, s)
    /\ \A l \in Keys : r2.step = <<"microtask", l>> => r.step = <<"microtask", l>>

\* The other steps of a task.
Surroundings == StepNames \ {"microtask"}

\* An event of another step is quiet.
LEMMA QuietAppend ==
    ASSUME NEW r \in States, NEW e \in Events, NEW k, NEW n \in Surroundings, e.step = <<n, k>>
    PROVE  /\ Quiet(r, Append1(r, e)) /\ Append1(r, e) \in States
           /\ Append1(r, e).pending = r.pending /\ Append1(r, e).decision = r.decision
           /\ Append1(r, e).status = IF e.overall = "same" THEN r.status ELSE e.overall
<1> DEFINE new == Append1(r, e)
<1>1. \A l : <<n, k>> # <<"microtask", l>>
  BY DEF Surroundings
<1>2. /\ new \in States /\ new.pending = r.pending /\ new.decision = r.decision
      /\ new.step = <<n, k>>
      /\ new.status = IF e.overall = "same" THEN r.status ELSE e.overall
      /\ r.log \subseteq new.log /\ new.log \subseteq r.log \cup {<<<<n, k>>, e.status>>}
  BY AppendLemma
<1> HIDE DEF new
<1>3. Quiet(r, new)
  BY <1>1, <1>2 DEF Quiet, Said
<1> QED BY <1>2, <1>3 DEF new

\* The events, of a todo or of the task, that report no todo as done.
Asides == {e \in Events : e.overall = "same" /\ \E n \in Surroundings, k \in Keys \cup {NoKey} : e.step = <<n, k>>}

LEMMA QuietEvent ==
    ASSUME NEW r \in States, NEW e \in Asides
    PROVE  LET new == Append1(r, e) IN
           /\ Quiet(r, new) /\ new \in States /\ new.status = r.status
           /\ new.pending = r.pending /\ new.decision = r.decision
  BY QuietAppend DEF Asides

LEMMA AsideLemma ==
    ASSUME NEW k \in Keys \cup {NoKey}, NEW s \in StepStatuses, NEW n \in Surroundings
    PROVE  Event(n, k, s) \in Asides
  BY EventLemma DEF Asides, Surroundings

LEMMA TodoEvents ==
    ASSUME NEW k \in Keys
    PROVE  /\ Event("negotiator", k, "running") \in Asides /\ Event("negotiator", k, "completed") \in Asides
           /\ Event("executor", k, "running") \in Asides /\ Event("executor", k, "completed") \in Asides
           /\ Event("executor", k, "failed") \in Asides
           /\ Event("verification", k, "waiting_for_human") \in Asides
           /\ Event("verification", k, "completed") \in Asides /\ Event("verification", k, "failed") \in Asides
  BY AsideLemma DEF Surroundings, StepNames, StepStatuses

LEMMA TaskEvents ==
    /\ Event("initialization", NoKey, "started") \in Asides
    /\ Event("initialization", NoKey, "completed") \in Asides
    /\ Event("orchestrator_analysis", NoKey, "running") \in Asides
    /\ Event("orchestrator_analysis", NoKey, "completed") \in Asides
    /\ Event("planning", NoKey, "completed") \in Asides
    /\ Event("verifier", NoKey, "running") \in Asides /\ Event("verifier", NoKey, "completed") \in Asides
<1>1. NoKey \in Keys \cup {NoKey}
  OBVIOUS
<1> QED BY <1>1, AsideLemma DEF Surroundings, StepNames, StepStatuses

LEMMA QuietReport ==
    ASSUME NEW r \in States, NEW k \in Keys \cup {NoKey}, NEW s \in StepStatuses, NEW n \in Surroundings,
           NEW o \in Overalls
    PROVE  LET new == Append1(r, Report(n, k, s, o)) IN
           /\ Quiet(r, new) /\ new \in States /\ new.status = o
           /\ new.pending = r.pending /\ new.decision = r.decision
<1>1. n \in StepNames /\ o # "same"
  BY DEF Surroundings, Overalls
<1> QED BY <1>1, ReportLemma, QuietAppend

\* The event that ends a microtask is the only one that reports it.
LEMMA TellingEvent ==
    ASSUME NEW r \in States, NEW k \in Keys, NEW s \in {"completed", "failed"}
    PROVE  LET new == Append1(r, Event("microtask", k, s)) IN
           /\ Tells(r, new, k) /\ new \in States /\ new.status = r.status
           /\ new.pending = r.pending /\ new.decision = r.decision
           /\ \A l \in Keys, x \in {"completed", "failed"} : Said(new, l, x) => Said(r, l, x) \/ (l = k /\ x = s)
           /\ r.step # <<"microtask", k>> => Said(new, k, s)
           /\ new.step = <<"microtask", k>>
<1> DEFINE e == Event("microtask", k, s)
           new == Append1(r, e)
<1>1. e \in Events /\ e.overall = "same" /\ e.step = <<"microtask", k>> /\ e.status = s
  BY EventLemma DEF StepStatuses, StepNames
<1> HIDE DEF e
<1>2. /\ new \in States /\ new.pending = r.pending /\ new.decision = r.decision
      /\ new.step = <<"microtask", k>> /\ new.status = r.status
      /\ r.log \subseteq new.log /\ new.log \subseteq r.log \cup {<<<<"microtask", k>>, s>>}
      /\ r.step # <<"microtask", k>> => <<<<"microtask", k>>, s>> \in new.log
  BY <1>1, AppendLemma
<1> HIDE DEF new
<1>3. Tells(r, new, k)
  BY <1>2 DEF Tells, Said
<1>4. \A l \in Keys, x \in {"completed", "failed"} : Said(new, l, x) => Said(r, l, x) \/ (l = k /\ x = s)
  BY <1>2 DEF Said
<1> QED BY <1>2, <1>3, <1>4 DEF Said, new, e

LEMMA QuietTells ==
    ASSUME NEW r, NEW r2, NEW r3, NEW k
    PROVE  /\ Quiet(r, r2) /\ Quiet(r2, r3) => Quiet(r, r3)
           /\ Quiet(r, r2) => Tells(r, r2, k)
           /\ Tells(r, r2, k) /\ Quiet(r2, r3) => Tells(r, r3, k)
           /\ Quiet(r, r2) /\ Tells(r2, r3, k) => Tells(r, r3, k)
  BY DEF Quiet, Tells

-----------------------------------------------------------------------------
(* Lemmas about a step of one task *)

\* A coroutine that moves on within its todo, or stops, without a new verdict.
LEMMA PlanMoves ==
    ASSUME NEW a \in Places, NEW a2 \in Places, NEW v, NEW r, NEW r2, PlanFits(a, v, r),
           a2.i = a.i, a2.pc \in Undecided => a.pc \in Undecided, a2.pc \in Working => a.pc \in Working,
           a2.pc = "settle" => a.pc = "settle",
           Tells(r, r2, Plan[a.i]), a2.pc \in Working => Quiet(r, r2)
    PROVE  PlanFits(a2, v, r2)
<1> SUFFICES ASSUME NEW k \in Keys
             PROVE  /\ Behind(a2, k) => v[k] = "accepted" /\ Said(r2, k, "completed")
                    /\ ~Behind(a2, k) /\ (k # Plan[a2.i] \/ a2.pc \in Undecided) => v[k] = "none"
                    /\ ~Behind(a2, k) /\ (k # Plan[a2.i] \/ a2.pc \in Working) =>
                          ~Said(r2, k, "completed") /\ ~Said(r2, k, "failed")
                    /\ a2.pc \in Working /\ r2.step = <<"microtask", k>> => Behind(a2, k)
                    /\ a2.pc = "settle" => v[Plan[a2.i]] # "none"
  BY DEF PlanFits
<1>1. Behind(a2, k) <=> Behind(a, k)
  BY DEF Behind
<1>2. /\ Behind(a, k) => v[k] = "accepted" /\ Said(r, k, "completed")
      /\ ~Behind(a, k) /\ (k # Plan[a.i] \/ a.pc \in Undecided) => v[k] = "none"
      /\ ~Behind(a, k) /\ (k # Plan[a.i] \/ a.pc \in Working) =>
            ~Said(r, k, "completed") /\ ~Said(r, k, "failed")
      /\ a.pc \in Working /\ r.step = <<"microtask", k>> => Behind(a, k)
      /\ a.pc = "settle" => v[Plan[a.i]] # "none"
  BY DEF PlanFits
<1>3. \A s \in {"completed", "failed"} :
        (Said(r, k, s) => Said(r2, k, s)) /\ (Said(r2, k, s) => Said(r, k, s) \/ k = Plan[a.i])
  BY DEF Tells
<1>4. a2.pc \in Working => /\ \A s \in {"completed", "failed"} : Said(r, k, s) <=> Said(r2, k, s)
                           /\ r2.step = <<"microtask", k>> => r.step = <<"microtask", k>>
  BY DEF Quiet
<1> QED BY <1>1, <1>2, <1>3, <1>4

\* The work of a todo is judged.
LEMMA PlanJudges ==
    ASSUME NEW a \in Places, NEW a2 \in Places, NEW v \in Works, NEW x \in {"accepted", "rejected"},
           NEW r, NEW r2, PlanFits(a, v, r), a.pc \in Undecided, a2.pc = "settle", a2.i = a.i, Quiet(r, r2)
    PROVE  PlanFits(a2, [v EXCEPT ![Plan[a.i]] = x], r2)
<1> DEFINE v2 == [v EXCEPT ![Plan[a.i]] = x]
<1>1. Plan[a.i] \in Keys /\ ~Behind(a, Plan[a.i])
  BY CurrentTodo
<1>2. v2[Plan[a.i]] = x /\ \A k \in Keys : k # Plan[a.i] => v2[k] = v[k]
  BY <1>1 DEF Works
<1> HIDE DEF v2
<1> SUFFICES ASSUME NEW k \in Keys
             PROVE  /\ Behind(a2, k) => v2[k] = "accepted" /\ Said(r2, k, "completed")
                    /\ ~Behind(a2, k) /\ k # Plan[a2.i] => v2[k] = "none"
                    /\ ~Behind(a2, k) => ~Said(r2, k, "completed") /\ ~Said(r2, k, "failed")
                    /\ r2.step = <<"microtask", k>> => Behind(a2, k)
                    /\ v2[Plan[a2.i]] # "none"
  BY DEF PlanFits, Working, Undecided, v2
<1>3. Behind(a2, k) <=> Behind(a, k)
  BY DEF Behind
<1>4. /\ Behind(a, k) => v[k] = "accepted" /\ Said(r, k, "completed")
      /\ ~Behind(a, k) /\ k # Plan[a.i] => v[k] = "none"
      /\ ~Behind(a, k) => ~Said(r, k, "completed") /\ ~Said(r, k, "failed")
      /\ r.step = <<"microtask", k>> => Behind(a, k)
  BY DEF PlanFits, Working
<1>5. /\ \A s \in {"completed", "failed"} : Said(r, k, s) <=> Said(r2, k, s)
      /\ r2.step = <<"microtask", k>> => r.step = <<"microtask", k>>
  BY DEF Quiet
<1> QED BY <1>1, <1>2, <1>3, <1>4, <1>5

\* The coroutine goes on to the next todo once this one is accepted and reported.
LEMMA PlanAdvances ==
    ASSUME NEW a \in Places, NEW a2 \in Places, NEW v, NEW r, NEW r2, PlanFits(a, v, r),
           a.pc = "settle", a2.pc = "todo", a2.i = a.i + 1, v[Plan[a.i]] = "accepted",
           Tells(r, r2, Plan[a.i]), Said(r2, Plan[a.i], "completed")
    PROVE  PlanFits(a2, v, r2)
<1>1. \A k : Behind(a2, k) <=> Behind(a, k) \/ k = Plan[a.i]
  BY PlanFacts DEF Behind, Places
<1> SUFFICES ASSUME NEW k \in Keys
             PROVE  /\ Behind(a2, k) => v[k] = "accepted" /\ Said(r2, k, "completed")
                    /\ ~Behind(a2, k) => v[k] = "none"
                    /\ ~Behind(a2, k) => ~Said(r2, k, "completed") /\ ~Said(r2, k, "failed")
                    /\ r2.step = <<"microtask", k>> => Behind(a2, k)
  BY DEF PlanFits
<1>2. /\ Behind(a, k) => v[k] = "accepted" /\ Said(r, k, "completed")
      /\ ~Behind(a, k) /\ k # Plan[a.i] => v[k] = "none"
      /\ ~Behind(a, k) => ~Said(r, k, "completed") /\ ~Said(r, k, "failed")
      /\ r.step = <<"microtask", k>> => Behind(a, k)
  BY DEF PlanFits, Working
<1>3. /\ \A s \in {"completed", "failed"} :
           (Said(r, k, s) => Said(r2, k, s)) /\ (Said(r2, k, s) => Said(r, k, s) \/ k = Plan[a.i])
      /\ r2.step = <<"microtask", k>> => r.step = <<"microtask", k>> \/ k = Plan[a.i]
  BY DEF Tells
<1> QED BY <1>1, <1>2, <1>3

\* Before a task has ended its status is not completed.
LEMMA WholeMoves ==
    ASSUME NEW a, NEW a2, NEW v, NEW r, NEW r2, WholeFits(a, v, r), a.pc \in Working,
           r2.status \in {r.status, "failed", "CANCELLED"}
    PROVE  WholeFits(a2, v, r2) /\ \A v2 : WholeFits(a2, v2, r2)
<1>1. r.status # "completed"
  BY DEF WholeFits, Working, Undecided
<1> QED BY <1>1 DEF WholeFits

-----------------------------------------------------------------------------
(* Lemmas about the payment calls of a task *)

TransitionStates == {"completed", "failed"}

\* The payments of a task.
Own(t) == {p \in Payments : task[p] = t}

\* What a call that begins does: it ends at once, or waits for the chain.
LEMMA IssueLemma ==
    ASSUME IInv, NEW t \in Tasks, NEW a, Issue(t, a)
    PROVE  /\ IInv' /\ \A u \in Tasks : u # t => call'[u] = call[u]
           /\ \/ call'[t].pc = "idle"
              \/ /\ call'[t].pc = "submit" /\ call'[t].action = a
                 /\ call'[t].key = Todo(t) /\ call'[t].task = t
           /\ UNCHANGED <<task, mempool, escrow>>
           /\ \/ UNCHANGED trans
              \/ \E p \in Own(t), s \in TransitionStates : Record(p, a, Todo(t), s)
<1>1. PICK r \in Requests :
        /\ r.action = a /\ r.key = Todo(t) /\ r.payment \in PaymentsOf(t, Todo(t))
        /\ Replay(t, r) \/ Refuse(t, r) \/ SettleOffline(t, r) \/ Start(t, r)
  BY DEF Issue
<1>2. t \in Callers /\ call \in [Callers -> CallStates] /\ Callers = Tasks
  BY PlanFacts DEF IInv, TypeOK
<1>3. [Next]_vars
  BY <1>1, <1>2 DEF Next
<1>4. IInv'
  BY <1>3, NextInv
<1>5. UNCHANGED <<mempool, escrow>>
  BY <1>1 DEF Replay, Refuse, SettleOffline, Start, Begin, chainVars
<1>6. UNCHANGED task
  BY <1>1 DEF Replay, Refuse, SettleOffline, Start, RecordFailed, Persist, dbVars
<1>7. UNCHANGED trans \/ \E s \in TransitionStates : Record(r.payment, a, Todo(t), s)
  BY <1>1 DEF Replay, Refuse, SettleOffline, Start, RecordFailed, Persist, dbVars, TransitionStates
<1>8. task[r.payment] = t /\ r.payment \in Own(t)
  BY <1>1 DEF PaymentsOf, Own
<1>9. CASE Return(t)
  BY <1>1, <1>2, <1>4, <1>5, <1>6, <1>7, <1>8, <1>9 DEF Return, Idle
<1>10. CASE Start(t, r)
  BY <1>1, <1>2, <1>4, <1>5, <1>6, <1>7, <1>8, <1>10 DEF Start
<1> QED BY <1>1, <1>9, <1>10 DEF Replay, Refuse, SettleOffline

\* What a step of a call does to the caller and to the tables.
LEMMA ProgressLemma ==
    ASSUME IInv, NEW t \in Tasks, Progress(t)
    PROVE  /\ IInv' /\ \A u \in Tasks : u # t => call'[u] = call[u]
           /\ \/ call'[t].pc = "idle"
              \/ /\ call[t].pc \in {"submit", "wait", "read"} /\ call'[t].pc \in {"wait", "read", "commit"}
                 /\ call'[t].action = call[t].action /\ call'[t].key = call[t].key
                 /\ call'[t].task = call[t].task
           /\ UNCHANGED escrow
           /\ \/ UNCHANGED mempool
              \/ call[t].pc = "submit" /\ mempool' = mempool \cup {TxOf(t)}
           /\ \/ UNCHANGED <<task, trans>>
              \/ /\ call[t].pc = "insert"
                 /\ \E p \in Payments : /\ ~Exists(p) /\ task' = [task EXCEPT ![p] = call[t].task]
                                        /\ Record(p, "proposal", call[t].key, "completed")
              \/ /\ call[t].pc \in {"submit", "wait", "read", "commit"} /\ UNCHANGED task
                 /\ \E s \in TransitionStates : Record(call[t].payment, call[t].action, call[t].key, s)
<1>1. t \in Callers /\ call \in [Callers -> CallStates] /\ Callers = Tasks
  BY PlanFacts DEF IInv, TypeOK
<1>2. IInv'
  <2>1. [Next]_vars
    BY <1>1 DEF Next
  <2> QED BY <2>1, NextInv
<1>3. CASE ProposeInsert(t)
  BY <1>1, <1>2, <1>3 DEF ProposeInsert, Return, Idle, dbVars, chainVars
<1>4. ASSUME NEW k, call' = [call EXCEPT ![t] = k], k.action = call[t].action, k.key = call[t].key,
             k.task = call[t].task, k.pc \in {"wait", "read", "commit"},
             call[t].pc \in {"submit", "wait", "read"}
      PROVE  /\ \A u \in Tasks : u # t => call'[u] = call[u]
             /\ call[t].pc \in {"submit", "wait", "read"} /\ call'[t].pc \in {"wait", "read", "commit"}
             /\ call'[t].action = call[t].action /\ call'[t].key = call[t].key
             /\ call'[t].task = call[t].task
  BY <1>1, <1>4
<1>5. CASE Submit(t)
  <2>1. call' = [call EXCEPT ![t] = [call[t] EXCEPT !.pc = "wait"]] /\ call[t].pc = "submit"
        /\ mempool' = mempool \cup {TxOf(t)} /\ UNCHANGED <<task, trans, escrow>>
    BY <1>5 DEF Submit, dbVars
  <2> QED BY <1>1, <1>2, <1>4, <2>1 DEF CallStates
<1>6. CASE AwaitReceipt(t)
  <2>1. call' = [call EXCEPT ![t] = [call[t] EXCEPT !.pc = IF call[t].action = "authorize" THEN "commit" ELSE "read"]]
        /\ call[t].pc = "wait" /\ UNCHANGED <<task, trans, escrow, mempool>>
    BY <1>6 DEF AwaitReceipt, dbVars, chainVars
  <2> QED BY <1>1, <1>2, <1>4, <2>1 DEF CallStates
<1>7. CASE ReadEscrow(t)
  <2>1. call' = [call EXCEPT ![t] = [call[t] EXCEPT !.pc = "commit", !.read = escrow[call[t].task].state]]
        /\ call[t].pc = "read" /\ UNCHANGED <<task, trans, escrow, mempool>>
    BY <1>7 DEF ReadEscrow, dbVars, chainVars
  <2> QED BY <1>1, <1>2, <1>4, <2>1 DEF CallStates
<1>8. CASE Commit(t) \/ Raise(t)
  <2>1. Return(t) /\ call[t].pc \in {"submit", "wait", "read", "commit"} /\ UNCHANGED <<escrow, mempool>>
    BY <1>8 DEF Commit, Raise, chainVars
  <2>2. UNCHANGED task
        /\ (UNCHANGED trans \/ \E s \in TransitionStates : Record(call[t].payment, call[t].action, call[t].key, s))
    BY <1>8 DEF Commit, Raise, RecordFailed, Persist, dbVars, TransitionStates
  <2> QED BY <1>1, <1>2, <2>1, <2>2 DEF Return, Idle
<1> QED BY <1>3, <1>5, <1>6, <1>7, <1>8 DEF Progress

-----------------------------------------------------------------------------
(* Lemmas about the settlement of a verdict *)

SettledOK(t, k, p) ==
    /\ Reported(t, k, "completed") => trans[p]["release"][k] = "completed"
    /\ Reported(t, k, "failed") /\ verdict[t][k] = "rejected" => trans[p]["refund"][k] = "completed"
    /\ trans[p]["release"][k] # "none" => verdict[t][k] = "accepted"
    /\ trans[p]["refund"][k] # "none" => verdict[t][k] = "rejected"

\* Reports of the current todo, of a task whose payments stay as they are, need its settlement.
LEMMA ReportedSettled ==
    ASSUME MicroTypeOK, VerdictIsSettled, NEW t \in Tasks, NEW r \in States,
           UNCHANGED <<task, trans, verdict>>, row' = [row EXCEPT ![t] = r],
           Tells(row[t], r, Todo(t)),
           \A p \in PaymentsOf(t, Todo(t)) :
              /\ Said(r, Todo(t), "completed") => trans[p]["release"][Todo(t)] = "completed"
              /\ Said(r, Todo(t), "failed") /\ verdict[t][Todo(t)] = "rejected" =>
                    trans[p]["refund"][Todo(t)] = "completed"
    PROVE  VerdictIsSettled'
<1> SUFFICES ASSUME NEW u \in Tasks, NEW k \in Keys, NEW p \in Payments, p \in PaymentsOf(u, k)
             PROVE  SettledOK(u, k, p)'
  BY DEF VerdictIsSettled, SettledOK, PaymentsOf
<1>1. SettledOK(u, k, p)
  BY DEF VerdictIsSettled, SettledOK
<1>2. row'[t] = r /\ (u # t => row'[u] = row[u])
  BY DEF MicroTypeOK
<1>3. CASE u # t
  BY <1>1, <1>2, <1>3 DEF SettledOK, Reported
<1>4. CASE u = t /\ k # Todo(t)
  <2>1. \A x \in {"completed", "failed"} : Said(r, k, x) => Said(row[t], k, x)
    BY <1>4 DEF Tells
  <2> QED BY <1>1, <1>2, <1>4, <2>1 DEF SettledOK, Reported, Said
<1>5. CASE u = t /\ k = Todo(t)
  BY <1>1, <1>2, <1>5 DEF SettledOK, Reported, Said
<1> QED BY <1>3, <1>4, <1>5

\* Transitions of the current todo follow its verdict, which may just have been given.
LEMMA RecordedSettled ==
    ASSUME IInv, MicroTypeOK, VerdictIsSettled, NEW t \in Tasks, NEW r \in States, NEW v \in Works,
           NEW a \in Actions \ {"proposal"},
           UNCHANGED task, row' = [row EXCEPT ![t] = r], verdict' = [verdict EXCEPT ![t] = v],
           Quiet(row[t], r), Todo(t) \in Keys,
           \A s \in {"completed", "failed"} : ~Said(row[t], Todo(t), s),
           \A k \in Keys : k # Todo(t) => v[k] = verdict[t][k],
           verdict[t][Todo(t)] \in {"none", v[Todo(t)]},
           a = "release" => v[Todo(t)] = "accepted", a = "refund" => v[Todo(t)] = "rejected",
           \/ UNCHANGED trans
           \/ \E p \in Own(t), s \in TransitionStates : Record(p, a, Todo(t), s)
    PROVE  VerdictIsSettled'
<1>1. trans \in TransType
  BY DEF IInv, TypeOK, TransType
<1>2. /\ \A q \in Payments, k \in Keys : trans'[q]["proposal"][k] = trans[q]["proposal"][k]
      /\ \A q \in Payments, k \in Keys, b \in {"release", "refund"} :
            trans'[q][b][k] = trans[q][b][k] \/ (q \in Own(t) /\ k = Todo(t) /\ b = a)
  <2>1. ASSUME NEW p \in Own(t), NEW s \in TransitionStates, Record(p, a, Todo(t), s)
        PROVE  \A q \in Payments, b \in Actions, l \in Keys :
                 q # p \/ b # a \/ l # Todo(t) => trans'[q][b][l] = trans[q][b][l]
    BY <1>1, <2>1, RecordLemma DEF Own, TransitionStates
  <2>2. {"proposal", "release", "refund"} \subseteq Actions
    BY DEF Actions
  <2> QED BY <2>1, <2>2
<1> SUFFICES ASSUME NEW u \in Tasks, NEW k \in Keys, NEW p \in Payments, p \in PaymentsOf(u, k)
             PROVE  SettledOK(u, k, p)'
  BY <1>2 DEF VerdictIsSettled, SettledOK, PaymentsOf
<1>3. SettledOK(u, k, p)
  BY DEF VerdictIsSettled, SettledOK
<1>4. /\ row'[t] = r /\ (u # t => row'[u] = row[u])
      /\ verdict'[t] = v /\ (u # t => verdict'[u] = verdict[u])
  BY DEF MicroTypeOK
<1>5. u # t => p \notin Own(t)
  BY DEF PaymentsOf, Own
<1>6. \A x \in {"completed", "failed"} : Said(r, k, x) <=> Said(row[t], k, x)
  BY DEF Quiet
<1>7. CASE u # t
  BY <1>2, <1>3, <1>4, <1>5, <1>7 DEF SettledOK, Reported
<1>8. CASE u = t /\ k # Todo(t)
  BY <1>2, <1>3, <1>4, <1>6, <1>8 DEF SettledOK, Reported, Said
<1>9. CASE u = t /\ k = Todo(t)
  <2>1. ~Reported(u, k, "completed")' /\ ~Reported(u, k, "failed")'
    BY <1>4, <1>6, <1>9 DEF Reported, Said
  <2>2. ASSUME NEW b \in {"release", "refund"}, trans'[p][b][k] # "none"
        PROVE  v[k] = IF b = "release" THEN "accepted" ELSE "rejected"
    <3>1. CASE b = a
      BY <1>9, <3>1
    <3>2. CASE b # a
      BY <1>2, <1>3, <1>9, <2>2, <3>2 DEF SettledOK
    <3> QED BY <3>1, <3>2
  <2> QED BY <1>4, <1>9, <2>1, <2>2 DEF SettledOK
<1> QED BY <1>7, <1>8, <1>9

\* A payment that has just been proposed has no settlement, and its todo no report.
LEMMA ProposedSettled ==
    ASSUME IInv, MicroTypeOK, VerdictIsSettled, NEW t \in Tasks, NEW p \in Payments, UNCHANGED <<verdict, row>>,
           ~Exists(p), task' = [task EXCEPT ![p] = t], Todo(t) \in Keys,
           Record(p, "proposal", Todo(t), "completed"),
           \A s \in {"completed", "failed"} : ~Said(row[t], Todo(t), s)
    PROVE  VerdictIsSettled'
<1>1. trans \in TransType /\ RowInv /\ task \in [Payments -> Tasks \cup {NoTask}]
      /\ {"proposal", "release", "refund"} \subseteq Actions
  BY DEF IInv, TypeOK, TransType, TablesInv, Actions
<1>2. \A q \in Payments, b \in Actions, l \in Keys :
         q # p \/ b # "proposal" \/ l # Todo(t) => trans'[q][b][l] = trans[q][b][l]
  BY <1>1, RecordLemma
<1>3. \A b \in Actions, l \in Keys : trans[p][b][l] = "none"
  BY <1>1 DEF RowInv
<1> SUFFICES ASSUME NEW u \in Tasks, NEW k \in Keys, NEW q \in Payments, (q \in PaymentsOf(u, k))'
             PROVE  SettledOK(u, k, q)'
  BY DEF VerdictIsSettled, SettledOK
<1>4. CASE q # p
  <2>1. q \in PaymentsOf(u, k)
    BY <1>1, <1>2, <1>4 DEF PaymentsOf
  <2>2. SettledOK(u, k, q)
    BY <2>1 DEF VerdictIsSettled, SettledOK
  <2> QED BY <1>1, <1>2, <1>4, <2>2 DEF SettledOK, Reported
<1>5. CASE q = p
  <2>1. u = t /\ k = Todo(t)
    BY <1>1, <1>2, <1>3, <1>5 DEF PaymentsOf
  <2>2. trans'[q]["release"][k] = "none" /\ trans'[q]["refund"][k] = "none"
    BY <1>1, <1>2, <1>3, <1>5
  <2> QED BY <2>1, <2>2 DEF SettledOK, Reported, Said
<1> QED BY <1>4, <1>5

-----------------------------------------------------------------------------
(* The invariant *)

\* A step of one task: the others stay as they are.
LEMMA TaskStep ==
    ASSUME MicroInv, IInv', NEW t \in Tasks, NEW a \in Places, NEW v \in Works, NEW r \in States,
           NEW s \in Snapshots, at' = [at EXCEPT ![t] = a], verdict' = [verdict EXCEPT ![t] = v],
           row' = [row EXCEPT ![t] = r], cache' = [cache EXCEPT ![t] = s],
           \A u \in Tasks : u # t => call'[u] = call[u],
           TaskOK(t, a, v, r, s, call'[t])
    PROVE  MicroTypeOK' /\ TasksInv'
<1>1. MicroTypeOK'
  BY DEF MicroInv, MicroTypeOK
<1>2. ASSUME NEW u \in Tasks PROVE TaskOK(u, at'[u], verdict'[u], row'[u], cache'[u], call'[u])
  <2>1. CASE u = t
    <3>1. at'[t] = a /\ verdict'[t] = v /\ row'[t] = r /\ cache'[t] = s
      BY DEF MicroInv, MicroTypeOK
    <3> QED BY <2>1, <3>1
  <2>2. CASE u # t
    <3>1. /\ at'[u] = at[u] /\ verdict'[u] = verdict[u] /\ row'[u] = row[u] /\ cache'[u] = cache[u]
          /\ call'[u] = call[u]
      BY <2>2 DEF MicroInv, MicroTypeOK
    <3>2. TaskOK(u, at[u], verdict[u], row[u], cache[u], call[u])
      BY DEF MicroInv, TasksInv
    <3> QED BY <3>1, <3>2
  <2> QED BY <2>1, <2>2
<1>3. TasksInv'
  BY <1>2 DEF TasksInv
<1> QED BY <1>1, <1>3

\* A verdict, once given, stays, and the chain follows it as long as nothing is sent or mined.
LEMMA ChainKept ==
    ASSUME MicroInv, UNCHANGED <<mempool, escrow>>, NEW t \in Tasks, NEW v \in Works,
           verdict' = [verdict EXCEPT ![t] = v],
           \A k \in Keys : verdict[t][k] \in {"none", v[k]}
    PROVE  ChainInv'
<1>1. verdict \in [Tasks -> Works]
  BY DEF MicroInv, MicroTypeOK
<1>2. ASSUME NEW u \in Tasks, NEW x \in {"accepted", "rejected"}, Rules(u, x) PROVE Rules(u, x)'
  <2>1. PICK k \in Keys : verdict[u][k] = x
    BY <1>2 DEF Rules
  <2>2. verdict'[u][k] = x
    BY <1>1, <2>1
  <2> QED BY <2>2 DEF Rules
<1>3. \A tx \in mempool : tx.task \in Tasks
  BY DEF MicroInv, IInv, TypeOK, Transactions
<1> QED BY <1>2, <1>3 DEF MicroInv, ChainInv

\* What is known of a task at hand.
LEMMA AtHand ==
    ASSUME MicroInv, NEW t \in Tasks
    PROVE  /\ at[t] \in Places /\ verdict[t] \in Works /\ row[t] \in States /\ cache[t] \in Snapshots
           /\ call[t] \in CallStates /\ Todo(t) = Plan[at[t].i] /\ Todo(t) \in Keys
           /\ CallFits(t, at[t], verdict[t], call[t]) /\ PlanFits(at[t], verdict[t], row[t])
           /\ WholeFits(at[t], verdict[t], row[t]) /\ ReviewFits(at[t], row[t], cache[t])
           /\ at[t].pc \in Undecided => verdict[t][Todo(t)] = "none"
           /\ at[t].pc \in Working => \A s \in {"completed", "failed"} : ~Said(row[t], Todo(t), s)
           /\ IInv /\ MicroTypeOK /\ VerdictIsSettled
<1>1. /\ at[t] \in Places /\ verdict[t] \in Works /\ row[t] \in States /\ cache[t] \in Snapshots
      /\ IInv /\ MicroTypeOK /\ VerdictIsSettled
  BY DEF MicroInv, MicroTypeOK
<1>2. call[t] \in CallStates
  BY PlanFacts, <1>1 DEF IInv, TypeOK
<1>3. Todo(t) = Plan[at[t].i] /\ Todo(t) \in Keys /\ ~Behind(at[t], Todo(t))
  BY <1>1, CurrentTodo DEF Todo
<1>4. TaskOK(t, at[t], verdict[t], row[t], cache[t], call[t])
  BY DEF MicroInv, TasksInv
<1>5. /\ at[t].pc \in Undecided => verdict[t][Todo(t)] = "none"
      /\ at[t].pc \in Working => \A s \in {"completed", "failed"} : ~Said(row[t], Todo(t), s)
  BY <1>3, <1>4 DEF TaskOK, PlanFits
<1> QED BY <1>1, <1>2, <1>3, <1>4, <1>5 DEF TaskOK

\* A row and the snapshot of it.
LEMMA SnapshotLemma ==
    ASSUME NEW r \in States PROVE Snapshot(r) \in Snapshots /\ Snapshot(r) # NoSnapshot
  BY DEF States, Snapshots, Snapshot, NoSnapshot, Overalls

\* A step of the coroutine between calls, within its todo or to its end, that calls nothing.
LEMMA CoroutineStep ==
    ASSUME MicroInv, NEW t \in Tasks, NEW pc, NEW r \in States,
           UNCHANGED <<vars, verdict>>, Emit(t, r), Goto(t, pc), call[t].pc = "idle",
           at[t].pc \in Working, pc \in Working \cup {"ended"}, pc # "settle", pc # "review",
           pc \in Undecided => at[t].pc \in Undecided /\ Quiet(row[t], r),
           Tells(row[t], r, Todo(t)), r.status \in {row[t].status, "failed"},
           Said(r, Todo(t), "completed") => Said(row[t], Todo(t), "completed"),
           at[t].pc \in Undecided \/ verdict[t][Todo(t)] # "rejected" \/ ~Said(r, Todo(t), "failed")
             \/ \A p \in PaymentsOf(t, Todo(t)) : trans[p]["refund"][Todo(t)] = "completed"
    PROVE  MicroInv'
<1> DEFINE a == [at[t] EXCEPT !.pc = pc]
<1>1. a \in Places /\ a.pc = pc /\ a.i = at[t].i
  BY AtHand DEF Places
<1>2. IInv' /\ call' = call /\ UNCHANGED <<mempool, escrow, task, trans>>
  BY AtHand, NextInv DEF vars
<1>3. /\ at' = [at EXCEPT ![t] = a] /\ verdict' = [verdict EXCEPT ![t] = verdict[t]]
      /\ row' = [row EXCEPT ![t] = r] /\ cache' = [cache EXCEPT ![t] = Snapshot(r)]
  BY AtHand DEF Goto, Emit, MicroTypeOK
<1> HIDE DEF a
<1>4. TaskOK(t, a, verdict[t], r, Snapshot(r), call'[t])
  <2>1. CallFits(t, a, verdict[t], call'[t])
    BY <1>2 DEF CallFits
  <2>2. PlanFits(a, verdict[t], r)
    <3>1. a.pc \in Working => a.pc \in Undecided
      BY <1>1 DEF Working
    <3> QED BY <1>1, <3>1, AtHand, PlanMoves
  <2>3. WholeFits(a, verdict[t], r)
    BY <1>1, AtHand, WholeMoves
  <2>4. ReviewFits(a, r, Snapshot(r))
    BY <1>1 DEF ReviewFits
  <2> QED BY <2>1, <2>2, <2>3, <2>4 DEF TaskOK
<1>5. MicroTypeOK' /\ TasksInv'
  BY <1>1, <1>2, <1>3, <1>4, AtHand, SnapshotLemma, TaskStep
<1>6. ChainInv'
  BY <1>2, <1>3, AtHand, ChainKept
<1>7. VerdictIsSettled'
  <2>1. \A p \in PaymentsOf(t, Todo(t)) :
          /\ Said(r, Todo(t), "completed") => trans[p]["release"][Todo(t)] = "completed"
          /\ Said(r, Todo(t), "failed") /\ verdict[t][Todo(t)] = "rejected" =>
                trans[p]["refund"][Todo(t)] = "completed"
    BY AtHand
  <2> QED BY <1>2, <1>3, <2>1, AtHand, ReportedSettled
<1> QED BY <1>2, <1>5, <1>6, <1>7 DEF MicroInv

\* A step of one task puts the invariant together again.
LEMMA Concluded ==
    ASSUME MicroInv, IInv', NEW t \in Tasks, NEW a \in Places, NEW v \in Works, NEW r \in States,
           NEW s \in Snapshots, at' = [at EXCEPT ![t] = a], verdict' = [verdict EXCEPT ![t] = v],
           row' = [row EXCEPT ![t] = r], cache' = [cache EXCEPT ![t] = s],
           \A u \in Tasks : u # t => call'[u] = call[u], UNCHANGED <<mempool, escrow>>,
           \A k \in Keys : verdict[t][k] \in {"none", v[k]},
           CallFits(t, a, v, call'[t]), PlanFits(a, v, r), WholeFits(a, v, r), ReviewFits(a, r, s),
           VerdictIsSettled'
    PROVE  MicroInv'
<1>1. TaskOK(t, a, v, r, s, call'[t])
  BY DEF TaskOK
<1>2. MicroTypeOK' /\ TasksInv'
  BY <1>1, TaskStep
<1>3. ChainInv'
  BY ChainKept
<1> QED BY <1>2, <1>3 DEF MicroInv

\* The call of a settlement with the verdict that decides it.
LEMMA SettleStep ==
    ASSUME MicroInv, NEW t \in Tasks, NEW x \in {"accepted", "rejected"}, NEW d \in Decisions,
           NEW r \in States, NEW s \in {NoSnapshot, Snapshot(r)} \cap Snapshots,
           SettleAs(t, x, d), at[t].pc \in Undecided,
           row' = [row EXCEPT ![t] = r], cache' = [cache EXCEPT ![t] = s],
           Quiet(row[t], r), r.status = row[t].status
    PROVE  MicroInv'
<1> DEFINE a == [at[t] EXCEPT !.pc = "settle", !.decision = d]
           v == [verdict[t] EXCEPT ![Todo(t)] = x]
           action == IF x = "accepted" THEN "release" ELSE "refund"
<1>1. Issue(t, action)
  BY DEF SettleAs
<1>2. a \in Places /\ a.pc = "settle" /\ a.i = at[t].i
  BY AtHand DEF Places, Working
<1>3. v \in Works /\ v[Todo(t)] = x /\ \A k \in Keys : k # Todo(t) => v[k] = verdict[t][k]
  BY AtHand DEF Works
<1>4. at' = [at EXCEPT ![t] = a] /\ verdict' = [verdict EXCEPT ![t] = v]
  BY DEF SettleAs
<1>5. Todo(t) = Plan[at[t].i] /\ Todo(t) \in Keys /\ verdict[t][Todo(t)] = "none"
      /\ \A y \in {"completed", "failed"} : ~Said(row[t], Todo(t), y)
  BY AtHand DEF Working
<1>6. PlanFits(a, v, r)
  BY <1>2, <1>5, AtHand, PlanJudges
<1> HIDE DEF a, v
<1>7. action \in Actions \ {"proposal"} /\ (action = "release" <=> x = "accepted")
      /\ (action = "refund" <=> x = "rejected")
  BY DEF Actions
<1> HIDE DEF action
<1>8. /\ IInv' /\ \A u \in Tasks : u # t => call'[u] = call[u]
      /\ \/ call'[t].pc = "idle"
         \/ /\ call'[t].pc = "submit" /\ call'[t].action = action
            /\ call'[t].key = Todo(t) /\ call'[t].task = t
      /\ UNCHANGED <<task, mempool, escrow>>
      /\ \/ UNCHANGED trans
         \/ \E p \in Own(t), y \in TransitionStates : Record(p, action, Todo(t), y)
  BY <1>1, AtHand, IssueLemma
<1>9. CallFits(t, a, v, call'[t])
  BY <1>2, <1>3, <1>5, <1>7, <1>8 DEF CallFits
<1>10. WholeFits(a, v, r)
  BY AtHand, WholeMoves DEF Working
<1>11. ReviewFits(a, r, s)
  BY <1>2 DEF ReviewFits
<1>12. VerdictIsSettled'
  BY <1>3, <1>4, <1>5, <1>7, <1>8, AtHand, RecordedSettled
<1>13. \A k \in Keys : verdict[t][k] \in {"none", v[k]}
  BY <1>3, <1>5
<1> QED BY <1>2, <1>3, <1>4, <1>6, <1>8, <1>9, <1>10, <1>11, <1>12, <1>13, Concluded

LEMMA AuthorizeStep == ASSUME NEW t \in Tasks PROVE MicroInv /\ Authorize(t) => MicroInv'
<1> SUFFICES ASSUME MicroInv, Authorize(t) PROVE MicroInv'
  OBVIOUS
<1> DEFINE r == Append1(row[t], Event("negotiator", Todo(t), "completed"))
           a == [at[t] EXCEPT !.pc = "authorize"]
<1>1. /\ r \in States /\ Quiet(row[t], r) /\ r.status = row[t].status
      /\ Snapshot(r) \in Snapshots
  BY AtHand, QuietEvent, TodoEvents, SnapshotLemma
<1>2. /\ at' = [at EXCEPT ![t] = a] /\ row' = [row EXCEPT ![t] = r] /\ cache' = [cache EXCEPT ![t] = Snapshot(r)]
      /\ verdict' = [verdict EXCEPT ![t] = verdict[t]]
      /\ at[t].pc = "propose" /\ Issue(t, "authorize")
  BY AtHand DEF Authorize, Emit, Goto, MicroTypeOK
<1>3. a \in Places /\ a.pc = "authorize" /\ a.i = at[t].i
  BY AtHand DEF Places, Working, Undecided
<1> HIDE DEF a, r
<1>4. at[t].pc \in Undecided /\ a.pc \in Undecided /\ at[t].pc \in Working /\ "authorize" \in Actions \ {"proposal"}
  BY <1>2, <1>3 DEF Working, Undecided, Actions
<1>5. /\ IInv' /\ \A u \in Tasks : u # t => call'[u] = call[u]
      /\ \/ call'[t].pc = "idle"
         \/ /\ call'[t].pc = "submit" /\ call'[t].action = "authorize"
            /\ call'[t].key = Todo(t) /\ call'[t].task = t
      /\ UNCHANGED <<task, mempool, escrow>>
      /\ \/ UNCHANGED trans
         \/ \E p \in Own(t), y \in TransitionStates : Record(p, "authorize", Todo(t), y)
  BY <1>2, AtHand, IssueLemma
<1>6. CallFits(t, a, verdict[t], call'[t])
  BY <1>3, <1>5, AtHand DEF CallFits
<1>7. PlanFits(a, verdict[t], r)
  BY <1>1, <1>3, <1>4, AtHand, PlanMoves, QuietTells
<1>8. WholeFits(a, verdict[t], r)
  BY <1>1, <1>4, AtHand, WholeMoves
<1>9. ReviewFits(a, r, Snapshot(r))
  BY <1>3 DEF ReviewFits
<1>10. VerdictIsSettled'
  BY <1>1, <1>2, <1>4, <1>5, AtHand, RecordedSettled
<1> QED BY <1>1, <1>2, <1>3, <1>5, <1>6, <1>7, <1>8, <1>9, <1>10, AtHand, Concluded

LEMMA VerifiedStep == ASSUME NEW t \in Tasks PROVE MicroInv /\ Verified(t) => MicroInv'
<1> SUFFICES ASSUME MicroInv, Verified(t) PROVE MicroInv'
  OBVIOUS
<1> DEFINE r == Append1(row[t], Event("verifier", NoKey, "completed"))
<1>1. /\ r \in States /\ Quiet(row[t], r) /\ r.status = row[t].status
      /\ Snapshot(r) \in {NoSnapshot, Snapshot(r)} \cap Snapshots
  <2>1. row[t] \in States
    BY AtHand
  <2>2. r \in States /\ Quiet(row[t], r) /\ r.status = row[t].status
    BY <2>1, QuietEvent, TodoEvents, TaskEvents
  <2> HIDE DEF r
  <2> QED BY <2>2, SnapshotLemma
<1>2. /\ row' = [row EXCEPT ![t] = r] /\ cache' = [cache EXCEPT ![t] = Snapshot(r)]
      /\ at[t].pc \in Undecided /\ (SettleAs(t, "accepted", "none") \/ SettleAs(t, "rejected", "rejected"))
  BY DEF Verified, Emit, Undecided
<1>3. {"none", "rejected"} \subseteq Decisions
  BY DEF Decisions
<1> HIDE DEF r
<1> QED BY <1>1, <1>2, <1>3, SettleStep

LEMMA DecidedStep == ASSUME NEW t \in Tasks PROVE MicroInv /\ Decided(t) => MicroInv'
<1> SUFFICES ASSUME MicroInv, Decided(t) PROVE MicroInv'
  OBVIOUS
<1>1. /\ row' = [row EXCEPT ![t] = row[t]] /\ cache' = [cache EXCEPT ![t] = cache[t]]
      /\ at[t].pc \in Undecided /\ (SettleAs(t, "accepted", "approved") \/ SettleAs(t, "rejected", "rejected"))
  BY AtHand DEF Decided, MicroTypeOK, Undecided
<1>2. Quiet(row[t], row[t]) /\ {"approved", "rejected"} \subseteq Decisions
  BY DEF Quiet, Decisions
<1>3. row[t] \in States /\ cache[t] \in {NoSnapshot, Snapshot(row[t])} \cap Snapshots
  BY AtHand DEF ReviewFits
<1> QED BY <1>1, <1>2, <1>3, SettleStep

LEMMA StartTaskStep == ASSUME NEW t \in Tasks PROVE MicroInv /\ StartTask(t) => MicroInv'
<1> SUFFICES ASSUME MicroInv, StartTask(t) PROVE MicroInv'
  OBVIOUS
<1> DEFINE r1 == Append1(row[t], Event("initialization", NoKey, "started"))
           r2 == Append1(r1, Event("orchestrator_analysis", NoKey, "running"))
           r3 == Append1(r2, Event("initialization", NoKey, "completed"))
           r4 == Append1(r3, Event("orchestrator_analysis", NoKey, "completed"))
           r5 == Append1(r4, Event("planning", NoKey, "completed"))
<1>1. at[t].pc = "new" /\ Emit(t, r5) /\ Goto(t, "todo") /\ UNCHANGED <<vars, verdict>>
  BY DEF StartTask, Append2
<1>2. row[t] \in States
  BY AtHand
<1>3. r1 \in States /\ Quiet(row[t], r1) /\ r1.status = row[t].status
  BY <1>2, QuietEvent, TaskEvents
<1> HIDE DEF r1
<1>4. r2 \in States /\ Quiet(r1, r2) /\ r2.status = row[t].status
  BY <1>2, <1>3, QuietEvent, TodoEvents, TaskEvents
<1> HIDE DEF r2
<1>5. r3 \in States /\ Quiet(r2, r3) /\ r3.status = row[t].status
  BY <1>2, <1>4, QuietEvent, TaskEvents
<1> HIDE DEF r3
<1>6. r4 \in States /\ Quiet(r3, r4) /\ r4.status = row[t].status
  BY <1>2, <1>5, QuietEvent, TodoEvents, TaskEvents
<1> HIDE DEF r4
<1>7. r5 \in States /\ Quiet(r4, r5) /\ r5.status = row[t].status
  BY <1>2, <1>6, QuietEvent, TodoEvents, TaskEvents
<1> HIDE DEF r5
<1>8. Quiet(row[t], r5) /\ Tells(row[t], r5, Todo(t))
  BY <1>3, <1>4, <1>5, <1>6, <1>7 DEF Quiet, Tells
<1>9. Said(r5, Todo(t), "completed") => Said(row[t], Todo(t), "completed")
  BY <1>8, AtHand DEF Quiet
<1>10. /\ at[t].pc \in Undecided /\ at[t].pc \in Working /\ "todo" \in Working \cup {"ended"}
       /\ call[t].pc = "idle"
  BY <1>1, AtHand DEF Working, Undecided, CallFits
<1> QED BY <1>1, <1>7, <1>8, <1>9, <1>10, CoroutineStep

\* The coroutine reports quietly and goes on to a step where it calls nothing.
LEMMA QuietCoroutine ==
    ASSUME MicroInv, NEW t \in Tasks, NEW pc \in Undecided \ {"review"}, NEW r \in States,
           UNCHANGED <<vars, verdict>>, Emit(t, r), Goto(t, pc), call[t].pc = "idle",
           at[t].pc \in Undecided, Quiet(row[t], r), r.status = row[t].status
    PROVE  MicroInv'
<1>1. pc # "settle" /\ pc # "review" /\ pc \in Working \cup {"ended"} /\ at[t].pc \in Working
  BY DEF Working, Undecided
<1>2. Tells(row[t], r, Todo(t))
  BY QuietTells
<1>3. Said(r, Todo(t), "completed") => Said(row[t], Todo(t), "completed")
  BY AtHand DEF Quiet
<1> QED BY <1>1, <1>2, <1>3, CoroutineStep

\* The task fails after events that report at most that its todo failed, with its
\* settlement on record if there is a verdict to settle.
LEMMA FailStep2 ==
    ASSUME MicroInv, NEW t \in Tasks, NEW r \in States, FailTask(t, r), UNCHANGED <<vars, verdict>>,
           call[t].pc = "idle", at[t].pc \in Working, Tells(row[t], r, Todo(t)),
           Said(r, Todo(t), "completed") => Said(row[t], Todo(t), "completed"),
           at[t].pc \in Undecided \/ verdict[t][Todo(t)] # "rejected" \/ ~Said(r, Todo(t), "failed")
             \/ \A p \in PaymentsOf(t, Todo(t)) : trans[p]["refund"][Todo(t)] = "completed"
    PROVE  MicroInv'
<1> DEFINE r2 == Append1(r, Report("orchestrator", NoKey, "failed", "failed"))
<1>1. Emit(t, r2) /\ Goto(t, "ended")
  BY DEF FailTask
<1>2. NoKey \in Keys \cup {NoKey}
  OBVIOUS
<1>3. r2 \in States /\ Quiet(r, r2) /\ r2.status = "failed"
  BY <1>2, QuietReport DEF Surroundings, StepNames, StepStatuses, Overalls
<1> HIDE DEF r2
<1>4. Tells(row[t], r2, Todo(t))
  BY <1>3, QuietTells
<1>5. \A s \in {"completed", "failed"} : Said(r, Todo(t), s) <=> Said(r2, Todo(t), s)
  BY <1>3, AtHand DEF Quiet
<1>6. "ended" # "settle" /\ "ended" # "review" /\ "ended" \in Working \cup {"ended"} /\ "ended" \notin Undecided
  BY DEF Undecided
<1> QED BY <1>1, <1>3, <1>4, <1>5, <1>6, CoroutineStep

\* The events of a todo that fails before its work is verified.
LEMMA FailEarly ==
    ASSUME MicroInv, NEW t \in Tasks, NEW r \in States, Quiet(row[t], r),
           FailTask(t, Append1(r, Failed(Todo(t)))), UNCHANGED <<vars, verdict>>,
           call[t].pc = "idle", at[t].pc \in Undecided
    PROVE  MicroInv'
<1> DEFINE r2 == Append1(r, Event("microtask", Todo(t), "failed"))
<1>1. FailTask(t, r2)
  BY DEF Failed
<1>2. /\ r2 \in States /\ Tells(r, r2, Todo(t))
      /\ Said(r2, Todo(t), "completed") => Said(r, Todo(t), "completed")
  <2>1. /\ r2 \in States /\ Tells(r, r2, Todo(t))
        /\ \A l \in Keys, x \in {"completed", "failed"} : Said(r2, l, x) => Said(r, l, x) \/ (l = Todo(t) /\ x = "failed")
    BY AtHand, TellingEvent
  <2> QED BY <2>1, AtHand
<1> HIDE DEF r2
<1>3. Tells(row[t], r2, Todo(t)) /\ (Said(r2, Todo(t), "completed") => Said(row[t], Todo(t), "completed"))
  BY <1>2, AtHand, QuietTells DEF Quiet
<1> QED BY <1>1, <1>2, <1>3, FailStep2 DEF Working

LEMMA NegotiateStep == ASSUME NEW t \in Tasks PROVE MicroInv /\ Negotiate(t) => MicroInv'
<1> SUFFICES ASSUME MicroInv, Negotiate(t) PROVE MicroInv'
  OBVIOUS
<1> DEFINE r == Append1(row[t], Event("negotiator", Todo(t), "running"))
<1>1. r \in States /\ Quiet(row[t], r) /\ r.status = row[t].status
  <2>1. row[t] \in States /\ Todo(t) \in Keys
    BY AtHand
  <2> QED BY <2>1, QuietEvent, TodoEvents, TaskEvents
<1>2. at[t].pc = "todo" /\ at[t].pc \in Undecided /\ at[t].pc \in Working /\ call[t].pc = "idle"
  BY AtHand DEF Negotiate, CallFits, Undecided, Working
<1>3. CASE FailTask(t, Append1(r, Failed(Todo(t)))) /\ UNCHANGED vars
  <2>1. UNCHANGED verdict
    BY DEF Negotiate
  <2> HIDE DEF r
  <2> QED BY <1>1, <1>2, <1>3, <2>1, FailEarly
<1>4. ASSUME NEW q \in Requests, q.task = t, q.key = Todo(t), ProposeLookup(t, q), Emit(t, r), Goto(t, "propose")
      PROVE  MicroInv'
  <2> DEFINE a == [at[t] EXCEPT !.pc = "propose"]
  <2> HIDE DEF r
  <2>1. /\ at' = [at EXCEPT ![t] = a] /\ row' = [row EXCEPT ![t] = r]
        /\ cache' = [cache EXCEPT ![t] = Snapshot(r)] /\ verdict' = [verdict EXCEPT ![t] = verdict[t]]
        /\ UNCHANGED verdict
    BY <1>4, AtHand DEF Negotiate, Emit, Goto, MicroTypeOK
  <2>2. a \in Places /\ a.pc = "propose" /\ a.i = at[t].i
    BY AtHand DEF Places, Working, Undecided
  <2> HIDE DEF a
  <2>3. t \in Callers /\ call \in [Callers -> CallStates] /\ Callers = Tasks
    BY PlanFacts, AtHand DEF IInv, TypeOK
  <2>4. IInv'
    <3>1. [Next]_vars
      BY <1>4, <2>3 DEF Next
    <3> QED BY <3>1, AtHand, NextInv
  <2>5. UNCHANGED <<task, trans, mempool, escrow>> /\ \A u \in Tasks : u # t => call'[u] = call[u]
    BY <1>4, <2>3 DEF ProposeLookup, Return, dbVars, chainVars
  <2>6. call'[t].pc = "idle" \/ (call'[t].pc = "insert" /\ call'[t].task = t /\ call'[t].key = Todo(t))
    <3>1. [Idle EXCEPT !.pc = "insert", !.task = q.task, !.key = q.key].pc = "insert"
          /\ [Idle EXCEPT !.pc = "insert", !.task = q.task, !.key = q.key].task = t
          /\ [Idle EXCEPT !.pc = "insert", !.task = q.task, !.key = q.key].key = Todo(t)
          /\ Idle.pc = "idle"
      BY <1>4 DEF Idle
    <3>2. call' = [call EXCEPT ![t] = Idle]
          \/ call' = [call EXCEPT ![t] = [Idle EXCEPT !.pc = "insert", !.task = q.task, !.key = q.key]]
      BY <1>4 DEF ProposeLookup, Return
    <3> QED BY <2>3, <3>1, <3>2
  <2>7. CallFits(t, a, verdict[t], call'[t])
    BY <2>2, <2>6, AtHand DEF CallFits
  <2>8. a.pc \in Undecided /\ a.pc # "settle" /\ a.pc # "review"
    BY <2>2 DEF Undecided
  <2>9. PlanFits(a, verdict[t], r) /\ Tells(row[t], r, Todo(t))
    BY <1>1, <1>2, <2>2, <2>8, AtHand, PlanMoves, QuietTells
  <2>10. WholeFits(a, verdict[t], r)
    BY <1>1, <1>2, AtHand, WholeMoves
  <2>11. ReviewFits(a, r, Snapshot(r))
    BY <2>8 DEF ReviewFits
  <2>12. VerdictIsSettled'
    <3>1. \A s \in {"completed", "failed"} : ~Said(r, Todo(t), s)
      BY <1>1, <1>2, AtHand DEF Quiet
    <3> QED BY <1>1, <2>1, <2>5, <2>9, <3>1, AtHand, ReportedSettled
  <2> QED BY <1>1, <2>1, <2>2, <2>4, <2>5, <2>7, <2>9, <2>10, <2>11, <2>12, AtHand, SnapshotLemma, Concluded
<1> QED BY <1>3, <1>4 DEF Negotiate

LEMMA ExecuteStep == ASSUME NEW t \in Tasks PROVE MicroInv /\ Execute(t) => MicroInv'
<1> SUFFICES ASSUME MicroInv, Execute(t) PROVE MicroInv'
  OBVIOUS
<1>1. /\ at[t].pc = "authorize" /\ at[t].pc \in Undecided /\ call[t].pc = "idle"
      /\ UNCHANGED <<vars, verdict>>
  BY DEF Execute, Ended, Undecided
<1>2. row[t] \in States /\ Quiet(row[t], row[t]) /\ Todo(t) \in Keys
  BY AtHand DEF Quiet
<1>3. CASE FailTask(t, Append1(row[t], Failed(Todo(t))))
  BY <1>1, <1>2, <1>3, FailEarly
<1>4. CASE Emit(t, Append1(row[t], Event("executor", Todo(t), "running"))) /\ Goto(t, "execute")
  <2> DEFINE r == Append1(row[t], Event("executor", Todo(t), "running"))
  <2>1. r \in States /\ Quiet(row[t], r) /\ r.status = row[t].status
    BY <1>2, QuietEvent, TodoEvents, TaskEvents
  <2> HIDE DEF r
  <2>2. Emit(t, r) /\ Goto(t, "execute") /\ "execute" \in Undecided \ {"review"}
    BY <1>4 DEF r, Undecided
  <2> QED BY <1>1, <2>1, <2>2, QuietCoroutine
<1> QED BY <1>3, <1>4 DEF Execute

LEMMA ExecutionFailsStep == ASSUME NEW t \in Tasks PROVE MicroInv /\ ExecutionFails(t) => MicroInv'
<1> SUFFICES ASSUME MicroInv, ExecutionFails(t) PROVE MicroInv'
  OBVIOUS
<1>1. at[t].pc \in Undecided /\ call[t].pc = "idle" /\ UNCHANGED <<vars, verdict>>
  BY AtHand DEF ExecutionFails, Undecided, CallFits
<1>2. PICK s \in {"completed", "failed"} :
         FailTask(t, Append1(Append1(row[t], Event("executor", Todo(t), s)), Failed(Todo(t))))
  BY DEF ExecutionFails, Append2
<1> DEFINE r == Append1(row[t], Event("executor", Todo(t), s))
<1>3. r \in States /\ Quiet(row[t], r)
  <2>1. row[t] \in States /\ Todo(t) \in Keys /\ s \in StepStatuses
    BY AtHand DEF StepStatuses
  <2> QED BY <2>1, QuietEvent, TodoEvents
<1> HIDE DEF r
<1>4. FailTask(t, Append1(r, Failed(Todo(t))))
  BY <1>2 DEF r
<1> QED BY <1>1, <1>3, <1>4, FailEarly

LEMMA ExecutionSucceedsStep == ASSUME NEW t \in Tasks PROVE MicroInv /\ ExecutionSucceeds(t) => MicroInv'
<1> SUFFICES ASSUME MicroInv, ExecutionSucceeds(t) PROVE MicroInv'
  OBVIOUS
<1> DEFINE r1 == Append1(row[t], Event("executor", Todo(t), "completed"))
           r2 == Append1(r1, Event("verifier", NoKey, "running"))
<1>1. /\ at[t].pc \in Undecided /\ call[t].pc = "idle" /\ UNCHANGED <<vars, verdict>>
      /\ Emit(t, r2) /\ Goto(t, "verify") /\ "verify" \in Undecided \ {"review"}
  BY AtHand DEF ExecutionSucceeds, Undecided, CallFits, Append2
<1>2. row[t] \in States /\ Todo(t) \in Keys
  BY AtHand
<1>3. r1 \in States /\ Quiet(row[t], r1) /\ r1.status = row[t].status
  BY <1>2, QuietEvent, TodoEvents, TaskEvents
<1> HIDE DEF r1
<1>4. r2 \in States /\ Quiet(r1, r2) /\ r2.status = row[t].status
  BY <1>2, <1>3, QuietEvent, TodoEvents, TaskEvents
<1> HIDE DEF r2
<1>5. Quiet(row[t], r2)
  BY <1>3, <1>4 DEF Quiet
<1> QED BY <1>1, <1>4, <1>5, QuietCoroutine

\* The request for a review is in the row and in its snapshot.
LEMMA AskHumanStep == ASSUME NEW t \in Tasks PROVE MicroInv /\ AskHuman(t) => MicroInv'
<1> SUFFICES ASSUME MicroInv, AskHuman(t) PROVE MicroInv'
  OBVIOUS
<1> DEFINE r1 == [row[t] EXCEPT !.pending = TRUE, !.decision = "none"]
           r2 == Append1(r1, Event("verifier", NoKey, "completed"))
           r3 == Append1(r2, Event("verification", Todo(t), "waiting_for_human"))
           a == [at[t] EXCEPT !.pc = "review"]
<1>1. /\ at[t].pc \in Undecided /\ at[t].pc \in Working /\ call[t].pc = "idle" /\ UNCHANGED <<vars, verdict>>
      /\ Emit(t, r3) /\ Goto(t, "review")
  BY AtHand DEF AskHuman, Undecided, Working, CallFits, Append2
<1>2. row[t] \in States /\ Todo(t) \in Keys
  BY AtHand
<1>3. r1 \in States /\ r1.pending /\ r1.status = row[t].status /\ r1.log = row[t].log /\ r1.step = row[t].step
  BY <1>2 DEF States, Decisions
<1> HIDE DEF r1
<1>4. r2 \in States /\ Quiet(r1, r2) /\ r2.status = row[t].status /\ r2.pending
  BY <1>2, <1>3, QuietEvent, TodoEvents, TaskEvents
<1> HIDE DEF r2
<1>5. r3 \in States /\ Quiet(r2, r3) /\ r3.status = row[t].status /\ r3.pending
  BY <1>2, <1>4, QuietEvent, TodoEvents, TaskEvents
<1> HIDE DEF r3
<1>6. Quiet(row[t], r3)
  BY <1>3, <1>4, <1>5 DEF Quiet, Said
<1>7. a \in Places /\ a.pc = "review" /\ a.i = at[t].i
  BY AtHand DEF Places, Working, Undecided
<1>8. /\ at' = [at EXCEPT ![t] = a] /\ verdict' = [verdict EXCEPT ![t] = verdict[t]]
      /\ row' = [row EXCEPT ![t] = r3] /\ cache' = [cache EXCEPT ![t] = Snapshot(r3)]
  BY <1>1, AtHand DEF Goto, Emit, MicroTypeOK
<1> HIDE DEF a
<1>9. IInv' /\ UNCHANGED <<call, mempool, escrow, task, trans>>
  BY <1>1, AtHand, NextInv DEF vars
<1>10. CallFits(t, a, verdict[t], call'[t])
  BY <1>1, <1>9 DEF CallFits
<1>11. PlanFits(a, verdict[t], r3) /\ Tells(row[t], r3, Todo(t))
  <2>1. a.pc # "settle" /\ Tells(row[t], r3, Plan[at[t].i])
    BY <1>6, <1>7, QuietTells
  <2> QED BY <1>1, <1>6, <1>7, <2>1, AtHand, PlanMoves
<1>12. WholeFits(a, verdict[t], r3)
  BY <1>1, <1>5, AtHand, WholeMoves
<1>13. ReviewFits(a, r3, Snapshot(r3))
  BY <1>5 DEF ReviewFits
<1>14. VerdictIsSettled'
  <2>1. \A s \in {"completed", "failed"} : ~Said(r3, Todo(t), s)
    BY <1>1, <1>6, AtHand DEF Quiet
  <2> QED BY <1>1, <1>5, <1>8, <1>9, <1>11, <2>1, AtHand, ReportedSettled
<1> QED BY <1>5, <1>7, <1>8, <1>9, <1>10, <1>11, <1>12, <1>13, <1>14, AtHand, SnapshotLemma, Concluded

\* With one payment for each todo, the settlement of one is the settlement of all.
LEMMA OnlyPayment ==
    ASSUME IInv, NEW t \in Tasks, NEW k \in Keys, NEW p \in PaymentsOf(t, k), NEW q \in PaymentsOf(t, k)
    PROVE  p = q
  BY PaymentAssumption DEF IInv, TablesInv, OnePaymentPerProposalKey, PaymentsOf, Exists

LEMMA SettledForAll ==
    ASSUME MicroInv, NEW t \in Tasks, NEW a, SettlementDone(t, a)
    PROVE  \A p \in PaymentsOf(t, Todo(t)) : trans[p][a][Todo(t)] = "completed"
<1>1. PICK q \in PaymentsOf(t, Todo(t)) : trans[q][a][Todo(t)] = "completed"
  BY DEF SettlementDone, Succeeded
<1> QED BY <1>1, AtHand, OnlyPayment

\* What ClearReview leaves of the row.
LEMMA ClearReviewLemma ==
    ASSUME MicroInv, NEW t \in Tasks
    PROVE  /\ ClearReview(t) \in States /\ ClearReview(t).status = row[t].status
           /\ Quiet(row[t], ClearReview(t)) /\ ClearReview(t).step = row[t].step
<1>1. row[t] \in States /\ at[t].decision \in Decisions
  BY AtHand DEF Places
<1>2. /\ ClearReview(t) \in States /\ ClearReview(t).status = row[t].status
      /\ ClearReview(t).step = row[t].step /\ ClearReview(t).log = row[t].log
  BY <1>1 DEF ClearReview, States
<1> QED BY <1>2 DEF Quiet, Said

LEMMA TodoFailsStep == ASSUME NEW t \in Tasks PROVE MicroInv /\ TodoFails(t) => MicroInv'
<1> SUFFICES ASSUME MicroInv, TodoFails(t) PROVE MicroInv'
  OBVIOUS
<1> DEFINE r0 == ClearReview(t)
           r == Append1(r0, Event("microtask", Todo(t), "failed"))
<1>1. /\ at[t].pc \in Working /\ call[t].pc = "idle" /\ UNCHANGED <<vars, verdict>>
      /\ FailTask(t, r) /\ SettlementDone(t, "refund")
  BY DEF TodoFails, Working, Ended, Failed
<1>2. r0 \in States /\ Quiet(row[t], r0) /\ Todo(t) \in Keys
  BY ClearReviewLemma, AtHand
<1> HIDE DEF r0
<1>3. /\ r \in States /\ Tells(r0, r, Todo(t))
      /\ \A l \in Keys, x \in {"completed", "failed"} : Said(r, l, x) => Said(r0, l, x) \/ (l = Todo(t) /\ x = "failed")
  BY <1>2, TellingEvent
<1> HIDE DEF r
<1>4. Tells(row[t], r, Todo(t)) /\ (Said(r, Todo(t), "completed") => Said(row[t], Todo(t), "completed"))
  BY <1>2, <1>3, QuietTells DEF Quiet
<1>5. \A p \in PaymentsOf(t, Todo(t)) : trans[p]["refund"][Todo(t)] = "completed"
  BY <1>1, SettledForAll
<1> QED BY <1>1, <1>3, <1>4, <1>5, FailStep2

LEMMA SettlementRaisesStep == ASSUME NEW t \in Tasks PROVE MicroInv /\ SettlementRaises(t) => MicroInv'
<1> SUFFICES ASSUME MicroInv, SettlementRaises(t) PROVE MicroInv'
  OBVIOUS
<1>1. /\ at[t].pc \in Working /\ call[t].pc = "idle" /\ UNCHANGED <<vars, verdict>> /\ FailTask(t, row[t])
  BY DEF SettlementRaises, Working, Ended
<1>2. row[t] \in States /\ Tells(row[t], row[t], Todo(t)) /\ ~Said(row[t], Todo(t), "failed")
  BY <1>1, AtHand DEF Tells
<1> QED BY <1>1, <1>2, FailStep2

LEMMA TodoCompletesStep == ASSUME NEW t \in Tasks PROVE MicroInv /\ TodoCompletes(t) => MicroInv'
<1> SUFFICES ASSUME MicroInv, TodoCompletes(t) PROVE MicroInv'
  OBVIOUS
<1> DEFINE k == Todo(t)
           r0 == ClearReview(t)
           r1 == Append1(r0, Event("microtask", Todo(t), "completed"))
           r2 == Append1(r1, Report("orchestrator", NoKey, "completed", "completed"))
<1>1. /\ at[t].pc = "settle" /\ at[t].pc \in Working /\ call[t].pc = "idle" /\ UNCHANGED <<vars, verdict>>
      /\ verdict[t][k] = "accepted" /\ SettlementDone(t, "release") /\ Advance(t)
      /\ Emit(t, IF at[t].i < Len(Plan) THEN r1 ELSE r2)
  BY DEF TodoCompletes, Working, Ended
<1>2. /\ r0 \in States /\ Quiet(row[t], r0) /\ r0.status = row[t].status /\ r0.step = row[t].step
      /\ k \in Keys /\ k = Plan[at[t].i] /\ at[t] \in Places
  BY ClearReviewLemma, AtHand
<1>3. r0.step # <<"microtask", k>>
  <2>1. ~Behind(at[t], k) /\ PlanFits(at[t], verdict[t], row[t])
    BY <1>2, AtHand, CurrentTodo
  <2> QED BY <1>1, <1>2, <2>1 DEF PlanFits
<1> HIDE DEF r0
<1>4. /\ r1 \in States /\ Tells(r0, r1, k) /\ r1.status = row[t].status /\ Said(r1, k, "completed")
      /\ \A l \in Keys, x \in {"completed", "failed"} : Said(r1, l, x) => Said(r0, l, x) \/ (l = k /\ x = "completed")
  <2>1. r0 \in States /\ k \in Keys /\ r0.step # <<"microtask", k>> /\ r0.status = row[t].status
    BY <1>2, <1>3
  <2> HIDE DEF k
  <2>2. r1 = Append1(r0, Event("microtask", k, "completed"))
    BY DEF k
  <2> HIDE DEF r1
  <2>3. r1 \in States /\ Tells(r0, r1, k) /\ r1.status = row[t].status
    BY <2>1, <2>2, TellingEvent
  <2> DEFINE e == Event("microtask", k, "completed")
  <2>4. e \in Events /\ e.step = <<"microtask", k>> /\ e.status = "completed"
    BY <2>1, EventLemma DEF StepStatuses, StepNames
  <2>5. r1 = Append1(r0, e)
    BY <2>2
  <2> HIDE DEF e
  <2>6. <<e.step, e.status>> \in r1.log /\ r1.log \subseteq r0.log \cup {<<e.step, e.status>>}
    BY <2>1, <2>4, <2>5, AppendLemma
  <2> QED BY <2>3, <2>4, <2>6 DEF Said
<1> HIDE DEF r1
<1>5. /\ Tells(row[t], r1, k) /\ ~Said(r1, k, "failed")
  BY <1>1, <1>2, <1>4, AtHand, QuietTells DEF Quiet
<1>6. r2 \in States /\ Quiet(r1, r2) /\ r2.status = "completed"
  <2>1. NoKey \in Keys \cup {NoKey}
    OBVIOUS
  <2> QED BY <1>4, <2>1, QuietReport DEF Surroundings, StepNames, StepStatuses, Overalls
<1> HIDE DEF r2
<1>7. Tells(row[t], r2, k) /\ ~Said(r2, k, "failed") /\ Said(r2, k, "completed")
  BY <1>2, <1>4, <1>5, <1>6, QuietTells DEF Quiet
<1>8. IInv' /\ UNCHANGED <<call, mempool, escrow, task, trans>>
  BY <1>1, AtHand, NextInv DEF vars
<1>9. \A p \in PaymentsOf(t, Todo(t)) : trans[p]["release"][Todo(t)] = "completed"
  BY <1>1, SettledForAll
<1>10. at[t].i \in 1..Len(Plan) /\ Len(Plan) \in Nat
  BY <1>2, PlanFacts DEF Places
<1>11. ASSUME NEW r \in States, NEW a \in Places, row' = [row EXCEPT ![t] = r], at' = [at EXCEPT ![t] = a],
              cache' = [cache EXCEPT ![t] = Snapshot(r)], Tells(row[t], r, k), ~Said(r, k, "failed"),
              PlanFits(a, verdict[t], r), WholeFits(a, verdict[t], r), a.pc # "review"
       PROVE  MicroInv'
  <2>1. VerdictIsSettled'
    BY <1>1, <1>8, <1>9, <1>11, AtHand, ReportedSettled
  <2>2. CallFits(t, a, verdict[t], call'[t])
    BY <1>1, <1>8 DEF CallFits
  <2>3. ReviewFits(a, r, Snapshot(r))
    BY <1>11 DEF ReviewFits
  <2>4. verdict' = [verdict EXCEPT ![t] = verdict[t]]
    BY <1>1, AtHand DEF MicroTypeOK
  <2> QED BY <1>8, <1>11, <2>1, <2>2, <2>3, <2>4, AtHand, SnapshotLemma, Concluded
<1>12. CASE at[t].i < Len(Plan)
  <2> DEFINE a == [pc |-> "todo", i |-> at[t].i + 1, decision |-> "none"]
  <2>1. at' = [at EXCEPT ![t] = a]
    <3>1. at[t].i # Len(Plan) /\ at \in [Tasks -> Places]
      BY <1>10, <1>12, AtHand DEF MicroTypeOK
    <3> QED BY <1>1, <3>1 DEF Advance
  <2>2. a \in Places /\ a.pc = "todo" /\ a.i = at[t].i + 1
    BY <1>10, <1>12, PlanFacts DEF Places, Working, Undecided, Decisions
  <2>3. row' = [row EXCEPT ![t] = r1] /\ cache' = [cache EXCEPT ![t] = Snapshot(r1)]
    BY <1>1, <1>12 DEF Emit
  <2> HIDE DEF a
  <2>4. PlanFits(a, verdict[t], r1)
    BY <1>1, <1>2, <1>4, <1>5, <2>2, AtHand, PlanAdvances
  <2>5. WholeFits(a, verdict[t], r1)
    BY <1>1, <1>4, AtHand, WholeMoves
  <2> QED BY <1>4, <1>5, <1>11, <2>1, <2>2, <2>3, <2>4, <2>5
<1>13. CASE at[t].i = Len(Plan)
  <2> DEFINE a == [at[t] EXCEPT !.pc = "ended"]
  <2>1. at' = [at EXCEPT ![t] = a]
    BY <1>1, <1>13 DEF Advance
  <2>2. a \in Places /\ a.pc = "ended" /\ a.i = at[t].i
    BY <1>2 DEF Places
  <2>3. row' = [row EXCEPT ![t] = r2] /\ cache' = [cache EXCEPT ![t] = Snapshot(r2)]
    <3>1. ~(at[t].i < Len(Plan))
      BY <1>10, <1>13
    <3> QED BY <1>1, <3>1 DEF Emit
  <2> HIDE DEF a
  <2>4. PlanFits(a, verdict[t], r2)
    <3>1. a.pc \notin Working /\ a.pc \notin Undecided /\ a.pc # "settle"
      BY <2>2 DEF Working, Undecided
    <3> QED BY <1>2, <1>7, <2>2, <3>1, AtHand, PlanMoves
  <2>5. ASSUME NEW i \in DOMAIN Plan
        PROVE  verdict[t][Plan[i]] = "accepted" /\ Said(r2, Plan[i], "completed")
    <3>1. CASE i = at[t].i
      BY <1>1, <1>2, <1>7, <3>1
    <3>2. CASE i # at[t].i
      <4>1. Plan[i] \in Keys /\ Behind(at[t], Plan[i])
        BY <1>10, <1>13, <3>2, PlanFacts DEF Behind
      <4>2. verdict[t][Plan[i]] = "accepted" /\ Said(row[t], Plan[i], "completed")
        BY <4>1, AtHand DEF PlanFits
      <4> QED BY <1>7, <4>1, <4>2 DEF Tells
    <3> QED BY <3>1, <3>2
  <2>6. WholeFits(a, verdict[t], r2)
    BY <2>2, <2>5 DEF WholeFits
  <2> QED BY <1>6, <1>7, <1>11, <2>1, <2>2, <2>3, <2>4, <2>6
<1> QED BY <1>10, <1>12, <1>13

\* A human's decision, early or late, says nothing of the microtask and answers the request.
LEMMA ReviewStep ==
    ASSUME MicroInv, NEW t \in Tasks, NEW r \in States, Emit(t, r), UNCHANGED <<vars, at, verdict>>,
           Quiet(row[t], r), r.status \in {row[t].status, "CANCELLED"}, r.decision # "none"
    PROVE  MicroInv'
<1>1. IInv' /\ UNCHANGED <<call, mempool, escrow, task, trans>>
  BY AtHand, NextInv DEF vars
<1>2. /\ at' = [at EXCEPT ![t] = at[t]] /\ verdict' = [verdict EXCEPT ![t] = verdict[t]]
      /\ row' = [row EXCEPT ![t] = r] /\ cache' = [cache EXCEPT ![t] = Snapshot(r)]
  BY AtHand DEF Emit, MicroTypeOK
<1>3. Tells(row[t], r, Todo(t)) /\ CallFits(t, at[t], verdict[t], call'[t])
  BY <1>1, AtHand, QuietTells
<1>4. PlanFits(at[t], verdict[t], r)
  BY <1>3, AtHand, PlanMoves
<1>5. WholeFits(at[t], verdict[t], r)
  <2>1. \A i \in DOMAIN Plan : Said(row[t], Plan[i], "completed") => Said(r, Plan[i], "completed")
    BY PlanFacts DEF Quiet
  <2> QED BY <2>1, AtHand DEF WholeFits
<1>6. ReviewFits(at[t], r, Snapshot(r))
  BY DEF ReviewFits
<1>7. VerdictIsSettled'
  <2>1. \A s \in {"completed", "failed"} : Said(r, Todo(t), s) => Reported(t, Todo(t), s)
    BY AtHand DEF Quiet, Reported, Said
  <2>2. \A p \in PaymentsOf(t, Todo(t)) : SettledOK(t, Todo(t), p)
    BY AtHand DEF VerdictIsSettled, SettledOK, PaymentsOf
  <2> QED BY <1>1, <1>2, <1>3, <2>1, <2>2, AtHand, ReportedSettled DEF SettledOK
<1> QED BY <1>1, <1>2, <1>3, <1>4, <1>5, <1>6, <1>7, AtHand, SnapshotLemma, Concluded

LEMMA ApproveReviewStep == ASSUME NEW t \in Tasks PROVE MicroInv /\ Approve1(t) => MicroInv'
<1> SUFFICES ASSUME MicroInv, Approve1(t) PROVE MicroInv'
  OBVIOUS
<1> DEFINE r1 == [row[t] EXCEPT !.pending = FALSE, !.decision = "approved"]
           r2 == Append1(r1, Event("verification", Todo(t), "completed"))
<1>1. Emit(t, r2) /\ UNCHANGED <<vars, at, verdict>>
  BY DEF Approve1
<1>2. row[t] \in States /\ Todo(t) \in Keys
  BY AtHand
<1>3. r1 \in States /\ r1.decision = "approved" /\ r1.status = row[t].status /\ r1.log = row[t].log
      /\ r1.step = row[t].step
  BY <1>2 DEF States, Decisions
<1> HIDE DEF r1
<1>4. r2 \in States /\ Quiet(r1, r2) /\ r2.status = row[t].status /\ r2.decision = "approved"
  BY <1>2, <1>3, QuietEvent, TodoEvents
<1> HIDE DEF r2
<1>5. Quiet(row[t], r2)
  BY <1>3, <1>4 DEF Quiet, Said
<1> QED BY <1>1, <1>4, <1>5, ReviewStep

LEMMA RejectReviewStep == ASSUME NEW t \in Tasks PROVE MicroInv /\ Reject1(t) => MicroInv'
<1> SUFFICES ASSUME MicroInv, Reject1(t) PROVE MicroInv'
  OBVIOUS
<1> DEFINE r1 == [row[t] EXCEPT !.pending = FALSE, !.decision = "rejected"]
           r2 == Append1(r1, Event("verification", Todo(t), "failed"))
           r3 == Append1(r2, Report("cancellation", NoKey, "cancelled", "CANCELLED"))
<1>1. Emit(t, r3) /\ UNCHANGED <<vars, at, verdict>>
  BY DEF Reject1, Append2
<1>2. row[t] \in States /\ Todo(t) \in Keys
  BY AtHand
<1>3. r1 \in States /\ r1.decision = "rejected" /\ r1.log = row[t].log /\ r1.step = row[t].step
  BY <1>2 DEF States, Decisions
<1> HIDE DEF r1
<1>4. r2 \in States /\ Quiet(r1, r2) /\ r2.decision = "rejected"
  BY <1>2, <1>3, QuietEvent, TodoEvents
<1> HIDE DEF r2
<1>5. r3 \in States /\ Quiet(r2, r3) /\ r3.status = "CANCELLED" /\ r3.decision = "rejected"
  <2>1. NoKey \in Keys \cup {NoKey}
    OBVIOUS
  <2> QED BY <1>4, <2>1, QuietReport DEF Surroundings, StepNames, StepStatuses, Overalls
<1> HIDE DEF r3
<1>6. Quiet(row[t], r3)
  BY <1>3, <1>4, <1>5 DEF Quiet, Said
<1> QED BY <1>1, <1>5, <1>6, ReviewStep

LEMMA ViewStep == ASSUME NEW t \in Tasks PROVE MicroInv /\ View(t) => MicroInv'
<1> SUFFICES ASSUME MicroInv, View(t) PROVE MicroInv'
  OBVIOUS
<1>1. UNCHANGED <<vars, at, verdict, row>> /\ cache' = [cache EXCEPT ![t] = Snapshot(row[t])]
  BY DEF View
<1>2. IInv' /\ UNCHANGED <<call, mempool, escrow, task, trans>>
  BY <1>1, AtHand, NextInv DEF vars
<1>3. /\ at' = [at EXCEPT ![t] = at[t]] /\ verdict' = [verdict EXCEPT ![t] = verdict[t]]
      /\ row' = [row EXCEPT ![t] = row[t]]
  BY <1>1, AtHand DEF MicroTypeOK
<1>4. CallFits(t, at[t], verdict[t], call'[t]) /\ ReviewFits(at[t], row[t], Snapshot(row[t]))
  BY <1>2, AtHand DEF ReviewFits
<1>5. VerdictIsSettled'
  BY <1>1, <1>2, AtHand DEF VerdictIsSettled, Reported, PaymentsOf
<1>6. /\ at[t] \in Places /\ verdict[t] \in Works /\ row[t] \in States
      /\ PlanFits(at[t], verdict[t], row[t]) /\ WholeFits(at[t], verdict[t], row[t])
  BY AtHand
<1>7. Snapshot(row[t]) \in Snapshots
  BY <1>6, SnapshotLemma
<1> QED BY <1>1, <1>2, <1>3, <1>4, <1>5, <1>6, <1>7, Concluded

\* A step of the payment call: a settlement is sent and recorded for the verdict
\* that called it.
LEMMA PayStep == ASSUME NEW t \in Tasks PROVE MicroInv /\ Pay(t) => MicroInv'
<1> SUFFICES ASSUME MicroInv, Pay(t) PROVE MicroInv'
  OBVIOUS
<1>1. Progress(t) /\ UNCHANGED <<at, verdict, row, cache>>
  BY DEF Pay, microVars
<1>2. IInv /\ IInv' /\ \A u \in Tasks : u # t => call'[u] = call[u]
  BY <1>1, AtHand, ProgressLemma
<1>3. /\ at' = [at EXCEPT ![t] = at[t]] /\ verdict' = [verdict EXCEPT ![t] = verdict[t]]
      /\ row' = [row EXCEPT ![t] = row[t]] /\ cache' = [cache EXCEPT ![t] = cache[t]]
  BY <1>1, AtHand DEF MicroTypeOK
<1>4. call[t].pc \in {"submit", "wait", "read", "commit"} =>
        /\ call[t].payment \in Own(t) /\ call[t].key = Todo(t) /\ call[t].task = t
        /\ call[t].action \in Actions \ {"proposal"} /\ at[t].pc \in Working
        /\ call[t].action = "release" => verdict[t][Todo(t)] = "accepted"
        /\ call[t].action = "refund" => verdict[t][Todo(t)] = "rejected"
  <2>1. CallOK(call[t], task, escrow) /\ call[t] \in CallStates
    BY PlanFacts, AtHand DEF IInv, CallInv
  <2> QED BY <2>1, AtHand DEF CallOK, CallStates, CallFits, Own, Working, Undecided
<1>5. CallFits(t, at[t], verdict[t], call'[t])
  BY <1>1, <1>2, AtHand, ProgressLemma DEF CallFits
<1>6. MicroTypeOK' /\ TasksInv'
  <2>1. TaskOK(t, at[t], verdict[t], row[t], cache[t], call'[t])
    BY <1>5, AtHand DEF TaskOK
  <2> QED BY <1>2, <1>3, <2>1, AtHand, TaskStep
<1>7. ChainInv'
  <2>1. ASSUME NEW tx \in mempool'
        PROVE  /\ tx.fn = "release" => Rules(tx.task, "accepted")
               /\ tx.fn = "refund" => Rules(tx.task, "rejected")
    <3>1. CASE tx \in mempool
      BY <3>1 DEF MicroInv, ChainInv
    <3>2. CASE tx = TxOf(t) /\ call[t].pc = "submit"
      <4>1. tx.fn = call[t].action /\ tx.task = t
        BY <1>4, <3>2 DEF TxOf
      <4> QED BY <1>4, <3>2, <4>1, AtHand DEF Rules
    <3> QED BY <1>1, <1>2, <3>1, <3>2, ProgressLemma
  <2>2. UNCHANGED escrow
    BY <1>1, <1>2, ProgressLemma
  <2> QED BY <1>1, <2>1, <2>2 DEF MicroInv, ChainInv, Rules
<1>8. VerdictIsSettled'
  <2>1. CASE UNCHANGED <<task, trans>>
    BY <1>1, <2>1, AtHand DEF VerdictIsSettled, Reported, PaymentsOf
  <2>2. CASE /\ call[t].pc = "insert"
             /\ \E p \in Payments : /\ ~Exists(p) /\ task' = [task EXCEPT ![p] = call[t].task]
                                    /\ Record(p, "proposal", call[t].key, "completed")
    <3>1. call[t].task = t /\ call[t].key = Todo(t) /\ at[t].pc \in Working
      BY <2>2, AtHand DEF CallFits, Working, Undecided
    <3> QED BY <1>1, <2>2, <3>1, AtHand, ProposedSettled
  <2>3. CASE /\ call[t].pc \in {"submit", "wait", "read", "commit"} /\ UNCHANGED task
             /\ \E s \in TransitionStates : Record(call[t].payment, call[t].action, call[t].key, s)
    <3>1. Quiet(row[t], row[t])
      BY DEF Quiet
    <3>2. \E p \in Own(t), s \in TransitionStates : Record(p, call[t].action, Todo(t), s)
      BY <1>4, <2>3
    <3> QED BY <1>3, <1>4, <2>3, <3>1, <3>2, AtHand, RecordedSettled
  <2> QED BY <1>1, <1>2, <2>1, <2>2, <2>3, ProgressLemma
<1> QED BY <1>2, <1>6, <1>7, <1>8 DEF MicroInv

\* The contract settles an escrow only the way the call that is mined asks for.
LEMMA ApplySettles ==
    ASSUME NEW e \in Escrows, NEW tx \in Transactions
    PROVE  /\ Apply(e, tx).state = "released" => e.state = "released" \/ tx.fn = "release"
           /\ Apply(e, tx).state = "refunded" => e.state = "refunded" \/ tx.fn = "refund"
<1>1. tx.fn \in {"authorize", "release", "refund"}
  BY DEF Transactions, Actions
<1>2. CASE tx.fn = "authorize"
  BY <1>2 DEF Apply, Escrows
<1>3. CASE tx.fn # "authorize"
  BY <1>1, <1>3 DEF Apply, Approve, Outcome, Escrows
<1> QED BY <1>2, <1>3

LEMMA ChainStep == MicroInv /\ Chain => MicroInv'
<1> SUFFICES ASSUME MicroInv, Chain PROVE MicroInv'
  OBVIOUS
<1>1. PICK tx \in mempool : Mine(tx)
  BY DEF Chain
<1>2. UNCHANGED <<at, verdict, row, cache, call, task, trans>>
  BY <1>1 DEF Chain, Mine, microVars, dbVars
<1>3. IInv /\ IInv'
  <2>1. [Next]_vars
    BY <1>1 DEF Next
  <2> QED BY <2>1, NextInv DEF MicroInv
<1>4. escrow \in [Tasks -> Escrows] /\ mempool \subseteq Transactions /\ tx.task \in Tasks
  BY <1>3 DEF IInv, TypeOK, Transactions
<1>5. ChainInv'
  <2>1. mempool' \subseteq mempool
    BY <1>1 DEF Mine
  <2>2. ASSUME NEW t \in Tasks
        PROVE  /\ escrow'[t].state = "released" => Rules(t, "accepted")
               /\ escrow'[t].state = "refunded" => Rules(t, "rejected")
    <3>1. /\ escrow[t].state = "released" => Rules(t, "accepted")
          /\ escrow[t].state = "refunded" => Rules(t, "rejected")
          /\ tx.fn = "release" => Rules(tx.task, "accepted")
          /\ tx.fn = "refund" => Rules(tx.task, "rejected")
      BY DEF MicroInv, ChainInv
    <3>2. escrow'[t] = escrow[t] \/ (t = tx.task /\ escrow'[t] = Apply(escrow[t], tx))
      BY <1>1, <1>4 DEF Mine
    <3> QED BY <1>4, <3>1, <3>2, ApplySettles
  <2> QED BY <1>2, <2>1, <2>2 DEF MicroInv, ChainInv, Rules
<1>6. MicroTypeOK' /\ TasksInv'
  BY <1>2 DEF MicroInv, MicroTypeOK, TasksInv
<1>7. VerdictIsSettled'
  BY <1>2 DEF MicroInv, VerdictIsSettled, Reported, PaymentsOf
<1> QED BY <1>3, <1>5, <1>6, <1>7 DEF MicroInv

\* A restart takes the coroutines, their calls and the cache, and leaves the tables.
LEMMA RestartStep == MicroInv /\ Restart => MicroInv'
<1> SUFFICES ASSUME MicroInv, Restart PROVE MicroInv'
  OBVIOUS
<1>1. /\ UNCHANGED <<dbVars, chainVars, begun, verdict, row>>
      /\ call' = [c \in Callers |-> Idle] /\ cache' = [t \in Tasks |-> NoSnapshot]
      /\ at' = [t \in Tasks |-> IF at[t].pc \in {"new", "ended"} THEN at[t]
                                ELSE [at[t] EXCEPT !.pc = "lost"]]
  BY DEF Restart
<1>2. IInv /\ TypeOK /\ EscrowInv /\ TablesInv /\ MicroTypeOK
  BY DEF MicroInv, IInv
<1>3. IInv'
  <2>1. TablesInv' /\ TablesType'
    <3>1. Stable
      BY <1>1 DEF Stable, dbVars, chainVars
    <3> QED BY <1>1, <1>2, <3>1, TablesFrame
  <2>2. Idle \in CallStates /\ Idle.pc = "idle"
    BY DEF Idle, CallStates, Actions, Statuses, EscrowStates
  <2>3. call' \in [Callers -> CallStates] /\ CallInv'
    BY <1>1, <2>2 DEF CallInv, CallOK
  <2>4. EscrowInv' /\ escrow' \in [Tasks -> Escrows] /\ mempool' \in SUBSET Transactions
        /\ begun' \in 0..MaxCalls
    BY <1>1, <1>2 DEF EscrowInv, TypeOK, chainVars
  <2> QED BY <2>1, <2>3, <2>4, Assemble
<1>4. ASSUME NEW t \in Tasks
      PROVE  at'[t] \in Places /\ TaskOK(t, at'[t], verdict'[t], row'[t], cache'[t], call'[t])
  <2> DEFINE a == at'[t]
  <2>1. /\ a \in Places /\ a.i = at[t].i /\ a.pc \in {at[t].pc, "lost"}
        /\ (a.pc = "lost" \/ (a = at[t] /\ a.pc \in {"new", "ended"}))
        /\ at[t].pc = "ended" => a = at[t]
    BY <1>1, AtHand DEF Places
  <2>2. /\ verdict'[t] = verdict[t] /\ row'[t] = row[t] /\ cache'[t] = NoSnapshot
        /\ call'[t].pc = "idle"
    BY <1>1, PlanFacts DEF Idle
  <2> HIDE DEF a
  <2>3. CallFits(t, a, verdict[t], call'[t])
    BY <2>2 DEF CallFits
  <2>4. PlanFits(a, verdict[t], row[t])
    <3>1. Quiet(row[t], row[t]) /\ Tells(row[t], row[t], Plan[at[t].i])
      BY DEF Quiet, Tells
    <3>2. /\ a.pc \in Undecided => at[t].pc \in Undecided
          /\ a.pc \in Working => at[t].pc \in Working /\ a.pc # "settle"
          /\ a.pc # "settle"
      BY <2>1 DEF Working, Undecided
    <3> QED BY <2>1, <3>1, <3>2, AtHand, PlanMoves
  <2>5. WholeFits(a, verdict[t], row[t])
    BY <2>1, AtHand DEF WholeFits
  <2>6. ReviewFits(a, row[t], NoSnapshot)
    BY <2>1 DEF ReviewFits
  <2> QED BY <2>1, <2>2, <2>3, <2>4, <2>5, <2>6 DEF TaskOK, a
<1>5. MicroTypeOK'
  <2>1. NoSnapshot \in Snapshots
    BY DEF NoSnapshot, Snapshots, Overalls
  <2>2. at' \in [Tasks -> Places]
    BY <1>1, <1>4
  <2> QED BY <1>1, <1>2, <2>1, <2>2 DEF MicroTypeOK
<1>6. TasksInv'
  BY <1>4 DEF TasksInv
<1>7. ChainInv'
  BY <1>1 DEF MicroInv, ChainInv, chainVars, Rules
<1>8. VerdictIsSettled'
  BY <1>1 DEF MicroInv, VerdictIsSettled, Reported, PaymentsOf, dbVars
<1> QED BY <1>3, <1>5, <1>6, <1>7, <1>8 DEF MicroInv

-----------------------------------------------------------------------------
(* Invariance *)

LEMMA InitMicroInv == MicroInit => MicroInv
<1> SUFFICES ASSUME MicroInit PROVE MicroInv
  OBVIOUS
<1>1. IInv /\ Init
  BY InitInv DEF MicroInit
<1>2. /\ NoSnapshot \in Snapshots /\ NewRow \in States
      /\ NewRow.status = "processing" /\ NewRow.log = {} /\ NewRow.step = <<"none", NoKey>>
  BY DEF NoSnapshot, Snapshots, Overalls, NewRow, States, Steps, StepNames, Decisions
<1>3. [pc |-> "new", i |-> 1, decision |-> "none"] \in Places
  BY PlanFacts DEF Places, Working, Undecided, Decisions
<1>4. MicroTypeOK
  BY <1>2, <1>3 DEF MicroInit, MicroTypeOK, Works
<1>5. ASSUME NEW t \in Tasks PROVE TaskOK(t, at[t], verdict[t], row[t], cache[t], call[t])
  <2>1. /\ at[t].pc = "new" /\ at[t].i = 1 /\ verdict[t] = [k \in Keys |-> "none"] /\ row[t] = NewRow
        /\ cache[t] = NoSnapshot /\ call[t].pc = "idle"
    BY <1>1, PlanFacts DEF MicroInit, Init, Idle
  <2>2. CallFits(t, at[t], verdict[t], call[t])
    BY <2>1 DEF CallFits
  <2>3. \A k : ~Behind(at[t], k)
    BY <2>1, PlanFacts DEF Behind
  <2>4. \A k \in Keys : /\ ~Said(row[t], k, "completed") /\ ~Said(row[t], k, "failed")
                       /\ row[t].step # <<"microtask", k>> /\ verdict[t][k] = "none"
    BY <1>2, <2>1 DEF Said
  <2>5. PlanFits(at[t], verdict[t], row[t])
    BY <2>1, <2>3, <2>4 DEF PlanFits
  <2>6. WholeFits(at[t], verdict[t], row[t]) /\ ReviewFits(at[t], row[t], cache[t])
    BY <1>2, <2>1 DEF WholeFits, ReviewFits
  <2> QED BY <2>2, <2>5, <2>6 DEF TaskOK
<1>6. ChainInv
  BY <1>1 DEF Init, ChainInv
<1>7. VerdictIsSettled
  <2>1. \A t \in Tasks, k \in Keys : PaymentsOf(t, k) = {}
    BY <1>1 DEF Init, PaymentsOf, Actions
  <2> QED BY <2>1 DEF VerdictIsSettled
<1> QED BY <1>1, <1>4, <1>5, <1>6, <1>7 DEF MicroInv, TasksInv

LEMMA NextMicroInv == MicroInv /\ [MicroNext]_allVars => MicroInv'
<1> SUFFICES ASSUME MicroInv, [MicroNext]_allVars PROVE MicroInv'
  OBVIOUS
<1>1. ASSUME NEW t \in Tasks, Step(t) PROVE MicroInv'
  BY <1>1, StartTaskStep, NegotiateStep, AuthorizeStep, ExecuteStep, ExecutionFailsStep,
     ExecutionSucceedsStep, VerifiedStep, AskHumanStep, DecidedStep, TodoCompletesStep, TodoFailsStep,
     SettlementRaisesStep DEF Step
<1>2. ASSUME NEW t \in Tasks, Approve1(t) \/ Reject1(t) \/ View(t) \/ Pay(t) PROVE MicroInv'
  BY <1>2, ApproveReviewStep, RejectReviewStep, ViewStep, PayStep
<1>3. CASE Chain \/ Restart
  BY <1>3, ChainStep, RestartStep
<1>4. CASE UNCHANGED allVars
  <2>1. UNCHANGED vars /\ UNCHANGED <<at, verdict, row, cache>>
    BY <1>4 DEF allVars, microVars
  <2>2. IInv' /\ UNCHANGED <<task, trans, escrow, mempool, call>>
    BY <2>1, NextInv DEF MicroInv, vars
  <2>3. MicroTypeOK' /\ TasksInv'
    BY <2>1, <2>2 DEF MicroInv, MicroTypeOK, TasksInv
  <2>4. ChainInv' /\ VerdictIsSettled'
    BY <2>1, <2>2 DEF MicroInv, ChainInv, Rules, VerdictIsSettled, Reported, PaymentsOf
  <2> QED BY <2>2, <2>3, <2>4 DEF MicroInv
<1> QED BY <1>1, <1>2, <1>3, <1>4 DEF MicroNext

LEMMA MicroInvariance == MicroSpec => []MicroInv
<1> QED BY InitMicroInv, NextMicroInv, PTL DEF MicroSpec

-----------------------------------------------------------------------------
(* Theorems *)

\* A report of a todo and the settlement of its payment agree with each other
\* and with the verdict, whatever exceptions, timeouts, restarts and late
\* reviews fall between the steps of execute_microtask.
THEOREM VerdictsAreSettled == MicroSpec => []VerdictIsSettled
<1>1. MicroInv => VerdictIsSettled
  BY DEF MicroInv
<1> QED BY <1>1, MicroInvariance, PTL

\* run_orchestrator_task reports a task completed only with every todo of its
\* plan accepted and reported in the events that were persisted.
THEOREM CompletedIsWhole == MicroSpec => []CompletedTaskIsWhole
<1>1. MicroInv => CompletedTaskIsWhole
  BY AtHand DEF CompletedTaskIsWhole, WholeFits, Said, Reported
<1> QED BY <1>1, MicroInvariance, PTL

\* While _wait_for_human_decision polls, the review routes see the request, in
\* the cached snapshot or in the row, also after the cache was lost.
THEOREM ReviewsAreReachable == MicroSpec => []ReviewIsReachable
<1>1. ASSUME MicroInv, NEW t \in Tasks, at[t].pc = "review", row[t].decision = "none" PROVE SeenPending(t)
  <2>1. cache[t] \in {NoSnapshot, Snapshot(row[t])} /\ row[t].pending
    BY <1>1, AtHand DEF ReviewFits
  <2>2. Snapshot(row[t]).pending = row[t].pending
    BY DEF Snapshot
  <2> QED BY <2>1, <2>2 DEF SeenPending
<1>2. MicroInv => ReviewIsReachable
  BY <1>1 DEF ReviewIsReachable
<1> QED BY <1>2, MicroInvariance, PTL

\* The contract pays out or back only after the verification or a human said so
\* of some todo of the task, however long the call waited to be mined.
THEOREM EscrowFollows == MicroSpec => []EscrowFollowsVerdict
<1>1. MicroInv => EscrowFollowsVerdict
  BY DEF MicroInv, ChainInv, Rules, EscrowFollowsVerdict
<1> QED BY <1>1, MicroInvariance, PTL
=============================================================================
