------------------------------ MODULE RunAttempts ------------------------------
(***************************************************************************)
(* Who works on the nodes of a research run, and what is kept of it: the      *)
(* plan's nodes and bindings, the ranking of agents for a node, rerouting     *)
(* after a failed attempt, and the rows that trace each attempt.  Pauses,     *)
(* reviews and restarts are in ResearchRunControl, payments in Microtask.     *)
(***************************************************************************)
EXTENDS Integers, Sequences, FiniteSets, Functions, FiniteSetsExt

CONSTANTS Agents,      \* numbered in the order of their ids
          Card,        \* what the catalog says of an agent: see CardType
          Default,     \* the agent of each role family
          Markets,     \* rows of the agents when the run is created: see RowType
          AskedLimits, \* attempts per node that requests ask for
          MinReputation,
          MaxChanges,  \* bound: changes of the market during the run
          MaxSetbacks  \* bound: attempts that do not succeed

Families == {"planning", "evidence", "synthesis"}
CardType ==
    [builtin : BOOLEAN, families : SUBSET Families, contract : BOOLEAN,
     strategies : SUBSET STRING, points : Nat] \* points: words in common, role, price
RowType == [active : BOOLEAN, supported : BOOLEAN, reputation : 0..10, verified : BOOLEAN]

VARIABLES
    market,   \* agents, agent_reputations and payment profiles
    limit,    \* max_node_attempts of the run's policy
    node,     \* research_run_nodes
    attempts, \* execution_attempts, in order
    trace,    \* verification_decisions, with the rows added beside each of them
    summary,  \* trace_summary in the run's meta
    run,      \* status of the run
    changes, setbacks

attemptVars == <<market, limit, node, attempts, trace, summary, run, changes, setbacks>>

-----------------------------------------------------------------------------
(* build_research_run_plan: a chain of nodes *)

Step(id, family, bound) == [id |-> id, family |-> family, bound |-> bound]
Plan ==
    <<Step("plan_query", "planning", {}),
      Step("gather_evidence", "evidence", {1}),
      Step("curate_sources", "evidence", {1, 2}),
      Step("draft_synthesis", "synthesis", {1, 3}),
      Step("critique_and_fact_check", "synthesis", {1, 3, 4}),
      Step("revise_final_answer", "synthesis", {1, 3, 4, 5})>>

-----------------------------------------------------------------------------
(* The catalog: rank_supported_agents_for_todo *)

\* list_supported_research_agents: built-in agents are listed whatever their rows say.
Listed(a) == (market[a].active /\ market[a].supported) \/ Card[a].builtin
ListedReputation(a) == IF market[a].active /\ market[a].supported THEN market[a].reputation ELSE 8

\* _agent_supports_research_run_contract
HasContract(a, step) ==
    \/ Card[a].builtin
    \/ /\ Card[a].contract
       /\ IF Card[a].strategies = {} THEN step.family \in Card[a].families
          ELSE Card[a].strategies \cap {"*", step.id, step.family} # {}

\* _agent_supports_role_family
Fits(a, step) == Listed(a) /\ HasContract(a, step) /\ step.family \in Card[a].families

\* _agent_role_match_score, and the bonus of the preferred agent
MatchScore(a, preferred) == Card[a].points + 2 * ListedReputation(a) + (IF a = preferred THEN 6 ELSE 0)
MatchScores(preferred) == [a \in Agents |-> MatchScore(a, preferred)]

\* Whom the ranking has, and the one it puts before the others: by score, then by id.
Ranked(step, excluded) == {a \in Agents \ excluded : Fits(a, step)}
Foremost(some, score) == {a \in some : \A b \in some \ {a} : score[a] > score[b] \/ (score[a] = score[b] /\ a > b)}
First(some, score) == CHOOSE a \in Foremost(some, score) : TRUE

\* select_supported_agent_for_todo
Best(step) ==
    IF Ranked(step, {}) = {} THEN {Default[step.family]} ELSE Foremost(Ranked(step, {}), MatchScores(0))

\* negotiator_agent: the first candidate that is supported, reputable and verified, if any.
Selected(step, preferred, excluded) ==
    LET ranked == Ranked(step, excluded)
        candidates == IF ranked = {} THEN Best(step) ELSE ranked IN
    Foremost({a \in candidates : market[a].supported /\ market[a].reputation >= MinReputation /\ market[a].verified},
             MatchScores(preferred))

-----------------------------------------------------------------------------
(* Creation: create_research_run, _build_run_policy *)

\* The candidates keep the scores, and so the order, that they had when the run was created.
NewNode(step) ==
    LET preferred == Default[step.family]
        candidates == [a \in Ranked(step, {}) |-> MatchScore(a, preferred)] IN
    [candidates |-> candidates, status |-> "pending", result |-> FALSE,
     assigned |-> IF DOMAIN candidates = {} THEN preferred
                  ELSE First(DOMAIN candidates, candidates)]

AttemptsInit ==
    /\ market \in Markets
    /\ \E asked \in AskedLimits : limit = Max({1, Min({asked, 5})})
    /\ node = [i \in DOMAIN Plan |-> NewNode(Plan[i])]
    /\ attempts = << >> /\ trace = << >>
    /\ summary = [decisions |-> 0, unresolved |-> 0, handoffs |-> 0]
    /\ run = "running"
    /\ changes = 0 /\ setbacks = 0

\* reroute_on_failure
Reroutes == limit > 1

-----------------------------------------------------------------------------
(* One attempt *)

Current == attempts[Len(attempts)]
Tries(i) == {k \in DOMAIN attempts : attempts[k].node = i}

\* Mutant: earlier agents are not excluded.
EarlierNone(i) == {}

\* The agents of the node's earlier attempts, while it has one that is running
Earlier(i) == {attempts[k].agent : k \in Tries(i) \ {Len(attempts)}}

Settled(n, status, result) == [candidates |-> n.candidates, status |-> status, result |-> result, assigned |-> n.assigned]

\* _load_plan_for_run: the chain is rebuilt from the rows, in their order, and the graph
\* runs its nodes that have no result yet.
Remaining == {i \in DOMAIN Plan : node[i].status # "completed"}

\* execute_node: settled nodes are passed, and one that is cancelled ends the run;
\* _create_attempt; _resolve_execution_parameters reads what earlier nodes left.
Begin ==
    LET i == Min(Remaining) IN
    /\ run = "running" /\ Remaining # {}
    /\ node[i].status = "pending"
    /\ node' = [node EXCEPT ![i] = Settled(@, "running", @.result)]
    /\ attempts' = Append(attempts, [node |-> i, number |-> Cardinality(Tries(i)) + 1, agent |-> node[i].assigned,
                                     asked |-> 0, status |-> "running",
                                     inputs |-> {j \in Plan[i].bound : node[j].result}])
    /\ UNCHANGED <<market, limit, trace, summary, run, changes, setbacks>>

\* _count_unresolved_dissent_nodes: the latest decision of each node counts.
Unresolved(rows) ==
    Cardinality({i \in {rows[k].node : k \in DOMAIN rows} :
        ~rows[Max({k \in DOMAIN rows : rows[k].node = i})].approved})

DecisionOf(success, cancelled, retry) ==
    IF cancelled THEN "cancelled" ELSE IF retry THEN "retry_requested" ELSE IF success THEN "approved" ELSE "rejected"

\* _build_swarm_handoff_entries: to the agent, and from it to the next stage; 0 stands
\* for the orchestrator.
Handoffs(i, agent) == <<[from |-> 0, to |-> agent], [from |-> agent, to |-> IF i = Len(Plan) THEN 0 ELSE agent]>>

\* _update_trace_summary
TraceSummary(rows) ==
    [decisions |-> Len(rows), unresolved |-> Unresolved(rows),
     handoffs |-> Cardinality(UNION {{k} \X DOMAIN rows[k].handoffs : k \in DOMAIN rows})]

\* _persist_attempt_trace_bundle: a decision, the evaluations of the selection and of the
\* gate, two handoffs.  The session does not flush before it counts, so the summary
\* tells what was there before.
Traced(success, cancelled, retry, agent) ==
    /\ trace' = Append(trace,
         [node |-> Current.node, number |-> Current.number, agent |-> agent,
          decision |-> DecisionOf(success, cancelled, retry),
          approved |-> success /\ ~cancelled /\ ~retry,
          gate |-> IF success /\ ~cancelled /\ ~retry THEN "passed" ELSE IF retry THEN "retry" ELSE "failed",
          handoffs |-> Handoffs(Current.node, agent)])
    /\ summary' = TraceSummary(trace)

Ended(status, asked, agent) ==
    attempts' = [attempts EXCEPT ![Len(attempts)] =
                   [node |-> @.node, number |-> @.number, agent |-> agent, asked |-> asked, status |-> status,
                    inputs |-> @.inputs]]

\* The microtask of the running attempt asks the agent that is selected now.
Running == run = "running" /\ attempts # << >> /\ Current.status = "running"
Asked == Selected(Plan[Current.node], node[Current.node].assigned, Earlier(Current.node))

\* _finalize_attempt of an approved result.
Succeed ==
    LET i == Current.node IN
    /\ Running
    /\ \E a \in Asked : Ended("completed", a, a) /\ Traced(TRUE, FALSE, FALSE, a)
    /\ node' = [node EXCEPT ![i] = Settled(@, "completed", TRUE)]
    /\ run' = IF i = Len(Plan) THEN "completed" ELSE run
    /\ UNCHANGED <<market, limit, changes, setbacks>>

\* What a cancelled microtask has done: nothing yet, or the agent it asked answered or failed.
Cancellations ==
    {[asked |-> 0, agent |-> node[Current.node].assigned, success |-> FALSE]}
    \cup {[asked |-> a, agent |-> a, success |-> s] : a \in Asked, s \in BOOLEAN}

\* _finalize_attempt of a result whose task was cancelled meanwhile: after a success the
\* graph goes on, to the gate of the next node, or to its end.
Cancelled ==
    LET i == Current.node IN
    /\ Running /\ setbacks < MaxSetbacks
    /\ setbacks' = setbacks + 1
    /\ \E c \in Cancellations :
         /\ Ended("cancelled", c.asked, c.agent)
         /\ Traced(c.success, TRUE, FALSE, c.agent)
         /\ node' = [j \in DOMAIN Plan |-> IF j = i THEN Settled(node[j], "cancelled", c.success)
                                           ELSE IF j > i THEN Settled(node[j], "cancelled", node[j].result) ELSE node[j]]
         /\ run' = IF c.success /\ i = Len(Plan) THEN "completed" ELSE "cancelled"
    /\ UNCHANGED <<market, limit, changes>>

\* _prepare_retry_candidate: the first candidate whom no attempt has named.
Rerouted(i, used) ==
    LET fresh == DOMAIN node[i].candidates \ used IN
    IF Reroutes /\ fresh # {} THEN First(fresh, node[i].candidates) ELSE node[i].assigned

\* How an attempt fails: before an agent was asked, or with the agent's result refused,
\* or because the write of a result failed, which forgets whom the microtask had asked.
Failures ==
    LET assigned == node[Current.node].assigned IN
    {[asked |-> 0, agent |-> assigned]}
    \cup UNION {{[asked |-> a, agent |-> b] : b \in {a, assigned}} : a \in Asked}

\* _record_attempt_failure, and then a retry, or the end of the run.
Fail ==
    LET i == Current.node IN
    /\ Running /\ setbacks < MaxSetbacks
    /\ setbacks' = setbacks + 1
    /\ \E f \in Failures, retry \in BOOLEAN :
         /\ retry => f.asked # 0 /\ f.agent = f.asked
         /\ Ended("failed", f.asked, f.agent)
         /\ Traced(FALSE, FALSE, retry, f.agent)
         /\ IF Cardinality(Tries(i)) < limit
            THEN /\ node' = [node EXCEPT ![i] = [candidates |-> @.candidates, status |-> "pending", result |-> FALSE,
                                                    assigned |-> Rerouted(i, Earlier(i) \cup {f.agent})]]
                 /\ UNCHANGED run
            ELSE /\ node' = [j \in DOMAIN Plan |->
                               IF j = i THEN Settled(node[j], "failed", node[j].result)
                               ELSE IF j > i THEN Settled(node[j], "blocked", node[j].result) ELSE node[j]]
                 /\ run' = "failed"
    /\ UNCHANGED <<market, limit, changes>>

\* Other parts of the system change an agent's row during the run.
Change ==
    /\ run = "running" /\ changes < MaxChanges
    /\ changes' = changes + 1
    /\ \E a \in Agents :
         market' \in {[market EXCEPT ![a].active = ~@], [market EXCEPT ![a].verified = ~@],
                      [market EXCEPT ![a].reputation = MinReputation - 1]}
    /\ UNCHANGED <<limit, node, attempts, trace, summary, run, setbacks>>

AttemptsNext == Begin \/ Succeed \/ Cancelled \/ Fail \/ Change

AttemptsSpec == AttemptsInit /\ [][AttemptsNext]_attemptVars

-----------------------------------------------------------------------------
(* Properties *)

\* Every attempt that ended has one decision, which approves it if and only if the
\* attempt is completed; a completed run in which nothing was cancelled leaves no node
\* in dissent.
AttemptsAreTraced ==
    /\ \A a \in Range(attempts) : a.status # "running" =>
         /\ Cardinality({k \in DOMAIN trace : trace[k].node = a.node /\ trace[k].number = a.number}) = 1
         /\ \A row \in Range(trace) : row.node = a.node /\ row.number = a.number =>
              (row.approved <=> a.status = "completed")
    /\ run = "completed" /\ (\A a \in Range(attempts) : a.status # "cancelled") => Unresolved(trace) = 0

\* A node asks an agent again only after its attempts have named every agent that may
\* work on it, whatever was selected, passed over or changed in between; unless the write of a result
\* failed, which forgets whom the attempt asked.
NobodyAskedAgain ==
    \A k, m \in DOMAIN attempts :
        /\ k < m /\ attempts[k].node = attempts[m].node
        /\ attempts[k].asked = attempts[m].asked /\ attempts[k].asked # 0 /\ attempts[k].agent = attempts[k].asked
        => LET i == attempts[m].node IN
           {a \in Agents : (Card[a].builtin \/ changes = 0) /\ Fits(a, Plan[i])}
               \subseteq {attempts[j].agent : j \in {h \in 1..m - 1 : attempts[h].node = i}}

\* No node works without the results of the nodes it is bound to, although a retry
\* takes a node's result back.
InputsAreThere == \A a \in Range(attempts) : a.inputs = Plan[a.node].bound
=============================================================================
