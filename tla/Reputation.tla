------------------------------- MODULE Reputation -------------------------------
(***************************************************************************)
(* The reputation row of one agent: created with the agent, by the registry   *)
(* sync or by the first grade; moved by the agent's own executions and by the *)
(* verifier's grades, on the event loop; and overwritten by the sync, on a    *)
(* thread of its own.                                                          *)
(***************************************************************************)
EXTENDS Integers, Sequences

CONSTANTS Loop, Thread,    \* the two sessions
          Good, Bad,       \* grades of successes and of failures, in hundredths
          RegistryScores,  \* what a snapshot of the registry may say, in ten-thousandths
          MaxTasks,        \* bound: executions and grades
          MaxSyncs,        \* bound: syncs
          MaxFaults        \* bound: commits that fail

VARIABLES
    known,    \* its row in agents: none, a local one, or one with the number the sync saw
    rows,     \* its rows in agent_reputations: no constraint makes them one
    session,  \* [Loop, Thread -> what each is doing]
    vote,     \* the vote of this wallet in the ReputationRegistry
    history,  \* what the committed updates recorded
    tasks, syncs, faults

reputationVars == <<known, rows, session, vote, history, tasks, syncs, faults>>

\* A row; quality is average_quality_score times total_tasks. The list of recent tasks in
\* the meta column, which nothing reads, is left out.
NewRow(score) == [total |-> 0, ok |-> 0, bad |-> 0, quality |-> 0, score |-> score, multiplier |-> 10]
\* A session, with the row it works on and the score it read there.
Resting == [pc |-> "idle", at |-> 0, row |-> NewRow(5000), read |-> 5000, known |-> FALSE]
Updating(pc, at, row, read) == [pc |-> pc, at |-> at, row |-> row, read |-> read, known |-> FALSE]

ReputationInit ==
    /\ known = "none" /\ rows = << >> /\ vote = "none"
    /\ session = [s \in {Loop, Thread} |-> Resting]
    /\ history = [ok |-> 0, bad |-> 0]
    /\ tasks = 0 /\ syncs = 0 /\ faults = 0

-----------------------------------------------------------------------------
(* Scores *)

\* _calculate_payment_multiplier, in tenths; the agents' own tiers are the same.
Multiplier(score) == IF score >= 8000 THEN 12 ELSE IF score >= 6000 THEN 10 ELSE IF score >= 4000 THEN 9 ELSE 8

\* The counters, and the running average
Counted(row, success, grade) ==
    [total |-> row.total + 1, quality |-> row.quality + grade,
     ok |-> IF success THEN row.ok + 1 ELSE row.ok, bad |-> IF success THEN row.bad ELSE row.bad + 1,
     score |-> row.score, multiplier |-> row.multiplier]

\* _calculate_reputation_score: 0.7 quality and 0.3 success rate, rounded to four places.
VerifierScore(row) == (2 * (70 * row.quality + 3000 * row.ok) + row.total) \div (2 * row.total)

\* _update_reputation: 0.6 success rate and 0.4 quality.
AgentScore(row) == (6000 * row.ok + 40 * row.quality) \div row.total

Graded(row, success, grade) ==
    LET counted == Counted(row, success, grade)  score == VerifierScore(counted) IN
    [counted EXCEPT !.score = score, !.multiplier = Multiplier(score)]
Executed(row, success, grade) ==
    LET counted == Counted(row, success, grade)  score == AgentScore(counted) IN
    [counted EXCEPT !.score = score, !.multiplier = Multiplier(score)]

-----------------------------------------------------------------------------
(* The event loop: from a query to its commit nothing else runs on it *)

AtRest(s) == session[s].pc = "idle"
Now(s, state) == session' = [session EXCEPT ![s] = state]

\* The ORM writes the columns that were changed.
Write(s) ==
    LET k == session[s].at  new == session[s].row IN
    IF k = 0 THEN Append(rows, new)
    ELSE [rows EXCEPT ![k] = [new EXCEPT !.score = IF @ = session[s].read THEN rows[k].score ELSE @]]
Record(success) == history' = IF success THEN [history EXCEPT !.ok = @ + 1] ELSE [history EXCEPT !.bad = @ + 1]

\* _register_in_database; a row of the agent, of whoever created it, ends the matter.
Register ==
    /\ AtRest(Loop) /\ known = "none"
    /\ Now(Loop, [Resting EXCEPT !.pc = "register"])
    /\ UNCHANGED <<known, rows, vote, history, tasks, syncs, faults>>

Registered ==
    /\ session[Loop].pc = "register"
    /\ known' = IF known = "none" THEN "local" ELSE known
    /\ rows' = IF known # "none" THEN rows ELSE Append(rows, NewRow(5000))
    /\ Now(Loop, Resting)
    /\ UNCHANGED <<vote, history, tasks, syncs, faults>>

\* execute: the agent's run has succeeded or failed; first() takes any row.
Execute ==
    /\ AtRest(Loop) /\ tasks < MaxTasks /\ rows # << >>
    /\ tasks' = tasks + 1
    /\ \E success \in BOOLEAN, k \in DOMAIN rows :
         LET grade == IF success THEN 80 ELSE 0 IN
         Now(Loop, Updating(IF success THEN "executed" ELSE "failed", k, Executed(rows[k], success, grade),
                            rows[k].score))
    /\ UNCHANGED <<known, rows, vote, history, syncs, faults>>

\* The update commits; if it cannot, the success is recorded as a failure instead, and
\* a failure not at all.
ExecutedCommit ==
    /\ session[Loop].pc \in {"executed", "failed"}
    /\ \/ rows' = Write(Loop) /\ Record(session[Loop].pc = "executed") /\ Now(Loop, Resting) /\ UNCHANGED faults
       \/ /\ faults < MaxFaults /\ faults' = faults + 1 /\ UNCHANGED <<rows, history>>
          /\ IF session[Loop].pc = "executed"
             THEN \E k \in DOMAIN rows :
                    Now(Loop, Updating("failed", k, Executed(rows[k], FALSE, 0), rows[k].score))
             ELSE Now(Loop, Resting)
    /\ UNCHANGED <<known, vote, tasks, syncs>>

\* _get_or_create_reputation: any row, or a new one.
Rows == {[at |-> k, row |-> rows[k]] : k \in DOMAIN rows}
FirstOrNew == IF rows = << >> THEN {[at |-> 0, row |-> NewRow(5000)]} ELSE Rows

\* increase_agent_reputation and decrease_agent_reputation, up to the first commit
Increase ==
    /\ AtRest(Loop) /\ tasks < MaxTasks /\ tasks' = tasks + 1
    /\ \E grade \in Good, first \in FirstOrNew :
         Now(Loop, Updating("increase", first.at, Graded(first.row, TRUE, grade), first.row.score))
    /\ UNCHANGED <<known, rows, vote, history, syncs, faults>>

Decrease ==
    /\ AtRest(Loop) /\ tasks < MaxTasks /\ tasks' = tasks + 1
    /\ \E grade \in Bad, first \in FirstOrNew :
         Now(Loop, Updating("decrease", first.at, Graded(first.row, FALSE, grade), first.row.score))
    /\ UNCHANGED <<known, rows, vote, history, syncs, faults>>

\* The first commit; a failure is reported and nothing is recorded.
GradeCommit ==
    /\ session[Loop].pc \in {"increase", "decrease"}
    /\ \/ /\ rows' = Write(Loop) /\ Record(session[Loop].pc = "increase") /\ UNCHANGED faults
          /\ Now(Loop, [Resting EXCEPT !.pc = IF session[Loop].pc = "increase" THEN "up" ELSE "down"])
       \/ faults < MaxFaults /\ faults' = faults + 1 /\ Now(Loop, Resting) /\ UNCHANGED <<rows, history>>
    /\ UNCHANGED <<known, vote, tasks, syncs>>

\* _get_blockchain_agent_id: the number in the agent's row, or what the registry says of
\* its domain, which may be nothing.
Numbers == IF known = "synced" THEN {1} ELSE {0, 1}

\* The vote on chain for a success, which may fail and which the registry takes once
\* from a wallet ...
VoteUp ==
    /\ session[Loop].pc = "up"
    /\ \E number \in Numbers : vote' \in IF number # 0 /\ vote = "none" THEN {vote, "up"} ELSE {vote}
    /\ Now(Loop, Resting)
    /\ UNCHANGED <<known, rows, history, tasks, syncs, faults>>

\* ... and against it for a failure.
VoteDown ==
    /\ session[Loop].pc = "down"
    /\ \E number \in Numbers : vote' \in IF number # 0 /\ vote = "none" THEN {vote, "down"} ELSE {vote}
    /\ Now(Loop, Resting)
    /\ UNCHANGED <<known, rows, history, tasks, syncs, faults>>

-----------------------------------------------------------------------------
(* The sync thread: _upsert_reputation *)

\* Mutant: the row that was read is written back whole.
SyncedWhole(current, read, score) == [read EXCEPT !.score = score]

\* Only the score is written, and only if it is another one than was read.
Synced(current, read, score) == [current EXCEPT !.score = IF score = read.score THEN @ ELSE score]

\* The sync reads both tables; two rows of one agent are an error.
Sync ==
    /\ AtRest(Thread) /\ syncs < MaxSyncs /\ syncs' = syncs + 1
    /\ Len(rows) <= 1
    /\ Now(Thread, [pc |-> "sync", at |-> Len(rows), row |-> IF rows = << >> THEN NewRow(5000) ELSE rows[1],
                    read |-> 5000, known |-> known # "none"])
    /\ UNCHANGED <<known, rows, vote, history, tasks, faults>>

\* Its commit fails if the agent was registered meanwhile.
SyncCommit ==
    LET t == session[Thread] IN
    /\ t.pc = "sync"
    /\ Now(Thread, Resting)
    /\ IF ~t.known /\ known # "none" THEN UNCHANGED <<known, rows>>
       ELSE /\ known' = "synced"
            /\ \E score \in RegistryScores :
                 rows' = IF t.at = 0 THEN Append(rows, NewRow(score))
                         ELSE [rows EXCEPT ![t.at] = Synced(@, t.row, score)]
    /\ UNCHANGED <<vote, history, tasks, syncs, faults>>

ReputationNext ==
    \/ Register \/ Registered \/ Execute \/ ExecutedCommit
    \/ Increase \/ Decrease \/ GradeCommit \/ VoteUp \/ VoteDown \/ Sync \/ SyncCommit

ReputationSpec == ReputationInit /\ [][ReputationNext]_reputationVars

-----------------------------------------------------------------------------
(* Properties *)

\* What is between 0 and 1, in ten-thousandths
Fractions == 0..10000

\* A row whose counts agree, and whose score and bonus they explain
Fair(row) ==
    /\ row.total = row.ok + row.bad
    /\ row.score \in Fractions
    /\ row.multiplier = 12 => 2 * row.ok > row.total

\* What the k-th row counts, if there is one
OkIn(k) == IF k \in DOMAIN rows THEN rows[k].ok ELSE 0
BadIn(k) == IF k \in DOMAIN rows THEN rows[k].bad ELSE 0

\* The rows, two at the most, count every recorded outcome once, although commits fail and
\* the sync overwrites a row that changes meanwhile; scores stay between 0 and 1; the bonus
\* is paid only to an agent most of whose tasks succeeded; and a vote on chain has a recorded
\* task of its kind.  The majority needs failures graded 0.85 at the most: the code takes
\* any failure grade up to 1, and one success and one failure graded 1 earn the bonus.
ReputationIsEarned ==
    /\ Len(rows) <= 2
    /\ history.ok = OkIn(1) + OkIn(2) /\ history.bad = BadIn(1) + BadIn(2)
    /\ \A k \in DOMAIN rows : Fair(rows[k])
    /\ (vote = "up" => history.ok > 0) /\ (vote = "down" => history.bad > 0)
=============================================================================
