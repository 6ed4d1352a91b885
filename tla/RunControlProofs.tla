---------------------------- MODULE RunControlProofs ----------------------------
(***************************************************************************)
(* Proofs about ResearchRunControl, for every length of the plan, every     *)
(* attempt budget and any number of requests and restarts.                  *)
(***************************************************************************)
EXTENDS ResearchRunControl, SequenceTheorems, TLAPS

\* TypeOK in three parts: the rows and the job, the counters, the attempts.
RowTypes ==
    /\ status \in {"pending", "running", "paused"} \cup Terminal /\ ended \in BOOLEAN
    /\ control \in {"active"} \cup Pausing \cup Cancelling
    /\ node \in [Nodes -> {"pending", "running", "completed", "failed", "blocked", "cancelled"}]
    /\ job \in {"none", "scheduled", "held", "graph", "node_held", "cancelling", "failing"} \cup Busy
    /\ verdict \in {"none", "approved", "rejected"}

Counts ==
    /\ at \in Nat /\ at <= Length + 1
    /\ requests \in Nat /\ requests <= MaxRequests
    /\ starts \in Nat /\ 1 <= starts /\ starts <= MaxRequests + 1
    /\ crashes \in Nat /\ crashes <= MaxCrashes

Histories == [Nodes -> Seq(Attempt)]

\* Where the graph can be, by what the job is doing, and what the requests so far
\* can have started.
AtInv ==
    /\ job \in {"none", "scheduled", "held"} => at = 0
    /\ job = "graph" => at # 0
    /\ job \in Busy \cup {"node_held", "cancelling", "failing"} => at \in Nodes
    /\ starts <= requests + 1

\* Each start of the executor adds one attempt to what a node may have, and a node
\* that this executor has still to try has left that one unused.
Unused(n) ==
    \/ job \in {"scheduled", "held", "graph", "node_held"} /\ n >= at
    \/ job \in Busy /\ n > at

BudgetInv == \A n \in Nodes :
    /\ Len(attempts[n]) <= MaxAttempts + starts - 1
    /\ Unused(n) => Len(attempts[n]) < MaxAttempts + starts - 1

\* A microtask in flight has its rows: the run, the node and the newest attempt are
\* running, and no request has stopped the run behind it.  A review nobody has
\* decided is pending.
WorkInv ==
    /\ job \in Busy =>
         /\ status = "running" /\ node[at] = "running"
         /\ attempts[at] # <<>> /\ Last(at).status = "running"
         /\ control \notin {"paused", "cancelled"}
    /\ job = "waiting" /\ Last(at).decision = "none" => Last(at).pending

\* Without a restart, only the newest attempt of the node at hand is running or
\* under review, but for an attempt whose settlement raised.
OrphanInv ==
    crashes = 0 =>
        \A n \in Nodes : \A i \in 1..Len(attempts[n]) :
            /\ attempts[n][i].status = "running" =>
                 job \in Busy /\ n = at /\ i = Len(attempts[n])
            /\ attempts[n][i].pending =>
                 \/ job \in {"waiting", "settling"} /\ n = at /\ i = Len(attempts[n])
                 \/ attempts[n][i].status = "failed"

IInv == /\ RowTypes /\ Counts /\ attempts \in Histories
        /\ AtInv /\ BudgetInv /\ WorkInv /\ OrphanInv

\* The order of the nodes, whatever the policy.  The graph has passed only nodes that
\* completed or were overridden; an approved task is out of every reviewer's reach, so an
\* override lasts; and what the executor read as an approval is one.
Settled(k) == node[k] = "completed" \/ Overridden(k)
Passed(n) == \A k \in 1..(n - 1) : Settled(k)
Shut(a) == ~a.pending /\ a.cached = "shut"
Decided(a) == (a.decision = "approved" => Shut(a)) /\ (a.pending => a.decision = "none")

OrderInv ==
    /\ job \in {"graph", "node_held"} \cup Busy => Passed(at)
    /\ \A n \in Nodes : \A i \in 1..Len(attempts[n]) : Decided(attempts[n][i])
    /\ job = "working" => Last(at).decision = "none" /\ Shut(Last(at))
    /\ job = "settling" /\ verdict = "approved" => Last(at).decision = "approved"

\* The chain: where no attempt goes to review, a node has been tried only when all
\* nodes before it completed, and what stopped the run is on its node.
Before(n) == \A k \in 1..(n - 1) : node[k] = "completed"

TriedInOrder ==
    /\ \A n \in Nodes : node[n] \in {"running", "completed", "failed"} => Before(n)
    /\ \A n \in Nodes : node[n] = "cancelled" /\ control # "cancelled" => Before(n)

\* What the job knows of its node.
JobInv ==
    /\ job \notin {"waiting", "settling"}
    /\ job \in {"graph", "node_held"} => Before(at)
    /\ job = "node_held" => node[at] # "completed"
    /\ job = "failing" => node[at] = "failed" /\ status \notin {"completed", "failed"}
    /\ control = "cancelled" => status \in Terminal

ChainInv == TriedInOrder /\ JobInv /\ CompletedIsWhole /\ FailedIsExplained

-----------------------------------------------------------------------------
(* The parts of the type invariant.                                           *)

LEMMA Bounds == /\ Length \in Nat \ {0} /\ MaxAttempts \in Nat \ {0} /\ MaxRequests \in Nat
                /\ MaxCrashes \in Nat /\ 1 \in Nodes
  BY RunAssumption DEF Nodes

LEMMA TypeParts == TypeOK <=> RowTypes /\ Counts /\ attempts \in Histories
<1>1. Length + 1 \in Nat /\ MaxRequests + 1 \in Nat /\ MaxRequests \in Nat /\ MaxCrashes \in Nat
  BY Bounds
<1>2. at \in 0..(Length + 1) <=> at \in Nat /\ at <= Length + 1
  BY <1>1
<1>3. requests \in 0..MaxRequests <=> requests \in Nat /\ requests <= MaxRequests
  BY <1>1
<1>4. starts \in 1..(MaxRequests + 1) <=> starts \in Nat /\ 1 <= starts /\ starts <= MaxRequests + 1
  BY <1>1
<1>5. crashes \in 0..MaxCrashes <=> crashes \in Nat /\ crashes <= MaxCrashes
  BY <1>1
<1> QED BY <1>2, <1>3, <1>4, <1>5, Zenon DEF TypeOK, RowTypes, Counts, Histories

-----------------------------------------------------------------------------
(* What the actions do to the attempts, stated of any such function.          *)

\* The newest attempt of n becomes a; a new attempt goes behind the others of n;
\* attempt i of n becomes a.
Stored(A, n, a) == [A EXCEPT ![n][Len(A[n])] = a]
Added(A, n, a) == [A EXCEPT ![n] = Append(A[n], a)]
Changed(A, n, i, a) == [A EXCEPT ![n][i] = a]

\* A node that has attempts has a newest one.
LEMMA NewestAttempt ==
    ASSUME NEW A \in Histories, NEW n \in Nodes, A[n] # <<>>
    PROVE  Len(A[n]) \in Nat \ {0} /\ Len(A[n]) \in 1..Len(A[n]) /\ A[n][Len(A[n])] \in Attempt
<1>1. A[n] \in Seq(Attempt)
  BY DEF Histories
<1>2. Len(A[n]) \in Nat \ {0}
  BY <1>1, EmptySeq
<1>3. Len(A[n]) \in 1..Len(A[n])
  BY <1>2
<1> QED BY <1>1, <1>2, <1>3, ElementOfSeq

LEMMA AttemptTypes ==
    ASSUME NEW A \in Histories, NEW n \in Nodes
    PROVE  /\ A[n] \in Seq(Attempt) /\ Len(A[n]) \in Nat /\ DOMAIN A[n] = 1..Len(A[n])
           /\ A[n] # <<>> <=> Len(A[n]) > 0
           /\ \A i \in 1..Len(A[n]) : A[n][i] \in Attempt
<1>1. A[n] \in Seq(Attempt)
  BY DEF Histories
<1>2. Len(A[n]) \in Nat /\ DOMAIN A[n] = 1..Len(A[n])
  BY <1>1, LenProperties
<1>3. A[n] # <<>> <=> Len(A[n]) > 0
  BY <1>1, <1>2, EmptySeq
<1> QED BY <1>1, <1>2, <1>3, ElementOfSeq

\* Storing an outcome in the newest attempt of n changes nothing else.
LEMMA LastReplaced ==
    ASSUME NEW A \in Histories, NEW n \in Nodes, A[n] # <<>>, NEW a \in Attempt,
           NEW B, B = Stored(A, n, a)
    PROVE  /\ B \in Histories
           /\ \A m \in Nodes : Len(B[m]) = Len(A[m])
           /\ B[n][Len(A[n])] = a
           /\ \A m \in Nodes : \A i \in 1..Len(A[m]) :
                m # n \/ i # Len(A[n]) => B[m][i] = A[m][i]
<1> DEFINE s == [A[n] EXCEPT ![Len(A[n])] = a]
<1>1. A[n] \in Seq(Attempt) /\ Len(A[n]) \in 1..Len(A[n])
  BY AttemptTypes, NewestAttempt
<1>2. s \in Seq(Attempt) /\ Len(s) = Len(A[n])
      /\ \A j \in 1..Len(A[n]) : s[j] = IF j = Len(A[n]) THEN a ELSE A[n][j]
  BY <1>1, ExceptSeq
<1>3. B = [A EXCEPT ![n] = s]
  BY DEF Stored
<1> HIDE DEF s
<1>4. B \in Histories /\ B[n] = s /\ \A m \in Nodes : m # n => B[m] = A[m]
  BY <1>2, <1>3 DEF Histories
<1> QED BY <1>1, <1>2, <1>4

\* A new attempt goes behind the others of its node.
LEMMA AttemptAdded ==
    ASSUME NEW A \in Histories, NEW n \in Nodes, NEW a \in Attempt,
           NEW B, B = Added(A, n, a)
    PROVE  /\ B \in Histories
           /\ Len(B[n]) = Len(A[n]) + 1 /\ B[n][Len(A[n]) + 1] = a
           /\ \A m \in Nodes : m # n => B[m] = A[m]
           /\ \A i \in 1..Len(A[n]) : B[n][i] = A[n][i]
<1> DEFINE s == Append(A[n], a)
<1>1. A[n] \in Seq(Attempt)
  BY AttemptTypes
<1>2. s \in Seq(Attempt) /\ Len(s) = Len(A[n]) + 1 /\ s[Len(A[n]) + 1] = a
      /\ \A i \in 1..Len(A[n]) : s[i] = A[n][i]
  BY <1>1, AppendProperties
<1>3. B = [A EXCEPT ![n] = s]
  BY DEF Added
<1> HIDE DEF s
<1>4. B \in Histories /\ B[n] = s /\ \A m \in Nodes : m # n => B[m] = A[m]
  BY <1>2, <1>3 DEF Histories
<1> QED BY <1>2, <1>4

\* A request or a restart may settle a review, and leaves the number and the
\* statuses of the attempts as they are.
Reviewed(A, B) ==
    /\ B \in Histories
    /\ \A n \in Nodes : Len(B[n]) = Len(A[n])
    /\ \A n \in Nodes : \A i \in 1..Len(A[n]) :
         /\ B[n][i].status = A[n][i].status
         /\ B[n][i].pending => A[n][i].pending
         /\ B[n][i].decision # "none"
            \/ (B[n][i].decision = A[n][i].decision /\ B[n][i].pending = A[n][i].pending)

LEMMA NotReviewed == \A A \in Histories : Reviewed(A, A)
  BY DEF Reviewed

\* Whatever attempt it names, existing or not.
LEMMA AttemptReviewed ==
    ASSUME NEW A \in Histories, NEW n, NEW i, NEW B,
           NEW a, B = Changed(A, n, i, a),
           n \in Nodes /\ i \in 1..Len(A[n]) =>
             /\ a \in Attempt /\ a.status = A[n][i].status
             /\ a.pending => A[n][i].pending
             /\ a.decision # "none" \/ (a.decision = A[n][i].decision /\ a.pending = A[n][i].pending)
    PROVE  Reviewed(A, B)
<1>1. CASE n \notin Nodes
  <2>1. B = A
    BY <1>1 DEF Histories, Changed
  <2> QED BY <2>1, NotReviewed
<1>2. CASE n \in Nodes /\ i \notin 1..Len(A[n])
  <2> DEFINE s == [A[n] EXCEPT ![i] = a]
  <2>1. A[n] \in Seq(Attempt) /\ A[n] \in [1..Len(A[n]) -> Attempt]
    BY <1>2, AttemptTypes, LenProperties
  <2>2. s = A[n]
    BY <1>2, <2>1
  <2>3. B = [A EXCEPT ![n] = s]
    BY <1>2 DEF Changed
  <2> HIDE DEF s
  <2>4. B = A
    BY <1>2, <2>2, <2>3 DEF Histories
  <2> QED BY <2>4, NotReviewed
<1>3. CASE n \in Nodes /\ i \in 1..Len(A[n])
  <2> DEFINE s == [A[n] EXCEPT ![i] = a]
  <2>1. A[n] \in Seq(Attempt)
    BY <1>3, AttemptTypes
  <2>2. s \in Seq(Attempt) /\ Len(s) = Len(A[n])
        /\ \A j \in 1..Len(A[n]) : s[j] = IF j = i THEN a ELSE A[n][j]
    BY <1>3, <2>1, ExceptSeq
  <2>3. B = [A EXCEPT ![n] = s]
    BY <1>3 DEF Changed
  <2> HIDE DEF s
  <2>4. B \in Histories /\ B[n] = s /\ \A m \in Nodes : m # n => B[m] = A[m]
    BY <1>3, <2>2, <2>3 DEF Histories
  <2>5. \A m \in Nodes : Len(B[m]) = Len(A[m])
    BY <2>2, <2>4
  <2> QED BY <1>3, <2>2, <2>4, <2>5 DEF Reviewed
<1> QED BY <1>1, <1>2, <1>3

-----------------------------------------------------------------------------
(* The invariant holds initially and each step preserves it.                  *)

LEMMA InitIInv == Init => IInv
<1> SUFFICES ASSUME Init PROVE IInv
  OBVIOUS
<1>1. \A n \in Nodes : attempts[n] = <<>> /\ Len(attempts[n]) = 0
  BY EmptySeq DEF Init
<1>2. attempts \in Histories
  BY EmptySeq DEF Init, Histories
<1>3. RowTypes
  BY DEF Init, RowTypes
<1>4. Counts /\ AtInv
  BY Bounds DEF Init, Counts, AtInv, Busy
<1>5. BudgetInv
  BY <1>1, Bounds DEF Init, BudgetInv
<1>6. WorkInv /\ OrphanInv
  BY <1>1 DEF Init, WorkInv, OrphanInv, Busy
<1> QED BY <1>2, <1>3, <1>4, <1>5, <1>6 DEF IInv

\* A step that leaves the attempts and is in no microtask, before or after.
LEMMA QuietStep ==
    ASSUME IInv, UNCHANGED attempts, job \notin Busy, job' \notin Busy,
           RowTypes', Counts', AtInv', crashes' = crashes,
           starts' >= starts, \A n \in Nodes : Unused(n)' => Unused(n) \/ starts' > starts
    PROVE  IInv'
<1>1. BudgetInv'
  <2> SUFFICES ASSUME NEW n \in Nodes
               PROVE  /\ Len(attempts[n]) <= MaxAttempts + starts' - 1
                      /\ Unused(n)' => Len(attempts[n]) < MaxAttempts + starts' - 1
    BY DEF BudgetInv
  <2>1. Len(attempts[n]) \in Nat
    BY AttemptTypes DEF IInv
  <2>2. starts \in Nat /\ starts' \in Nat /\ MaxAttempts \in Nat
    BY Bounds DEF IInv, Counts
  <2>3. /\ Len(attempts[n]) <= MaxAttempts + starts - 1
        /\ Unused(n) => Len(attempts[n]) < MaxAttempts + starts - 1
    BY DEF IInv, BudgetInv
  <2> QED BY <2>1, <2>2, <2>3
<1>2. WorkInv'
  BY DEF WorkInv, Busy
<1>3. OrphanInv'
  BY DEF IInv, OrphanInv, Busy
<1> QED BY <1>1, <1>2, <1>3 DEF IInv

LEMMA EnterRunStep == IInv /\ EnterRun => IInv'
<1> SUFFICES ASSUME IInv, EnterRun PROVE IInv'
  OBVIOUS
<1>1. RowTypes'
  BY DEF IInv, RowTypes, EnterRun, MarkPaused, MarkCancelled, CancelledNodes, EndJob,
     Pausing, Cancelling, Terminal
<1>2. Counts'
  BY Bounds DEF IInv, Counts, EnterRun, EndJob, boundVars
<1>3. /\ UNCHANGED <<attempts, requests, crashes, starts>>
      /\ job \in {"scheduled", "held"} /\ at = 0
      /\ (job' = "graph" /\ at' = 1) \/ (job' \in {"held", "none"} /\ at' = 0)
  BY DEF IInv, AtInv, EnterRun, EndJob, boundVars
<1>4. AtInv' /\ job \notin Busy /\ job' \notin Busy /\ starts \in Nat
  BY <1>3 DEF IInv, Counts, AtInv, Busy
<1>5. \A n \in Nodes : Unused(n)' => Unused(n)
  BY <1>3, Bounds DEF Unused, Nodes, Busy
<1> QED BY <1>1, <1>2, <1>3, <1>4, <1>5, QuietStep

LEMMA PassNodeStep == IInv /\ PassNode => IInv'
<1> SUFFICES ASSUME IInv, PassNode PROVE IInv'
  OBVIOUS
<1>1. RowTypes'
  BY DEF IInv, RowTypes, PassNode, rowVars
<1>2. Counts' /\ at \in Nat /\ (at' = at \/ at' = at + 1)
  BY Bounds DEF IInv, Counts, PassNode, boundVars, Nodes
<1>3. /\ UNCHANGED <<attempts, requests, crashes, starts>> /\ job = "graph" /\ at \in Nodes
      /\ (job' = "graph" /\ at' = at + 1) \/ (job' = "cancelling" /\ at' = at)
  BY DEF PassNode, rowVars, boundVars
<1>4. AtInv' /\ job \notin Busy /\ job' \notin Busy /\ starts \in Nat
  BY <1>2, <1>3 DEF IInv, Counts, AtInv, Busy
<1>5. \A n \in Nodes : Unused(n)' => Unused(n)
  BY <1>2, <1>3, Bounds DEF Unused, Nodes, Busy
<1> QED BY <1>1, <1>2, <1>3, <1>4, <1>5, QuietStep DEF Busy

LEMMA EndStep == IInv /\ (Complete \/ StopCancelled \/ StopFailed) => IInv'
<1> SUFFICES ASSUME IInv, Complete \/ StopCancelled \/ StopFailed PROVE IInv'
  OBVIOUS
<1>1. RowTypes'
  BY DEF IInv, RowTypes, Complete, StopCancelled, StopFailed, MarkCancelled, CancelledNodes, BlockedNodes,
     EndJob, Cancelling, Terminal
<1>2. UNCHANGED <<attempts, requests, crashes, starts>> /\ job' = "none" /\ at' = 0
      /\ job \in {"graph", "cancelling", "failing"}
  BY DEF Complete, StopCancelled, StopFailed, EndJob, boundVars
<1>3. Counts' /\ starts \in Nat
  BY <1>2, Bounds DEF IInv, Counts
<1>4. AtInv' /\ job \notin Busy /\ job' \notin Busy
  BY <1>2 DEF IInv, AtInv, Busy
<1>5. \A n \in Nodes : ~Unused(n)'
  BY <1>2 DEF Unused, Busy
<1> QED BY <1>1, <1>2, <1>3, <1>4, <1>5, QuietStep

LEMMA EnterNodeStep == IInv /\ EnterNode => IInv'
<1> SUFFICES ASSUME IInv, EnterNode PROVE IInv'
  OBVIOUS
<1>1. at \in Nodes /\ job \in {"graph", "node_held"} /\ UNCHANGED <<ended, at, verdict, starts, requests, crashes>>
  BY DEF EnterNode, IInv, AtInv, boundVars
<1>2. CASE control = "active"
  <2>1. /\ attempts' = [attempts EXCEPT ![at] = Append(@, NewAttempt)]
        /\ node' = [node EXCEPT ![at] = "running"] /\ status' = "running" /\ job' = "working"
        /\ control' = "active"
    BY <1>2 DEF EnterNode, Pausing, Cancelling
  <2>2. NewAttempt \in Attempt /\ NewAttempt.status = "running" /\ ~NewAttempt.pending
    BY DEF NewAttempt, Attempt
  <2>3. attempts \in Histories
    BY DEF IInv
  <2>4. /\ attempts' \in Histories
        /\ Len(attempts'[at]) = Len(attempts[at]) + 1
        /\ attempts'[at][Len(attempts[at]) + 1] = NewAttempt
        /\ \A m \in Nodes : m # at => attempts'[m] = attempts[m]
        /\ \A i \in 1..Len(attempts[at]) : attempts'[at][i] = attempts[at][i]
    <3>1. attempts' = Added(attempts, at, NewAttempt)
      BY <2>1 DEF Added
    <3> QED BY <1>1, <2>2, <2>3, <3>1, AttemptAdded
  <2>5. \A m \in Nodes : Len(attempts[m]) \in Nat
    BY <2>3, AttemptTypes
  <2>6. RowTypes' /\ Counts'
    <3>1. RowTypes'
      BY <1>1, <2>1, Zenon DEF IInv, RowTypes, Busy
    <3>2. Counts'
      BY <1>1 DEF IInv, Counts
    <3> QED BY <3>1, <3>2
  <2>7. AtInv'
    BY <1>1, <2>1 DEF IInv, AtInv, Busy
  <2>8. BudgetInv'
    <3> SUFFICES ASSUME NEW n \in Nodes
                 PROVE  /\ Len(attempts'[n]) <= MaxAttempts + starts - 1
                        /\ n > at => Len(attempts'[n]) < MaxAttempts + starts - 1
      BY <1>1, <2>1 DEF BudgetInv, Unused, Busy
    <3>1. n >= at => Len(attempts[n]) < MaxAttempts + starts - 1
      BY <1>1 DEF IInv, BudgetInv, Unused
    <3>2. Len(attempts[n]) <= MaxAttempts + starts - 1 /\ starts \in Nat /\ MaxAttempts \in Nat
      BY Bounds DEF IInv, BudgetInv, Counts
    <3>3. CASE n = at
      BY <1>1, <2>4, <2>5, <3>1, <3>2, <3>3, Bounds DEF Nodes
    <3>4. CASE n # at
      BY <1>1, <2>4, <2>5, <3>1, <3>2, <3>4, Bounds DEF Nodes
    <3> QED BY <3>3, <3>4
  <2>9. WorkInv'
    <3>1. attempts'[at] # <<>>
      <4>1. Len(attempts'[at]) > 0
        BY <1>1, <2>4, <2>5
      <4> QED BY <1>1, <2>4, <4>1, AttemptTypes
    <3>2. node'[at] = "running"
      BY <1>1, <2>1 DEF IInv, RowTypes
    <3> QED BY <1>1, <2>1, <2>2, <2>4, <3>1, <3>2 DEF WorkInv, Last, Busy
  <2>10. OrphanInv'
    <3> SUFFICES ASSUME crashes = 0, NEW n \in Nodes, NEW i \in 1..Len(attempts'[n])
                 PROVE  /\ attempts'[n][i].status = "running" => n = at /\ i = Len(attempts'[n])
                        /\ attempts'[n][i].pending => attempts'[n][i].status = "failed"
      BY <1>1, <2>1 DEF OrphanInv, Busy
    <3>1. \A m \in Nodes : \A j \in 1..Len(attempts[m]) :
             /\ attempts[m][j].status # "running"
             /\ attempts[m][j].pending => attempts[m][j].status = "failed"
      BY <1>1 DEF IInv, OrphanInv, Busy
    <3>2. CASE n = at /\ i = Len(attempts[at]) + 1
      BY <2>2, <2>4, <3>2
    <3>3. CASE ~(n = at /\ i = Len(attempts[at]) + 1)
      <4>1. i \in 1..Len(attempts[n]) /\ attempts'[n][i] = attempts[n][i]
        BY <2>4, <2>5, <3>3
      <4> QED BY <3>1, <4>1
    <3> QED BY <3>2, <3>3
  <2> QED BY <2>4, <2>6, <2>7, <2>8, <2>9, <2>10 DEF IInv
<1>3. CASE control # "active"
  <2>1. RowTypes'
    BY <1>3 DEF EnterNode, IInv, RowTypes, MarkPaused, Pausing, Cancelling, Terminal, rowVars
  <2>2. AtInv' /\ job \notin Busy /\ job' \in {"node_held", "cancelling"} /\ UNCHANGED attempts
    BY <1>1, <1>3 DEF EnterNode, IInv, AtInv, Busy, rowVars
  <2>3. \A n \in Nodes : Unused(n)' => Unused(n)
    BY <1>1, <2>2 DEF Unused, Busy
  <2>4. Counts' /\ starts \in Nat /\ starts' >= starts
    BY <1>1 DEF IInv, Counts
  <2>5. job' \notin Busy
    BY <2>2 DEF Busy
  <2> QED BY <2>5, <1>1, <2>1, <2>2, <2>3, <2>4, QuietStep
<1> QED BY <1>2, <1>3

\* What the invariant says of a microtask in flight.
LEMMA InFlight ==
    ASSUME IInv, job \in Busy
    PROVE  /\ at \in Nodes /\ at \in Nat /\ attempts \in Histories
           /\ status = "running" /\ node[at] = "running" /\ control \notin {"paused", "cancelled"}
           /\ attempts[at] # <<>> /\ Len(attempts[at]) \in Nat \ {0}
           /\ Last(at) \in Attempt /\ Last(at).status = "running"
           /\ crashes = 0 => (Last(at).pending => job \in {"waiting", "settling"})
           /\ Unused(at) = FALSE
<1>1. /\ status = "running" /\ node[at] = "running" /\ control \notin {"paused", "cancelled"}
      /\ attempts[at] # <<>> /\ Last(at).status = "running"
  BY DEF IInv, WorkInv
<1>2. at \in Nodes /\ at \in Nat /\ attempts \in Histories
  BY DEF IInv, AtInv, Counts
<1>3. Len(attempts[at]) \in Nat \ {0} /\ Len(attempts[at]) \in 1..Len(attempts[at]) /\ Last(at) \in Attempt
  BY <1>1, <1>2, NewestAttempt DEF Last
<1>4. crashes = 0 => (Last(at).pending => job \in {"waiting", "settling"})
  BY <1>1, <1>2, <1>3 DEF IInv, OrphanInv, Last
<1>5. Unused(at) = FALSE
  BY <1>2 DEF Unused, Busy
<1> QED BY <1>1, <1>2, <1>3, <1>4, <1>5

\* A microtask ends with its outcome in the newest attempt, and the graph goes on to
\* the next node or stops.
LEMMA OutcomeStep ==
    ASSUME IInv, job \in Busy, NEW a \in Attempt, attempts' = Stored(attempts, at, a),
           a.status # "running", crashes = 0 => ~a.pending \/ a.status = "failed",
           (job' = "graph" /\ at' = at + 1) \/ (job' \in {"cancelling", "failing"} /\ at' = at),
           RowTypes', UNCHANGED <<starts, requests, crashes>>
    PROVE  IInv'
<1>1. at \in Nodes /\ attempts \in Histories /\ attempts[at] # <<>> /\ Len(attempts[at]) \in Nat \ {0}
  BY InFlight
<1>2. /\ attempts' \in Histories
      /\ \A m \in Nodes : Len(attempts'[m]) = Len(attempts[m])
      /\ attempts'[at][Len(attempts[at])] = a
      /\ \A m \in Nodes : \A i \in 1..Len(attempts[m]) :
           m # at \/ i # Len(attempts[at]) => attempts'[m][i] = attempts[m][i]
  BY <1>1, LastReplaced
<1>3. Counts' /\ starts \in Nat
  BY <1>1, Bounds DEF IInv, Counts, Nodes
<1>4. AtInv' /\ job' \notin Busy
  BY <1>1, Bounds DEF IInv, AtInv, Busy, Nodes
<1>5. BudgetInv'
  <2> SUFFICES ASSUME NEW n \in Nodes
               PROVE  /\ Len(attempts[n]) <= MaxAttempts + starts - 1
                      /\ Unused(n)' => Len(attempts[n]) < MaxAttempts + starts - 1
    BY <1>2 DEF BudgetInv
  <2>1. Unused(n)' => Unused(n)
    BY <1>1, <1>4, Bounds DEF Unused, Nodes, Busy
  <2> QED BY <2>1 DEF IInv, BudgetInv
<1>6. WorkInv'
  BY <1>4 DEF WorkInv, Busy
<1>7. OrphanInv'
  <2> SUFFICES ASSUME crashes = 0, NEW n \in Nodes, NEW i \in 1..Len(attempts[n])
               PROVE  /\ attempts'[n][i].status # "running"
                      /\ attempts'[n][i].pending => attempts'[n][i].status = "failed"
    BY <1>2 DEF OrphanInv
  <2>1. CASE n = at /\ i = Len(attempts[at])
    BY <1>2, <2>1
  <2>2. CASE ~(n = at /\ i = Len(attempts[at]))
    BY <1>2, <2>2 DEF IInv, OrphanInv
  <2> QED BY <2>1, <2>2
<1> QED BY <1>2, <1>3, <1>4, <1>5, <1>6, <1>7 DEF IInv

\* A step within a microtask: its newest attempt stays running, and is under review
\* unless somebody decided it.
LEMMA WorkingStep ==
    ASSUME IInv, job \in Busy, NEW a \in Attempt, attempts' = Stored(attempts, at, a),
           a.status = "running", job' \in {"waiting", "settling"}, job' = "waiting" => a.pending,
           RowTypes', UNCHANGED <<status, control, node, at, starts, requests, crashes>>
    PROVE  IInv'
<1>1. /\ at \in Nodes /\ attempts \in Histories /\ attempts[at] # <<>> /\ Len(attempts[at]) \in Nat \ {0}
      /\ status = "running" /\ node[at] = "running" /\ control \notin {"paused", "cancelled"}
  BY InFlight
<1>2. /\ attempts' \in Histories
      /\ \A m \in Nodes : Len(attempts'[m]) = Len(attempts[m])
      /\ attempts'[at][Len(attempts[at])] = a
      /\ \A m \in Nodes : \A i \in 1..Len(attempts[m]) :
           m # at \/ i # Len(attempts[at]) => attempts'[m][i] = attempts[m][i]
  BY <1>1, LastReplaced
<1>3. Counts' /\ AtInv'
  BY <1>1 DEF IInv, Counts, AtInv, Busy
<1>4. BudgetInv'
  BY <1>2 DEF IInv, BudgetInv, Unused, Busy
<1>5. WorkInv'
  <2>1. attempts'[at] # <<>>
    BY <1>1, <1>2, AttemptTypes
  <2>2. Last(at)' = a
    BY <1>1, <1>2 DEF Last
  <2> QED BY <1>1, <2>1, <2>2 DEF WorkInv, Busy
<1>6. OrphanInv'
  <2> SUFFICES ASSUME crashes = 0, NEW n \in Nodes, NEW i \in 1..Len(attempts[n]),
                      ~(n = at /\ i = Len(attempts[at]))
               PROVE  /\ attempts'[n][i].status # "running"
                      /\ attempts'[n][i].pending => attempts'[n][i].status = "failed"
    BY <1>2 DEF OrphanInv, Busy
  <2> QED BY <1>2 DEF IInv, OrphanInv
<1> QED BY <1>2, <1>3, <1>4, <1>5, <1>6 DEF IInv

LEMMA MicrotaskPassesStep == IInv /\ MicrotaskPasses => IInv'
<1> SUFFICES ASSUME IInv, MicrotaskPasses PROVE IInv'
  OBVIOUS
<1> DEFINE a == [Last(at) EXCEPT !.status = "completed"]
<1>1. job \in Busy /\ job = "working" /\ job' = "graph" /\ at' = at + 1
      /\ UNCHANGED <<status, ended, control, verdict, starts, requests, crashes>>
  BY DEF MicrotaskPasses, Busy, boundVars
<1>2. Last(at) \in Attempt /\ at \in Nodes /\ (crashes = 0 => ~Last(at).pending)
  BY <1>1, InFlight
<1>3. a \in Attempt /\ a.status # "running" /\ (crashes = 0 => ~a.pending)
  BY <1>2 DEF Attempt
<1>4. attempts' = Stored(attempts, at, a)
  BY DEF MicrotaskPasses, SetLast, Stored
<1>5. RowTypes'
  BY <1>1, <1>2 DEF IInv, RowTypes, MicrotaskPasses
<1> HIDE DEF a
<1> QED BY <1>1, <1>3, <1>4, <1>5, OutcomeStep

LEMMA MicrotaskReportsCancelStep == IInv /\ MicrotaskReportsCancel => IInv'
<1> SUFFICES ASSUME IInv, MicrotaskReportsCancel PROVE IInv'
  OBVIOUS
<1> DEFINE a == [Last(at) EXCEPT !.status = "cancelled"]
<1>1. job \in Busy /\ job = "working" /\ job' = "cancelling" /\ at' = at
      /\ UNCHANGED <<status, ended, control, verdict, starts, requests, crashes>>
  BY DEF MicrotaskReportsCancel, Busy, boundVars
<1>2. Last(at) \in Attempt /\ at \in Nodes /\ (crashes = 0 => ~Last(at).pending)
  BY <1>1, InFlight
<1>3. a \in Attempt /\ a.status # "running" /\ (crashes = 0 => ~a.pending)
  BY <1>2 DEF Attempt
<1>4. attempts' = Stored(attempts, at, a)
  BY DEF MicrotaskReportsCancel, SetLast, Stored
<1>5. RowTypes'
  BY <1>1, <1>2 DEF IInv, RowTypes, MicrotaskReportsCancel
<1> HIDE DEF a
<1> QED BY <1>1, <1>3, <1>4, <1>5, OutcomeStep

LEMMA FinishReviewStep == IInv /\ FinishReview => IInv'
<1> SUFFICES ASSUME IInv, FinishReview PROVE IInv'
  OBVIOUS
<1> DEFINE a == [Last(at) EXCEPT !.status = Outcome(Last(at)), !.pending = FALSE, !.decision = verdict,
                                 !.cached = IF Last(at).pending THEN "open" ELSE "shut"]
<1>1. /\ job \in Busy
      /\ (job' = "graph" /\ at' = at + 1) \/ (job' \in {"cancelling", "failing"} /\ at' = at)
      /\ verdict' = "none" /\ UNCHANGED <<status, ended, control, starts, requests, crashes>>
  BY DEF FinishReview, Busy, boundVars
<1>2. Last(at) \in Attempt /\ at \in Nodes
  BY <1>1, InFlight
<1>3. Outcome(Last(at)) \in {"completed", "failed", "cancelled"} /\ verdict \in {"none", "approved", "rejected"}
  BY DEF Outcome, IInv, RowTypes
<1>4. a \in Attempt /\ a.status # "running" /\ ~a.pending
  BY <1>2, <1>3 DEF Attempt
<1>5. attempts' = Stored(attempts, at, a)
  BY DEF FinishReview, SetLast, Stored
<1>6. RowTypes'
  <2>1. node' = [node EXCEPT ![at] = Outcome(Last(at))]
    BY DEF FinishReview
  <2> QED BY <1>1, <1>2, <1>3, <2>1 DEF IInv, RowTypes
<1> HIDE DEF a
<1> QED BY <1>1, <1>4, <1>5, <1>6, OutcomeStep

LEMMA SettlementRaisesStep == IInv /\ SettlementRaises => IInv'
<1> SUFFICES ASSUME IInv, SettlementRaises PROVE IInv'
  OBVIOUS
<1> DEFINE a == [Last(at) EXCEPT !.status = "failed"]
<1>1. job \in Busy /\ job' = "failing" /\ at' = at /\ verdict' = "none"
      /\ UNCHANGED <<status, ended, control, starts, requests, crashes>>
  BY DEF SettlementRaises, Busy, boundVars
<1>2. Last(at) \in Attempt /\ at \in Nodes
  BY <1>1, InFlight
<1>3. a \in Attempt /\ a.status = "failed"
  BY <1>2 DEF Attempt
<1>4. attempts' = Stored(attempts, at, a)
  BY DEF SettlementRaises, SetLast, Stored
<1>5. RowTypes'
  <2>1. node' = [node EXCEPT ![at] = "failed"]
    BY DEF SettlementRaises
  <2> QED BY <1>1, <1>2, <2>1 DEF IInv, RowTypes
<1> HIDE DEF a
<1> QED BY <1>1, <1>3, <1>4, <1>5, OutcomeStep

LEMMA AskHumanStep == IInv /\ AskHuman => IInv'
<1> SUFFICES ASSUME IInv, AskHuman PROVE IInv'
  OBVIOUS
<1> DEFINE a == [Last(at) EXCEPT !.pending = TRUE, !.cached = "open"]
<1>1. job \in Busy /\ job' = "waiting"
      /\ UNCHANGED <<status, ended, control, node, at, verdict, starts, requests, crashes>>
  BY DEF AskHuman, Busy, boundVars
<1>2. Last(at) \in Attempt /\ Last(at).status = "running"
  BY <1>1, InFlight
<1>3. a \in Attempt /\ a.status = "running" /\ a.pending
  BY <1>2 DEF Attempt
<1>4. attempts' = Stored(attempts, at, a)
  BY DEF AskHuman, SetLast, Stored
<1>5. RowTypes'
  BY <1>1 DEF IInv, RowTypes, Busy
<1> HIDE DEF a
<1> QED BY <1>1, <1>3, <1>4, <1>5, WorkingStep

LEMMA ReadDecisionStep == IInv /\ ReadDecision => IInv'
<1> SUFFICES ASSUME IInv, ReadDecision PROVE IInv'
  OBVIOUS
<1>1. /\ job = "waiting" /\ job' = "settling" /\ verdict' \in {"approved", "rejected"}
      /\ UNCHANGED <<status, ended, control, node, attempts, at, starts, requests, crashes>>
  BY DEF ReadDecision, rowVars, boundVars
<1>2. RowTypes'
  BY <1>1 DEF IInv, RowTypes, Busy
<1>3. Counts' /\ AtInv'
  BY <1>1 DEF IInv, Counts, AtInv, Busy
<1>4. BudgetInv'
  BY <1>1 DEF IInv, BudgetInv, Unused, Busy
<1>5. WorkInv' /\ OrphanInv'
  BY <1>1 DEF IInv, WorkInv, OrphanInv, Busy, Last
<1> QED BY <1>1, <1>2, <1>3, <1>4, <1>5 DEF IInv

LEMMA MicrotaskFailsStep == IInv /\ MicrotaskFails => IInv'
<1> SUFFICES ASSUME IInv, MicrotaskFails PROVE IInv'
  OBVIOUS
<1> DEFINE a == [Last(at) EXCEPT !.status = "failed"]
           F == Stored(attempts, at, a)
<1>1. /\ job \in Busy /\ job = "working" /\ UNCHANGED <<ended, control, at, verdict, starts, requests, crashes>>
      /\ \/ /\ Len(attempts[at]) < MaxAttempts
            /\ attempts' = [F EXCEPT ![at] = Append(@, NewAttempt)]
            /\ status' = "running" /\ UNCHANGED <<node, job>>
         \/ /\ attempts' = F
            /\ node' = [node EXCEPT ![at] = "failed"]
            /\ job' = "failing" /\ UNCHANGED status
  BY DEF MicrotaskFails, ShouldRetry, SetLast, Stored, Busy, boundVars
<1>2. /\ Last(at) \in Attempt /\ at \in Nodes /\ (crashes = 0 => ~Last(at).pending)
      /\ attempts \in Histories /\ attempts[at] # <<>> /\ Len(attempts[at]) \in Nat \ {0}
      /\ node[at] = "running" /\ control \notin {"paused", "cancelled"}
  BY <1>1, InFlight
<1>3. a \in Attempt /\ a.status # "running" /\ (crashes = 0 => ~a.pending)
  BY <1>2 DEF Attempt
<1> HIDE DEF a, F
<1>4. CASE job' = "failing"
  <2>1. attempts' = Stored(attempts, at, a) /\ node' = [node EXCEPT ![at] = "failed"] /\ UNCHANGED status
    BY <1>1, <1>4 DEF F
  <2>2. RowTypes'
    BY <1>1, <1>2, <1>4, <2>1 DEF IInv, RowTypes
  <2> QED BY <1>1, <1>3, <1>4, <2>1, <2>2, OutcomeStep
<1>5. CASE job' # "failing"
  <2>1. /\ Len(attempts[at]) < MaxAttempts /\ attempts' = Added(F, at, NewAttempt)
        /\ status' = "running" /\ UNCHANGED <<node, job>>
    BY <1>1, <1>5 DEF Added
  <2>2. NewAttempt \in Attempt /\ NewAttempt.status = "running" /\ ~NewAttempt.pending
    BY DEF NewAttempt, Attempt
  <2>3. /\ F \in Histories
        /\ \A m \in Nodes : Len(F[m]) = Len(attempts[m])
        /\ F[at][Len(attempts[at])] = a
        /\ \A m \in Nodes : \A i \in 1..Len(attempts[m]) :
             m # at \/ i # Len(attempts[at]) => F[m][i] = attempts[m][i]
    BY <1>2, <1>3, LastReplaced DEF F
  <2>4. /\ attempts' \in Histories
        /\ Len(attempts'[at]) = Len(F[at]) + 1 /\ attempts'[at][Len(F[at]) + 1] = NewAttempt
        /\ \A m \in Nodes : m # at => attempts'[m] = F[m]
        /\ \A i \in 1..Len(F[at]) : attempts'[at][i] = F[at][i]
    BY <1>2, <2>1, <2>2, <2>3, AttemptAdded
  <2>5. Len(attempts'[at]) = Len(attempts[at]) + 1 /\ Last(at)' = NewAttempt
    BY <1>1, <1>2, <2>3, <2>4 DEF Last
  <2>6. RowTypes' /\ Counts' /\ AtInv'
    BY <1>1, <2>1 DEF IInv, RowTypes, Counts, AtInv
  <2>7. BudgetInv'
    <3> SUFFICES ASSUME NEW n \in Nodes
                 PROVE  /\ Len(attempts'[n]) <= MaxAttempts + starts - 1
                        /\ n > at => Len(attempts'[n]) < MaxAttempts + starts - 1
      BY <1>1, <2>1 DEF BudgetInv, Unused, Busy
    <3>1. CASE n = at
      BY <1>2, <2>1, <2>5, <3>1, Bounds DEF IInv, Counts, Nodes
    <3>2. CASE n # at
      <4>1. Len(attempts'[n]) = Len(attempts[n])
        BY <2>3, <2>4, <3>2
      <4> QED BY <1>1, <4>1 DEF IInv, BudgetInv, Unused, Busy
    <3> QED BY <3>1, <3>2
  <2>8. WorkInv'
    <3>1. attempts'[at] # <<>>
      BY <1>2, <2>4, <2>5, AttemptTypes
    <3> QED BY <1>1, <1>2, <2>1, <2>2, <2>5, <3>1 DEF WorkInv, Busy
  <2>9. OrphanInv'
    <3> SUFFICES ASSUME crashes = 0, NEW n \in Nodes, NEW i \in 1..Len(attempts'[n])
                 PROVE  /\ attempts'[n][i].status = "running" => n = at /\ i = Len(attempts'[n])
                        /\ attempts'[n][i].pending => attempts'[n][i].status = "failed"
      BY <1>1, <2>1 DEF OrphanInv, Busy
    <3>1. \A m \in Nodes : \A j \in 1..Len(attempts[m]) :
             /\ attempts[m][j].status = "running" => m = at /\ j = Len(attempts[m])
             /\ attempts[m][j].pending => attempts[m][j].status = "failed"
      BY <1>1 DEF IInv, OrphanInv
    <3>2. CASE n = at /\ i = Len(attempts'[at])
      BY <1>2, <2>2, <2>3, <2>4, <2>5, <3>2
    <3>3. CASE n = at /\ i = Len(attempts[at])
      <4>1. attempts'[n][i] = F[at][i] /\ F[at][i] = a
        BY <1>2, <2>3, <2>4, <3>3
      <4> QED BY <1>3, <4>1
    <3>4. CASE n # at \/ (i # Len(attempts'[at]) /\ i # Len(attempts[at]))
      <4>1. Len(attempts[n]) \in Nat
        BY <1>2, AttemptTypes
      <4>2. i \in 1..Len(attempts[n]) /\ (n # at \/ i # Len(attempts[at]))
        BY <1>2, <2>3, <2>4, <2>5, <3>4, <4>1
      <4>3. F[n][i] = attempts[n][i]
        BY <2>3, <4>2
      <4>4. attempts'[n][i] = F[n][i]
        BY <2>3, <2>4, <4>2
      <4> QED BY <3>1, <4>2, <4>3, <4>4
    <3> QED BY <3>2, <3>3, <3>4
  <2> QED BY <2>4, <2>6, <2>7, <2>8, <2>9 DEF IInv
<1> QED BY <1>4, <1>5

\* A request that leaves the job where it is may change the control state and settle
\* reviews, but not the rows of the microtask in flight.
LEMMA RequestStep ==
    ASSUME IInv, Reviewed(attempts, attempts'), RowTypes',
           UNCHANGED <<job, at, starts, crashes>>,
           requests' = requests \/ (requests < MaxRequests /\ requests' = requests + 1),
           job \in Busy => /\ status' = "running" /\ node'[at] = "running"
                           /\ control' \notin {"paused", "cancelled"}
    PROVE  IInv'
<1>1. Counts' /\ AtInv'
  <2>1. requests' \in Nat /\ requests' <= MaxRequests /\ requests <= requests' /\ requests \in Nat /\ starts \in Nat
    BY Bounds DEF IInv, Counts
  <2>2. Counts'
    BY <2>1 DEF IInv, Counts
  <2>3. starts <= requests + 1
    BY DEF IInv, AtInv
  <2>4. starts' <= requests' + 1
    <3>1. CASE requests' = requests
      BY <2>3, <3>1
    <3>2. CASE requests' = requests + 1
      <4>1. starts <= (requests + 1) + 1
        BY <2>1, <2>3
      <4> QED BY <3>2, <4>1
    <3> QED BY <3>1, <3>2
  <2>5. AtInv'
    <3>1. /\ job \in {"none", "scheduled", "held"} => at = 0
          /\ job = "graph" => at # 0
          /\ job \in Busy \cup {"node_held", "cancelling", "failing"} => at \in Nodes
      BY DEF IInv, AtInv
    <3> QED BY <2>4, <3>1 DEF AtInv, Busy
  <2> QED BY <2>2, <2>5
<1>2. /\ attempts' \in Histories /\ attempts \in Histories
      /\ \A n \in Nodes : Len(attempts'[n]) = Len(attempts[n])
  BY DEF Reviewed, IInv
<1>3. BudgetInv'
  BY <1>2 DEF IInv, BudgetInv, Unused, Busy
<1>4. WorkInv'
  <2> SUFFICES ASSUME job \in Busy
               PROVE  /\ attempts'[at] # <<>> /\ Last(at)'.status = "running"
                      /\ job = "waiting" /\ Last(at)'.decision = "none" => Last(at)'.pending
    BY DEF WorkInv, Busy
  <2>1. at \in Nodes /\ attempts[at] # <<>> /\ Len(attempts[at]) \in Nat \ {0} /\ Last(at).status = "running"
    BY InFlight
  <2>2. attempts'[at] # <<>> /\ Len(attempts[at]) \in 1..Len(attempts[at])
    BY <1>2, <2>1, AttemptTypes
  <2>3. Last(at)' = attempts'[at][Len(attempts[at])]
    BY <1>2, <2>1 DEF Last
  <2>4. /\ Last(at)'.status = Last(at).status
        /\ Last(at)'.decision # "none"
           \/ (Last(at)'.decision = Last(at).decision /\ Last(at)'.pending = Last(at).pending)
    BY <2>1, <2>2, <2>3 DEF Reviewed, Last
  <2> QED BY <2>1, <2>2, <2>4 DEF IInv, WorkInv
<1>5. OrphanInv'
  <2> SUFFICES ASSUME crashes = 0, NEW n \in Nodes, NEW i \in 1..Len(attempts[n])
               PROVE  /\ attempts'[n][i].status = "running" =>
                           job \in Busy /\ n = at /\ i = Len(attempts[n])
                      /\ attempts'[n][i].pending =>
                           \/ job \in {"waiting", "settling"} /\ n = at /\ i = Len(attempts[n])
                           \/ attempts'[n][i].status = "failed"
    BY <1>2 DEF OrphanInv
  <2> QED BY DEF Reviewed, IInv, OrphanInv
<1> QED BY <1>1, <1>2, <1>3, <1>4, <1>5 DEF IInv

LEMMA PauseStep == IInv /\ Pause => IInv'
<1> SUFFICES ASSUME IInv, Pause PROVE IInv'
  OBVIOUS
<1>1. /\ UNCHANGED <<ended, node, attempts, job, at, verdict, starts, crashes>>
      /\ requests < MaxRequests /\ requests' = requests + 1
  BY DEF Pause, Request, jobVars
<1>2. RowTypes'
  BY <1>1 DEF IInv, RowTypes, Pause, Pausing
<1>3. job \in Busy => /\ status' = "running" /\ node'[at] = "running"
                      /\ control' \notin {"paused", "cancelled"}
  BY <1>1, InFlight DEF Pause
<1>4. Reviewed(attempts, attempts')
  BY <1>1, NotReviewed DEF IInv
<1> QED BY <1>1, <1>2, <1>3, <1>4, RequestStep

LEMMA ResumeStep == IInv /\ Resume => IInv'
<1> SUFFICES ASSUME IInv, Resume PROVE IInv'
  OBVIOUS
<1>1. /\ UNCHANGED <<ended, node, attempts, at, verdict, crashes>>
      /\ requests < MaxRequests /\ requests' = requests + 1
      /\ (job = "none" /\ job' = "scheduled" /\ starts' = starts + 1) \/ UNCHANGED <<job, starts>>
  BY DEF Resume, Request, EnsureJob, jobVars
<1>2. status' \in {status, "running"} /\ control' \in {control, "active"} /\ (status = "running" => status' = "running")
  BY DEF Resume, Terminal
<1>3. RowTypes'
  BY <1>1, <1>2 DEF IInv, RowTypes
<1>4. CASE UNCHANGED <<job, starts>>
  <2>1. Reviewed(attempts, attempts')
    BY <1>1, NotReviewed DEF IInv
  <2>2. job \in Busy => /\ status' = "running" /\ node'[at] = "running"
                        /\ control' \notin {"paused", "cancelled"}
    BY <1>1, <1>2, InFlight
  <2> QED BY <1>1, <1>3, <1>4, <2>1, <2>2, RequestStep
<1>5. CASE job = "none" /\ job' = "scheduled" /\ starts' = starts + 1
  <2>1. Counts' /\ AtInv' /\ starts \in Nat /\ starts' > starts
    BY <1>1, <1>5, Bounds DEF IInv, Counts, AtInv, Busy
  <2> QED BY <1>1, <1>3, <1>5, <2>1, QuietStep DEF Busy
<1> QED BY <1>1, <1>4, <1>5

\* The attempts of a reachable state are those AttemptIds lists: the budget keeps their
\* number within its bound.
LEMMA Listed ==
    ASSUME IInv
    PROVE  /\ \A n \in Nodes : \A i \in 1..Len(attempts[n]) :
                <<n, i>> \in AttemptIds /\ AttemptAt(<<n, i>>) = attempts[n][i]
           /\ \A x \in AttemptIds : /\ x[1] \in Nodes /\ x[2] \in 1..Len(attempts[x[1]])
                                    /\ x = <<x[1], x[2]>>
<1>1. ASSUME NEW n \in Nodes
      PROVE  Len(attempts[n]) \in Nat /\ Len(attempts[n]) <= MaxAttempts + MaxRequests
  <2>1. Len(attempts[n]) \in Nat
    BY <1>1, AttemptTypes DEF IInv
  <2>2. Len(attempts[n]) <= MaxAttempts + starts - 1
    BY <1>1 DEF IInv, BudgetInv
  <2>3. starts \in Nat /\ starts <= MaxRequests + 1 /\ MaxAttempts \in Nat /\ MaxRequests \in Nat
    BY Bounds DEF IInv, Counts
  <2> QED BY <2>1, <2>2, <2>3
<1>2. MaxAttempts + MaxRequests \in Nat
  BY Bounds
<1>3. ASSUME NEW n \in Nodes, NEW i \in 1..Len(attempts[n])
      PROVE  <<n, i>> \in AttemptIds /\ AttemptAt(<<n, i>>) = attempts[n][i]
  <2>1. i \in 1..(MaxAttempts + MaxRequests) /\ i <= Len(attempts[n])
    BY <1>1, <1>2, <1>3
  <2> QED BY <2>1 DEF AttemptIds, AttemptAt
<1>4. ASSUME NEW x \in AttemptIds
      PROVE  x[1] \in Nodes /\ x[2] \in 1..Len(attempts[x[1]]) /\ x = <<x[1], x[2]>>
  <2>1. x \in Nodes \X (1..(MaxAttempts + MaxRequests)) /\ x[2] <= Len(attempts[x[1]])
    BY DEF AttemptIds
  <2>2. x[1] \in Nodes /\ x[2] \in 1..(MaxAttempts + MaxRequests) /\ x = <<x[1], x[2]>>
    BY <2>1
  <2> QED BY <1>1, <1>2, <2>1, <2>2
<1> QED BY <1>3, <1>4

\* The three ways a request settles the review of attempt x, or of any other.
LEMMA ReviewSettled ==
    ASSUME IInv, NEW n, NEW i, NEW B, NEW a, B = Changed(attempts, n, i, a),
           \/ a = [attempts[n][i] EXCEPT !.pending = FALSE, !.decision = "rejected", !.dropped = TRUE]
           \/ a = [attempts[n][i] EXCEPT !.pending = FALSE, !.decision = "approved", !.cached = "shut"]
           \/ a = [attempts[n][i] EXCEPT !.pending = FALSE, !.decision = "rejected", !.dropped = TRUE,
                                         !.cached = "shut"]
           \/ a = [attempts[n][i] EXCEPT !.cached = "open"]
    PROVE  Reviewed(attempts, B)
<1>1. attempts \in Histories
  BY DEF IInv
<1>2. ASSUME n \in Nodes, i \in 1..Len(attempts[n])
      PROVE  /\ a \in Attempt /\ a.status = attempts[n][i].status
             /\ a.pending => attempts[n][i].pending
             /\ \/ a.decision # "none"
                \/ a.decision = attempts[n][i].decision /\ a.pending = attempts[n][i].pending
  <2>1. attempts[n][i] \in Attempt
    BY <1>1, <1>2, AttemptTypes
  <2> QED BY <2>1 DEF Attempt
<1> QED BY <1>1, <1>2, AttemptReviewed

\* A cancellation settles at most one review that is pending.
LEMMA CancelReviews ==
    IInv /\ Cancel =>
        /\ Reviewed(attempts, attempts')
        /\ \/ attempts' = attempts
           \/ \E x \in AttemptIds : \E a :
                 /\ attempts' = Changed(attempts, x[1], x[2], a) /\ attempts[x[1]][x[2]].pending
                 /\ a = [attempts[x[1]][x[2]] EXCEPT !.pending = FALSE, !.decision = "rejected",
                                                     !.dropped = TRUE]
<1> SUFFICES ASSUME IInv, Cancel, attempts' # attempts
             PROVE  /\ Reviewed(attempts, attempts')
                    /\ \E x \in AttemptIds : \E a :
                          /\ attempts' = Changed(attempts, x[1], x[2], a) /\ attempts[x[1]][x[2]].pending
                          /\ a = [attempts[x[1]][x[2]] EXCEPT !.pending = FALSE, !.decision = "rejected",
                                                              !.dropped = TRUE]
  BY NotReviewed DEF IInv
<1> DEFINE a(x) == [attempts[x[1]][x[2]] EXCEPT !.pending = FALSE, !.decision = "rejected", !.dropped = TRUE]
<1>1. PICK x \in AttemptIds : attempts' = Changed(attempts, x[1], x[2], a(x)) /\ attempts[x[1]][x[2]].pending
  BY DEF Cancel, Changed, AttemptAt
<1>2. \E b : attempts' = Changed(attempts, x[1], x[2], b) /\ b = a(x)
  BY <1>1
<1>3. Reviewed(attempts, attempts')
  BY <1>2, ReviewSettled
<1> QED BY <1>1, <1>2, <1>3

LEMMA CancelStep == IInv /\ Cancel => IInv'
<1> SUFFICES ASSUME IInv, Cancel PROVE IInv'
  OBVIOUS
<1> DEFINE running == {x \in AttemptIds : AttemptAt(x).status = "running"}
<1>1. /\ UNCHANGED <<job, at, verdict, starts, crashes>>
      /\ requests < MaxRequests /\ requests' = requests + 1
      /\ \/ /\ running = {} /\ control' = "cancelled" /\ status' = "cancelled" /\ ended' = TRUE
            /\ node' = CancelledNodes
         \/ running # {} /\ control' = "cancel_requested" /\ UNCHANGED <<status, ended, node>>
  BY DEF Cancel, MarkCancelled, Request, jobVars
<1>2. Reviewed(attempts, attempts')
  BY CancelReviews
<1>3. RowTypes'
  BY <1>1 DEF IInv, RowTypes, Cancelling, Terminal, CancelledNodes
<1>4. job \in Busy => /\ status' = "running" /\ node'[at] = "running"
                      /\ control' \notin {"paused", "cancelled"}
  <2> SUFFICES ASSUME job \in Busy PROVE running # {}
    BY <1>1, InFlight
  <2>1. /\ at \in Nodes /\ Len(attempts[at]) \in Nat \ {0} /\ Last(at).status = "running"
    BY InFlight
  <2>2. Len(attempts[at]) \in 1..Len(attempts[at])
    BY <2>1
  <2>3. <<at, Len(attempts[at])>> \in AttemptIds /\ AttemptAt(<<at, Len(attempts[at])>>) = Last(at)
    BY <2>1, <2>2, Listed DEF Last
  <2> QED BY <2>1, <2>3
<1> HIDE DEF running
<1> QED BY <1>1, <1>2, <1>3, <1>4, RequestStep

LEMMA DecisionReviews ==
    ASSUME NEW x \in AttemptIds
    PROVE  IInv /\ (Approve(x) \/ Reject(x) \/ View(x)) => Reviewed(attempts, attempts')
<1> SUFFICES ASSUME IInv, Approve(x) \/ Reject(x) \/ View(x) PROVE Reviewed(attempts, attempts')
  OBVIOUS
<1> DEFINE was == attempts[x[1]][x[2]]
<1>1. \E a : /\ attempts' = Changed(attempts, x[1], x[2], a)
             /\ \/ a = [was EXCEPT !.pending = FALSE, !.decision = "approved", !.cached = "shut"]
                \/ a = [was EXCEPT !.pending = FALSE, !.decision = "rejected", !.dropped = TRUE,
                                   !.cached = "shut"]
                \/ a = [was EXCEPT !.cached = "open"]
  BY DEF Approve, Reject, View, Changed
<1> QED BY <1>1, ReviewSettled

LEMMA DecisionStep ==
    ASSUME NEW x \in AttemptIds PROVE IInv /\ (Approve(x) \/ Reject(x) \/ View(x)) => IInv'
<1> SUFFICES ASSUME IInv, Approve(x) \/ Reject(x) \/ View(x) PROVE IInv'
  OBVIOUS
<1>1. /\ UNCHANGED <<status, ended, control, node, job, at, verdict, starts, crashes>>
      /\ requests' = requests \/ (requests < MaxRequests /\ requests' = requests + 1)
  BY DEF Approve, Reject, View, Request, jobVars, boundVars
<1>2. Reviewed(attempts, attempts')
  BY DecisionReviews
<1>3. RowTypes'
  BY <1>1 DEF IInv, RowTypes
<1>4. job \in Busy => /\ status' = "running" /\ node'[at] = "running"
                      /\ control' \notin {"paused", "cancelled"}
  BY <1>1, InFlight
<1> QED BY <1>1, <1>2, <1>3, <1>4, RequestStep

\* A restart forgets the cache, attempt by attempt.
LEMMA CrashKeepsAttempts ==
    IInv /\ Crash => attempts' \in Histories /\ \A n \in Nodes : Len(attempts'[n]) = Len(attempts[n])
<1> SUFFICES ASSUME IInv, Crash
             PROVE  attempts' \in Histories /\ \A n \in Nodes : Len(attempts'[n]) = Len(attempts[n])
  OBVIOUS
<1> DEFINE Reset(n, i) == [attempts[n][i] EXCEPT !.cached =
                              IF attempts[n][i].pending THEN "absent" ELSE "shut"]
<1>1. attempts' = [n \in Nodes |-> [i \in DOMAIN attempts[n] |-> Reset(n, i)]]
  BY DEF Crash
<1>2. ASSUME NEW n \in Nodes
      PROVE  attempts'[n] \in Seq(Attempt) /\ Len(attempts'[n]) = Len(attempts[n])
  <2>1. Len(attempts[n]) \in Nat /\ DOMAIN attempts[n] = 1..Len(attempts[n])
        /\ \A i \in 1..Len(attempts[n]) : attempts[n][i] \in Attempt
    BY <1>2, AttemptTypes DEF IInv
  <2>2. attempts'[n] = [i \in 1..Len(attempts[n]) |-> Reset(n, i)]
    BY <1>1, <2>1
  <2>3. \A i \in 1..Len(attempts[n]) : Reset(n, i) \in Attempt
    BY <2>1 DEF Attempt
  <2> HIDE DEF Reset
  <2> QED BY <2>1, <2>2, <2>3
<1> QED BY <1>1, <1>2 DEF Histories

LEMMA CrashStep == IInv /\ Crash => IInv'
<1> SUFFICES ASSUME IInv, Crash PROVE IInv'
  OBVIOUS
<1>1. /\ UNCHANGED <<status, ended, control, node, requests, starts>>
      /\ job' = "none" /\ at' = 0 /\ verdict' = "none"
      /\ crashes < MaxCrashes /\ crashes' = crashes + 1
  BY DEF Crash, EndJob
<1>2. attempts' \in Histories /\ \A n \in Nodes : Len(attempts'[n]) = Len(attempts[n])
  BY CrashKeepsAttempts
<1>3. RowTypes'
  BY <1>1 DEF IInv, RowTypes
<1>4. Counts' /\ crashes' # 0
  BY <1>1, Bounds DEF IInv, Counts
<1>5. AtInv' /\ WorkInv' /\ OrphanInv'
  BY <1>1, <1>4 DEF IInv, AtInv, WorkInv, OrphanInv, Busy
<1>6. BudgetInv'
  BY <1>1, <1>2 DEF IInv, BudgetInv, Unused, Busy
<1> QED BY <1>2, <1>3, <1>4, <1>5, <1>6 DEF IInv

LEMMA StutterStep == IInv /\ UNCHANGED vars => IInv'
<1> SUFFICES ASSUME IInv, UNCHANGED vars PROVE IInv'
  OBVIOUS
<1>1. UNCHANGED <<status, ended, control, node, attempts, job, at, verdict, requests, starts, crashes>>
  BY DEF vars
<1>2. RowTypes' /\ Counts' /\ AtInv'
  BY <1>1 DEF IInv, RowTypes, Counts, AtInv
<1>3. BudgetInv' /\ WorkInv' /\ OrphanInv'
  BY <1>1 DEF IInv, BudgetInv, WorkInv, OrphanInv, Unused, Last
<1> QED BY <1>1, <1>2, <1>3 DEF IInv

LEMMA NextIInv == IInv /\ [Next]_vars => IInv'
<1> SUFFICES ASSUME IInv, [Next]_vars PROVE IInv'
  OBVIOUS
<1>1. CASE Executor
  BY <1>1, EnterRunStep, PassNodeStep, EnterNodeStep, MicrotaskPassesStep, MicrotaskFailsStep,
     MicrotaskReportsCancelStep, AskHumanStep, ReadDecisionStep, FinishReviewStep,
     SettlementRaisesStep, EndStep DEF Executor
<1>2. CASE Routes
  BY <1>2, PauseStep, ResumeStep, CancelStep, DecisionStep DEF Routes
<1>3. CASE Crash
  BY <1>3, CrashStep
<1>4. CASE UNCHANGED vars
  BY <1>4, StutterStep
<1> QED BY <1>1, <1>2, <1>3, <1>4 DEF Next

LEMMA Invariance == Spec => []IInv
  BY InitIInv, NextIInv, PTL DEF Spec

-----------------------------------------------------------------------------
(* The order of the nodes, for every policy.                                  *)

LEMMA InitOrder == Init => OrderInv
<1> SUFFICES ASSUME Init PROVE OrderInv
  OBVIOUS
<1>1. \A n \in Nodes : attempts[n] = <<>> /\ Len(attempts[n]) = 0
  BY EmptySeq DEF Init
<1> QED BY <1>1 DEF Init, OrderInv, Busy

LEMMA Earlier == \A n \in Nodes : \A k \in 1..(n - 1) : k \in Nodes /\ k # n
  BY Bounds DEF Nodes

\* What the graph has passed stays settled while those nodes and their attempts do.
LEMMA PassedKept ==
    ASSUME IInv, NEW n \in 0..(Length + 1), Passed(n),
           \A k \in Nodes : k < n => node'[k] = node[k] /\ attempts'[k] = attempts[k]
    PROVE  Passed(n)'
<1> SUFFICES ASSUME NEW k \in 1..(n - 1) PROVE Settled(k)'
  BY DEF Passed
<1>1. k \in Nodes /\ k < n
  BY Bounds DEF Nodes
<1>2. Settled(k) /\ node'[k] = node[k] /\ attempts'[k] = attempts[k]
  BY <1>1 DEF Passed
<1> QED BY <1>2 DEF Settled, Overridden, Last

\* A step of the executor outside a microtask.
LEMMA QuietOrder ==
    ASSUME IInv, OrderInv, UNCHANGED attempts, job' \notin Busy,
           job' \in {"graph", "node_held"} => Passed(at)'
    PROVE  OrderInv'
<1>1. \A n \in Nodes : \A i \in 1..Len(attempts'[n]) : Decided(attempts'[n][i])
  BY DEF OrderInv
<1> QED BY <1>1 DEF OrderInv, Busy, Decided, Shut

\* The steps of the graph between nodes.
LEMMA GraphOrder ==
    IInv /\ OrderInv /\ (EnterRun \/ PassNode \/ Complete \/ StopCancelled \/ StopFailed) => OrderInv'
<1> SUFFICES ASSUME IInv, OrderInv, EnterRun \/ PassNode \/ Complete \/ StopCancelled \/ StopFailed
             PROVE  OrderInv'
  OBVIOUS
<1>1. CASE EnterRun
  <2>1. UNCHANGED attempts /\ job' \in {"graph", "held", "none"} /\ (job' = "graph" => at' = 1)
    BY <1>1 DEF EnterRun, EndJob
  <2>2. at' = 1 => Passed(at)'
    BY DEF Passed
  <2> QED BY <2>1, <2>2, QuietOrder DEF Busy
<1>2. CASE PassNode
  <2>1. /\ UNCHANGED <<node, attempts>> /\ job = "graph" /\ at \in Nodes /\ at \in Nat
        /\ \/ node[at] = "completed" /\ at' = at + 1 /\ job' = "graph"
           \/ job' = "cancelling"
    BY <1>2 DEF PassNode, rowVars, IInv, Counts
  <2>2. Passed(at)
    BY <2>1 DEF OrderInv
  <2>3. ASSUME node[at] = "completed", at' = at + 1 PROVE Passed(at)'
    <3> SUFFICES ASSUME NEW k \in 1..at PROVE Settled(k)'
      BY <2>1, <2>3 DEF Passed
    <3>1. Settled(k)
      BY <2>1, <2>2, <2>3 DEF Passed, Settled
    <3> QED BY <2>1, <3>1 DEF Settled, Overridden, Last
  <2> QED BY <2>1, <2>3, QuietOrder DEF Busy
<1>3. CASE Complete \/ StopCancelled \/ StopFailed
  <2>1. UNCHANGED attempts /\ job' = "none"
    BY <1>3 DEF Complete, StopCancelled, StopFailed, EndJob
  <2> QED BY <2>1, QuietOrder DEF Busy
<1> QED BY <1>1, <1>2, <1>3

\* The first attempt of the node at hand, or one more of it, is not decided.
LEMMA AddedOrder ==
    ASSUME IInv, OrderInv, NEW A \in Histories, at \in Nodes, attempts' = Added(A, at, NewAttempt),
           \A n \in Nodes : \A i \in 1..Len(A[n]) : Decided(A[n][i]),
           \A n \in Nodes : n # at => A[n] = attempts[n] /\ node'[n] = node[n],
           Passed(at), UNCHANGED at, job' = "working"
    PROVE  OrderInv' /\ \A n \in Nodes : n # at => attempts'[n] = attempts[n]
<1>1. NewAttempt \in Attempt /\ NewAttempt.decision = "none" /\ Shut(NewAttempt) /\ Decided(NewAttempt)
  BY DEF NewAttempt, Attempt, Shut, Decided
<1>2. /\ attempts' \in Histories
      /\ Len(attempts'[at]) = Len(A[at]) + 1 /\ attempts'[at][Len(A[at]) + 1] = NewAttempt
      /\ \A m \in Nodes : m # at => attempts'[m] = A[m]
      /\ \A i \in 1..Len(A[at]) : attempts'[at][i] = A[at][i]
  BY <1>1, AttemptAdded
<1>3. Len(A[at]) \in Nat
  BY AttemptTypes
<1>4. Last(at)' = NewAttempt
  BY <1>2 DEF Last
<1>5. ASSUME NEW n \in Nodes, NEW i \in 1..Len(attempts'[n]) PROVE Decided(attempts'[n][i])
  <2>1. CASE n = at /\ i = Len(A[at]) + 1
    BY <1>1, <1>2, <2>1
  <2>2. CASE ~(n = at /\ i = Len(A[at]) + 1)
    BY <1>2, <1>3, <2>2
  <2> QED BY <2>1, <2>2
<1>6. Passed(at)'
  <2>1. at \in 0..(Length + 1)
    BY Bounds DEF Nodes
  <2>2. \A k \in Nodes : k < at => node'[k] = node[k] /\ attempts'[k] = attempts[k]
    BY <1>2, Bounds DEF Nodes
  <2> QED BY <2>1, <2>2, PassedKept
<1>7. Last(at)'.decision = "none" /\ Shut(Last(at)')
  BY <1>1, <1>4
<1>8. \A n \in Nodes : \A i \in 1..Len(attempts'[n]) : Decided(attempts'[n][i])
  BY <1>5
<1> QED BY <1>2, <1>6, <1>7, <1>8 DEF OrderInv, Decided, Shut

\* The gate of a node adds the attempt behind settled nodes only.
LEMMA EnterNodeOrder == IInv /\ OrderInv /\ EnterNode => OrderInv'
<1> SUFFICES ASSUME IInv, OrderInv, EnterNode PROVE OrderInv'
  OBVIOUS
<1>1. /\ at \in Nodes /\ at \in Nat /\ job \in {"graph", "node_held"} /\ at' = at /\ Passed(at)
      /\ attempts \in Histories
  BY DEF EnterNode, IInv, AtInv, Counts, OrderInv
<1>2. CASE control = "active"
  <2>1. /\ attempts' = Added(attempts, at, NewAttempt)
        /\ node' = [node EXCEPT ![at] = "running"] /\ job' = "working"
    BY <1>2 DEF EnterNode, Pausing, Cancelling, Added
  <2>2. \A n \in Nodes : n # at => node'[n] = node[n]
    BY <2>1 DEF IInv, RowTypes
  <2>3. \A n \in Nodes : \A i \in 1..Len(attempts[n]) : Decided(attempts[n][i])
    BY DEF OrderInv
  <2> QED BY <1>1, <2>1, <2>2, <2>3, AddedOrder
<1>3. CASE control # "active"
  <2>1. UNCHANGED <<node, attempts>> /\ job' \in {"node_held", "cancelling"}
    BY <1>3 DEF EnterNode, rowVars
  <2>2. Passed(at)'
    BY <1>1, <2>1 DEF Passed, Settled, Overridden, Last
  <2> QED BY <2>1, <2>2, QuietOrder DEF Busy
<1> QED BY <1>2, <1>3

\* The newest attempt of the node at hand becomes a.
LEMMA StoredOrder ==
    ASSUME IInv, OrderInv, job \in Busy, NEW a \in Attempt, Decided(a),
           NEW B, B = Stored(attempts, at, a)
    PROVE  /\ B \in Histories /\ Passed(at)
           /\ \A n \in Nodes : \A i \in 1..Len(B[n]) : Decided(B[n][i])
           /\ B[at][Len(B[at])] = a /\ B[at] # <<>>
           /\ \A n \in Nodes : n # at => B[n] = attempts[n]
<1>1. at \in Nodes /\ attempts \in Histories /\ attempts[at] # <<>> /\ Len(attempts[at]) \in Nat \ {0}
  BY InFlight
<1>2. /\ B \in Histories
      /\ \A m \in Nodes : Len(B[m]) = Len(attempts[m])
      /\ B[at][Len(attempts[at])] = a
      /\ \A m \in Nodes : \A i \in 1..Len(attempts[m]) :
           m # at \/ i # Len(attempts[at]) => B[m][i] = attempts[m][i]
  BY <1>1, LastReplaced
<1>3. ASSUME NEW n \in Nodes, NEW i \in 1..Len(B[n]) PROVE Decided(B[n][i])
  <2>1. CASE n = at /\ i = Len(attempts[at])
    BY <1>2, <2>1
  <2>2. CASE ~(n = at /\ i = Len(attempts[at]))
    BY <1>2, <2>2 DEF OrderInv
  <2> QED BY <2>1, <2>2
<1>4. \A n \in Nodes : n # at => B[n] = attempts[n]
  BY <1>1 DEF Stored, Histories
<1>5. B[at] # <<>>
  BY <1>1, <1>2, AttemptTypes
<1>6. Passed(at)
  BY DEF OrderInv
<1> QED BY <1>1, <1>2, <1>3, <1>4, <1>5, <1>6

\* A microtask ends with a in its newest attempt: the graph goes on only from a node
\* that completed or was overridden.
LEMMA OutcomeOrder ==
    ASSUME IInv, OrderInv, job \in Busy, NEW a \in Attempt, Decided(a),
           attempts' = Stored(attempts, at, a), NEW o, node' = [node EXCEPT ![at] = o],
           \/ job' \in {"cancelling", "failing"}
           \/ /\ job' = "graph" /\ at' = at + 1
              /\ o = "completed" \/ (o = "cancelled" /\ a.dropped /\ a.decision = "approved")
    PROVE  OrderInv'
<1>1. /\ Passed(at) /\ \A n \in Nodes : \A i \in 1..Len(attempts'[n]) : Decided(attempts'[n][i])
      /\ attempts'[at][Len(attempts'[at])] = a /\ attempts'[at] # <<>>
      /\ \A n \in Nodes : n # at => attempts'[n] = attempts[n]
  BY StoredOrder
<1>2. at \in Nodes /\ at \in Nat
  BY InFlight
<1>3. node'[at] = o /\ \A n \in Nodes : n # at => node'[n] = node[n]
  BY <1>2 DEF IInv, RowTypes
<1>4. ASSUME job' = "graph" PROVE Passed(at)'
  <2> SUFFICES ASSUME NEW k \in 1..at PROVE Settled(k)'
    BY <1>2, <1>4 DEF Passed
  <2>1. CASE k = at
    BY <1>1, <1>3, <1>4, <2>1 DEF Settled, Overridden, Last
  <2>2. CASE k # at
    <3>1. k \in Nodes /\ k \in 1..(at - 1)
      BY <1>2, <2>2, Bounds DEF Nodes
    <3>2. Settled(k) /\ node'[k] = node[k] /\ attempts'[k] = attempts[k]
      BY <1>1, <1>3, <2>2, <3>1 DEF Passed
    <3> QED BY <3>2 DEF Settled, Overridden, Last
  <2> QED BY <2>1, <2>2
<1>5. job' \notin Busy /\ job' # "node_held"
  BY DEF Busy
<1> QED BY <1>1, <1>4, <1>5 DEF OrderInv, Busy, Decided, Shut

\* A microtask that ends without review.
LEMMA MicrotaskOrder ==
    IInv /\ OrderInv /\ (MicrotaskPasses \/ MicrotaskFails \/ MicrotaskReportsCancel) => OrderInv'
<1> SUFFICES ASSUME IInv, OrderInv, MicrotaskPasses \/ MicrotaskFails \/ MicrotaskReportsCancel
             PROVE  OrderInv'
  OBVIOUS
<1>1. job = "working" /\ job \in Busy
  BY DEF MicrotaskPasses, MicrotaskFails, MicrotaskReportsCancel, Busy
<1>2. /\ Last(at) \in Attempt /\ Last(at).decision = "none" /\ Shut(Last(at))
      /\ at \in Nodes /\ at \in Nat
  BY <1>1, InFlight DEF OrderInv
<1>3. ASSUME NEW st \in {"completed", "failed", "cancelled"}
      PROVE  [Last(at) EXCEPT !.status = st] \in Attempt /\ Decided([Last(at) EXCEPT !.status = st])
  BY <1>2 DEF Attempt, Decided, Shut
<1>4. CASE MicrotaskPasses
  <2> DEFINE a == [Last(at) EXCEPT !.status = "completed"]
  <2>1. /\ attempts' = Stored(attempts, at, a) /\ node' = [node EXCEPT ![at] = "completed"]
        /\ job' = "graph" /\ at' = at + 1
    BY <1>4 DEF MicrotaskPasses, SetLast, Stored
  <2>2. a \in Attempt /\ Decided(a)
    BY <1>3
  <2> HIDE DEF a
  <2> QED BY <1>1, <2>1, <2>2, OutcomeOrder
<1>5. CASE MicrotaskReportsCancel
  <2> DEFINE a == [Last(at) EXCEPT !.status = "cancelled"]
  <2>1. /\ attempts' = Stored(attempts, at, a) /\ node' = [node EXCEPT ![at] = "cancelled"]
        /\ job' = "cancelling"
    BY <1>5 DEF MicrotaskReportsCancel, SetLast, Stored
  <2>2. a \in Attempt /\ Decided(a)
    BY <1>3
  <2> HIDE DEF a
  <2> QED BY <1>1, <2>1, <2>2, OutcomeOrder
<1>6. CASE MicrotaskFails
  <2> DEFINE a == [Last(at) EXCEPT !.status = "failed"]
             F == Stored(attempts, at, a)
  <2>1. \/ attempts' = Added(F, at, NewAttempt) /\ UNCHANGED <<node, at, job>>
        \/ attempts' = F /\ node' = [node EXCEPT ![at] = "failed"] /\ job' = "failing"
    BY <1>6 DEF MicrotaskFails, SetLast, Stored, Added
  <2>2. a \in Attempt /\ Decided(a)
    BY <1>3
  <2> HIDE DEF a
  <2>3. /\ F \in Histories /\ Passed(at) /\ \A n \in Nodes : n # at => F[n] = attempts[n]
        /\ \A n \in Nodes : \A i \in 1..Len(F[n]) : Decided(F[n][i])
    BY <1>1, <2>2, StoredOrder
  <2>4. CASE attempts' = F /\ node' = [node EXCEPT ![at] = "failed"] /\ job' = "failing"
    BY <1>1, <2>2, <2>4, OutcomeOrder
  <2>5. CASE attempts' = Added(F, at, NewAttempt) /\ UNCHANGED <<node, at, job>>
    <3> HIDE DEF F
    <3> QED BY <1>1, <1>2, <2>3, <2>5, AddedOrder
  <2> QED BY <2>1, <2>4, <2>5
<1> QED BY <1>4, <1>5, <1>6

\* A review from its start to its settlement, or to the settlement that raises.
LEMMA ReviewOrder ==
    IInv /\ OrderInv /\ (AskHuman \/ ReadDecision \/ FinishReview \/ SettlementRaises) => OrderInv'
<1> SUFFICES ASSUME IInv, OrderInv, AskHuman \/ ReadDecision \/ FinishReview \/ SettlementRaises
             PROVE  OrderInv'
  OBVIOUS
<1>1. job \in Busy
  BY DEF AskHuman, ReadDecision, FinishReview, SettlementRaises, Busy
<1>2. /\ Last(at) \in Attempt /\ at \in Nodes /\ at \in Nat /\ attempts \in Histories /\ Passed(at)
      /\ Decided(Last(at))
  <2>1. /\ at \in Nodes /\ at \in Nat /\ Last(at) \in Attempt /\ attempts \in Histories
        /\ Len(attempts[at]) \in 1..Len(attempts[at])
    BY <1>1, InFlight
  <2> QED BY <1>1, <2>1 DEF OrderInv, Last
<1>3. CASE AskHuman
  <2> DEFINE a == [Last(at) EXCEPT !.pending = TRUE, !.cached = "open"]
  <2>1. attempts' = Stored(attempts, at, a) /\ job = "working" /\ job' = "waiting" /\ UNCHANGED <<node, at>>
    BY <1>3 DEF AskHuman, SetLast, Stored
  <2>2. a \in Attempt /\ a.decision = "none" /\ Decided(a)
    BY <1>2, <2>1 DEF OrderInv, Attempt, Decided
  <2> HIDE DEF a
  <2>3. /\ \A n \in Nodes : \A i \in 1..Len(attempts'[n]) : Decided(attempts'[n][i])
        /\ \A n \in Nodes : n # at => attempts'[n] = attempts[n]
    BY <1>1, <2>1, <2>2, StoredOrder
  <2>4. Passed(at)'
    <3>1. at \in 0..(Length + 1) /\ \A k \in Nodes : k < at => k # at
      BY <1>2, Bounds DEF Nodes
    <3>2. \A k \in Nodes : k < at => node'[k] = node[k] /\ attempts'[k] = attempts[k]
      BY <2>1, <2>3, <3>1
    <3> QED BY <1>2, <2>1, <3>1, <3>2, PassedKept DEF Passed
  <2> QED BY <2>1, <2>3, <2>4 DEF OrderInv, Decided, Shut
<1>4. CASE ReadDecision
  <2>1. /\ UNCHANGED <<node, attempts, at>> /\ job' = "settling"
        /\ verdict' = "approved" => Last(at).decision = "approved"
    BY <1>4 DEF ReadDecision, rowVars
  <2>2. Passed(at)' /\ Last(at)' = Last(at)
    BY <1>2, <2>1 DEF Passed, Settled, Overridden, Last
  <2>3. \A n \in Nodes : \A i \in 1..Len(attempts'[n]) : Decided(attempts'[n][i])
    BY <2>1 DEF OrderInv
  <2> QED BY <2>1, <2>2, <2>3 DEF OrderInv, Decided, Shut
<1>5. CASE FinishReview
  <2> DEFINE o == Outcome(Last(at))
             a == [Last(at) EXCEPT !.status = o, !.pending = FALSE, !.decision = verdict,
                                   !.cached = IF Last(at).pending THEN "open" ELSE "shut"]
  <2>1. /\ attempts' = Stored(attempts, at, a) /\ node' = [node EXCEPT ![at] = o] /\ job = "settling"
        /\ \/ job' \in {"cancelling", "failing"}
           \/ job' = "graph" /\ at' = at + 1 /\ verdict = "approved"
    BY <1>5 DEF FinishReview, SetLast, Stored
  <2>2. o \in {"completed", "failed", "cancelled"} /\ verdict \in {"none", "approved", "rejected"}
        /\ (verdict = "approved" => o = "completed" \/ (o = "cancelled" /\ Last(at).dropped))
    BY <1>2 DEF Outcome, IInv, RowTypes, Attempt
  <2>3. verdict = "approved" => ~Last(at).pending
    BY <1>2, <2>1 DEF OrderInv, Decided, Shut
  <2>4. a \in Attempt /\ a.decision = verdict /\ a.dropped = Last(at).dropped /\ ~a.pending
        /\ (verdict = "approved" => a.cached = "shut")
    BY <1>2, <2>2, <2>3 DEF Attempt
  <2>5. Decided(a)
    BY <2>4 DEF Decided, Shut
  <2> HIDE DEF a, o
  <2> QED BY <1>1, <2>1, <2>2, <2>4, <2>5, OutcomeOrder
<1>6. CASE SettlementRaises
  <2> DEFINE a == [Last(at) EXCEPT !.status = "failed"]
  <2>1. attempts' = Stored(attempts, at, a) /\ node' = [node EXCEPT ![at] = "failed"] /\ job' = "failing"
    BY <1>6 DEF SettlementRaises, SetLast, Stored
  <2>2. a \in Attempt /\ Decided(a)
    BY <1>2 DEF Attempt, Decided, Shut
  <2> HIDE DEF a
  <2> QED BY <1>1, <2>1, <2>2, OutcomeOrder
<1> QED BY <1>3, <1>4, <1>5, <1>6

\* Requests and restarts change no attempt that is out of the reviewers' reach, and
\* leave every attempt decided or not, but never half so.
Respects(A, B) ==
    /\ \A n \in Nodes : Len(B[n]) = Len(A[n])
    /\ \A n \in Nodes : \A i \in 1..Len(A[n]) : (Shut(A[n][i]) => B[n][i] = A[n][i]) /\ Decided(B[n][i])

\* Changing one attempt that is within reach, to one that is decided or not.
LEMMA ChangeRespects ==
    ASSUME IInv, OrderInv, NEW n \in Nodes, NEW i \in 1..Len(attempts[n]), NEW a \in Attempt,
           NEW B, B = Changed(attempts, n, i, a), ~Shut(attempts[n][i]), Decided(a)
    PROVE  Respects(attempts, B)
<1> DEFINE s == [attempts[n] EXCEPT ![i] = a]
<1>1. attempts[n] \in Seq(Attempt) /\ attempts \in Histories
  BY AttemptTypes DEF IInv
<1>2. s \in Seq(Attempt) /\ Len(s) = Len(attempts[n])
      /\ \A j \in 1..Len(attempts[n]) : s[j] = IF j = i THEN a ELSE attempts[n][j]
  BY <1>1, ExceptSeq
<1>3. B = [attempts EXCEPT ![n] = s]
  BY DEF Changed
<1> HIDE DEF s
<1>4. B[n] = s /\ \A m \in Nodes : m # n => B[m] = attempts[m]
  BY <1>1, <1>3 DEF Histories
<1>5. \A m \in Nodes : \A j \in 1..Len(attempts[m]) : Decided(attempts[m][j])
  BY DEF OrderInv
<1>6. \A m \in Nodes : Len(B[m]) = Len(attempts[m])
  BY <1>2, <1>4
<1>7. ASSUME NEW m \in Nodes, NEW j \in 1..Len(attempts[m])
      PROVE  (Shut(attempts[m][j]) => B[m][j] = attempts[m][j]) /\ Decided(B[m][j])
  <2>1. CASE m = n /\ j = i
    BY <1>2, <1>4, <2>1
  <2>2. CASE m = n /\ j # i
    BY <1>2, <1>4, <1>5, <2>2
  <2>3. CASE m # n
    BY <1>4, <1>5, <2>3
  <2> QED BY <2>1, <2>2, <2>3
<1> QED BY <1>6, <1>7 DEF Respects

LEMMA SameRespects == OrderInv => Respects(attempts, attempts)
  BY DEF OrderInv, Respects

\* A cancellation rejects a review that is pending.
LEMMA CancelRespects == IInv /\ OrderInv /\ Cancel => Respects(attempts, attempts')
<1> SUFFICES ASSUME IInv, OrderInv, Cancel, attempts' # attempts PROVE Respects(attempts, attempts')
  BY SameRespects
<1>1. PICK x \in AttemptIds : \E a :
        /\ attempts' = Changed(attempts, x[1], x[2], a) /\ attempts[x[1]][x[2]].pending
        /\ a = [attempts[x[1]][x[2]] EXCEPT !.pending = FALSE, !.decision = "rejected", !.dropped = TRUE]
  BY CancelReviews
<1>2. x[1] \in Nodes /\ x[2] \in 1..Len(attempts[x[1]]) /\ attempts \in Histories
  BY Listed DEF IInv
<1>3. attempts[x[1]][x[2]] \in Attempt /\ ~Shut(attempts[x[1]][x[2]])
  BY <1>1, <1>2, AttemptTypes DEF Shut
<1> DEFINE a == [attempts[x[1]][x[2]] EXCEPT !.pending = FALSE, !.decision = "rejected", !.dropped = TRUE]
<1>4. a \in Attempt /\ Decided(a) /\ attempts' = Changed(attempts, x[1], x[2], a)
  BY <1>1, <1>3 DEF Attempt, Decided
<1> HIDE DEF a
<1> QED BY <1>2, <1>3, <1>4, ChangeRespects

\* A decision or a look at a task needs a review that is seen as pending.
LEMMA DecisionRespects ==
    ASSUME NEW x \in AttemptIds
    PROVE  IInv /\ OrderInv /\ (Approve(x) \/ Reject(x) \/ View(x)) => Respects(attempts, attempts')
<1> SUFFICES ASSUME IInv, OrderInv, Approve(x) \/ Reject(x) \/ View(x)
             PROVE  Respects(attempts, attempts')
  OBVIOUS
<1> DEFINE was == attempts[x[1]][x[2]]
<1>1. x[1] \in Nodes /\ x[2] \in 1..Len(attempts[x[1]]) /\ attempts \in Histories
  BY Listed DEF IInv
<1>2. was \in Attempt /\ Decided(was)
  BY <1>1, AttemptTypes DEF OrderInv
<1>3. ~Shut(was)
  BY <1>2 DEF Approve, Reject, View, SeenPending, AttemptAt, Shut, Attempt
<1>4. CASE Approve(x)
  <2> DEFINE a == [was EXCEPT !.pending = FALSE, !.decision = "approved", !.cached = "shut"]
  <2>1. attempts' = Changed(attempts, x[1], x[2], a)
    BY <1>4 DEF Approve, Changed
  <2>2. a \in Attempt /\ Decided(a)
    BY <1>2 DEF Attempt, Decided, Shut
  <2> HIDE DEF a
  <2> QED BY <1>1, <1>3, <2>1, <2>2, ChangeRespects
<1>5. CASE Reject(x)
  <2> DEFINE a == [was EXCEPT !.pending = FALSE, !.decision = "rejected", !.dropped = TRUE, !.cached = "shut"]
  <2>1. attempts' = Changed(attempts, x[1], x[2], a)
    BY <1>5 DEF Reject, Changed
  <2>2. a \in Attempt /\ Decided(a)
    BY <1>2 DEF Attempt, Decided, Shut
  <2> HIDE DEF a
  <2> QED BY <1>1, <1>3, <2>1, <2>2, ChangeRespects
<1>6. CASE View(x)
  <2> DEFINE a == [was EXCEPT !.cached = "open"]
  <2>1. attempts' = Changed(attempts, x[1], x[2], a) /\ was.pending
    BY <1>6 DEF View, Changed, AttemptAt
  <2>2. a \in Attempt /\ Decided(a)
    BY <1>2, <2>1 DEF Attempt, Decided, Shut
  <2> HIDE DEF a
  <2> QED BY <1>1, <1>3, <2>1, <2>2, ChangeRespects
<1> QED BY <1>4, <1>5, <1>6

\* A restart leaves what is out of reach out of reach.
LEMMA CrashRespects == IInv /\ OrderInv /\ Crash => Respects(attempts, attempts')
<1> SUFFICES ASSUME IInv, OrderInv, Crash PROVE Respects(attempts, attempts')
  OBVIOUS
<1> DEFINE Reset(n, i) == [attempts[n][i] EXCEPT !.cached =
                              IF attempts[n][i].pending THEN "absent" ELSE "shut"]
<1>1. attempts' = [n \in Nodes |-> [i \in DOMAIN attempts[n] |-> Reset(n, i)]]
  BY DEF Crash
<1>2. \A n \in Nodes : Len(attempts'[n]) = Len(attempts[n])
  BY CrashKeepsAttempts
<1>3. ASSUME NEW n \in Nodes, NEW i \in 1..Len(attempts[n])
      PROVE  (Shut(attempts[n][i]) => attempts'[n][i] = attempts[n][i]) /\ Decided(attempts'[n][i])
  <2>1. attempts[n][i] \in Attempt /\ DOMAIN attempts[n] = 1..Len(attempts[n]) /\ Decided(attempts[n][i])
    BY AttemptTypes DEF IInv, OrderInv
  <2>2. attempts'[n][i] = Reset(n, i)
    BY <1>1, <2>1
  <2>3. (Shut(attempts[n][i]) => Reset(n, i) = attempts[n][i]) /\ Decided(Reset(n, i))
    BY <2>1 DEF Attempt, Decided, Shut
  <2> HIDE DEF Reset
  <2> QED BY <2>2, <2>3
<1> QED BY <1>2, <1>3 DEF Respects

\* A request or a restart does not move the graph, and settles no node behind it.
LEMMA RoutesOrder == IInv /\ OrderInv /\ (Routes \/ Crash) => OrderInv'
<1> SUFFICES ASSUME IInv, OrderInv, Routes \/ Crash PROVE OrderInv'
  OBVIOUS
<1>1. Respects(attempts, attempts')
  <2>1. CASE Pause \/ Resume
    BY <2>1, SameRespects DEF Pause, Resume
  <2> QED BY <2>1, CancelRespects, DecisionRespects, CrashRespects DEF Routes
<1>2. job' \in {"none", "scheduled"} \/ UNCHANGED <<job, at, verdict>>
  BY DEF Routes, Pause, Resume, Cancel, Approve, Reject, View, Crash, EnsureJob, EndJob, jobVars
<1>3. \A n \in Nodes : node[n] \in {"completed", "cancelled"} => node'[n] = node[n]
  BY DEF Routes, Pause, Resume, Cancel, Approve, Reject, View, Crash, MarkCancelled, CancelledNodes
<1>4. \A n \in Nodes : Len(attempts'[n]) = Len(attempts[n]) /\ Len(attempts[n]) \in Nat
  BY <1>1, AttemptTypes DEF Respects, IInv
<1>5. \A n \in Nodes : \A i \in 1..Len(attempts'[n]) : Decided(attempts'[n][i])
  BY <1>1, <1>4 DEF Respects
<1>6. ASSUME NEW n \in Nodes, attempts[n] # <<>>, Shut(Last(n))
      PROVE  attempts'[n] # <<>> /\ Last(n)' = Last(n)
  <2>1. Len(attempts[n]) \in 1..Len(attempts[n])
    BY <1>6, NewestAttempt DEF IInv
  <2>2. attempts'[n][Len(attempts[n])] = attempts[n][Len(attempts[n])]
    BY <1>1, <1>6, <2>1 DEF Respects, Last
  <2>3. attempts'[n] # <<>>
    <3>1. attempts' \in Histories
      BY NextIInv DEF IInv, Next
    <3> QED BY <1>4, <2>1, <3>1, AttemptTypes
  <2> QED BY <1>4, <2>2, <2>3 DEF Last
<1>7. ASSUME NEW n \in Nodes, attempts[n] # <<>>, Last(n).decision = "approved"
      PROVE  attempts'[n] # <<>> /\ Last(n)' = Last(n)
  <2>1. Len(attempts[n]) \in 1..Len(attempts[n])
    BY <1>7, NewestAttempt DEF IInv
  <2>2. Shut(Last(n))
    BY <1>7, <2>1 DEF OrderInv, Decided, Last
  <2> QED BY <1>6, <1>7, <2>2
<1>8. ASSUME NEW n \in Nodes, Settled(n) PROVE Settled(n)'
  BY <1>3, <1>7, <1>8 DEF Settled, Overridden
<1>9. CASE job' \in {"none", "scheduled"}
  BY <1>5, <1>9 DEF OrderInv, Busy, Decided, Shut
<1>10. CASE UNCHANGED <<job, at, verdict>>
  <2>1. ASSUME job \in {"graph", "node_held"} \cup Busy PROVE Passed(at)'
    <3> SUFFICES ASSUME NEW k \in 1..(at - 1) PROVE Settled(k)'
      BY <1>10 DEF Passed
    <3>1. k \in Nodes
      BY Bounds DEF IInv, Counts, Nodes
    <3>2. Settled(k)
      BY <2>1 DEF OrderInv, Passed
    <3> QED BY <1>8, <3>1, <3>2
  <2>2. job = "working" => Last(at)'.decision = "none" /\ Shut(Last(at)')
    BY <1>6, <1>10, InFlight DEF OrderInv, Busy
  <2>3. job = "settling" /\ verdict = "approved" => Last(at)'.decision = "approved"
    BY <1>7, <1>10, InFlight DEF OrderInv, Busy
  <2> QED BY <1>5, <1>10, <2>1, <2>2, <2>3 DEF OrderInv, Busy, Decided, Shut
<1> QED BY <1>2, <1>9, <1>10

\* Every step keeps the order.
LEMMA NextOrder == IInv /\ OrderInv /\ [Next]_vars => OrderInv'
<1> SUFFICES ASSUME IInv, OrderInv, [Next]_vars PROVE OrderInv'
  OBVIOUS
<1>1. CASE Executor
  BY <1>1, GraphOrder, EnterNodeOrder, MicrotaskOrder, ReviewOrder DEF Executor
<1>2. CASE UNCHANGED vars
  BY <1>2 DEF vars, OrderInv, Passed, Settled, Overridden, Last, Decided, Shut
<1> QED BY <1>1, <1>2, RoutesOrder DEF Next

LEMMA OrderInvariance == Spec => [](IInv /\ OrderInv)
<1>1. Init => OrderInv
  BY InitOrder
<1>2. IInv /\ OrderInv /\ [Next]_vars => OrderInv'
  BY NextOrder
<1> QED BY <1>1, <1>2, Invariance, PTL DEF Spec

\* Whatever the policy's attempts, a node is first tried when everything before it has
\* completed or been overridden, and nobody has asked for a pause or a cancellation; no
\* other step adds a first attempt.
THEOREM InOrder == Spec => SchedulesInOrder
<1> DEFINE Ordered == \A n \in Nodes : attempts[n] = <<>> /\ attempts'[n] # <<>> =>
                         /\ control = "active"
                         /\ \A m \in 1..(n - 1) : node[m] = "completed" \/ Overridden(m)
<1>1. IInv /\ OrderInv /\ IInv' /\ [Next]_vars => [Ordered]_vars
  <2> SUFFICES ASSUME IInv, OrderInv, IInv', Next PROVE Ordered
    OBVIOUS
  <2>1. attempts \in Histories /\ attempts' \in Histories
    BY DEF IInv
  <2>2. ASSUME \A n \in Nodes : Len(attempts'[n]) = Len(attempts[n]) PROVE Ordered
    BY <2>1, <2>2, AttemptTypes
  <2>3. CASE EnterNode
    <3>1. at \in Nodes /\ Passed(at)
      BY <2>3 DEF EnterNode, IInv, AtInv, OrderInv
    <3>2. UNCHANGED attempts \/ (control = "active" /\ attempts' = [attempts EXCEPT ![at] = Append(@, NewAttempt)])
      BY <2>3 DEF EnterNode, rowVars
    <3>3. \A n \in Nodes : n # at => attempts'[n] = attempts[n]
      BY <2>1, <3>2 DEF Histories
    <3>4. UNCHANGED attempts \/ control = "active"
      BY <3>2
    <3> QED BY <3>1, <3>3, <3>4 DEF Passed, Settled
  <2>4. CASE job \in Busy /\ Executor
    <3>1. at \in Nodes /\ attempts[at] # <<>>
      BY <2>4, InFlight
    <3>2. \A n \in Nodes : n # at => attempts'[n] = attempts[n]
      BY <2>1, <2>4 DEF Executor, EnterRun, PassNode, EnterNode, MicrotaskPasses, MicrotaskFails,
         MicrotaskReportsCancel, AskHuman, ReadDecision, FinishReview, SettlementRaises, Complete,
         StopCancelled, StopFailed, SetLast, Histories, Busy, rowVars
    <3> QED BY <3>1, <3>2
  <2>5. CASE EnterRun \/ PassNode \/ Complete \/ StopCancelled \/ StopFailed \/ Pause \/ Resume
    <3>1. UNCHANGED attempts
      BY <2>5 DEF EnterRun, PassNode, Complete, StopCancelled, StopFailed, Pause, Resume, rowVars
    <3> QED BY <3>1
  <2>6. CASE Cancel \/ Crash \/ \E x \in AttemptIds : Approve(x) \/ Reject(x) \/ View(x)
    <3>1. Reviewed(attempts, attempts') => \A n \in Nodes : Len(attempts'[n]) = Len(attempts[n])
      BY DEF Reviewed
    <3>2. \A n \in Nodes : Len(attempts'[n]) = Len(attempts[n])
      BY <2>6, <3>1, CancelReviews, DecisionReviews, CrashKeepsAttempts
    <3> QED BY <2>2, <3>2
  <2>7. Executor => EnterNode \/ job \in Busy \/ EnterRun \/ PassNode \/ Complete \/ StopCancelled \/ StopFailed
    BY DEF Executor, MicrotaskPasses, MicrotaskFails, MicrotaskReportsCancel, AskHuman, ReadDecision,
       FinishReview, SettlementRaises, Busy
  <2> QED BY <2>3, <2>4, <2>5, <2>6, <2>7 DEF Next, Routes
<1> QED BY <1>1, Invariance, OrderInvariance, PTL DEF Spec, SchedulesInOrder
-----------------------------------------------------------------------------
(* What holds in every reachable state, for every plan.                       *)

\* Every variable of the run keeps its type.
THEOREM TypeCorrect == Spec => []TypeOK
<1>1. IInv => TypeOK
  BY TypeParts DEF IInv
<1> QED BY <1>1, Invariance, PTL

\* Retries, resumes and restarts do not exceed the attempts of the policy by more
\* than one for each further start of the executor.
THEOREM BudgetKept == Spec => []AttemptBudget
<1>1. IInv => AttemptBudget
  BY DEF IInv, BudgetInv, AttemptBudget
<1> QED BY <1>1, Invariance, PTL

\* No failure, cancellation, review or request leaves a running attempt behind.
THEOREM NoneAbandoned == Spec => []NoOrphanAttempt
<1>1. IInv => NoOrphanAttempt
  <2> SUFFICES ASSUME IInv, crashes = 0, NEW x \in AttemptIds, AttemptAt(x).status = "running"
               PROVE  job \in Busy /\ x = <<at, Len(attempts[at])>>
    BY DEF NoOrphanAttempt
  <2>1. /\ x[1] \in Nodes /\ x[2] \in 1..Len(attempts[x[1]]) /\ x = <<x[1], x[2]>>
        /\ attempts[x[1]][x[2]].status = "running"
    BY Listed DEF AttemptAt
  <2>2. job \in Busy /\ x[1] = at /\ x[2] = Len(attempts[x[1]])
    BY <2>1 DEF IInv, OrphanInv
  <2> QED BY <2>1, <2>2
<1> QED BY <1>1, Invariance, PTL

\* Whatever is requested, retried, restarted or raised, work in flight shows in the rows
\* and in what the API derives from them, but for a run that had ended once and is asked
\* to cancel; without a restart a run shown waiting waits, or its refund raised.
THEOREM WorkShown == Spec => []WorkIsVisible
<1>1. IInv /\ OrderInv => WorkIsVisible
  <2> SUFFICES ASSUME IInv, OrderInv PROVE WorkIsVisible
    OBVIOUS
  <2>1. ASSUME job \in Busy
        PROVE  /\ status = "running" /\ node[at] = "running" /\ Last(at).status = "running"
               /\ \/ ShownStatus \in {"running", "waiting_for_review"}
                  \/ ShownStatus = "cancelled" /\ control = "cancel_requested" /\ ended
    BY <2>1, InFlight DEF ShownStatus
  <2>2. ASSUME job = "waiting", Last(at).decision = "none"
        PROVE  ShownStatus = "waiting_for_review" /\ ShownNode(at) = "waiting_for_review"
    <3>1. Last(at).pending
      BY <2>2 DEF IInv, WorkInv
    <3>2. /\ at \in Nodes /\ Len(attempts[at]) \in Nat \ {0} /\ status = "running" /\ node[at] = "running"
          /\ attempts[at] # <<>>
      BY <2>2, InFlight DEF Busy
    <3>3. Len(attempts[at]) \in 1..Len(attempts[at])
      BY <3>2
    <3>4. <<at, Len(attempts[at])>> \in AttemptIds /\ AttemptAt(<<at, Len(attempts[at])>>) = Last(at)
      BY <3>2, <3>3, Listed DEF Last
    <3> QED BY <3>1, <3>2, <3>4 DEF ShownStatus, ShownNode, ShownAttempt
  <2>3. ASSUME crashes = 0, ShownStatus = "waiting_for_review"
        PROVE  \/ job \in {"waiting", "settling"}
               \/ \E x \in AttemptIds : /\ AttemptAt(x).status = "failed" /\ AttemptAt(x).pending
                                      /\ AttemptAt(x).decision = "none"
    <3>1. PICK x \in AttemptIds : AttemptAt(x).pending
      <4>1. status # "waiting_for_review"
        BY DEF IInv, RowTypes, Terminal
      <4>2. \E x \in AttemptIds : ShownAttempt(AttemptAt(x)) = "waiting_for_review"
        BY <2>3, <4>1 DEF ShownStatus
      <4>3. PICK x \in AttemptIds : ShownAttempt(AttemptAt(x)) = "waiting_for_review"
        BY <4>2
      <4>4. AttemptAt(x) \in Attempt
        BY Listed, AttemptTypes DEF AttemptAt, IInv
      <4> QED BY <4>3, <4>4 DEF ShownAttempt, Attempt
    <3>2. x[1] \in Nodes /\ x[2] \in 1..Len(attempts[x[1]]) /\ attempts[x[1]][x[2]].pending
      BY <3>1, Listed DEF AttemptAt
    <3>3. attempts[x[1]][x[2]].decision = "none"
      BY <3>2 DEF OrderInv, Decided
    <3>4. job \in {"waiting", "settling"} \/ attempts[x[1]][x[2]].status = "failed"
      BY <2>3, <3>2 DEF IInv, OrphanInv
    <3> QED BY <3>2, <3>3, <3>4 DEF AttemptAt
  <2> QED BY <2>1, <2>2, <2>3 DEF WorkIsVisible
<1> QED BY <1>1, OrderInvariance, PTL

-----------------------------------------------------------------------------
(* The chain, where the policy allows more than one attempt and nothing goes  *)
(* to review.                                                                 *)

LEMMA InitChain == Init => ChainInv
  BY DEF Init, ChainInv, TriedInOrder, JobInv, CompletedIsWhole, FailedIsExplained

\* A step that leaves the nodes, and takes back no cancellation.
LEMMA NodesKept ==
    ASSUME ChainInv, UNCHANGED node, control = "cancelled" => control' = "cancelled",
           JobInv', status' \in {"completed", "failed"} => status' = status
    PROVE  ChainInv'
<1>1. \A n \in Nodes : Before(n)' <=> Before(n)
  BY DEF Before
<1>2. TriedInOrder'
  BY <1>1 DEF ChainInv, TriedInOrder
<1>3. CompletedIsWhole' /\ FailedIsExplained'
  BY DEF ChainInv, CompletedIsWhole, FailedIsExplained
<1> QED BY <1>2, <1>3 DEF ChainInv

\* Cancelling what is pending or blocked hides no node that was tried.
LEMMA NodesCancelled ==
    ASSUME IInv, ChainInv, node' = CancelledNodes, status' = "cancelled", control' = "cancelled", JobInv'
    PROVE  ChainInv'
<1>1. \A n \in Nodes : /\ node[n] = "completed" => node'[n] = "completed"
                       /\ node'[n] \in {"running", "completed", "failed"} => node'[n] = node[n]
  BY DEF CancelledNodes
<1>2. \A n \in Nodes : Before(n) => Before(n)'
  BY <1>1, Earlier DEF Before
<1>3. TriedInOrder'
  BY <1>1, <1>2 DEF ChainInv, TriedInOrder
<1> QED BY <1>3 DEF ChainInv, CompletedIsWhole, FailedIsExplained

LEMMA EnterRunChain == IInv /\ ChainInv /\ EnterRun => ChainInv'
<1> SUFFICES ASSUME IInv, ChainInv, EnterRun PROVE ChainInv'
  OBVIOUS
<1>1. job \in {"scheduled", "held"} /\ control \in {"active"} \cup Pausing \cup Cancelling
  BY DEF EnterRun, IInv, RowTypes
<1>2. CASE control = "active"
  <2>1. /\ job' = "graph" /\ at' = 1 /\ UNCHANGED <<control, node>>
        /\ status' = status \/ status' = "running"
    BY <1>2 DEF EnterRun, Pausing, Cancelling
  <2>2. JobInv'
    BY <1>2, <2>1 DEF JobInv, Before
  <2> QED BY <1>2, <2>1, <2>2, NodesKept
<1>3. CASE control \in Pausing
  <2>1. /\ job' = "held" /\ UNCHANGED node /\ control' # "cancelled"
        /\ status' = status \/ status' = "paused"
    BY <1>3 DEF EnterRun, MarkPaused, Pausing, Cancelling
  <2>2. JobInv'
    BY <2>1 DEF JobInv
  <2> QED BY <1>3, <2>1, <2>2, NodesKept DEF Pausing
<1>4. CASE control \in Cancelling
  <2>1. status' = "cancelled" /\ control' = "cancelled" /\ node' = CancelledNodes /\ job' = "none"
    BY <1>4 DEF EnterRun, MarkCancelled, EndJob, Pausing, Cancelling
  <2>2. JobInv'
    BY <2>1 DEF JobInv, Terminal
  <2> QED BY <2>1, <2>2, NodesCancelled
<1> QED BY <1>1, <1>2, <1>3, <1>4

LEMMA PassNodeChain == IInv /\ ChainInv /\ PassNode => ChainInv'
<1> SUFFICES ASSUME IInv, ChainInv, PassNode PROVE ChainInv'
  OBVIOUS
<1>1. /\ job = "graph" /\ at \in Nodes /\ at \in Nat /\ UNCHANGED <<status, control, node>>
      /\ \/ node[at] = "completed" /\ at' = at + 1 /\ job' = "graph"
         \/ job' = "cancelling"
  BY DEF PassNode, rowVars, IInv, Counts
<1>2. Before(at)
  BY <1>1 DEF ChainInv, JobInv
<1>3. job' = "graph" => Before(at)'
  BY <1>1, <1>2, Bounds DEF Before, Nodes
<1>4. JobInv'
  BY <1>1, <1>3 DEF ChainInv, JobInv
<1> QED BY <1>1, <1>4, NodesKept

LEMMA EnterNodeChain == IInv /\ ChainInv /\ EnterNode => ChainInv'
<1> SUFFICES ASSUME IInv, ChainInv, EnterNode PROVE ChainInv'
  OBVIOUS
<1>1. /\ at \in Nodes /\ at \in Nat /\ job \in {"graph", "node_held"} /\ at' = at
      /\ node[at] # "completed" /\ Before(at)
      /\ control \in {"active"} \cup Pausing \cup Cancelling
  BY DEF EnterNode, IInv, AtInv, RowTypes, Counts, ChainInv, JobInv
<1>2. CASE control = "active"
  <2>1. node' = [node EXCEPT ![at] = "running"] /\ status' = "running" /\ job' = "working" /\ control' = "active"
    BY <1>2 DEF EnterNode, Pausing, Cancelling
  <2>2. /\ node'[at] = "running"
        /\ \A n \in Nodes : n # at => node'[n] = node[n]
    BY <1>1, <2>1 DEF IInv, RowTypes
  <2>3. ASSUME NEW n \in Nodes, Before(n) PROVE Before(n)'
    <3>1. ASSUME NEW k \in 1..(n - 1) PROVE k \in Nodes /\ k # at
      BY <1>1, <2>3, Bounds DEF Before, Nodes
    <3> QED BY <2>2, <2>3, <3>1 DEF Before
  <2>4. TriedInOrder'
    BY <1>1, <1>2, <2>1, <2>2, <2>3 DEF ChainInv, TriedInOrder
  <2>5. JobInv'
    BY <2>1 DEF JobInv
  <2> QED BY <2>1, <2>4, <2>5 DEF ChainInv, CompletedIsWhole, FailedIsExplained
<1>3. CASE control \in Pausing
  <2>1. /\ job' = "node_held" /\ UNCHANGED node /\ control' # "cancelled"
        /\ status' = status \/ status' = "paused"
    BY <1>3 DEF EnterNode, MarkPaused, Pausing, Cancelling
  <2>2. Before(at)'
    BY <1>1, <2>1 DEF Before
  <2>3. JobInv'
    BY <1>1, <2>1, <2>2 DEF JobInv
  <2> QED BY <1>3, <2>1, <2>3, NodesKept DEF Pausing
<1>4. CASE control \in Cancelling
  <2>1. job' = "cancelling" /\ UNCHANGED <<status, control, node>>
    BY <1>4 DEF EnterNode, rowVars, Pausing, Cancelling
  <2>2. JobInv'
    BY <2>1 DEF ChainInv, JobInv
  <2> QED BY <2>1, <2>2, NodesKept
<1> QED BY <1>1, <1>2, <1>3, <1>4

\* The node of a microtask takes its outcome.
LEMMA NodeOutcome ==
    ASSUME IInv, ChainInv, job = "working", NEW o \in {"completed", "failed", "cancelled"},
           node' = [node EXCEPT ![at] = o], UNCHANGED <<status, control>>, JobInv'
    PROVE  ChainInv'
<1>1. at \in Nodes /\ node[at] = "running" /\ status = "running" /\ control # "cancelled"
  BY InFlight DEF Busy
<1>2. Before(at)
  BY <1>1 DEF ChainInv, TriedInOrder
<1>3. node'[at] = o /\ \A n \in Nodes : n # at => node'[n] = node[n]
  BY <1>1 DEF IInv, RowTypes
<1>4. ASSUME NEW n \in Nodes, Before(n) PROVE Before(n)'
  <2>1. ASSUME NEW k \in 1..(n - 1) PROVE k \in Nodes /\ k # at
    BY <1>1, <1>4, Bounds DEF Before, Nodes
  <2> QED BY <1>3, <1>4, <2>1 DEF Before
<1>5. TriedInOrder'
  BY <1>1, <1>2, <1>3, <1>4 DEF ChainInv, TriedInOrder
<1> QED BY <1>1, <1>5 DEF ChainInv, CompletedIsWhole, FailedIsExplained

LEMMA MicrotaskChain ==
    IInv /\ ChainInv /\ (MicrotaskPasses \/ MicrotaskFails \/ MicrotaskReportsCancel) => ChainInv'
<1> SUFFICES ASSUME IInv, ChainInv, MicrotaskPasses \/ MicrotaskFails \/ MicrotaskReportsCancel
             PROVE  ChainInv'
  OBVIOUS
<1>1. /\ job = "working" /\ at \in Nodes /\ at \in Nat /\ node[at] = "running" /\ status = "running"
      /\ control # "cancelled" /\ control' = control
  BY InFlight DEF MicrotaskPasses, MicrotaskFails, MicrotaskReportsCancel, Busy
<1>2. Before(at)
  BY <1>1 DEF ChainInv, TriedInOrder
<1>3. CASE MicrotaskPasses
  <2>1. node' = [node EXCEPT ![at] = "completed"] /\ job' = "graph" /\ at' = at + 1 /\ status' = status
    BY <1>3 DEF MicrotaskPasses
  <2>2. Before(at)'
    <3>1. node'[at] = "completed" /\ \A n \in Nodes : n # at => node'[n] = node[n]
      BY <1>1, <2>1 DEF IInv, RowTypes
    <3> QED BY <1>1, <1>2, <2>1, <3>1, Bounds DEF Before, Nodes
  <2>3. JobInv'
    BY <1>1, <2>1, <2>2 DEF JobInv
  <2> QED BY <1>1, <2>1, <2>3, NodeOutcome
<1>4. CASE MicrotaskReportsCancel
  <2>1. node' = [node EXCEPT ![at] = "cancelled"] /\ job' = "cancelling" /\ status' = status
    BY <1>4 DEF MicrotaskReportsCancel
  <2>2. JobInv'
    BY <1>1, <2>1 DEF JobInv
  <2> QED BY <1>1, <2>1, <2>2, NodeOutcome
<1>5. CASE MicrotaskFails
  <2>1. CASE node' = [node EXCEPT ![at] = "failed"] /\ job' = "failing" /\ status' = status /\ at' = at
    <3>1. JobInv'
      BY <1>1, <2>1 DEF JobInv, IInv, RowTypes
    <3> QED BY <1>1, <2>1, <3>1, NodeOutcome
  <2>2. CASE node' = node /\ job' = "working" /\ status' = "running"
    <3>1. JobInv'
      BY <1>1, <2>2 DEF JobInv
    <3> QED BY <1>1, <2>2, <3>1, NodesKept
  <2> QED BY <1>1, <1>5, <2>1, <2>2 DEF MicrotaskFails
<1> QED BY <1>3, <1>4, <1>5

\* The graph returns after the last node, so a completed run is whole; it fails at one
\* node, behind which everything still pending is blocked.
LEMMA EndChain == IInv /\ ChainInv /\ (Complete \/ StopCancelled \/ StopFailed) => ChainInv'
<1> SUFFICES ASSUME IInv, ChainInv, Complete \/ StopCancelled \/ StopFailed PROVE ChainInv'
  OBVIOUS
<1>1. job' = "none"
  BY DEF Complete, StopCancelled, StopFailed, EndJob
<1>2. CASE Complete
  <2>1. job = "graph" /\ at = Length + 1 /\ status' = "completed" /\ UNCHANGED <<control, node>>
    BY <1>2 DEF Complete
  <2>2. Before(Length + 1)
    BY <2>1 DEF ChainInv, JobInv
  <2>3. \A n \in Nodes : node[n] = "completed"
    BY <2>2, Bounds DEF Before, Nodes
  <2>4. \A n \in Nodes : Before(n)'
    BY <2>1, <2>3, Bounds DEF Before, Nodes
  <2>5. TriedInOrder'
    BY <2>4 DEF TriedInOrder
  <2>6. JobInv'
    BY <1>1, <2>1 DEF JobInv, Terminal
  <2> QED BY <2>1, <2>3, <2>5, <2>6 DEF ChainInv, CompletedIsWhole, FailedIsExplained
<1>3. CASE StopCancelled
  <2>1. status' = "cancelled" /\ control' = "cancelled" /\ node' = CancelledNodes
    BY <1>3 DEF StopCancelled, MarkCancelled
  <2>2. JobInv'
    BY <1>1, <2>1 DEF JobInv, Terminal
  <2> QED BY <2>1, <2>2, NodesCancelled
<1>4. CASE StopFailed
  <2>1. /\ job = "failing" /\ at \in Nodes /\ at \in Nat /\ node' = BlockedNodes /\ control' = control
        /\ status' = IF status = "cancelled" THEN status ELSE "failed"
    BY <1>4 DEF StopFailed, IInv, AtInv, Counts
  <2>2. node[at] = "failed" /\ Before(at) /\ (control = "cancelled" => status = "cancelled")
    BY <2>1 DEF ChainInv, JobInv, TriedInOrder, Terminal
  <2>3. /\ \A n \in Nodes : node[n] # "pending" => node'[n] = node[n]
        /\ \A n \in Nodes : node[n] = "pending" => node'[n] = "blocked"
        /\ \A n \in Nodes : node[n] \in {"pending", "running", "completed", "failed", "blocked", "cancelled"}
    BY <2>1 DEF BlockedNodes, IInv, RowTypes
  <2>4. \A n \in Nodes : Before(n) => Before(n)'
    BY <2>3, Earlier DEF Before
  <2>5. TriedInOrder'
    BY <2>1, <2>3, <2>4 DEF ChainInv, TriedInOrder
  <2>6. JobInv' /\ CompletedIsWhole'
    BY <1>1, <2>1, <2>2 DEF JobInv, CompletedIsWhole, Terminal
  <2>7. FailedIsExplained'
    <3>1. node'[at] = "failed" /\ \A m \in 1..(at - 1) : node'[m] = "completed"
      BY <2>1, <2>2, <2>3, Earlier DEF Before
    <3>2. ASSUME status' = "failed", NEW m \in (at + 1)..Length PROVE node'[m] = "blocked"
      <4>1. m \in Nodes /\ at \in 1..(m - 1)
        BY <2>1, Bounds DEF Nodes
      <4>2. ~Before(m)
        BY <2>2, <4>1 DEF Before
      <4>3. node[m] \notin {"running", "completed", "failed", "cancelled"}
        BY <2>1, <2>2, <3>2, <4>1, <4>2 DEF ChainInv, TriedInOrder
      <4> QED BY <2>3, <4>1, <4>3
    <3>3. status' = "failed" => /\ at \in Nodes /\ node'[at] = "failed"
                                /\ \A m \in 1..(at - 1) : node'[m] = "completed"
                                /\ \A m \in (at + 1)..Length : node'[m] = "blocked"
      BY <2>1, <3>1, <3>2
    <3> QED BY <3>3 DEF FailedIsExplained
  <2> QED BY <2>5, <2>6, <2>7 DEF ChainInv
<1> QED BY <1>2, <1>3, <1>4

\* A request: the rows of a run that has ended stay, except that a cancellation
\* accepted with nothing running is carried out at once.
LEMMA RequestChain ==
    IInv /\ ChainInv /\ (Routes \/ Crash) => ChainInv'
<1> SUFFICES ASSUME IInv, ChainInv, Routes \/ Crash PROVE ChainInv'
  OBVIOUS
<1>1. \A n \in Nodes : node' = node => (Before(n)' <=> Before(n))
  BY DEF Before
<1>2. at' = at /\ node' = node => (Before(at)' <=> Before(at))
  BY DEF Before
<1>3. control = "cancelled" => status \in Terminal
  BY DEF ChainInv, JobInv
<1>4. CASE Pause
  <2>1. /\ UNCHANGED <<job, at, node>> /\ status \notin Terminal
        /\ (control' = "pause_requested" /\ status' = status) \/ (control' = "paused" /\ status' = "paused")
    BY <1>4 DEF Pause, jobVars
  <2>2. JobInv'
    BY <1>2, <2>1 DEF ChainInv, JobInv, Terminal
  <2> QED BY <1>3, <2>1, <2>2, NodesKept DEF Terminal
<1>5. CASE Resume
  <2>1. /\ UNCHANGED <<at, node>> /\ (job' = job \/ job' = "scheduled")
        /\ \/ UNCHANGED <<status, control>>
           \/ status \notin Terminal /\ control' = "active" /\ status' \in {status, "running"}
    BY <1>5 DEF Resume, EnsureJob, jobVars
  <2>2. JobInv'
    BY <1>2, <2>1 DEF ChainInv, JobInv, Terminal
  <2> QED BY <1>3, <2>1, <2>2, NodesKept DEF Terminal
<1>6. CASE Cancel
  <2>1. /\ UNCHANGED <<job, at>> /\ status \notin Terminal
        /\ \/ control' = "cancelled" /\ status' = "cancelled" /\ node' = CancelledNodes
           \/ control' = "cancel_requested" /\ UNCHANGED <<status, node>>
    BY <1>6 DEF Cancel, MarkCancelled, jobVars
  <2>2. CASE node' = CancelledNodes /\ control' = "cancelled" /\ status' = "cancelled"
    <3>1. \A n \in Nodes : node[n] \in {"completed", "failed"} => node'[n] = node[n]
      BY <2>2 DEF CancelledNodes
    <3>2. \A n \in Nodes : node'[n] = "completed" => node[n] = "completed"
      BY <2>2 DEF CancelledNodes
    <3>3. job \in {"graph", "node_held"} => Before(at)'
      <4>1. ASSUME job \in {"graph", "node_held"} PROVE \A k \in 1..(at - 1) : k \in Nodes
        BY <4>1, Bounds DEF IInv, Counts, Nodes
      <4> QED BY <2>1, <3>1, <4>1 DEF ChainInv, JobInv, Before
    <3>4. job \in {"node_held", "failing"} => at \in Nodes
      BY DEF IInv, AtInv
    <3>5. JobInv'
      BY <2>1, <2>2, <3>1, <3>2, <3>3, <3>4 DEF ChainInv, JobInv, Terminal
    <3> QED BY <2>2, <3>5, NodesCancelled
  <2>3. CASE control' = "cancel_requested" /\ UNCHANGED <<status, node>>
    <3>1. JobInv'
      BY <1>2, <2>1, <2>3 DEF ChainInv, JobInv
    <3> QED BY <1>3, <2>1, <2>3, <3>1, NodesKept
  <2> QED BY <2>1, <2>2, <2>3
<1>7. CASE \E x \in AttemptIds : Approve(x) \/ Reject(x) \/ View(x)
  <2>1. UNCHANGED <<status, control, node, job, at>>
    BY <1>7 DEF Approve, Reject, View, jobVars
  <2>2. JobInv'
    BY <1>2, <2>1 DEF ChainInv, JobInv
  <2> QED BY <2>1, <2>2, NodesKept
<1>8. CASE Crash
  <2>1. UNCHANGED <<status, control, node>> /\ job' = "none"
    BY <1>8 DEF Crash, EndJob
  <2>2. JobInv'
    BY <1>3, <2>1 DEF JobInv
  <2> QED BY <2>1, <2>2, NodesKept
<1> QED BY <1>4, <1>5, <1>6, <1>7, <1>8 DEF Routes

LEMMA NextChain == MaxAttempts > 1 /\ IInv /\ ChainInv /\ [Next]_vars => ChainInv'
<1> SUFFICES ASSUME MaxAttempts > 1, IInv, ChainInv, [Next]_vars PROVE ChainInv'
  OBVIOUS
<1>1. ~AskHuman /\ ~ReadDecision /\ ~FinishReview /\ ~SettlementRaises
  BY Bounds DEF AskHuman, ReadDecision, FinishReview, SettlementRaises, ChainInv, JobInv
<1>2. CASE Executor
  BY <1>1, <1>2, EnterRunChain, PassNodeChain, EnterNodeChain, MicrotaskChain, EndChain DEF Executor
<1>3. CASE UNCHANGED vars
  <2>1. UNCHANGED <<status, control, node, job, at>>
    BY <1>3 DEF vars
  <2>2. JobInv'
    BY <2>1 DEF ChainInv, JobInv, Before
  <2> QED BY <2>1, <2>2, NodesKept
<1> QED BY <1>2, <1>3, RequestChain DEF Next

\* The policy's attempts are more than one exactly when no microtask asks a human.
LEMMA ChainInvariance == MaxAttempts > 1 => (Spec => [](IInv /\ ChainInv))
<1> SUFFICES ASSUME MaxAttempts > 1 PROVE Spec => [](IInv /\ ChainInv)
  OBVIOUS
<1>1. Init => ChainInv
  BY InitChain
<1>2. IInv /\ ChainInv /\ [Next]_vars => ChainInv'
  BY NextChain
<1> QED BY <1>1, <1>2, Invariance, PTL DEF Spec

\* Over retries, requests and restarts, a completed run is whole, a failed run is
\* explained by one node, and one node at a time is running.
THEOREM NodesExplain == MaxAttempts > 1 => (Spec => []NodesExplainStatus)
<1> SUFFICES ASSUME MaxAttempts > 1 PROVE Spec => []NodesExplainStatus
  OBVIOUS
<1>1. IInv /\ ChainInv => NodesExplainStatus
  <2> SUFFICES ASSUME ChainInv PROVE OneActiveNode
    BY DEF ChainInv, NodesExplainStatus
  <2> SUFFICES ASSUME NEW m \in Nodes, NEW n \in Nodes, node[m] = "running", node[n] = "running", m < n
               PROVE  FALSE
    BY Bounds DEF OneActiveNode, Nodes
  <2>1. Before(n) /\ m \in 1..(n - 1)
    BY Bounds DEF ChainInv, TriedInOrder, Nodes
  <2> QED BY <2>1 DEF Before
<1> QED BY <1>1, ChainInvariance, PTL

=============================================================================
