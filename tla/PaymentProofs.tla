----------------------------- MODULE PaymentProofs -----------------------------
(***************************************************************************)
(* Proofs about PaymentSettlement, for every set of payments, tasks, keys  *)
(* and callers and every number of approvals.                              *)
(***************************************************************************)
EXTENDS PaymentRefinement, TLAPS, FiniteSetTheorems

\* The local state of a coroutine: a call that has begun acts on an existing
\* payment and knows its task; what it read of a settled escrow is still true.
CallOK(k, tk, es) ==
    /\ k.pc = "insert" => k.task \in Tasks /\ k.key \in Keys
    /\ k.pc \in {"submit", "wait", "read", "commit"} =>
          /\ k.payment \in Payments /\ k.key \in Keys /\ k.action # "proposal"
          /\ tk[k.payment] # NoTask /\ k.task = tk[k.payment]
    /\ k.pc = "commit" /\ k.action # "authorize" /\ k.read \in {"released", "refunded"} =>
          es[k.task].state = k.read

CallInv == \A c \in Callers : CallOK(call[c], task, escrow)

\* Only existing payments have transitions.
RowInv == \A p \in Payments, a \in Actions, k \in Keys : trans[p][a][k] # "none" => Exists(p)

\* An escrow that is not settled has not reached the approval threshold.
EscrowInv == \A t \in Tasks : escrow[t].state \in {"none", "funded"} =>
                 escrow[t].release < ApprovalsRequired /\ escrow[t].refund < ApprovalsRequired

-----------------------------------------------------------------------------
(* Lemmas about the contract *)

\* An approval of a funded escrow keeps the type and the threshold.
LEMMA ApproveLemma ==
    ASSUME NEW e \in Escrows, NEW fn \in {"release", "refund"}, e.state = "funded",
           e.release < ApprovalsRequired, e.refund < ApprovalsRequired
    PROVE  /\ Approve(e, fn) \in Escrows
           /\ Approve(e, fn).state \in {"none", "funded"} =>
                Approve(e, fn).release < ApprovalsRequired /\ Approve(e, fn).refund < ApprovalsRequired
<1>1. /\ ApprovalsRequired \in Nat
      /\ e.release \in 0..ApprovalsRequired /\ e.refund \in 0..ApprovalsRequired
      /\ e.owner \in Payments \cup {NoPayment}
  BY PaymentAssumption DEF Escrows
<1>2. CASE fn = "release"
  <2> DEFINE n == e.release + 1
             s == IF n < ApprovalsRequired THEN e.state ELSE "released"
  <2>1. Approve(e, fn) = [e EXCEPT !.release = n, !.state = s]
    BY <1>2 DEF Approve, Outcome, Escrows
  <2>2. n \in 0..ApprovalsRequired /\ s \in EscrowStates
    BY <1>1 DEF EscrowStates
  <2>3. s \in {"none", "funded"} => n < ApprovalsRequired
    OBVIOUS
  <2>4. Approve(e, fn) = [state |-> s, release |-> n, refund |-> e.refund, owner |-> e.owner]
    BY <2>1, <1>1 DEF Escrows
  <2> HIDE DEF n, s
  <2> QED BY <1>1, <2>2, <2>3, <2>4 DEF Escrows
<1>3. CASE fn = "refund"
  <2> DEFINE n == e.refund + 1
             s == IF n < ApprovalsRequired THEN e.state ELSE "refunded"
  <2>1. Approve(e, fn) = [e EXCEPT !.refund = n, !.state = s]
    BY <1>3 DEF Approve, Outcome, Escrows
  <2>2. n \in 0..ApprovalsRequired /\ s \in EscrowStates
    BY <1>1 DEF EscrowStates
  <2>3. s \in {"none", "funded"} => n < ApprovalsRequired
    OBVIOUS
  <2>4. Approve(e, fn) = [state |-> s, refund |-> n, release |-> e.release, owner |-> e.owner]
    BY <2>1, <1>1 DEF Escrows
  <2> HIDE DEF n, s
  <2> QED BY <1>1, <2>2, <2>3, <2>4 DEF Escrows
<1> QED BY <1>2, <1>3

\* A mined call keeps the type and the threshold, and leaves a settled escrow alone.
LEMMA ApplyLemma ==
    ASSUME NEW e \in Escrows, NEW tx \in Transactions,
           e.state \in {"none", "funded"} =>
              e.release < ApprovalsRequired /\ e.refund < ApprovalsRequired
    PROVE  /\ Apply(e, tx) \in Escrows
           /\ Apply(e, tx).state \in {"none", "funded"} =>
                Apply(e, tx).release < ApprovalsRequired /\ Apply(e, tx).refund < ApprovalsRequired
           /\ e.state \in {"released", "refunded"} => Apply(e, tx) = e
<1>1. CASE tx.fn = "authorize" /\ e.state = "none"
  BY <1>1 DEF Apply, Escrows, EscrowStates, Transactions
<1>2. CASE tx.fn # "authorize" /\ e.state = "funded"
  <2>1. tx.fn \in {"release", "refund"}
    BY <1>2 DEF Transactions, Actions
  <2>2. Apply(e, tx) = Approve(e, tx.fn)
    BY <1>2 DEF Apply
  <2> QED BY <1>2, <2>1, <2>2, ApproveLemma
<1>3. CASE ~(tx.fn = "authorize" /\ e.state = "none") /\ ~(tx.fn # "authorize" /\ e.state = "funded")
  BY <1>3 DEF Apply
<1> QED BY <1>1, <1>2, <1>3

-----------------------------------------------------------------------------
(* Lemmas about the steps *)

\* The tasks of existing payments and the settled escrows do not change.
Stable == /\ \A p \in Payments : task[p] # NoTask => task'[p] = task[p]
          /\ \A t \in Tasks : escrow[t].state \in {"released", "refunded"} =>
                                  escrow'[t].state = escrow[t].state

\* What a call knows stays true while the tasks and settled escrows are stable.
LEMMA CallFrame ==
    ASSUME NEW k \in CallStates,
           NEW tk \in [Payments -> Tasks \cup {NoTask}], NEW tk2 \in [Payments -> Tasks \cup {NoTask}],
           NEW es \in [Tasks -> Escrows], NEW es2 \in [Tasks -> Escrows],
           \A p \in Payments : tk[p] # NoTask => tk2[p] = tk[p],
           \A t \in Tasks : es[t].state \in {"released", "refunded"} => es2[t].state = es[t].state,
           CallOK(k, tk, es)
    PROVE  CallOK(k, tk2, es2)
<1>1. CASE k.pc \in {"submit", "wait", "read", "commit"}
  <2>1. k.payment \in Payments /\ tk2[k.payment] = tk[k.payment] /\ k.task \in Tasks
    BY <1>1 DEF CallOK
  <2> QED BY <1>1, <2>1 DEF CallOK
<1>2. CASE k.pc \in {"idle", "insert"}
  BY <1>2 DEF CallOK
<1> QED BY <1>1, <1>2 DEF CallStates

\* A step that moves one coroutine to a well-formed state keeps CallInv.
LEMMA CallStep ==
    ASSUME TypeOK, CallInv, Stable, NEW c \in Callers, NEW k \in CallStates,
           task' \in [Payments -> Tasks \cup {NoTask}], escrow' \in [Tasks -> Escrows],
           call' = [call EXCEPT ![c] = k], CallOK(k, task', escrow')
    PROVE  call' \in [Callers -> CallStates] /\ CallInv'
<1>1. call \in [Callers -> CallStates] /\ task \in [Payments -> Tasks \cup {NoTask}]
      /\ escrow \in [Tasks -> Escrows]
  BY DEF TypeOK
<1>2. call' \in [Callers -> CallStates]
  BY <1>1
<1>3. ASSUME NEW d \in Callers PROVE CallOK(call'[d], task', escrow')
  <2>1. CASE d = c
    BY <2>1, <1>1
  <2>2. CASE d # c
    <3>1. call'[d] = call[d] /\ call[d] \in CallStates /\ CallOK(call[d], task, escrow)
      BY <2>2, <1>1 DEF CallInv
    <3> QED BY <3>1, <1>1, CallFrame DEF Stable
  <2> QED BY <2>1, <2>2
<1> QED BY <1>2, <1>3 DEF CallInv

\* A caller that returns is idle.
LEMMA ReturnStep ==
    ASSUME TypeOK, CallInv, Stable, NEW c \in Callers,
           task' \in [Payments -> Tasks \cup {NoTask}], escrow' \in [Tasks -> Escrows], Return(c)
    PROVE  call' \in [Callers -> CallStates] /\ CallInv'
<1>1. Idle \in CallStates /\ CallOK(Idle, task', escrow')
  BY DEF Idle, CallStates, CallOK, Actions, Statuses, EscrowStates
<1> QED BY <1>1, CallStep DEF Return


TransType == [Payments -> [Actions -> [Keys -> {"none", "completed", "failed"}]]]

\* Recording a transition changes the row of its payment, action and key only.
LEMMA RecordLemma ==
    ASSUME trans \in TransType, NEW p \in Payments, NEW a \in Actions, NEW k \in Keys,
           NEW s \in {"completed", "failed"}, Record(p, a, k, s)
    PROVE  /\ trans' \in TransType
           /\ trans'[p][a][k] = s
           /\ \A q \in Payments, b \in Actions, l \in Keys :
                q # p \/ b # a \/ l # k => trans'[q][b][l] = trans[q][b][l]
  BY DEF Record, TransType

\* What holds of the tables, whatever the coroutines do.
TablesInv == RowInv /\ DatabaseAgreesWithChain /\ SettledIsAnnounced /\ OnePaymentPerProposalKey

TablesType == /\ task \in [Payments -> Tasks \cup {NoTask}] /\ status \in [Payments -> Statuses]
              /\ trans \in TransType /\ notified \in [Payments -> [{"release", "refund"} -> Nat]]

\* A step that leaves the tables and the settled escrows alone.
LEMMA TablesFrame ==
    ASSUME TypeOK, TablesInv, Stable, UNCHANGED dbVars
    PROVE  TablesInv' /\ TablesType'
<1>1. TablesType /\ task' = task /\ status' = status /\ trans' = trans /\ notified' = notified
  BY DEF TypeOK, TablesType, TransType, dbVars
<1>2. TablesType'
  BY <1>1 DEF TablesType
<1>3. RowInv' /\ SettledIsAnnounced' /\ OnePaymentPerProposalKey'
  BY <1>1 DEF TablesInv, RowInv, SettledIsAnnounced, OnePaymentPerProposalKey, Exists
<1>4. DatabaseAgreesWithChain'
  BY <1>1 DEF TablesInv, DatabaseAgreesWithChain, Exists, Stable, TablesType
<1> QED BY <1>2, <1>3, <1>4 DEF TablesInv

\* Recording the row of an action other than proposal keeps the key invariants.
LEMMA RecordStep ==
    ASSUME TypeOK, TablesInv, NEW p \in Payments, NEW a \in Actions \ {"proposal"}, NEW k \in Keys,
           NEW s \in {"completed", "failed"}, Exists(p), Record(p, a, k, s), UNCHANGED task
    PROVE  trans' \in TransType /\ RowInv' /\ OnePaymentPerProposalKey'
<1>1. trans \in TransType /\ p \in Payments /\ a \in Actions
  BY DEF TypeOK, TransType
<1>2. /\ trans' \in TransType
      /\ \A q \in Payments, b \in Actions, l \in Keys :
           q # p \/ b # a \/ l # k => trans'[q][b][l] = trans[q][b][l]
  BY <1>1, RecordLemma
<1>3. RowInv'
  BY <1>2 DEF TablesInv, RowInv, Exists
<1>4. \A q \in Payments, l \in Keys : trans'[q]["proposal"][l] = trans[q]["proposal"][l]
  BY <1>2 DEF Actions
<1>5. OnePaymentPerProposalKey'
  BY <1>4 DEF TablesInv, OnePaymentPerProposalKey, Exists
<1> QED BY <1>2, <1>3, <1>5

\* The exception handler keeps the tables' invariants.
LEMMA FailStep ==
    ASSUME TypeOK, TablesInv, NEW p \in Payments, NEW a \in Actions \ {"proposal"}, NEW k \in Keys,
           Exists(p), RecordFailed(p, a, k), UNCHANGED escrow
    PROVE  TablesInv' /\ TablesType' /\ Stable
<1>1. task' = task /\ status' = status /\ notified' = notified
  BY DEF RecordFailed
<1>2. Stable
  BY <1>1 DEF Stable
<1>3. CASE UNCHANGED trans
  BY <1>1, <1>2, <1>3, TablesFrame DEF dbVars
<1>4. CASE Record(p, a, k, "failed")
  <2>1. trans' \in TransType /\ RowInv' /\ OnePaymentPerProposalKey'
    BY <1>1, <1>4, RecordStep
  <2>2. DatabaseAgreesWithChain' /\ SettledIsAnnounced'
    BY <1>1 DEF TablesInv, DatabaseAgreesWithChain, SettledIsAnnounced, Exists
  <2>3. TablesType'
    BY <1>1, <2>1 DEF TypeOK, TablesType
  <2> QED BY <1>2, <2>1, <2>2, <2>3 DEF TablesInv
<1> QED BY <1>3, <1>4 DEF RecordFailed

\* The commit of a call keeps them if a settled status it writes is the escrow's.
LEMMA PersistStep ==
    ASSUME TypeOK, TablesInv, NEW p \in Payments, NEW a \in Actions \ {"proposal"}, NEW k \in Keys,
           NEW seen \in Statuses, NEW new \in Statuses, Exists(p),
           a = "authorize" => new = "authorized",
           ~Offline /\ new = "completed" => escrow[task[p]].state = "released",
           ~Offline /\ new = "refunded" => escrow[task[p]].state = "refunded",
           Persist(p, a, k, seen, new), UNCHANGED escrow
    PROVE  TablesInv' /\ TablesType' /\ Stable
<1>1. /\ task' = task /\ escrow' = escrow /\ Record(p, a, k, "completed")
      /\ status \in [Payments -> Statuses] /\ notified \in [Payments -> [{"release", "refund"} -> Nat]]
  BY DEF Persist, TypeOK
<1>2. trans' \in TransType /\ RowInv' /\ OnePaymentPerProposalKey'
  BY <1>1, RecordStep
<1>3. /\ status' \in [Payments -> Statuses]
      /\ \A q \in Payments : status'[q] = status[q] \/ (q = p /\ status'[q] = new)
  BY <1>1 DEF Persist
<1>4. DatabaseAgreesWithChain'
  BY <1>1, <1>3 DEF TablesInv, DatabaseAgreesWithChain, Exists
<1>5. CASE a = "authorize"
  <2>1. notified' = notified /\ new = "authorized"
    BY <1>5 DEF Persist
  <2>2. SettledIsAnnounced'
    BY <1>3, <2>1 DEF TablesInv, SettledIsAnnounced
  <2> QED BY <1>1, <1>2, <1>3, <1>4, <2>1, <2>2 DEF TablesInv, TablesType, Stable, TypeOK
<1>6. CASE a # "authorize"
  <2>1. a \in {"release", "refund"} /\ notified' = [notified EXCEPT ![p][a] = @ + 1]
    BY <1>6 DEF Persist, Actions
  <2>2. /\ notified' \in [Payments -> [{"release", "refund"} -> Nat]]
        /\ notified'[p]["release"] + notified'[p]["refund"] > 0
        /\ \A q \in Payments \ {p} : notified'[q] = notified[q]
    <3>1. CASE a = "release"
      BY <1>1, <2>1, <3>1
    <3>2. CASE a = "refund"
      BY <1>1, <2>1, <3>2
    <3> QED BY <2>1, <3>1, <3>2
  <2>3. SettledIsAnnounced'
    BY <1>3, <2>2 DEF TablesInv, SettledIsAnnounced
  <2> QED BY <1>1, <1>2, <1>3, <1>4, <2>2, <2>3 DEF TablesInv, TablesType, Stable, TypeOK
<1> QED BY <1>5, <1>6


-----------------------------------------------------------------------------
(* The inductive invariant *)

IInv == TypeOK /\ CallInv /\ EscrowInv /\ TablesInv

\* The parts of IInv, put together again after a step.
LEMMA Assemble ==
    ASSUME TablesType', call' \in [Callers -> CallStates], CallInv', TablesInv', EscrowInv',
           begun' \in 0..MaxCalls,
           escrow' \in [Tasks -> Escrows], mempool' \in SUBSET Transactions
    PROVE  IInv'
  BY DEF IInv, TypeOK, TablesType, TransType

LEMMA InitInv == Init => IInv
<1> SUFFICES ASSUME Init PROVE IInv
  OBVIOUS
<1>1. ApprovalsRequired \in Nat \ {0} /\ MaxCalls \in Nat
  BY PaymentAssumption
<1>2. Idle \in CallStates /\ Idle.pc = "idle"
  BY DEF Idle, CallStates, Actions, Statuses, EscrowStates
<1>3. TypeOK
  BY <1>1, <1>2 DEF Init, TypeOK, Statuses, Escrows, EscrowStates
<1>4. CallInv
  BY <1>2 DEF Init, CallInv, CallOK
<1>5. EscrowInv
  BY <1>1 DEF Init, EscrowInv
<1>6. TablesInv
  BY DEF Init, TablesInv, RowInv, DatabaseAgreesWithChain, SettledIsAnnounced,
         OnePaymentPerProposalKey, Exists
<1> QED BY <1>3, <1>4, <1>5, <1>6 DEF IInv

\* One more call begun stays within the bound.
LEMMA BegunLemma ==
    ASSUME TypeOK, begun < MaxCalls, begun' = begun + 1
    PROVE  begun' \in 0..MaxCalls
  BY PaymentAssumption DEF TypeOK

LEMMA NextInv == IInv /\ [Next]_vars => IInv'
<1> SUFFICES ASSUME IInv, [Next]_vars PROVE IInv'
  OBVIOUS
<1>1. /\ TypeOK /\ CallInv /\ EscrowInv /\ TablesInv
      /\ TablesType /\ call \in [Callers -> CallStates]
      /\ escrow \in [Tasks -> Escrows] /\ mempool \in SUBSET Transactions /\ begun \in 0..MaxCalls
  BY DEF IInv, TypeOK, TablesType, TransType
<1> USE <1>1
<1>2. ASSUME UNCHANGED <<dbVars, chainVars>>
      PROVE  /\ Stable /\ TablesType' /\ TablesInv' /\ EscrowInv'
             /\ task' \in [Payments -> Tasks \cup {NoTask}] /\ escrow' \in [Tasks -> Escrows]
             /\ mempool' \in SUBSET Transactions
  <2>1. Stable
    BY <1>2 DEF Stable, dbVars, chainVars
  <2>2. TablesType' /\ TablesInv'
    BY <1>2, <2>1, TablesFrame
  <2> QED BY <1>2, <2>1, <2>2 DEF EscrowInv, chainVars, TablesType
<1>3. ASSUME NEW c \in Callers, NEW r \in Requests, ProposeLookup(c, r) PROVE IInv'
  <2>1. UNCHANGED <<dbVars, chainVars>> /\ begun' \in 0..MaxCalls /\ r.action = "proposal"
    BY <1>3, BegunLemma DEF ProposeLookup
  <2>2. CASE Return(c)
    BY <1>2, <2>1, <2>2, ReturnStep, Assemble
  <2>3. CASE call' = [call EXCEPT ![c] = [Idle EXCEPT !.pc = "insert", !.task = r.task, !.key = r.key]]
    <3> DEFINE k == [Idle EXCEPT !.pc = "insert", !.task = r.task, !.key = r.key]
    <3>1. r.task \in Tasks /\ r.key \in Keys
      BY <2>1, PaymentAssumption DEF Request
    <3>2. k \in CallStates /\ CallOK(k, task', escrow')
      BY <3>1 DEF Idle, CallStates, CallOK, Actions, Statuses, EscrowStates
    <3>3. call' \in [Callers -> CallStates] /\ CallInv'
      BY <1>2, <2>1, <2>3, <3>2, CallStep
    <3> QED BY <1>2, <2>1, <2>3, <3>3, Assemble
  <2> QED BY <1>3, <2>2, <2>3 DEF ProposeLookup
<1>4. ASSUME NEW c \in Callers, ProposeInsert(c) PROVE IInv'
  <2>1. call[c].pc = "insert" /\ UNCHANGED <<chainVars, begun>> /\ Return(c)
    BY <1>4 DEF ProposeInsert
  <2>2. call[c].task \in Tasks /\ call[c].key \in Keys
    BY <2>1 DEF CallInv, CallOK
  <2>3. CASE UNCHANGED dbVars
    BY <1>2, <2>1, <2>3, ReturnStep, Assemble DEF chainVars
  <2>4. CASE ~ UNCHANGED dbVars
    <3>1. PICK p \in Payments :
             /\ ~Exists(p) /\ ~TaskKeyTaken(NoPayment, call[c].task, "proposal", call[c].key)
             /\ task' = [task EXCEPT ![p] = call[c].task]
             /\ Record(p, "proposal", call[c].key, "completed")
             /\ UNCHANGED <<status, notified>>
      BY <1>4, <2>4 DEF ProposeInsert
    <3>2. /\ task' \in [Payments -> Tasks \cup {NoTask}]
          /\ task'[p] = call[c].task /\ task'[p] # NoTask
          /\ \A q \in Payments \ {p} : task'[q] = task[q]
      BY <2>2, <3>1, PaymentAssumption DEF TablesType
    <3>3. Stable
      BY <2>1, <3>1, <3>2 DEF Stable, chainVars, Exists
    <3>4. /\ trans' \in TransType
          /\ \A q \in Payments, b \in Actions, l \in Keys :
               q # p \/ b # "proposal" \/ l # call[c].key => trans'[q][b][l] = trans[q][b][l]
      BY <2>2, <3>1, RecordLemma DEF TablesType, Actions
    <3>5. RowInv'
      BY <3>2, <3>4 DEF TablesInv, RowInv, Exists
    <3>6. DatabaseAgreesWithChain' /\ SettledIsAnnounced'
      BY <2>1, <3>1, <3>2 DEF TablesInv, DatabaseAgreesWithChain, SettledIsAnnounced, Exists, chainVars
    <3>7. OnePaymentPerProposalKey'
      <4> SUFFICES ASSUME NEW x \in Payments, NEW y \in Payments, NEW l \in Keys, x # y,
                          task'[x] # NoTask, task'[x] = task'[y],
                          trans'[x]["proposal"][l] # "none", trans'[y]["proposal"][l] # "none"
                   PROVE  FALSE
        BY DEF OnePaymentPerProposalKey, Exists
      <4>1. "proposal" \in Actions
        BY DEF Actions
      <4>2. CASE x # p /\ y # p
        BY <3>2, <3>4, <4>1, <4>2 DEF TablesInv, OnePaymentPerProposalKey, Exists
      <4>3. ASSUME NEW q \in Payments \ {p}, task'[q] = task'[p], trans'[q]["proposal"][l] # "none",
                   trans'[p]["proposal"][l] # "none"
            PROVE  FALSE
        <5>1. task[q] = call[c].task /\ trans[q]["proposal"][l] # "none"
          BY <3>2, <3>4, <4>1, <4>3
        <5>2. l # call[c].key
          BY <3>1, <5>1, PaymentAssumption DEF TaskKeyTaken
        <5>3. trans[p]["proposal"][l] # "none"
          BY <3>4, <4>1, <4>3, <5>2
        <5> QED BY <3>1, <4>1, <5>3 DEF TablesInv, RowInv
      <4> QED BY <4>2, <4>3
    <3>8. TablesInv' /\ TablesType'
      BY <3>1, <3>2, <3>4, <3>5, <3>6, <3>7 DEF TablesInv, TablesType
    <3>9. EscrowInv' /\ escrow' \in [Tasks -> Escrows] /\ mempool' \in SUBSET Transactions
          /\ begun' \in 0..MaxCalls
      BY <2>1 DEF EscrowInv, chainVars
    <3> QED BY <2>1, <3>2, <3>3, <3>8, <3>9, ReturnStep, Assemble
  <2> QED BY <2>3, <2>4
<1>5. ASSUME NEW c \in Callers, NEW r \in Requests, Begin(c, r)
      PROVE  /\ r.payment \in Payments /\ r.key \in Keys /\ r.action \in Actions \ {"proposal"}
             /\ Exists(r.payment) /\ task[r.payment] \in Tasks
             /\ begun' \in 0..MaxCalls /\ UNCHANGED chainVars
  <2>1. r.action # "proposal" /\ r \in Request
    BY <1>5, PaymentAssumption DEF Begin
  <2>2. r.payment \in Payments /\ r.key \in Keys /\ r.action \in Actions \ {"proposal"}
    BY <2>1 DEF Request
  <2> QED BY <1>5, <2>2, BegunLemma DEF Begin, Exists, TablesType
<1>6. ASSUME NEW c \in Callers, NEW r \in Requests, Replay(c, r) PROVE IInv'
  BY <1>2, <1>5, <1>6, ReturnStep, Assemble DEF Replay
<1>7. ASSUME TablesInv', TablesType', Stable, UNCHANGED chainVars, begun' \in 0..MaxCalls,
             NEW c \in Callers, Return(c)
      PROVE  IInv'
  <2>1. /\ EscrowInv' /\ escrow' \in [Tasks -> Escrows] /\ mempool' \in SUBSET Transactions
        /\ task' \in [Payments -> Tasks \cup {NoTask}]
    BY <1>7 DEF EscrowInv, chainVars, TablesType
  <2> QED BY <1>7, <2>1, ReturnStep, Assemble
<1>8. ASSUME NEW c \in Callers, NEW r \in Requests, Refuse(c, r) PROVE IInv'
  <2>1. Begin(c, r) /\ RecordFailed(r.payment, r.action, r.key) /\ Return(c)
    BY <1>8 DEF Refuse
  <2>2. TablesInv' /\ TablesType' /\ Stable
    BY <1>5, <2>1, FailStep DEF chainVars
  <2> QED BY <1>5, <1>7, <2>1, <2>2
<1>9. ASSUME NEW c \in Callers, NEW r \in Requests, SettleOffline(c, r) PROVE IInv'
  <2>1. Begin(c, r) /\ Offline
    BY <1>9 DEF SettleOffline
  <2>2. CASE UNCHANGED dbVars /\ Return(c)
    BY <1>2, <1>5, <1>7, <2>1, <2>2
  <2>3. CASE Return(c) /\ Persist(r.payment, r.action, r.key, status[r.payment],
                                        NewStatus(r.action, "none"))
    <3>1. NewStatus(r.action, "none") \in Statuses
          /\ (r.action = "authorize" => NewStatus(r.action, "none") = "authorized")
      BY <1>5, <2>1 DEF NewStatus, Statuses, Actions
    <3>2. status[r.payment] \in Statuses
      BY <1>5, <2>1 DEF TablesType
    <3>3. TablesInv' /\ TablesType' /\ Stable
      BY <1>5, <2>1, <2>3, <3>1, <3>2, PersistStep DEF chainVars
    <3> QED BY <1>5, <1>7, <2>1, <2>3, <3>3
  <2> QED BY <1>9, <2>2, <2>3 DEF SettleOffline
<1>10. ASSUME NEW c \in Callers, NEW r \in Requests, Start(c, r) PROVE IInv'
  <2> DEFINE k == [pc |-> "submit", action |-> r.action, payment |-> r.payment,
                   task |-> task[r.payment], key |-> r.key,
                   seen |-> status[r.payment], read |-> "none"]
  <2>1. Begin(c, r) /\ call' = [call EXCEPT ![c] = k] /\ UNCHANGED dbVars
    BY <1>10 DEF Start
  <2>2. UNCHANGED <<dbVars, chainVars>> /\ task' = task
    BY <1>5, <2>1 DEF dbVars
  <2>3. k \in CallStates /\ CallOK(k, task', escrow')
    BY <1>5, <2>1, <2>2 DEF CallStates, CallOK, TablesType, EscrowStates, Exists
  <2>4. call' \in [Callers -> CallStates] /\ CallInv'
    BY <1>2, <2>1, <2>2, <2>3, CallStep
  <2> QED BY <1>2, <1>5, <2>1, <2>2, <2>4, Assemble
<1>11. ASSUME NEW c \in Callers, call[c].pc \in {"submit", "wait", "read", "commit"}
       PROVE  /\ call[c] \in CallStates /\ CallOK(call[c], task, escrow)
              /\ call[c].payment \in Payments /\ call[c].key \in Keys
              /\ call[c].action \in Actions \ {"proposal"} /\ Exists(call[c].payment)
              /\ call[c].task = task[call[c].payment] /\ call[c].task \in Tasks
              /\ call[c].seen \in Statuses /\ call[c].read \in EscrowStates
  <2>1. call[c] \in CallStates /\ CallOK(call[c], task, escrow)
    BY DEF CallInv
  <2> QED BY <1>11, <2>1 DEF CallStates, CallOK, Exists, TablesType
<1>12. ASSUME NEW c \in Callers, Submit(c) PROVE IInv'
  <2> DEFINE k == [call[c] EXCEPT !.pc = "wait"]
  <2>1. /\ call[c].pc = "submit" /\ mempool' = mempool \cup {TxOf(c)}
        /\ call' = [call EXCEPT ![c] = k] /\ UNCHANGED <<dbVars, escrow, begun>>
    BY <1>12 DEF Submit
  <2>2. mempool' \in SUBSET Transactions
    BY <1>11, <2>1 DEF TxOf, Transactions
  <2>3. Stable /\ task' = task /\ escrow' = escrow /\ TablesType' /\ TablesInv'
    BY <2>1, TablesFrame DEF Stable, dbVars
  <2>4. k \in CallStates /\ CallOK(k, task', escrow')
    BY <1>11, <2>1, <2>3 DEF CallStates, CallOK
  <2>5. call' \in [Callers -> CallStates] /\ CallInv'
    BY <2>1, <2>3, <2>4, CallStep DEF TablesType
  <2> QED BY <2>1, <2>2, <2>3, <2>5, Assemble DEF EscrowInv
<1>13. ASSUME NEW c \in Callers, AwaitReceipt(c) PROVE IInv'
  <2> DEFINE k == [call[c] EXCEPT !.pc = IF call[c].action = "authorize" THEN "commit" ELSE "read"]
  <2>1. call[c].pc = "wait" /\ call' = [call EXCEPT ![c] = k] /\ UNCHANGED <<dbVars, chainVars, begun>>
    BY <1>13 DEF AwaitReceipt
  <2>2. task' = task /\ escrow' = escrow
    BY <2>1 DEF dbVars, chainVars
  <2>3. k \in CallStates /\ CallOK(k, task', escrow')
    BY <1>11, <2>1, <2>2 DEF CallStates, CallOK
  <2>4. call' \in [Callers -> CallStates] /\ CallInv'
    BY <1>2, <2>1, <2>3, CallStep
  <2> QED BY <1>2, <2>1, <2>4, Assemble
<1>14. ASSUME NEW c \in Callers, ReadEscrow(c) PROVE IInv'
  <2> DEFINE k == [call[c] EXCEPT !.pc = "commit", !.read = escrow[call[c].task].state]
  <2>1. call[c].pc = "read" /\ call' = [call EXCEPT ![c] = k] /\ UNCHANGED <<dbVars, chainVars, begun>>
    BY <1>14 DEF ReadEscrow
  <2>2. task' = task /\ escrow' = escrow /\ escrow[call[c].task].state \in EscrowStates
    BY <1>11, <2>1 DEF dbVars, chainVars, Escrows
  <2>3. k \in CallStates /\ CallOK(k, task', escrow')
    <3>1. k \in CallStates
      <4>1. call[c] \in CallStates
        BY <1>11
      <4> QED BY <2>2, <4>1 DEF CallStates
    <3> QED BY <1>11, <2>1, <2>2, <3>1 DEF CallStates, CallOK
  <2>4. call' \in [Callers -> CallStates] /\ CallInv'
    BY <1>2, <2>1, <2>3, CallStep
  <2> QED BY <1>2, <2>1, <2>4, Assemble
<1>15. ASSUME NEW c \in Callers, Commit(c) PROVE IInv'
  <2>1. call[c].pc = "commit" /\ UNCHANGED <<chainVars, begun>>
    BY <1>15 DEF Commit
  <2>2. CASE UNCHANGED dbVars /\ Return(c)
    BY <1>2, <1>7, <2>1, <2>2
  <2>3. CASE /\ Persist(call[c].payment, call[c].action, call[c].key, call[c].seen,
                        NewStatus(call[c].action, call[c].read))
             /\ Return(c)
    <3> DEFINE new == NewStatus(call[c].action, call[c].read)
    <3>1. CASE call[c].action = "authorize"
      BY <1>7, <1>11, <2>1, <2>3, <3>1, PersistStep DEF NewStatus, Statuses, chainVars
    <3>2. CASE call[c].action # "authorize" /\ Offline
      <4>1. new \in Statuses
        BY <1>11, <2>1, <3>2 DEF NewStatus, Statuses, Actions
      <4> QED BY <1>7, <1>11, <2>1, <2>3, <3>2, <4>1, PersistStep DEF chainVars
    <3>3. CASE call[c].action # "authorize" /\ ~Offline
      <4>1. new = StatusFor(call[c].read) /\ call[c].read \in EscrowStates
        BY <1>11, <2>1, <3>3 DEF NewStatus
      <4>2. /\ new \in Statuses
            /\ new = "completed" => call[c].read = "released"
            /\ new = "refunded" => call[c].read = "refunded"
        BY <4>1 DEF StatusFor, EscrowStates, Statuses
      <4>3. call[c].read \in {"released", "refunded"} =>
               escrow[task[call[c].payment]].state = call[c].read
        BY <1>11, <2>1, <3>3 DEF CallOK
      <4>4. TablesInv' /\ TablesType' /\ Stable
        BY <1>11, <2>1, <2>3, <3>3, <4>2, <4>3, PersistStep DEF chainVars
      <4> QED BY <1>7, <2>1, <2>3, <4>4
    <3> QED BY <3>1, <3>2, <3>3
  <2> QED BY <1>15, <2>2, <2>3 DEF Commit
<1>16. ASSUME NEW c \in Callers, Raise(c) PROVE IInv'
  <2>1. /\ call[c].pc \in {"submit", "wait", "read", "commit"} /\ Return(c)
        /\ RecordFailed(call[c].payment, call[c].action, call[c].key) /\ UNCHANGED <<chainVars, begun>>
    BY <1>16 DEF Raise
  <2>2. TablesInv' /\ TablesType' /\ Stable
    BY <1>11, <2>1, FailStep DEF chainVars
  <2> QED BY <1>7, <2>1, <2>2
<1>17. ASSUME NEW c \in Callers, Crash(c) PROVE IInv'
  BY <1>2, <1>7, <1>17 DEF Crash
<1>18. ASSUME NEW t \in Tasks, NEW e \in Escrows, escrow' = [escrow EXCEPT ![t] = e],
              escrow[t].state \in {"released", "refunded"} => e = escrow[t],
              e.state \in {"none", "funded"} => e.release < ApprovalsRequired /\ e.refund < ApprovalsRequired,
              UNCHANGED <<dbVars, call, begun>>, mempool' \in SUBSET Transactions
       PROVE  IInv'
  <2>1. Stable /\ escrow' \in [Tasks -> Escrows] /\ EscrowInv' /\ task' = task
    BY <1>18 DEF Stable, EscrowInv, dbVars
  <2>2. TablesType' /\ TablesInv'
    BY <1>18, <2>1, TablesFrame
  <2>3. ASSUME NEW d \in Callers PROVE CallOK(call'[d], task', escrow')
    <3>1. call'[d] = call[d] /\ call[d] \in CallStates /\ CallOK(call[d], task, escrow)
      BY <1>18 DEF CallInv
    <3> QED BY <2>1, <3>1, CallFrame DEF Stable, TablesType
  <2>4. CallInv'
    BY <2>3 DEF CallInv
  <2> QED BY <1>18, <2>1, <2>2, <2>4, Assemble
<1>19. ASSUME NEW tx \in mempool, Mine(tx) PROVE IInv'
  <2>1. /\ tx \in Transactions /\ tx.task \in Tasks /\ escrow[tx.task] \in Escrows
        /\ mempool' \in SUBSET Transactions /\ UNCHANGED <<dbVars, call, begun>>
    BY <1>19 DEF Mine, Transactions
  <2>2. escrow[tx.task].state \in {"none", "funded"} =>
           escrow[tx.task].release < ApprovalsRequired /\ escrow[tx.task].refund < ApprovalsRequired
    BY <2>1 DEF EscrowInv
  <2>3. CASE UNCHANGED escrow
    <3>1. escrow' = [escrow EXCEPT ![tx.task] = escrow[tx.task]]
      BY <2>1, <2>3
    <3> QED BY <1>18, <2>1, <2>2, <3>1
  <2>4. CASE escrow' = [escrow EXCEPT ![tx.task] = Apply(escrow[tx.task], tx)]
    BY <1>18, <2>1, <2>2, <2>4, ApplyLemma
  <2> QED BY <1>19, <2>3, <2>4 DEF Mine
<1>20. ASSUME NEW t \in Tasks, NEW fn \in {"release", "refund"}, OtherVerifier(t, fn) PROVE IInv'
  <2>1. /\ escrow[t] \in Escrows /\ escrow[t].state = "funded"
        /\ escrow' = [escrow EXCEPT ![t] = Approve(escrow[t], fn)]
        /\ UNCHANGED <<dbVars, call, begun>> /\ mempool' \in SUBSET Transactions
    BY <1>20 DEF OtherVerifier
  <2>2. escrow[t].release < ApprovalsRequired /\ escrow[t].refund < ApprovalsRequired
    BY <2>1 DEF EscrowInv
  <2> QED BY <1>18, <2>1, <2>2, ApproveLemma
<1>21. CASE UNCHANGED vars
  BY <1>2, <1>21, Assemble DEF vars, dbVars, chainVars, CallInv
<1> QED BY <1>3, <1>4, <1>6, <1>8, <1>9, <1>10, <1>12, <1>13, <1>14, <1>15, <1>16, <1>17, <1>19,
           <1>20, <1>21 DEF Next, Progress


-----------------------------------------------------------------------------
(* Theorems *)

LEMMA Invariance == Spec => []IInv
  BY InitInv, NextInv, PTL DEF Spec

\* Every variable keeps the type of the column, contract field or local it models.
THEOREM TypeCorrect == Spec => []TypeOK
  BY Invariance, PTL DEF IInv

\* No interleaving of payment calls, timeouts, crashes and mined calls makes the
\* database claim a settlement the escrow contract did not make.
THEOREM ChainAgreement == Spec => []DatabaseAgreesWithChain
  BY Invariance, PTL DEF IInv, TablesInv

\* Racing proposals of one task and key end in one payment, for any number of
\* negotiator processes.
THEOREM OneProposal == Spec => []OnePaymentPerProposalKey
  BY Invariance, PTL DEF IInv, TablesInv

\* Whatever call settles a payment, it also stores a notification pair for it.
THEOREM Announced == Spec => []SettledIsAnnounced
  BY Invariance, PTL DEF IInv, TablesInv

\* Only a mined transaction and another verifier write an escrow.
LEMMA EscrowWriters ==
    ASSUME [Next]_vars
    PROVE  \/ \E tx \in mempool : Mine(tx)
           \/ \E t \in Tasks, fn \in {"release", "refund"} : OtherVerifier(t, fn)
           \/ UNCHANGED escrow
<1>1. ASSUME UNCHANGED vars PROVE UNCHANGED escrow
  BY <1>1 DEF vars, chainVars
<1>2. ASSUME NEW c \in Callers, NEW r \in Requests,
             ProposeLookup(c, r) \/ Replay(c, r) \/ Refuse(c, r) \/ SettleOffline(c, r) \/ Start(c, r)
      PROVE  UNCHANGED escrow
  BY <1>2 DEF ProposeLookup, Begin, Replay, Refuse, SettleOffline, Start, chainVars
<1>3. ASSUME NEW c \in Callers, ProposeInsert(c) \/ Submit(c) \/ AwaitReceipt(c) PROVE UNCHANGED escrow
  BY <1>3 DEF ProposeInsert, Submit, AwaitReceipt, chainVars
<1>4. ASSUME NEW c \in Callers, ReadEscrow(c) \/ Commit(c) \/ Raise(c) \/ Crash(c) PROVE UNCHANGED escrow
  BY <1>4 DEF ReadEscrow, Commit, Raise, Crash, chainVars
<1> QED BY <1>1, <1>2, <1>3, <1>4 DEF Next, Progress

\* A settled escrow stays as it is.
LEMMA EscrowFinal == IInv /\ [Next]_vars => \A t \in Tasks :
                        escrow[t].state \in {"released", "refunded"} => escrow'[t] = escrow[t]
<1> SUFFICES ASSUME IInv, [Next]_vars, NEW t \in Tasks, escrow[t].state \in {"released", "refunded"}
             PROVE  escrow'[t] = escrow[t]
  OBVIOUS
<1>1. escrow \in [Tasks -> Escrows] /\ mempool \in SUBSET Transactions /\ EscrowInv
  BY DEF IInv, TypeOK
<1>2. ASSUME NEW tx \in mempool, Mine(tx) PROVE escrow'[t] = escrow[t]
  <2>1. tx \in Transactions /\ escrow[t] \in Escrows
        /\ (escrow[t].state \in {"none", "funded"} =>
               escrow[t].release < ApprovalsRequired /\ escrow[t].refund < ApprovalsRequired)
    BY <1>1 DEF EscrowInv
  <2>2. Apply(escrow[t], tx) = escrow[t]
    BY <2>1, ApplyLemma
  <2> QED BY <1>1, <1>2, <2>2 DEF Mine
<1>3. ASSUME NEW u \in Tasks, NEW fn \in {"release", "refund"}, OtherVerifier(u, fn)
      PROVE  escrow'[t] = escrow[t]
  BY <1>1, <1>3 DEF OtherVerifier
<1>4. CASE UNCHANGED escrow
  BY <1>4
<1>5. (\E tx \in mempool : Mine(tx)) \/ (\E u \in Tasks, fn \in {"release", "refund"} : OtherVerifier(u, fn))
        \/ UNCHANGED escrow
  BY EscrowWriters
<1> QED BY <1>2, <1>3, <1>4, <1>5

\* With the escrow on chain, a payment settled one way is never settled the
\* other way, even by a call that had loaded the row before it was settled.
THEOREM NoFlip == ~Offline => (Spec => SettlementNeverFlips)
<1> SUFFICES ASSUME ~Offline PROVE Spec => SettlementNeverFlips
  OBVIOUS
<1>1. IInv /\ [Next]_vars =>
        [\A p \in Payments : /\ status[p] = "completed" => status'[p] # "refunded"
                             /\ status[p] = "refunded" => status'[p] # "completed"]_vars
  <2> SUFFICES ASSUME IInv, [Next]_vars, NEW p \in Payments
               PROVE  /\ status[p] = "completed" => status'[p] # "refunded"
                      /\ status[p] = "refunded" => status'[p] # "completed"
    OBVIOUS
  <2>1. IInv'
    BY NextInv
  <2>2. /\ status[p] = "completed" => Exists(p) /\ escrow[task[p]].state = "released"
        /\ status[p] = "refunded" => Exists(p) /\ escrow[task[p]].state = "refunded"
    BY DEF IInv, TablesInv, DatabaseAgreesWithChain
  <2>3. /\ status'[p] = "completed" => escrow'[task'[p]].state = "released"
        /\ status'[p] = "refunded" => escrow'[task'[p]].state = "refunded"
    BY <2>1 DEF IInv, TablesInv, DatabaseAgreesWithChain
  <2>4. Exists(p) => task'[p] = task[p] /\ task[p] \in Tasks
    <3>1. task \in [Payments -> Tasks \cup {NoTask}]
      BY DEF IInv, TypeOK
    <3>2. (\E c \in Callers, q \in Payments : ~Exists(q) /\ task' = [task EXCEPT ![q] = call[c].task])
            \/ UNCHANGED task
      <4>1. CASE \E c \in Callers : ProposeInsert(c)
        BY <4>1 DEF ProposeInsert, dbVars
      <4>2. CASE \E c \in Callers : Raise(c) \/ Commit(c)
        BY <4>2 DEF Raise, Commit, RecordFailed, Persist, dbVars
      <4>3. CASE \E c \in Callers, r \in Requests : Refuse(c, r) \/ SettleOffline(c, r)
        BY <4>3 DEF Refuse, SettleOffline, RecordFailed, Persist, dbVars
      <4>4. CASE ~(\E c \in Callers : ProposeInsert(c) \/ Raise(c) \/ Commit(c))
                 /\ ~(\E c \in Callers, r \in Requests : Refuse(c, r) \/ SettleOffline(c, r))
        BY <4>4 DEF Next, Progress, ProposeLookup, Replay, Start, Submit, AwaitReceipt, ReadEscrow,
                    Crash, Mine, OtherVerifier, vars, dbVars
      <4> QED BY <4>1, <4>2, <4>3, <4>4
    <3> QED BY <3>1, <3>2 DEF Exists
  <2> QED BY <2>2, <2>3, <2>4, EscrowFinal
<1> QED BY <1>1, Invariance, PTL DEF Spec, SettlementNeverFlips


\* A recorded success is overwritten only by a call with its key that was in
\* flight when it was recorded: calls that begin later replay it.
THEOREM RetriesReplay == Spec => ResultOutlivesRetries
<1>1. IInv /\ [Next]_vars =>
        [\A p \in Payments, a \in Actions, k \in Keys :
           trans[p][a][k] = "completed" =>
              \/ trans'[p][a][k] = "completed"
              \/ \E c \in Callers : call[c].payment = p /\ call[c].action = a /\ call[c].key = k]_vars
  <2> SUFFICES ASSUME IInv, [Next]_vars, NEW p \in Payments, NEW a \in Actions, NEW k \in Keys,
                      trans[p][a][k] = "completed",
                      \A c \in Callers : ~(call[c].payment = p /\ call[c].action = a /\ call[c].key = k)
               PROVE  trans'[p][a][k] = "completed"
    OBVIOUS
  <2>1. trans \in TransType /\ Exists(p)
    BY DEF IInv, TypeOK, TransType, TablesInv, RowInv
  <2>2. ASSUME NEW q, NEW b, NEW l, NEW s, Record(q, b, l, s), ~(q = p /\ b = a /\ l = k)
        PROVE  trans'[p][a][k] = "completed"
    <3>1. CASE q # p
      BY <2>1, <2>2, <3>1 DEF Record, TransType
    <3>2. CASE q = p /\ b # a
      BY <2>1, <2>2, <3>2 DEF Record, TransType
    <3>3. CASE q = p /\ b = a /\ l # k
      BY <2>1, <2>2, <3>3 DEF Record, TransType
    <3> QED BY <2>2, <3>1, <3>2, <3>3
  <2>3. CASE UNCHANGED trans
    BY <2>3
  <2>4. ASSUME NEW c \in Callers, ProposeInsert(c) PROVE trans'[p][a][k] = "completed"
    BY <2>1, <2>2, <2>3, <2>4 DEF ProposeInsert, dbVars
  <2>5. ASSUME NEW c \in Callers, Commit(c) \/ Raise(c) PROVE trans'[p][a][k] = "completed"
    BY <2>2, <2>3, <2>5 DEF Commit, Raise, Persist, RecordFailed, dbVars
  <2>6. ASSUME NEW c \in Callers, NEW r \in Requests, Refuse(c, r) \/ SettleOffline(c, r)
        PROVE  trans'[p][a][k] = "completed"
    <3>1. ~(r.payment = p /\ r.action = a /\ r.key = k)
      BY <2>6 DEF Refuse, SettleOffline, Recorded
    <3> QED BY <2>2, <2>3, <2>6, <3>1 DEF Refuse, SettleOffline, Persist, RecordFailed, dbVars
  <2>7. CASE ~(\E c \in Callers : ProposeInsert(c) \/ Commit(c) \/ Raise(c))
             /\ ~(\E c \in Callers, r \in Requests : Refuse(c, r) \/ SettleOffline(c, r))
    <3>1. UNCHANGED trans
      BY <2>7 DEF Next, Progress, ProposeLookup, Replay, Start, Submit, AwaitReceipt, ReadEscrow,
                  Crash, Mine, OtherVerifier, vars, dbVars
    <3> QED BY <3>1
  <2> QED BY <2>4, <2>5, <2>6, <2>7
<1> QED BY <1>1, Invariance, PTL DEF Spec, ResultOutlivesRetries

-----------------------------------------------------------------------------
(* The promise: PaymentSettlement implements Settlement *)

\* Only two kinds of step write the tables' task and status columns: a proposal
\* gives a new payment its task, and a settlement or authorization gives an
\* existing one a status other than pending.
LEMMA WriteStep ==
    IInv /\ [Next]_vars =>
       \/ UNCHANGED <<task, status>>
       \/ /\ \E p \in Payments, t \in Tasks : ~Exists(p) /\ task' = [task EXCEPT ![p] = t]
          /\ UNCHANGED <<status, escrow>>
       \/ /\ \E p \in Payments, s \in Statuses \ {"pending"} :
               Exists(p) /\ status' = [status EXCEPT ![p] = s]
          /\ UNCHANGED <<task, escrow>>
<1> DEFINE Proposes == /\ \E p \in Payments, t \in Tasks : ~Exists(p) /\ task' = [task EXCEPT ![p] = t]
                       /\ UNCHANGED <<status, escrow>>
           Writes == /\ \E p \in Payments, s \in Statuses \ {"pending"} :
                          Exists(p) /\ status' = [status EXCEPT ![p] = s]
                     /\ UNCHANGED <<task, escrow>>
<1> SUFFICES ASSUME IInv, [Next]_vars PROVE UNCHANGED <<task, status>> \/ Proposes \/ Writes
  OBVIOUS
<1>1. TypeOK /\ CallInv /\ call \in [Callers -> CallStates]
  BY DEF IInv, TypeOK
<1>2. ASSUME NEW a \in Actions \ {"proposal"}, NEW e \in EscrowStates
      PROVE  NewStatus(a, e) \in Statuses \ {"pending"}
  <2>1. CASE a = "authorize"
    BY <2>1 DEF NewStatus, Statuses
  <2>2. CASE a # "authorize" /\ ~Offline
    BY <2>2 DEF NewStatus, StatusFor, Statuses, EscrowStates
  <2>3. CASE a # "authorize" /\ Offline
    BY <2>3 DEF NewStatus, Statuses, Actions
  <2> QED BY <2>1, <2>2, <2>3
<1>3. ASSUME NEW p \in Payments, NEW a \in Actions \ {"proposal"}, NEW k \in Keys, NEW seen \in Statuses,
             NEW e \in EscrowStates, Exists(p), Persist(p, a, k, seen, NewStatus(a, e)), UNCHANGED escrow
      PROVE  UNCHANGED <<task, status>> \/ Writes
  BY <1>2, <1>3 DEF Persist
<1>4. ASSUME NEW c \in Callers, ProposeInsert(c) PROVE UNCHANGED <<task, status>> \/ Proposes
  <2>1. call[c].pc = "insert" => call[c].task \in Tasks
    BY <1>1 DEF CallInv, CallOK
  <2> QED BY <1>4, <2>1 DEF ProposeInsert, dbVars, chainVars
<1>5. ASSUME NEW c \in Callers, Commit(c) PROVE UNCHANGED <<task, status>> \/ Writes
  <2>1. /\ call[c].pc = "commit" /\ call[c] \in CallStates /\ CallOK(call[c], task, escrow)
        /\ UNCHANGED escrow
    BY <1>1, <1>5 DEF Commit, CallInv, chainVars
  <2>2. /\ call[c].payment \in Payments /\ call[c].action \in Actions \ {"proposal"}
        /\ call[c].key \in Keys /\ call[c].seen \in Statuses /\ call[c].read \in EscrowStates
        /\ Exists(call[c].payment)
    BY <2>1 DEF CallStates, CallOK, Exists
  <2> QED BY <1>3, <1>5, <2>1, <2>2 DEF Commit, dbVars
<1>6. ASSUME NEW c \in Callers, NEW r \in Requests, SettleOffline(c, r)
      PROVE  UNCHANGED <<task, status>> \/ Writes
  <2>1. /\ r.payment \in Payments /\ r.action \in Actions \ {"proposal"} /\ r.key \in Keys
        /\ Exists(r.payment) /\ UNCHANGED escrow /\ status[r.payment] \in Statuses
    BY <1>1, <1>6, PaymentAssumption DEF SettleOffline, Begin, Request, chainVars, TypeOK
  <2> QED BY <1>3, <1>6, <2>1 DEF SettleOffline, dbVars, EscrowStates
<1>7. ASSUME NEW c \in Callers, Raise(c) \/ (\E r \in Requests : Refuse(c, r))
      PROVE  UNCHANGED <<task, status>>
  BY <1>7 DEF Raise, Refuse, RecordFailed
<1>8. CASE ~(\E c \in Callers : ProposeInsert(c) \/ Commit(c) \/ Raise(c))
           /\ ~(\E c \in Callers, r \in Requests : Refuse(c, r) \/ SettleOffline(c, r))
  <2>1. UNCHANGED <<task, status>>
    BY <1>8 DEF Next, Progress, ProposeLookup, Replay, Start, Submit, AwaitReceipt, ReadEscrow,
                Crash, Mine, OtherVerifier, vars, dbVars
  <2> QED BY <2>1
<1> QED BY <1>4, <1>5, <1>6, <1>7, <1>8

\* What one step does to an escrow: nothing the promise speaks of, or its funding,
\* or its settlement.
LEMMA EscrowStep ==
    IInv /\ [Next]_vars =>
       \/ UNCHANGED escrow
       \/ /\ \E t \in Tasks, e \in Escrows :
               /\ escrow' = [escrow EXCEPT ![t] = e]
               /\ \/ e.state = escrow[t].state
                  \/ escrow[t].state = "none" /\ e.state = "funded"
                  \/ escrow[t].state = "funded" /\ e.state \in {"released", "refunded"}
          /\ UNCHANGED dbVars
<1> DEFINE Moves(t, e) == /\ escrow' = [escrow EXCEPT ![t] = e]
                          /\ \/ e.state = escrow[t].state
                             \/ escrow[t].state = "none" /\ e.state = "funded"
                             \/ escrow[t].state = "funded" /\ e.state \in {"released", "refunded"}
<1> SUFFICES ASSUME IInv, [Next]_vars
             PROVE  UNCHANGED escrow \/ ((\E t \in Tasks, e \in Escrows : Moves(t, e)) /\ UNCHANGED dbVars)
  OBVIOUS
<1>1. escrow \in [Tasks -> Escrows] /\ mempool \in SUBSET Transactions /\ EscrowInv
  BY DEF IInv, TypeOK
<1>2. ASSUME NEW e \in Escrows, NEW fn \in {"release", "refund"}
      PROVE  Approve(e, fn).state \in {e.state, "released", "refunded"}
  BY <1>2 DEF Approve, Outcome, Escrows
<1>3. ASSUME NEW tx \in mempool, Mine(tx)
      PROVE  UNCHANGED escrow \/ ((\E t \in Tasks, e \in Escrows : Moves(t, e)) /\ UNCHANGED dbVars)
  <2>1. /\ tx \in Transactions /\ tx.task \in Tasks /\ escrow[tx.task] \in Escrows
        /\ (escrow[tx.task].state \in {"none", "funded"} =>
              escrow[tx.task].release < ApprovalsRequired /\ escrow[tx.task].refund < ApprovalsRequired)
    BY <1>1 DEF Transactions, EscrowInv
  <2> DEFINE old == escrow[tx.task]
             new == Apply(old, tx)
  <2>2. new \in Escrows
    BY <2>1, ApplyLemma
  <2>3. \/ new.state = old.state
        \/ old.state = "none" /\ new.state = "funded"
        \/ old.state = "funded" /\ new.state \in {"released", "refunded"}
    <3>1. CASE tx.fn = "authorize" /\ old.state = "none"
      <4>1. new = [old EXCEPT !.state = "funded", !.owner = tx.payment]
        BY <3>1 DEF Apply
      <4> QED BY <2>1, <3>1, <4>1 DEF Escrows
    <3>2. CASE tx.fn # "authorize" /\ old.state = "funded"
      <4>1. tx.fn \in {"release", "refund"} /\ new = Approve(old, tx.fn)
        BY <2>1, <3>2 DEF Apply, Transactions, Actions
      <4> QED BY <1>2, <2>1, <3>2, <4>1
    <3>3. CASE ~(tx.fn = "authorize" /\ old.state = "none") /\ ~(tx.fn # "authorize" /\ old.state = "funded")
      BY <3>3 DEF Apply
    <3> QED BY <3>1, <3>2, <3>3
  <2>4. CASE escrow' = [escrow EXCEPT ![tx.task] = new]
    <3>1. Moves(tx.task, new)
      BY <2>3, <2>4
    <3> QED BY <1>3, <2>1, <2>2, <3>1 DEF Mine
  <2> QED BY <1>3, <2>4 DEF Mine
<1>4. ASSUME NEW t \in Tasks, NEW fn \in {"release", "refund"}, OtherVerifier(t, fn)
      PROVE  (\E u \in Tasks, e \in Escrows : Moves(u, e)) /\ UNCHANGED dbVars
  <2>1. /\ escrow[t] \in Escrows /\ escrow[t].state = "funded" /\ UNCHANGED dbVars
        /\ escrow' = [escrow EXCEPT ![t] = Approve(escrow[t], fn)]
        /\ escrow[t].release < ApprovalsRequired /\ escrow[t].refund < ApprovalsRequired
    BY <1>1, <1>4 DEF OtherVerifier, EscrowInv
  <2>2. Approve(escrow[t], fn) \in Escrows
    BY <2>1, ApproveLemma
  <2> QED BY <1>2, <2>1, <2>2
<1>5. (\E tx \in mempool : Mine(tx)) \/ (\E t \in Tasks, fn \in {"release", "refund"} : OtherVerifier(t, fn))
        \/ UNCHANGED escrow
  BY EscrowWriters
<1> QED BY <1>3, <1>4, <1>5

\* A step of the payments, with the escrow on chain, is a step of the promise or a stutter.
LEMMA PromiseStep == ~Offline /\ IInv /\ IInv' /\ [Next]_vars => [Promise!Next]_(Promise!deal)
<1> DEFINE held == [t \in Tasks |-> escrow[t].state]
<1> SUFFICES ASSUME ~Offline, IInv, IInv', [Next]_vars
             PROVE  Promise!Next \/ UNCHANGED <<task, status, held>>
  BY DEF Promise!deal
<1>1. /\ escrow \in [Tasks -> Escrows] /\ task \in [Payments -> Tasks \cup {NoTask}]
      /\ DatabaseAgreesWithChain'
  BY DEF IInv, TypeOK, TablesInv
<1>2. CASE UNCHANGED <<task, status>> /\ UNCHANGED escrow
  BY <1>2
<1>3. ASSUME NEW p \in Payments, NEW t \in Tasks, ~Exists(p), task' = [task EXCEPT ![p] = t],
             UNCHANGED <<status, escrow>>
      PROVE  Promise!Next
  <2>1. Promise!Propose(p, t)
    BY <1>3 DEF Promise!Propose, Exists
  <2> QED BY <2>1 DEF Promise!Next
<1>4. ASSUME NEW p \in Payments, NEW s \in Statuses \ {"pending"}, Exists(p),
             status' = [status EXCEPT ![p] = s], UNCHANGED <<task, escrow>>
      PROVE  Promise!Next
  <2>1. status'[p] = s /\ task[p] \in Tasks
    BY <1>1, <1>4 DEF IInv, TypeOK, Exists
  <2>2. /\ s = "completed" => escrow[task[p]].state = "released"
        /\ s = "refunded" => escrow[task[p]].state = "refunded"
    BY <1>1, <1>4, <2>1 DEF DatabaseAgreesWithChain
  <2>3. Promise!Truthful(p, s)
    BY <2>1, <2>2 DEF Promise!Truthful, Statuses
  <2>4. Promise!Note(p, s)
    BY <1>4, <2>3 DEF Promise!Note, Exists
  <2> QED BY <2>4 DEF Promise!Next, Statuses
<1>5. ASSUME NEW t \in Tasks, NEW e \in Escrows, escrow' = [escrow EXCEPT ![t] = e], UNCHANGED dbVars,
             \/ e.state = escrow[t].state
             \/ escrow[t].state = "none" /\ e.state = "funded"
             \/ escrow[t].state = "funded" /\ e.state \in {"released", "refunded"}
      PROVE  Promise!Next \/ UNCHANGED <<task, status, held>>
  <2>1. held' = [held EXCEPT ![t] = e.state] /\ held[t] = escrow[t].state /\ UNCHANGED <<task, status>>
    BY <1>1, <1>5 DEF dbVars
  <2>2. CASE e.state = escrow[t].state
    BY <2>1, <2>2
  <2>3. CASE escrow[t].state = "none" /\ e.state = "funded"
    <3>1. Promise!Fund(t)
      BY <2>1, <2>3 DEF Promise!Fund
    <3> QED BY <3>1 DEF Promise!Next
  <2>4. CASE escrow[t].state = "funded" /\ e.state \in {"released", "refunded"}
    <3>1. Promise!Settle(t, e.state)
      BY <2>1, <2>4 DEF Promise!Settle
    <3> QED BY <2>4, <3>1 DEF Promise!Next
  <2> QED BY <1>5, <2>2, <2>3, <2>4
<1> QED BY <1>2, <1>3, <1>4, <1>5, WriteStep, EscrowStep DEF dbVars

\* With the escrow on chain the payment code keeps the promise of Settlement, for any
\* number of callers, payments and verifiers: stale reads, timeouts, crashes and
\* reverted calls add no behaviour it does not have.
THEOREM PromiseKept == ~Offline => (Spec => ImplementsSettlement)
<1> SUFFICES ASSUME ~Offline PROVE Spec => ImplementsSettlement
  OBVIOUS
<1>1. Init => Promise!Init
  BY DEF Init, Promise!Init
<1>2. IInv /\ IInv' /\ [Next]_vars => [Promise!Next]_(Promise!deal)
  BY PromiseStep
<1> QED BY <1>1, <1>2, Invariance, PTL DEF Spec, ImplementsSettlement, Promise!Spec

-----------------------------------------------------------------------------
(* Offline, where a settlement is one step and no call waits while another acts *)

OfflineInv == \A c \in Callers : call[c].pc \in {"idle", "insert"}

\* Offline no coroutine ever waits for the chain.
LEMMA OfflineInvariance == Offline => (Spec => []OfflineInv)
<1> SUFFICES ASSUME Offline PROVE Spec => []OfflineInv
  OBVIOUS
<1>1. Init => OfflineInv
  BY DEF Init, OfflineInv, Idle
<1>2. IInv /\ OfflineInv /\ [Next]_vars => OfflineInv'
  <2> SUFFICES ASSUME IInv, OfflineInv, [Next]_vars, NEW c \in Callers
               PROVE  call'[c].pc \in {"idle", "insert"}
    BY DEF OfflineInv
  <2>1. call \in [Callers -> CallStates] /\ call[c].pc \in {"idle", "insert"}
    BY DEF IInv, TypeOK, OfflineInv
  <2>2. ASSUME NEW d \in Callers, Return(d) PROVE call'[c].pc \in {"idle", "insert"}
    BY <2>1, <2>2 DEF Return, Idle
  <2>3. ASSUME NEW d \in Callers, NEW r \in Requests, ProposeLookup(d, r)
        PROVE  call'[c].pc \in {"idle", "insert"}
    <3>1. CASE call' = [call EXCEPT ![d] = [Idle EXCEPT !.pc = "insert", !.task = r.task, !.key = r.key]]
      <4>1. [Idle EXCEPT !.pc = "insert", !.task = r.task, !.key = r.key].pc = "insert"
        BY DEF Idle
      <4> QED BY <2>1, <3>1, <4>1
    <3> QED BY <2>2, <2>3, <3>1 DEF ProposeLookup
  <2>4. ASSUME NEW d \in Callers, Progress(d) \/ Crash(d) PROVE call'[c].pc \in {"idle", "insert"}
    BY <2>2, <2>4 DEF OfflineInv, Progress, ProposeInsert, Submit, AwaitReceipt, ReadEscrow, Commit,
                      Raise, Crash
  <2>5. ASSUME NEW d \in Callers, NEW r \in Requests, Replay(d, r) \/ Refuse(d, r) \/ SettleOffline(d, r)
        PROVE  call'[c].pc \in {"idle", "insert"}
    BY <2>2, <2>5 DEF Replay, Refuse, SettleOffline
  <2>6. ASSUME NEW d \in Callers, NEW r \in Requests PROVE ~Start(d, r)
    BY DEF Start
  <2>7. CASE UNCHANGED call
    BY <2>1, <2>7
  <2> QED BY <2>3, <2>4, <2>5, <2>6, <2>7 DEF Next, Mine, OtherVerifier, vars
<1> QED BY <1>1, <1>2, Invariance, PTL DEF Spec

\* A row is written, and a notification pair stored with the completed row of a settlement.
Writes(p, a, k, s) ==
    /\ trans[p][a][k] # "completed"
    /\ Record(p, a, k, s)
    /\ notified' = IF a \in {"release", "refund"} /\ s = "completed"
                   THEN [notified EXCEPT ![p][a] = @ + 1] ELSE notified

\* What such a step leaves in the rows.
LEMMA WritesLemma ==
    ASSUME trans \in TransType, NEW p \in Payments, NEW a \in Actions, NEW k \in Keys,
           NEW s \in {"completed", "failed"}, Writes(p, a, k, s)
    PROVE  /\ trans'[p][a][k] = s /\ trans[p][a][k] # "completed"
           /\ \A q \in Payments, b \in Actions, l \in Keys :
                q # p \/ b # a \/ l # k => trans'[q][b][l] = trans[q][b][l]
<1>1. Record(p, a, k, s) /\ trans[p][a][k] # "completed"
  BY DEF Writes
<1> QED BY <1>1, RecordLemma

\* Offline a step writes at most one row, and never one that is completed.
LEMMA OfflineWrites ==
    ASSUME Offline, IInv, OfflineInv, [Next]_vars
    PROVE  \/ UNCHANGED <<trans, notified>>
           \/ \E p \in Payments, a \in Actions, k \in Keys, s \in {"completed", "failed"} : Writes(p, a, k, s)
<1> DEFINE Written == \E p \in Payments, a \in Actions, k \in Keys, s \in {"completed", "failed"} :
                          Writes(p, a, k, s)
<1>1. ASSUME NEW c \in Callers, ProposeInsert(c) PROVE UNCHANGED <<trans, notified>> \/ Written
  <2>1. call[c].task \in Tasks /\ call[c].key \in Keys /\ "proposal" \in Actions
    BY <1>1 DEF ProposeInsert, IInv, CallInv, CallOK, Actions
  <2>2. ASSUME NEW p \in Payments, ~Exists(p), Record(p, "proposal", call[c].key, "completed"),
               UNCHANGED notified
        PROVE  Written
    <3>1. trans[p]["proposal"][call[c].key] # "completed"
      BY <2>1, <2>2 DEF IInv, TablesInv, RowInv
    <3> QED BY <2>1, <2>2, <3>1 DEF Writes
  <2> QED BY <1>1, <2>2 DEF ProposeInsert, dbVars
<1>2. ASSUME NEW c \in Callers, NEW r \in Requests, Refuse(c, r) \/ SettleOffline(c, r)
      PROVE  UNCHANGED <<trans, notified>> \/ Written
  <2>1. /\ r.payment \in Payments /\ r.action \in Actions /\ r.key \in Keys /\ r.action # "proposal"
        /\ trans[r.payment][r.action][r.key] # "completed"
    BY <1>2, PaymentAssumption DEF Refuse, SettleOffline, Begin, Request, Recorded
  <2>2. CASE RecordFailed(r.payment, r.action, r.key)
    <3>1. CASE Record(r.payment, r.action, r.key, "failed") /\ UNCHANGED notified
      BY <2>1, <3>1 DEF Writes
    <3> QED BY <2>2, <3>1 DEF RecordFailed
  <2>3. CASE Persist(r.payment, r.action, r.key, status[r.payment], NewStatus(r.action, "none"))
    <3>1. Writes(r.payment, r.action, r.key, "completed")
      BY <2>1, <2>3 DEF Writes, Persist, Actions
    <3> QED BY <2>1, <3>1
  <2> QED BY <1>2, <2>2, <2>3 DEF Refuse, SettleOffline, dbVars
<1>3. ASSUME NEW c \in Callers PROVE ~Commit(c) /\ ~Raise(c)
  BY DEF OfflineInv, Commit, Raise
<1>4. CASE ~(\E c \in Callers : ProposeInsert(c))
           /\ ~(\E c \in Callers, r \in Requests : Refuse(c, r) \/ SettleOffline(c, r))
  <2>1. UNCHANGED <<trans, notified>>
    BY <1>3, <1>4 DEF Next, Progress, ProposeLookup, Replay, Start, Submit, AwaitReceipt, ReadEscrow,
                      Crash, Mine, OtherVerifier, vars, dbVars
  <2> QED BY <2>1
<1> QED BY <1>1, <1>2, <1>4

\* Offline a recorded success is never lost, whoever retries it and however often.
THEOREM OfflineResultsStay == Offline => (Spec => RecordedResultStable)
<1> SUFFICES ASSUME Offline PROVE Spec => RecordedResultStable
  OBVIOUS
<1>1. IInv /\ OfflineInv /\ [Next]_vars =>
        [\A p \in Payments, a \in Actions, k \in Keys :
            trans[p][a][k] = "completed" => trans'[p][a][k] = "completed"]_vars
  <2> SUFFICES ASSUME IInv, OfflineInv, [Next]_vars, NEW p \in Payments, NEW a \in Actions, NEW k \in Keys,
                      trans[p][a][k] = "completed"
               PROVE  trans'[p][a][k] = "completed"
    OBVIOUS
  <2>1. trans \in TransType
    BY DEF IInv, TypeOK, TransType
  <2>2. ASSUME NEW q \in Payments, NEW b \in Actions, NEW l \in Keys, NEW s \in {"completed", "failed"},
               Writes(q, b, l, s)
        PROVE  trans'[p][a][k] = "completed"
    <3>1. q # p \/ b # a \/ l # k
      BY <2>2 DEF Writes
    <3> QED BY <2>1, <2>2, <3>1, WritesLemma
  <2> QED BY <2>2, OfflineWrites
<1> QED BY <1>1, Invariance, OfflineInvariance, PTL DEF Spec, RecordedResultStable

\* Offline every recorded settlement has exactly the notification pairs it announced,
\* one for each key: no retry and no other todo of the task announces it again.
THEOREM OfflineAnnouncesOnce == Offline /\ IsFiniteSet(Keys) => (Spec => []OneNoticePerSettlement)
<1> DEFINE Done(p, a) == {k \in Keys : trans[p][a][k] = "completed"}
<1> SUFFICES ASSUME Offline, IsFiniteSet(Keys) PROVE Spec => []OneNoticePerSettlement
  OBVIOUS
<1>1. Init => OneNoticePerSettlement
  <2> SUFFICES ASSUME Init, NEW p \in Payments, NEW a \in {"release", "refund"}
               PROVE  notified[p][a] = Cardinality(Done(p, a))
    BY DEF OneNoticePerSettlement
  <2>1. notified[p][a] = 0 /\ Done(p, a) = {}
    BY DEF Init, Actions
  <2> QED BY <2>1, FS_EmptySet
<1>2. IInv /\ OfflineInv /\ OneNoticePerSettlement /\ [Next]_vars => OneNoticePerSettlement'
  <2> SUFFICES ASSUME IInv, OfflineInv, OneNoticePerSettlement, [Next]_vars,
                      NEW p \in Payments, NEW a \in {"release", "refund"}
               PROVE  notified'[p][a] = Cardinality(Done(p, a)')
    BY DEF OneNoticePerSettlement
  <2>1. /\ trans \in TransType /\ notified \in [Payments -> [{"release", "refund"} -> Nat]]
        /\ notified[p][a] = Cardinality(Done(p, a)) /\ a \in Actions
    BY DEF IInv, TypeOK, TransType, OneNoticePerSettlement, Actions
  <2>2. IsFiniteSet(Done(p, a))
    BY FS_Subset
  <2>3. CASE UNCHANGED <<trans, notified>>
    BY <2>1, <2>3
  <2>4. ASSUME NEW q \in Payments, NEW b \in Actions, NEW l \in Keys, NEW s \in {"completed", "failed"},
               Writes(q, b, l, s)
        PROVE  notified'[p][a] = Cardinality(Done(p, a)')
    <3>1. /\ trans'[q][b][l] = s /\ trans[q][b][l] # "completed"
          /\ \A r \in Payments, c \in Actions, m \in Keys :
               r # q \/ c # b \/ m # l => trans'[r][c][m] = trans[r][c][m]
      <4>1. trans \in TransType
        BY <2>1
      <4> HIDE DEF Done
      <4> QED BY <2>4, <4>1, WritesLemma
    <3>2. CASE q = p /\ b = a /\ s = "completed"
      <4>1. Done(p, a)' = Done(p, a) \cup {l} /\ l \notin Done(p, a)
        BY <2>1, <3>1, <3>2
      <4>2. Cardinality(Done(p, a)') = Cardinality(Done(p, a)) + 1
        BY <2>2, <4>1, FS_AddElement
      <4>3. notified' = [notified EXCEPT ![p][a] = @ + 1]
        BY <2>4, <3>2 DEF Writes
      <4>4. notified'[p][a] = notified[p][a] + 1
        BY <2>1, <4>3
      <4> QED BY <2>1, <4>2, <4>4
    <3>3. CASE ~(q = p /\ b = a /\ s = "completed")
      <4>1. Done(p, a)' = Done(p, a)
        BY <2>1, <3>1, <3>3
      <4>2. notified'[p][a] = notified[p][a]
        <5>1. CASE b \in {"release", "refund"} /\ s = "completed"
          <6>1. notified' = [notified EXCEPT ![q][b] = @ + 1] /\ (q # p \/ b # a)
            BY <2>4, <3>3, <5>1 DEF Writes
          <6> QED BY <2>1, <6>1
        <5> QED BY <2>4, <5>1 DEF Writes
      <4> QED BY <2>1, <4>1, <4>2
    <3> QED BY <3>2, <3>3
  <2> QED BY <2>3, <2>4, OfflineWrites
<1> QED BY <1>1, <1>2, Invariance, OfflineInvariance, PTL DEF Spec

=============================================================================
