------------------------------ MODULE VerdictProofs ------------------------------
(***************************************************************************)
(* Proofs about the components that judge: Reconciliation, for any number   *)
(* of keys, processes, settlements, faults and reconciliations, Verification, *)
(* for every set of results, criteria, texts and replies, RunAttempts, for     *)
(* every market and every number of changes and setbacks, and Evidence, for    *)
(* all pages, needs, budgets, readers and completions.  They share no state;   *)
(* each has its part of this module.                                          *)
(***************************************************************************)
EXTENDS Reconciliation, Verification, RunAttempts, Evidence, FiniteSetTheorems, WellFoundedInduction, TLAPS

-----------------------------------------------------------------------------
(* Reconciliation: the inductive invariant *)

Actions == {"release", "refund"}
Statuses == {"authorized", "completed", "refunded"}
Notes == [id : Nat, type : Actions, to : Recipients]
Readings == [pc : {"idle", "events", "transitions", "notices", "commit"}, repair : BOOLEAN, seen : Statuses,
             events : SUBSET Notes, done : BOOLEAN, notices : SUBSET Notes, losses : Nat]

Types ==
    /\ status \in Statuses /\ by \in {"none"} \cup Actions
    /\ events \in SUBSET Notes /\ notices \in SUBSET Notes
    /\ sent \in Nat /\ losses \in Nat
    /\ reconciler \in [Reconcilers -> Readings]

\* Both recipients have a message of the action.
Notifies(messages, action) == \A p \in Recipients : \E e \in messages : e.type = action /\ e.to = p

\* Every notification is one of the events, whose numbers were given out.
NumberInv == notices \subseteq events /\ \A e \in events : e.id <= sent

\* The call that settled the payment has left its events.
SettledInv == /\ status = "authorized" <=> by = "none"
              /\ by # "none" => Notifies(events, by)

\* What a process has read is still true, or a notification was lost meanwhile.
ReadingOK(k) ==
    /\ k.events \subseteq events
    /\ k.pc # "idle" /\ k.seen # "authorized" => by # "none"
    /\ k.pc \in {"transitions", "notices", "commit"} /\ k.seen # "authorized" => Notifies(k.events, by)
    /\ k.pc = "commit" => k.losses <= losses /\ (k.losses = losses => k.notices \subseteq notices)

ReaderInv == \A r \in Reconcilers : ReadingOK(reconciler[r])

\* A verdict is about the past, and on a settled payment if it expects anything.
PastInv == \A v \in verdicts : v.losses \in Nat /\ v.losses <= losses /\ (v.expected # {} => by # "none")

ReconcileInv == Types /\ NumberInv /\ SettledInv /\ ReaderInv /\ PastInv /\ ReconciliationIsTrue

-----------------------------------------------------------------------------
(* Reconciliation: lemmas *)

\* Every set of messages that is not empty has an earliest.
LEMMA EarliestLemma ==
    ASSUME NEW S \in SUBSET Notes, S # {}
    PROVE  Earliest(S) \in S
<1> DEFINE T == {e.id : e \in S}
           R == OpToRel(<, Nat)
<1>1. T \subseteq Nat /\ T # {}
  BY DEF Notes
<1>2. \E x \in T : \A y \in T : ~(<<y, x>> \in R)
  <2> HIDE DEF T, R
  <2>1. IsWellFoundedOn(R, Nat)
    BY NatLessThanWellFounded DEF R
  <2> QED BY <1>1, <2>1, WFMin
<1> HIDE DEF R
<1>3. PICK e \in S : \A f \in S : ~(<<f.id, e.id>> \in R)
  BY <1>2
<1>4. \A f \in S : e.id <= f.id
  <2> TAKE f \in S
  <2>1. e.id \in Nat /\ f.id \in Nat
    BY DEF Notes
  <2>2. f.id < e.id => <<f.id, e.id>> \in R
    BY <2>1 DEF OpToRel, R
  <2> QED BY <1>3, <2>1, <2>2
<1> QED BY <1>4 DEF Earliest

LEMMA ExpectedLemma ==
    ASSUME NEW s \in Statuses
    PROVE  /\ Expected(s) \subseteq Actions
           /\ s = "authorized" => Expected(s) = {}
  BY DEF Expected, Final, Actions, Statuses

\* There are four notifications that can be missing.
LEMMA MissingFinite ==
    ASSUME NEW M \in SUBSET [type : Actions, to : Recipients]
    PROVE  IsFiniteSet(M)
<1> DEFINE All == {[type |-> "release", to |-> "payer"]} \cup {[type |-> "release", to |-> "payee"]}
                  \cup {[type |-> "refund", to |-> "payer"]} \cup {[type |-> "refund", to |-> "payee"]}
<1>1. IsFiniteSet(All)
  BY FS_Singleton, FS_Union
<1>2. M \in SUBSET All
  BY DEF Actions, Recipients
<1> HIDE DEF All
<1> QED BY <1>1, <1>2, FS_Subset

\* Nothing is missing where no issue is counted.
LEMMA NoIssueLemma ==
    ASSUME NEW M \in SUBSET [type : Actions, to : Recipients], NEW B, IsFiniteSet(B), NEW i \in Nat, NEW j \in Nat,
           Verdict(Cardinality(M) + i + j, Cardinality(B)) \in {"matched", "repaired"}
    PROVE  M = {}
<1>1. IsFiniteSet(M) /\ Cardinality(M) \in Nat /\ Cardinality(B) \in Nat
  BY MissingFinite, FS_CardinalityType
<1>2. Cardinality(M) = 0
  BY <1>1 DEF Verdict
<1> QED BY <1>1, <1>2, FS_EmptySet

\* The tables move on: messages are added; a settled payment stays settled by the call that
\* settled it; notifications are lost only where that is counted.
Moves ==
    /\ events \subseteq events'
    /\ by # "none" => by' = by
    /\ losses' \in Nat /\ losses <= losses' /\ (losses' = losses => notices \subseteq notices')

\* What a process that rests has read stays true.
LEMMA ReadingKept == ASSUME ReconcileInv, Moves, NEW r \in Reconcilers PROVE ReadingOK(reconciler[r])'
                             \/ reconciler'[r] # reconciler[r]
  BY DEF Moves, ReconcileInv, Types, Readings, ReaderInv, ReadingOK, Notifies

LEMMA VerdictsKept ==
    ASSUME ReconcileInv, Moves, verdicts' = verdicts
    PROVE  PastInv' /\ ReconciliationIsTrue'
<1>1. PastInv'
  BY DEF Moves, ReconcileInv, Types, PastInv
<1>2. ASSUME NEW v \in verdicts
      PROVE  /\ v.verdict \in {"matched", "repaired"} /\ v.losses = losses' =>
                  \A a \in v.expected, p \in Recipients : \E n \in notices' : n.type = a /\ n.to = p
             /\ v.repair /\ v.missing # {} => by' \notin v.expected
  <2>1. /\ v.losses \in Nat /\ v.losses <= losses /\ (v.expected # {} => by # "none")
        /\ v.verdict \in {"matched", "repaired"} /\ v.losses = losses =>
             \A a \in v.expected, p \in Recipients : \E n \in notices : n.type = a /\ n.to = p
        /\ v.repair /\ v.missing # {} => by \notin v.expected
    BY DEF ReconcileInv, PastInv, ReconciliationIsTrue
  <2>2. v.losses = losses' => v.losses = losses /\ losses' = losses
    BY <2>1 DEF Moves, ReconcileInv, Types
  <2> QED BY <2>1, <2>2 DEF Moves
<1> QED BY <1>1, <1>2 DEF ReconciliationIsTrue

\* A step of the tables.
LEMMA TablesStep ==
    ASSUME ReconcileInv, Moves, UNCHANGED <<reconciler, verdicts>>, Types', NumberInv', SettledInv'
    PROVE  ReconcileInv'
<1>1. ReaderInv'
  BY ReadingKept DEF ReaderInv
<1> QED BY <1>1, VerdictsKept DEF ReconcileInv

\* A step of a process that writes nothing.
LEMMA ReadStep ==
    ASSUME ReconcileInv, NEW r \in Reconcilers, NEW k \in Readings, reconciler' = [reconciler EXCEPT ![r] = k],
           ReadingOK(k), UnchangedTables
    PROVE  ReconcileInv'
<1>1. UNCHANGED <<status, by, events, notices, sent, verdicts, losses>>
  BY DEF UnchangedTables
<1>2. Moves
  BY <1>1 DEF Moves, ReconcileInv, Types
<1>3. Types' /\ NumberInv' /\ SettledInv'
  BY <1>1 DEF ReconcileInv, Types, NumberInv, SettledInv, Notifies
<1>4. ReaderInv'
  <2> SUFFICES ASSUME NEW q \in Reconcilers PROVE ReadingOK(reconciler[q])'
    BY DEF ReaderInv
  <2>1. CASE q = r
    <3>1. reconciler'[q] = k
      BY <2>1 DEF ReconcileInv, Types
    <3> QED BY <1>1, <3>1 DEF ReadingOK, Notifies
  <2>2. CASE q # r
    BY <1>2, <2>2, ReadingKept DEF ReconcileInv, Types
  <2> QED BY <2>1, <2>2
<1> QED BY <1>1, <1>2, <1>3, <1>4, VerdictsKept DEF ReconcileInv

-----------------------------------------------------------------------------
(* Reconciliation: the steps *)

LEMMA SettleStep == ReconcileInv /\ Settle => ReconcileInv'
<1> SUFFICES ASSUME ReconcileInv, Settle PROVE ReconcileInv'
  OBVIOUS
<1>1. PICK action \in Actions :
        /\ events' = events \cup Messages(action) /\ notices' = Stored(Messages(action))
        /\ (UNCHANGED <<status, by>>
            \/ (status = "authorized" /\ status' \in {"completed", "refunded"} /\ by' = action))
  BY DEF Settle, Final, Actions
<1>2. sent' = sent + 2 /\ UNCHANGED <<reconciler, verdicts, losses>>
  BY DEF Settle
<1>3. /\ Messages(action) \subseteq Notes /\ Notifies(Messages(action), action)
      /\ \A m \in Messages(action) : m.id > sent /\ m.id <= sent + 2
  BY DEF Messages, Notes, Notifies, Recipients, ReconcileInv, Types
<1> DEFINE M == Messages(action)
<1> HIDE DEF M
<1>4. notices' = notices \cup M
  <2>1. \A n \in notices, m \in M : n.id # m.id
    BY <1>3 DEF ReconcileInv, Types, NumberInv, Notes, M
  <2> QED BY <1>1, <2>1 DEF Stored, M
<1>5. Types'
  BY <1>1, <1>2, <1>3, <1>4 DEF ReconcileInv, Types, Statuses, M
<1>6. NumberInv'
  BY <1>1, <1>2, <1>3, <1>4 DEF ReconcileInv, Types, NumberInv, Notes, M
<1>7. SettledInv'
  BY <1>1, <1>3 DEF ReconcileInv, Types, SettledInv, Notifies, Actions, Statuses
<1>8. Moves
  BY <1>1, <1>2, <1>4 DEF ReconcileInv, Types, SettledInv, Moves
<1> QED BY <1>2, <1>5, <1>6, <1>7, <1>8, TablesStep

LEMMA LateFailureStep == ReconcileInv /\ LateFailure => ReconcileInv'
<1> SUFFICES ASSUME ReconcileInv, LateFailure PROVE ReconcileInv'
  OBVIOUS
<1>1. UNCHANGED <<status, by, events, notices, sent, reconciler, verdicts, losses>>
  BY DEF LateFailure
<1>2. Types' /\ NumberInv' /\ SettledInv' /\ Moves
  BY <1>1 DEF ReconcileInv, Types, NumberInv, SettledInv, Notifies, Moves
<1> QED BY <1>1, <1>2, TablesStep

LEMMA LoseNoticeStep == ReconcileInv /\ LoseNotice => ReconcileInv'
<1> SUFFICES ASSUME ReconcileInv, LoseNotice PROVE ReconcileInv'
  OBVIOUS
<1>1. /\ notices' \subseteq notices /\ losses' = losses + 1
      /\ UNCHANGED <<status, by, events, sent, reconciler, verdicts>>
  BY DEF LoseNotice
<1>2. Types' /\ NumberInv' /\ SettledInv' /\ Moves
  BY <1>1 DEF ReconcileInv, Types, NumberInv, SettledInv, Notifies, Moves
<1> QED BY <1>1, <1>2, TablesStep

LEMMA ReadingSteps ==
    ASSUME ReconcileInv, NEW r \in Reconcilers
    PROVE  ReadPayment(r) \/ ReadEvents(r) \/ ReadTransitions(r) \/ ReadNotices(r) => ReconcileInv'
<1> DEFINE k == reconciler[r]
<1>1. k \in Readings /\ ReadingOK(k)
  BY DEF ReconcileInv, Types, ReaderInv
<1> HIDE DEF k
<1>2. ASSUME ReadPayment(r) PROVE ReconcileInv'
  <2>1. PICK repair \in BOOLEAN :
          reconciler' = [reconciler EXCEPT ![r] = [Resting EXCEPT !.pc = "events", !.repair = repair, !.seen = status]]
    BY <1>2 DEF ReadPayment, Reads
  <2> DEFINE q == [Resting EXCEPT !.pc = "events", !.repair = repair, !.seen = status]
  <2>2. q \in Readings /\ q.pc = "events" /\ q.seen = status /\ q.events = {}
    BY DEF Resting, Readings, ReconcileInv, Types
  <2> HIDE DEF q
  <2>3. ReadingOK(q)
    BY <2>2 DEF ReadingOK, ReconcileInv, SettledInv
  <2>4. reconciler' = [reconciler EXCEPT ![r] = q]
    BY <2>1 DEF q
  <2> QED BY <1>2, <2>2, <2>3, <2>4, ReadStep DEF ReadPayment
<1>3. ASSUME ReadEvents(r) PROVE ReconcileInv'
  <2> DEFINE q == [k EXCEPT !.pc = "transitions", !.events = events]
  <2>1. k.pc = "events" /\ reconciler' = [reconciler EXCEPT ![r] = q] /\ UnchangedTables
    BY <1>3 DEF ReadEvents, Reads, k
  <2>2. q \in Readings /\ q.pc = "transitions" /\ q.seen = k.seen /\ q.events = events
    BY <1>1 DEF Readings, ReconcileInv, Types
  <2> HIDE DEF q
  <2>3. ReadingOK(q)
    BY <1>1, <2>1, <2>2 DEF ReadingOK, ReconcileInv, SettledInv
  <2> QED BY <2>1, <2>2, <2>3, ReadStep
<1>4. ASSUME ReadTransitions(r) PROVE ReconcileInv'
  <2> DEFINE done == \A a \in Expected(k.seen) : completed[a] # {}
             q == [k EXCEPT !.pc = "notices", !.done = done]
  <2>1. k.pc = "transitions" /\ reconciler' = [reconciler EXCEPT ![r] = q] /\ UnchangedTables
    BY <1>4 DEF ReadTransitions, Reads, k
  <2>2. done \in BOOLEAN
    OBVIOUS
  <2> HIDE DEF done
  <2>3. q \in Readings /\ q.pc = "notices" /\ q.seen = k.seen /\ q.events = k.events
    BY <1>1, <2>2 DEF Readings
  <2> HIDE DEF q
  <2>4. ReadingOK(q)
    BY <1>1, <2>1, <2>3 DEF ReadingOK
  <2> QED BY <2>1, <2>3, <2>4, ReadStep
<1>5. ASSUME ReadNotices(r) PROVE ReconcileInv'
  <2> DEFINE q == [k EXCEPT !.pc = "commit", !.notices = notices, !.losses = losses]
  <2>1. k.pc = "notices" /\ reconciler' = [reconciler EXCEPT ![r] = q] /\ UnchangedTables
    BY <1>5 DEF ReadNotices, Reads, k
  <2>2. /\ q \in Readings /\ q.pc = "commit" /\ q.seen = k.seen /\ q.events = k.events
        /\ q.notices = notices /\ q.losses = losses
    BY <1>1 DEF Readings, ReconcileInv, Types
  <2> HIDE DEF q
  <2>3. ReadingOK(q)
    BY <1>1, <2>1, <2>2 DEF ReadingOK, ReconcileInv, Types
  <2> QED BY <2>1, <2>2, <2>3, ReadStep
<1> QED BY <1>2, <1>3, <1>4, <1>5

\* The verdict is right when it is given: whatever was read in between, a notification that
\* was there is there or a loss was counted, and one that was not is rebuilt if it is repaired.
LEMMA CommitStep == ASSUME ReconcileInv, NEW r \in Reconcilers PROVE ReconcileCommit(r) => ReconcileInv'
<1> SUFFICES ASSUME ReconcileCommit(r) PROVE ReconcileInv'
  OBVIOUS
<1> DEFINE k == reconciler[r]
           missing == {m \in [type : Expected(k.seen), to : Recipients] : ~Notified(k.notices, m.type, m.to)}
           repairable == {m \in missing : k.repair /\ Rebuildable(k.events, m.type, m.to) # {}}
           rebuilt == {Earliest(Rebuildable(k.events, m.type, m.to)) : m \in repairable}
           early == Expected(k.seen) = {} /\ k.notices # {}
           undone == IF k.done THEN 0 ELSE 1
           premature == IF early THEN 1 ELSE 0
           v == [number |-> Cardinality(verdicts) + 1, expected |-> Expected(k.seen), repair |-> k.repair,
                 verdict |-> Verdict(Cardinality(missing \ repairable) + undone + premature, Cardinality(rebuilt)),
                 missing |-> missing \ repairable, losses |-> k.losses]
<1>1. /\ k \in Readings /\ ReadingOK(k) /\ k.pc = "commit" /\ reconciler' = [reconciler EXCEPT ![r] = Resting]
      /\ UNCHANGED <<status, by, events, sent, losses>>
  BY DEF ReconcileCommit, Reads, ReconcileInv, Types, ReaderInv
<1>2. \/ UNCHANGED <<notices, verdicts>>
      \/ notices' = notices \cup rebuilt /\ verdicts' = verdicts \cup {v}
  BY DEF ReconcileCommit
<1>3. /\ Expected(k.seen) \subseteq Actions /\ (k.seen = "authorized" => Expected(k.seen) = {})
      /\ k.events \in SUBSET Notes /\ k.losses \in Nat /\ k.seen \in Statuses
  <2>1. k.seen \in Statuses /\ k.events \in SUBSET Notes /\ k.losses \in Nat
    BY <1>1 DEF Readings
  <2> QED BY <2>1, ExpectedLemma
<1>4. \A m \in repairable : /\ Earliest(Rebuildable(k.events, m.type, m.to)) \in k.events
                            /\ Earliest(Rebuildable(k.events, m.type, m.to)).type = m.type
                            /\ Earliest(Rebuildable(k.events, m.type, m.to)).to = m.to
  <2> TAKE m \in repairable
  <2> DEFINE S == Rebuildable(k.events, m.type, m.to)
  <2>1. S # {} /\ S \in SUBSET Notes
    BY <1>3 DEF Rebuildable
  <2>2. Earliest(S) \in S
    BY <2>1, EarliestLemma
  <2> QED BY <2>2 DEF Rebuildable
<1>5. rebuilt \subseteq k.events /\ rebuilt \subseteq events
  BY <1>1, <1>4 DEF ReadingOK
<1>6. IsFiniteSet(rebuilt)
  <2> DEFINE f == [m \in repairable |-> Earliest(Rebuildable(k.events, m.type, m.to))]
  <2>1. f \in Surjection(repairable, rebuilt)
    BY DEF Surjection
  <2>2. IsFiniteSet(repairable)
    BY <1>3, MissingFinite
  <2> HIDE DEF f, repairable, rebuilt
  <2> QED BY <2>1, <2>2, FS_Surjection
<1>7. /\ v.expected = Expected(k.seen) /\ v.repair = k.repair /\ v.losses = k.losses /\ v.missing = missing \ repairable
      /\ (v.verdict \in {"matched", "repaired"} => missing \ repairable = {})
  <2>1. missing \ repairable \in SUBSET [type : Actions, to : Recipients]
    BY <1>3
  <2>2. undone \in Nat /\ premature \in Nat
    OBVIOUS
  <2>3. v.verdict = Verdict(Cardinality(missing \ repairable) + undone + premature, Cardinality(rebuilt))
    OBVIOUS
  <2> HIDE DEF v, missing, repairable, rebuilt, undone, premature
  <2>4. v.verdict \in {"matched", "repaired"} => missing \ repairable = {}
    BY <1>6, <2>1, <2>2, <2>3, NoIssueLemma
  <2> QED BY <2>4 DEF v
<1>8. \A m \in missing : ~(m \in repairable) /\ k.repair => Rebuildable(k.events, m.type, m.to) = {}
  OBVIOUS
<1>9. ASSUME NEW a \in Expected(k.seen), NEW p \in Recipients
      PROVE  [type |-> a, to |-> p] \in missing \/ Notified(k.notices, a, p)
  OBVIOUS
<1>10. v.expected # {} => by # "none" /\ k.seen # "authorized" /\ Notifies(k.events, by)
  BY <1>1, <1>3, <1>7 DEF ReadingOK
<1>11. v.repair /\ v.missing # {} => by \notin v.expected
  <2> SUFFICES ASSUME k.repair, NEW m \in missing, m \notin repairable PROVE by \notin Expected(k.seen)
    BY <1>7
  <2>1. Rebuildable(k.events, m.type, m.to) = {} /\ m.type \in Expected(k.seen) /\ m.to \in Recipients
    BY <1>8
  <2>2. \A a \in Expected(k.seen), b \in Expected(k.seen) : a = b
    BY <1>3 DEF Expected, Final, Statuses
  <2> QED BY <1>7, <1>10, <2>1, <2>2 DEF Notifies, Rebuildable
<1>12. v.verdict \in {"matched", "repaired"} /\ v.losses = losses =>
         \A a \in v.expected, p \in Recipients : \E n \in notices \cup rebuilt : n.type = a /\ n.to = p
  <2> SUFFICES ASSUME missing \ repairable = {}, k.losses = losses, NEW a \in Expected(k.seen), NEW p \in Recipients
               PROVE  \E n \in notices \cup rebuilt : n.type = a /\ n.to = p
    BY <1>7
  <2> DEFINE m == [type |-> a, to |-> p]
  <2>1. CASE Notified(k.notices, a, p)
    BY <1>1, <2>1 DEF Notified, ReadingOK
  <2>2. CASE m \in repairable
    <3>1. Earliest(Rebuildable(k.events, a, p)) \in rebuilt
      BY <2>2
    <3> QED BY <1>4, <2>2, <3>1
  <2> QED BY <1>9, <2>1, <2>2
<1> HIDE DEF k, missing, repairable, rebuilt, early, undone, premature, v
<1>13. Moves
  BY <1>1, <1>2 DEF Moves, ReconcileInv, Types
<1>14. Types' /\ NumberInv' /\ SettledInv'
  <2>1. notices' \subseteq events
    BY <1>2, <1>5 DEF ReconcileInv, NumberInv
  <2>2. Resting \in Readings
    BY DEF Resting, Readings, Statuses
  <2> QED BY <1>1, <2>1, <2>2 DEF ReconcileInv, Types, NumberInv, SettledInv, Notifies
<1>15. ReaderInv'
  <2> SUFFICES ASSUME NEW q \in Reconcilers PROVE ReadingOK(reconciler[q])'
    BY DEF ReaderInv
  <2>1. CASE q = r
    <3>1. reconciler'[q] = Resting
      BY <1>1, <2>1 DEF ReconcileInv, Types
    <3> QED BY <3>1 DEF ReadingOK, Resting
  <2>2. CASE q # r
    BY <1>1, <1>13, <2>2, ReadingKept DEF ReconcileInv, Types
  <2> QED BY <2>1, <2>2
<1>16. PastInv' /\ ReconciliationIsTrue'
  <2>1. CASE UNCHANGED <<notices, verdicts>>
    BY <1>13, <2>1, VerdictsKept
  <2>2. CASE notices' = notices \cup rebuilt /\ verdicts' = verdicts \cup {v}
    <3>1. k.losses <= losses
      BY <1>1 DEF ReadingOK
    <3>2. PastInv'
      BY <1>1, <1>3, <1>7, <1>10, <2>2, <3>1 DEF ReconcileInv, PastInv
    <3> QED BY <1>1, <1>11, <1>12, <2>2, <3>2 DEF ReconcileInv, ReconciliationIsTrue
  <2> QED BY <1>2, <2>1, <2>2
<1> QED BY <1>14, <1>15, <1>16 DEF ReconcileInv

LEMMA ReconcileInitInv == ReconciliationInit => ReconcileInv
<1> SUFFICES ASSUME ReconciliationInit PROVE ReconcileInv
  OBVIOUS
<1>1. Resting \in Readings /\ ReadingOK(Resting)
  BY DEF Resting, Readings, Statuses, ReadingOK
<1>2. Types
  BY <1>1 DEF ReconciliationInit, Types, Statuses
<1>3. ReaderInv
  BY <1>1 DEF ReconciliationInit, ReaderInv
<1> QED BY <1>2, <1>3 DEF ReconciliationInit, ReconcileInv, NumberInv, SettledInv, PastInv, ReconciliationIsTrue

LEMMA ReconcileNextInv == ReconcileInv /\ [ReconciliationNext]_reconciliationVars => ReconcileInv'
<1> SUFFICES ASSUME ReconcileInv, [ReconciliationNext]_reconciliationVars PROVE ReconcileInv'
  OBVIOUS
<1>1. CASE UNCHANGED reconciliationVars
  <2>1. UNCHANGED <<status, by, events, notices, sent, reconciler, verdicts, losses>>
    BY <1>1 DEF reconciliationVars
  <2>2. Types' /\ NumberInv' /\ SettledInv' /\ Moves
    BY <2>1 DEF ReconcileInv, Types, NumberInv, SettledInv, Notifies, Moves
  <2> QED BY <2>1, <2>2, TablesStep
<1>2. ASSUME NEW r \in Reconcilers,
             ReadPayment(r) \/ ReadEvents(r) \/ ReadTransitions(r) \/ ReadNotices(r) \/ ReconcileCommit(r)
      PROVE  ReconcileInv'
  BY <1>2, ReadingSteps, CommitStep
<1> QED BY <1>1, <1>2, SettleStep, LateFailureStep, LoseNoticeStep DEF ReconciliationNext

-----------------------------------------------------------------------------
(* Reconciliation: the theorem *)

\* reconcile_payment reads the payment, its events, its transitions and its notifications
\* at different times.  What it calls matched or repaired on a settled payment is complete,
\* and what it could not repair was not settled by the action it expects.
THEOREM ReconciliationHolds == ReconciliationSpec => []ReconciliationIsTrue
<1>1. ReconcileInv => ReconciliationIsTrue
  BY DEF ReconcileInv
<1> QED BY <1>1, ReconcileInitInv, ReconcileNextInv, PTL DEF ReconciliationSpec

-----------------------------------------------------------------------------
(* Verification: the inductive invariant *)

Claims == [ids : SUBSET Citations, titles : SUBSET Citations]

\* The verifier's own fields aside, the result stays as the executor left it.
ResultOK(r) ==
    /\ {"claims", "citations", "summary"} \subseteq DOMAIN r
    /\ r.claims \in Seq(Claims) /\ r.citations \in SUBSET Citations

\* What is needed of ResultType, CriteriaType and TextType
Inputs ==
    /\ \A r \in Results : ResultOK(r)
    /\ \A c \in Criteria : c.minClaims \in Nat
    /\ \A t \in Texts : t.placeholders \in Nat

VerifyInv == ResultOK(result) /\ criteria.minClaims \in Nat /\ text.placeholders \in Nat /\ ApprovedAnswerIsCited

-----------------------------------------------------------------------------
(* Verification: the steps *)

\* The verifier writes its summary and nothing else of the result.
LEMMA FinalizedLemma ==
    ASSUME NEW r, NEW c, {"claims", "citations", "summary"} \subseteq DOMAIN r
    PROVE  LET s == Finalized(r, c) IN DOMAIN s = DOMAIN r /\ s.claims = r.claims /\ s.citations = r.citations
  BY DEF Finalized

\* Without an issue of the contract, a final answer is covered claim by claim.
LEMMA ContractLemma ==
    ASSUME NEW r, NEW c, c.minClaims \in Nat, r.claims \in Seq(Claims), r.citations \in SUBSET Citations,
           Issues(r, c) = {}, c.strategy = "revise_final_answer"
    PROVE  /\ Len(r.claims) >= c.minClaims
           /\ \A i \in DOMAIN r.claims : /\ r.claims[i].ids \subseteq r.citations
                                         /\ r.claims[i].ids \cup r.claims[i].titles # {}
<1>1. "uncovered" \notin Issues(r, c) /\ "claims" \notin Issues(r, c)
  OBVIOUS
<1>2. Uncovered(r) = {} /\ ~(Len(r.claims) < c.minClaims)
  BY <1>1 DEF Issues
<1>3. Len(r.claims) \in Nat /\ c.minClaims \in Nat
  OBVIOUS
<1>4. \A i \in DOMAIN r.claims : Covers(r.claims[i], r)
  BY <1>2 DEF Uncovered
<1> QED BY <1>2, <1>3, <1>4 DEF Covers, SupportOf

\* Whoever gives the verdict, an approval is of a result without an issue.
LEMMA VerdictStep ==
    ASSUME VerifyInv, UNCHANGED <<criteria, text>>, result' = Finalized(result, criteria),
           verdict' = "auto_approve" => Issues(result, criteria) = {}
    PROVE  VerifyInv'
<1>1. ResultOK(result)' /\ result'.claims = result.claims /\ result'.citations = result.citations
  BY FinalizedLemma DEF VerifyInv, ResultOK
<1>2. ApprovedAnswerIsCited'
  BY <1>1, ContractLemma DEF VerifyInv, ResultOK, ApprovedAnswerIsCited
<1> QED BY <1>1, <1>2 DEF VerifyInv

LEMMA VerifyInitInv == Inputs /\ VerificationInit => VerifyInv
<1> SUFFICES ASSUME Inputs, VerificationInit PROVE VerifyInv
  OBVIOUS
<1>1. ResultOK(result) /\ criteria.minClaims \in Nat /\ text.placeholders \in Nat /\ verdict = "none"
  BY DEF Inputs, VerificationInit
<1> QED BY <1>1 DEF VerifyInv, ApprovedAnswerIsCited

LEMMA VerifyNextInv == VerifyInv /\ [VerificationNext]_verificationVars => VerifyInv'
<1> SUFFICES ASSUME VerifyInv, [VerificationNext]_verificationVars PROVE VerifyInv'
  OBVIOUS
<1>1. CASE UNCHANGED <<criteria, text, result, verdict>>
  BY <1>1 DEF VerifyInv, ResultOK, ApprovedAnswerIsCited
<1>2. CASE Relay
  <2>1. UNCHANGED <<criteria, text>>
    BY <1>2 DEF Relay
  <2>2. \/ UNCHANGED <<result, verdict>>
        \/ result' = Finalized(result, criteria) /\ (verdict' = "auto_approve" => Issues(result, criteria) = {})
    BY <1>2 DEF Relay, VerdictOf, Passes
  <2> QED BY <1>1, <2>1, <2>2, VerdictStep
<1>3. CASE Score
  <2>1. UNCHANGED <<criteria, text>> /\ result' = Finalized(result, criteria)
    BY <1>3 DEF Score
  <2>2. verdict' = "auto_approve" => Issues(result, criteria) = {}
    BY <1>3 DEF Score, VerdictOf, Passes
  <2> QED BY <2>1, <2>2, VerdictStep
<1> QED BY <1>1, <1>2, <1>3 DEF VerificationNext, verificationVars

-----------------------------------------------------------------------------
(* Verification: the scores *)

\* A score is cut to 0..100.
LEMMA ClampLemma ==
    ASSUME NEW x \in Int
    PROVE  Clamp(x) = IF x < 0 THEN 0 ELSE IF x > 100 THEN 100 ELSE x
<1> DEFINE m == IF x > 100 THEN 100 ELSE x
<1>1. Min({100, x}) = m
  BY DEF Min
<1>2. m \in Int
  OBVIOUS
<1> HIDE DEF m
<1>3. Max({0, m}) = IF m < 0 THEN 0 ELSE m
  BY <1>2 DEF Max
<1> QED BY <1>1, <1>3 DEF Clamp, m

\* The fields whose absence some validator calls missing
Fields == {"question", "objectives"} \cup {"timeline", "data"} \cup {"identifiers", "summary"} \cup {"code"}
          \cup {"results", "visuals"} \cup {"conflict"}
          \cup {"abstract", "introduction"} \cup {"methods", "discussion"} \cup {"feedback"}

LEMMA FieldsFinite == IsFiniteSet(Fields)
<1>1. \A a, b : IsFiniteSet({a, b})
  <2> TAKE a, b
  <2>1. {a, b} = {a} \cup {b} /\ IsFiniteSet({a}) /\ IsFiniteSet({b})
    BY FS_Singleton
  <2> QED BY <2>1, FS_Union
<1> QED BY <1>1, FS_Singleton, FS_Union DEF Fields

LEMMA MissingLemma == ASSUME NEW t PROVE ChecksOf(t).missing \subseteq Fields
<1>1. CASE ~(t.phase \in DOMAIN Checks /\ t.role \in DOMAIN Checks[t.phase])
  BY <1>1 DEF ChecksOf, Check
<1>2. CASE t.phase = "ideation" /\ t.role \in DOMAIN Checks[t.phase]
  BY <1>2 DEF ChecksOf, Check, Checks, IdeationChecks, Fields
<1>3. CASE t.phase = "knowledge" /\ t.role \in DOMAIN Checks[t.phase]
  BY <1>3 DEF ChecksOf, Check, Checks, KnowledgeChecks, Fields
<1>4. CASE t.phase = "experimentation" /\ t.role \in DOMAIN Checks[t.phase]
  BY <1>4 DEF ChecksOf, Check, Checks, ExperimentationChecks, Fields
<1>5. CASE t.phase = "interpretation" /\ t.role \in DOMAIN Checks[t.phase]
  BY <1>5 DEF ChecksOf, Check, Checks, InterpretationChecks, Fields
<1>6. CASE t.phase = "publication" /\ t.role \in DOMAIN Checks[t.phase]
  BY <1>6 DEF ChecksOf, Check, Checks, PublicationChecks, Fields
<1>7. DOMAIN Checks = {"ideation", "knowledge", "experimentation", "interpretation", "publication"}
  BY DEF Checks
<1> QED BY <1>1, <1>2, <1>3, <1>4, <1>5, <1>6, <1>7

\* Two of a role's fields that are missing cost more than the threshold leaves.
LEMMA IncompleteLemma ==
    ASSUME NEW t, t.placeholders \in Nat, ~(Cardinality(t.issues \cap ChecksOf(t).missing) < 2)
    PROVE  ~(Completeness(t) >= 80)
<1> DEFINE n == Cardinality(t.issues \cap ChecksOf(t).missing)
<1>1. n \in Nat
  <2>1. t.issues \cap ChecksOf(t).missing \in SUBSET Fields
    BY MissingLemma
  <2> QED BY <2>1, FieldsFinite, FS_Subset, FS_CardinalityType
<1> DEFINE p == t.placeholders
           short == If(t.length = "short", 20)
           medium == If(t.length = "medium", 10)
<1>2. p \in Nat /\ short \in Nat /\ medium \in Nat
  BY DEF If
<1>3. Completeness(t) = Clamp(100 - 15 * n - 10 * p - short - medium)
  BY DEF Completeness
<1>4. n >= 2
  BY <1>1
<1> HIDE DEF n, p, short, medium
<1>5. 100 - 15 * n - 10 * p - short - medium \in Int /\ 100 - 15 * n - 10 * p - short - medium <= 70
  BY <1>1, <1>2, <1>4
<1> QED BY <1>3, <1>5, ClampLemma

\* No score outweighs an ethical issue: the ethics score is then zero.
LEMMA AcceptedLemma == ASSUME NEW t, t.placeholders \in Nat, Decision(t) = "accept"
    PROVE  /\ t.issues \cap ChecksOf(t).ethic = {}
           /\ Cardinality(t.issues \cap ChecksOf(t).missing) < 2
<1>1. ~(Ethics(t) < 90) /\ Completeness(t) >= 80
  BY DEF Decision, MakeDecision, AllThresholdsMet
<1>2. t.issues \cap ChecksOf(t).ethic = {}
  BY <1>1 DEF Ethics
<1> QED BY <1>1, <1>2, IncompleteLemma

-----------------------------------------------------------------------------
(* Verification: the theorems *)

\* _finalize_verification_payload approves a final answer, from the relay's verdict or from the
\* score and whatever votes the quorum counts, only if every claim names citations the answer
\* has, and there are as many claims as the criteria ask for.
THEOREM AnswersAreCited == Inputs => (VerificationSpec => []ApprovedAnswerIsCited)
<1> SUFFICES ASSUME Inputs PROVE VerificationSpec => []ApprovedAnswerIsCited
  OBVIOUS
<1>1. VerifyInv => ApprovedAnswerIsCited
  BY DEF VerifyInv
<1>2. VerificationInit => VerifyInv
  BY VerifyInitInv
<1> QED BY <1>1, <1>2, VerifyNextInv, PTL DEF VerificationSpec

\* _make_decision accepts no output that its validator finds an ethical issue in, or two missing
\* fields, whatever the rest of the output adds to its scores.
THEOREM AcceptancesAreSound == Inputs => (VerificationSpec => []AcceptedIsSound)
<1> SUFFICES ASSUME Inputs PROVE VerificationSpec => []AcceptedIsSound
  OBVIOUS
<1>1. VerifyInv => AcceptedIsSound
  BY AcceptedLemma DEF VerifyInv, AcceptedIsSound
<1>2. VerificationInit => VerifyInv
  BY VerifyInitInv
<1> QED BY <1>1, <1>2, VerifyNextInv, PTL DEF VerificationSpec

-----------------------------------------------------------------------------
(* RunAttempts: the inductive invariant *)

\* Requests ask for numbers.
AttemptsAssumption == AskedLimits \subseteq Int

\* The agents of the attempts at a node before the m-th of some attempts
Named(list, m) == {list[h].agent : h \in {g \in 1..m - 1 : list[g].node = list[m].node}}

\* Agents that may work on a node whatever changes now
Staying == [i \in 1..6 |-> {a \in Agents : (Card[a].builtin \/ changes = 0) /\ Fits(a, Plan[i])}]

SomeSeq(s) == \E T : s \in Seq(T)

LimitInv == limit \in Nat /\ limit >= 1 /\ changes \in Nat /\ SomeSeq(attempts) /\ SomeSeq(trace)

RowInv ==
    \A k \in DOMAIN attempts :
        /\ attempts[k].node \in 1..6
        /\ attempts[k].number = Cardinality({h \in 1..k : attempts[h].node = attempts[k].node})
        /\ attempts[k].number <= limit
        /\ attempts[k].inputs = Plan[attempts[k].node].bound
        /\ k < Len(attempts) => attempts[k].status # "running"

NamedInv ==
    \A m \in DOMAIN attempts :
        \/ attempts[m].asked = 0 \/ attempts[m].asked \notin Named(attempts, m)
        \/ Staying[attempts[m].node] \subseteq Named(attempts, m)

TraceInv ==
    /\ DOMAIN trace = {k \in DOMAIN attempts : attempts[k].status # "running"}
    /\ \A k \in DOMAIN trace :
        /\ trace[k].node = attempts[k].node /\ trace[k].number = attempts[k].number
        /\ trace[k].approved <=> attempts[k].status = "completed"

ChainInv ==
    /\ node = [i \in 1..6 |-> node[i]]
    /\ attempts # << >> /\ Current.status = "running" =>
         /\ run = "running" /\ node[Current.node].status = "running"
         /\ \A j \in 1..6 : j < Current.node => node[j].status = "completed"
    /\ \A i \in 1..6 :
         /\ node[i].status = "pending" => Cardinality(Tries(i)) < limit
         /\ node[i].status = "completed" =>
              /\ node[i].result
              /\ \E k \in DOMAIN trace : /\ trace[k].node = i /\ trace[k].approved
                                         /\ \A h \in DOMAIN trace : trace[h].node = i => h <= k
    /\ run = "completed" =>
         \/ \A i \in 1..6 : node[i].status = "completed"
         \/ \E k \in DOMAIN attempts : attempts[k].status = "cancelled"

AttemptInv == LimitInv /\ RowInv /\ NamedInv /\ TraceInv /\ ChainInv

-----------------------------------------------------------------------------
\* The chain of six nodes
LEMMA PlanIs ==
    /\ DOMAIN Plan = 1..6 /\ Len(Plan) = 6
    /\ \A i \in 1..6 : \A j \in Plan[i].bound : j \in 1..6 /\ j < i
<1>1. DOMAIN Plan = 1..6 /\ Len(Plan) = 6
  BY DEF Plan
<1>2. ASSUME NEW i \in 1..6, NEW j \in Plan[i].bound PROVE j \in 1..6 /\ j < i
  <2>1. Plan[1].bound = {} /\ Plan[2].bound = {1} /\ Plan[3].bound = {1, 2} /\ Plan[4].bound = {1, 3}
        /\ Plan[5].bound = {1, 3, 4} /\ Plan[6].bound = {1, 3, 4, 5}
    BY DEF Plan, Step
  <2>2. i = 1 \/ i = 2 \/ i = 3 \/ i = 4 \/ i = 5 \/ i = 6
    OBVIOUS
  <2> QED BY <1>2, <2>1, <2>2
<1> QED BY <1>1, <1>2

\* A sequence and what is appended to it
LEMMA Appended == ASSUME NEW s, NEW x, SomeSeq(s)
                  PROVE  /\ Len(s) \in Nat /\ DOMAIN s = 1..Len(s)
                         /\ SomeSeq(Append(s, x)) /\ Len(Append(s, x)) = Len(s) + 1
                         /\ DOMAIN Append(s, x) = 1..Len(s) + 1
                         /\ Append(s, x)[Len(s) + 1] = x
                         /\ \A k \in DOMAIN s : Append(s, x)[k] = s[k]
<1>1. PICK T : s \in Seq(T)
  BY DEF SomeSeq
<1>2. s \in Seq(T \cup {x})
  BY <1>1
<1>3. Append(s, x) \in Seq(T \cup {x})
  BY <1>2
<1> QED BY <1>1, <1>2, <1>3 DEF SomeSeq

\* A sequence and another last element
LEMMA Replaced == ASSUME NEW s, NEW x, SomeSeq(s), s # << >>
                  PROVE  /\ Len(s) \in DOMAIN s
                         /\ SomeSeq([s EXCEPT ![Len(s)] = x]) /\ Len([s EXCEPT ![Len(s)] = x]) = Len(s)
                         /\ DOMAIN [s EXCEPT ![Len(s)] = x] = DOMAIN s
                         /\ [s EXCEPT ![Len(s)] = x][Len(s)] = x
                         /\ \A k \in DOMAIN s : k # Len(s) => [s EXCEPT ![Len(s)] = x][k] = s[k]
<1>1. PICK T : s \in Seq(T)
  BY DEF SomeSeq
<1>2. s \in Seq(T \cup {x})
  BY <1>1
<1>3. [s EXCEPT ![Len(s)] = x] \in Seq(T \cup {x})
  BY <1>2
<1>4. Len(s) \in DOMAIN s
  BY <1>1
<1> QED BY <1>1, <1>2, <1>3, <1>4 DEF SomeSeq

\* The first of some numbers up to six
LEMMA MinIs == ASSUME NEW S, S \subseteq 1..6, S # {} PROVE Min(S) \in S /\ \A j \in S : Min(S) <= j
<1>1. \E x \in S : \A y \in S : x <= y
  <2>1. CASE 1 \in S
    BY <2>1
  <2>2. CASE 1 \notin S /\ 2 \in S
    BY <2>2
  <2>3. CASE 1 \notin S /\ 2 \notin S /\ 3 \in S
    BY <2>3
  <2>4. CASE 1 \notin S /\ 2 \notin S /\ 3 \notin S /\ 4 \in S
    BY <2>4
  <2>5. CASE 1 \notin S /\ 2 \notin S /\ 3 \notin S /\ 4 \notin S /\ 5 \in S
    BY <2>5
  <2>6. CASE 1 \notin S /\ 2 \notin S /\ 3 \notin S /\ 4 \notin S /\ 5 \notin S
    <3>1. \A y \in S : y = 6
      BY <2>6
    <3>2. 6 \in S
      BY <3>1
    <3> QED BY <3>1, <3>2
  <2> QED BY <2>1, <2>2, <2>3, <2>4, <2>5, <2>6
<1> QED BY <1>1 DEF Min

\* The bounds of a request
LEMMA LimitIs == ASSUME NEW a \in Int PROVE Max({1, Min({a, 5})}) \in Nat /\ Max({1, Min({a, 5})}) >= 1
<1>1. Min({a, 5}) \in Int
  <2>1. \E x \in {a, 5} : \A y \in {a, 5} : x <= y
    OBVIOUS
  <2> QED BY <2>1 DEF Min
<1> DEFINE b == Min({a, 5})
<1> HIDE DEF b
<1>2. b \in Int
  BY <1>1 DEF b
<1>3. \E x \in {1, b} : \A y \in {1, b} : x >= y
  BY <1>2
<1>4. Max({1, b}) \in {1, b} /\ Max({1, b}) >= 1
  BY <1>3 DEF Max
<1> QED BY <1>2, <1>4 DEF b

\* The attempts at a node up to one of them
LEMMA TriesUpTo == ASSUME LimitInv, NEW i, NEW n \in Nat
                   PROVE  /\ IsFiniteSet({h \in 1..n : attempts[h].node = i})
                          /\ Cardinality({h \in 1..n : attempts[h].node = i}) \in Nat
                          /\ Tries(i) = {h \in 1..Len(attempts) : attempts[h].node = i}
<1>1. IsFiniteSet(1..n)
  BY FS_Interval
<1>2. IsFiniteSet({h \in 1..n : attempts[h].node = i})
  BY <1>1, FS_Subset
<1>3. DOMAIN attempts = 1..Len(attempts)
  BY Appended DEF LimitInv
<1> QED BY <1>2, <1>3, FS_CardinalityType DEF Tries

\* The run starts with six nodes that nobody has worked on.
LEMMA AttemptsStart == ASSUME AttemptsAssumption, AttemptsInit PROVE AttemptInv
<1>1. limit \in Nat /\ limit >= 1
  BY LimitIs DEF AttemptsInit, AttemptsAssumption
<1>2. SomeSeq(attempts) /\ SomeSeq(trace) /\ DOMAIN attempts = {} /\ DOMAIN trace = {} /\ attempts = << >>
  <2>1. << >> \in Seq({})
    OBVIOUS
  <2> QED BY <2>1 DEF AttemptsInit, SomeSeq
<1>3. LimitInv /\ RowInv /\ NamedInv /\ TraceInv
  BY <1>1, <1>2 DEF LimitInv, RowInv, NamedInv, TraceInv, AttemptsInit
<1>4. node = [i \in 1..6 |-> NewNode(Plan[i])]
  BY PlanIs DEF AttemptsInit
<1>5. \A i \in 1..6 : node[i].status = "pending"
  BY <1>4 DEF NewNode
<1>6. \A i : Tries(i) = {}
  BY <1>2 DEF Tries
<1>7. run = "running" /\ node = [k \in 1..6 |-> node[k]]
  BY <1>4 DEF AttemptsInit
<1>8. \A i : Cardinality(Tries(i)) < limit
  BY <1>1, <1>6, FS_EmptySet
<1>9. ChainInv
  BY <1>2, <1>5, <1>7, <1>8 DEF ChainInv
<1> QED BY <1>3, <1>9 DEF AttemptInv

\* A change of the market leaves fewer agents that stay.
LEMMA FewerStay == ASSUME LimitInv, changes' \in Nat,
                          (changes' = changes /\ market' = market) \/ changes' = changes + 1
                   PROVE  \A i \in 1..6 : Staying'[i] \subseteq Staying[i]
<1>1. SUFFICES ASSUME NEW i \in 1..6, NEW a \in Staying'[i] PROVE a \in Staying[i]
  OBVIOUS
<1>2. CASE changes' = changes /\ market' = market
  BY <1>1, <1>2 DEF Staying, Fits, Listed
<1>3. CASE changes' = changes + 1
  <2>1. a \in Agents /\ Card[a].builtin /\ Plan[i].family \in Card[a].families
    BY <1>1, <1>3 DEF Staying, Fits, LimitInv
  <2> QED BY <2>1 DEF Staying, Fits, Listed, HasContract
<1> QED BY <1>2, <1>3

\* Change
LEMMA ChangeStep == ASSUME AttemptInv, Change PROVE AttemptInv'
<1>1. changes' = changes + 1 /\ changes' \in Nat
  BY DEF Change, AttemptInv, LimitInv
<1>2. UNCHANGED <<limit, node, attempts, trace, run>>
  BY DEF Change
<1>3. LimitInv'
  BY <1>1, <1>2 DEF AttemptInv, LimitInv
<1>4. RowInv' /\ TraceInv'
  <2>1. RowInv'
    BY <1>2, Zenon DEF AttemptInv, RowInv
  <2>2. TraceInv'
    BY <1>2, Zenon DEF AttemptInv, TraceInv
  <2> QED BY <2>1, <2>2
<1>5. ChainInv'
  BY <1>2 DEF AttemptInv, ChainInv, Current, Tries
<1>6. \A i \in 1..6 : Staying'[i] \subseteq Staying[i]
  BY <1>1, FewerStay DEF AttemptInv
<1>7. NamedInv'
  BY <1>2, <1>6 DEF AttemptInv, NamedInv, RowInv
<1> QED BY <1>3, <1>4, <1>5, <1>7 DEF AttemptInv

\* Begin
LEMMA BeginStep == ASSUME AttemptInv, Begin PROVE AttemptInv'
<1>1. PICK i \in 1..6 : i = Min(Remaining) /\ i \in Remaining /\ \A j \in Remaining : i <= j
  <2>1. Remaining \subseteq 1..6 /\ Remaining # {}
    BY PlanIs DEF Begin, Remaining
  <2> QED BY <2>1, MinIs
<1>2. PICK n : n = Len(attempts)
  OBVIOUS
<1>3. PICK new : new = [node |-> i, number |-> Cardinality(Tries(i)) + 1, agent |-> node[i].assigned,
                        asked |-> 0, status |-> "running", inputs |-> {j \in Plan[i].bound : node[j].result}]
  OBVIOUS
<1>4. node[i].status = "pending" /\ attempts' = Append(attempts, new)
      /\ node' = [node EXCEPT ![i] = Settled(node[i], "running", node[i].result)]
      /\ UNCHANGED <<market, limit, trace, run, changes>> /\ run = "running"
  BY <1>1, <1>3 DEF Begin
<1>5. \A j \in 1..6 : j < i => node[j].status = "completed"
  BY <1>1, PlanIs DEF Remaining
<1>6. new.node = i /\ new.number = Cardinality(Tries(i)) + 1 /\ new.asked = 0 /\ new.status = "running"
      /\ new.inputs = {j \in Plan[i].bound : node[j].result}
  BY <1>3
<1>7. /\ n \in Nat /\ DOMAIN attempts = 1..n /\ DOMAIN attempts' = 1..n + 1 /\ Len(attempts') = n + 1
      /\ attempts'[n + 1] = new /\ \A k \in 1..n : attempts'[k] = attempts[k]
      /\ SomeSeq(attempts')
  BY <1>2, <1>4, Appended DEF AttemptInv, LimitInv
<1>8. LimitInv'
  BY <1>4, <1>7 DEF AttemptInv, LimitInv
<1>9. \A k \in 1..n : attempts[k].status # "running"
  <2> SUFFICES ASSUME NEW k \in 1..n, attempts[k].status = "running" PROVE FALSE
    OBVIOUS
  <2>1. k = n
    <3>1. \A h \in DOMAIN attempts : h < Len(attempts) => attempts[h].status # "running"
      BY DEF AttemptInv, RowInv
    <3> QED BY <1>2, <1>7, <3>1
  <2>2. attempts # << >> /\ Current = attempts[n] /\ Current.status = "running"
    BY <1>2, <1>7, <2>1 DEF Current
  <2>3. node[attempts[n].node].status = "running" /\ \A j \in 1..6 : j < attempts[n].node => node[j].status = "completed"
    BY <2>2 DEF AttemptInv, ChainInv
  <2>4. attempts[n].node \in 1..6
    BY <1>7, <2>1 DEF AttemptInv, RowInv
  <2>5. attempts[n].node \in Remaining
    BY <2>3, <2>4, PlanIs DEF Remaining
  <2>6. i <= attempts[n].node /\ i # attempts[n].node
    BY <1>1, <1>4, <2>3, <2>5
  <2> QED BY <1>4, <2>3, <2>4, <2>6
<1>10. new.inputs = Plan[i].bound
  BY <1>1, <1>5, <1>6, PlanIs DEF AttemptInv, ChainInv
<1>11. /\ Tries(i)' = Tries(i) \cup {n + 1} /\ Cardinality(Tries(i)') = Cardinality(Tries(i)) + 1
       /\ Cardinality(Tries(i)) \in Nat
       /\ \A j : j # i => Tries(j)' = Tries(j)
  <2>1. Tries(i)' = Tries(i) \cup {n + 1} /\ \A j : j # i => Tries(j)' = Tries(j)
    BY <1>6, <1>7 DEF Tries
  <2>2. IsFiniteSet(Tries(i)) /\ n + 1 \notin Tries(i)
    <3>1. Tries(i) \subseteq 1..n
      BY <1>7 DEF Tries
    <3>2. IsFiniteSet(Tries(i))
      <4>1. IsFiniteSet(1..n)
        BY <1>7, FS_Interval
      <4> QED BY <3>1, <4>1, FS_Subset
    <3> QED BY <1>7, <3>2 DEF Tries
  <2> QED BY <2>1, <2>2, FS_AddElement, FS_CardinalityType
<1>12. RowInv'
  <2> SUFFICES ASSUME NEW k \in DOMAIN attempts'
               PROVE  /\ attempts'[k].node \in 1..6
                      /\ attempts'[k].number = Cardinality({h \in 1..k : attempts'[h].node = attempts'[k].node})
                      /\ attempts'[k].number <= limit
                      /\ attempts'[k].inputs = Plan[attempts'[k].node].bound
                      /\ k < Len(attempts') => attempts'[k].status # "running"
    BY <1>4 DEF RowInv
  <2>1. CASE k \in 1..n
    <3>1. {h \in 1..k : attempts'[h].node = attempts'[k].node} = {h \in 1..k : attempts[h].node = attempts[k].node}
      BY <1>7, <2>1
    <3> QED BY <1>7, <1>9, <2>1, <3>1 DEF AttemptInv, RowInv
  <2>2. CASE k = n + 1
    <3>1. {h \in 1..k : attempts'[h].node = i} = Tries(i)'
      BY <1>7, <2>2 DEF Tries
    <3>2. Cardinality(Tries(i)) < limit
      BY <1>4 DEF AttemptInv, ChainInv
    <3>3. attempts'[k] = new /\ limit \in Nat
      BY <1>7, <2>2 DEF AttemptInv, LimitInv
    <3>4. new.number <= limit
      BY <1>6, <1>11, <3>2, <3>3
    <3>5. {h \in 1..k : attempts'[h].node = attempts'[k].node} = Tries(i)'
      BY <1>6, <3>1, <3>3
    <3>6. attempts'[k].number = Cardinality({h \in 1..k : attempts'[h].node = attempts'[k].node})
      BY <1>6, <1>11, <3>3, <3>5
    <3>7. ~(k < Len(attempts'))
      BY <1>7, <2>2
    <3> QED BY <1>6, <1>10, <3>3, <3>4, <3>6, <3>7
  <2> QED BY <1>7, <2>1, <2>2
<1>13. NamedInv'
  <2>1. \A m \in 1..n : Named(attempts', m) = Named(attempts, m)
    BY <1>7 DEF Named
  <2>2. Staying' = Staying
    BY <1>4 DEF Staying, Fits, Listed
  <2> SUFFICES ASSUME NEW m \in DOMAIN attempts', attempts'[m].asked # 0
               PROVE  \/ attempts'[m].asked \notin Named(attempts', m)
                      \/ Staying'[attempts'[m].node] \subseteq Named(attempts', m)
    BY DEF NamedInv
  <2>3. m \in 1..n
    BY <1>6, <1>7
  <2> QED BY <1>7, <2>1, <2>2, <2>3 DEF AttemptInv, NamedInv
<1>14. TraceInv'
  BY <1>4, <1>6, <1>7 DEF AttemptInv, TraceInv
<1>15. ChainInv'
  <2>1. DOMAIN node = 1..6
        /\ node' = [j \in 1..6 |-> IF j = i THEN Settled(node[i], "running", node[i].result) ELSE node[j]]
    BY <1>1, <1>4 DEF AttemptInv, ChainInv
  <2>2. node'[i].status = "running" /\ \A j \in 1..6 : j # i => node'[j] = node[j]
    BY <1>1, <2>1 DEF Settled
  <2>3. node' = [j \in 1..6 |-> node'[j]]
    BY <2>1
  <2>4. attempts' # << >> /\ Current' = new
    BY <1>7 DEF Current
  <2>5. \A j \in 1..6 : node'[j].status = "pending" => Cardinality(Tries(j)') < limit
    BY <1>11, <2>2 DEF AttemptInv, ChainInv
  <2>6. \A j \in 1..6 : node'[j].status = "completed" => j # i
    BY <2>2
  <2>7. run' = "running" /\ Current'.node = i /\ \A j \in 1..6 : j < Current'.node => node'[j].status = "completed"
    BY <1>4, <1>5, <1>6, <2>2, <2>4
  <2>8. \A j \in 1..6 : node'[j].status = "completed" =>
              /\ node'[j].result
              /\ \E k \in DOMAIN trace' : /\ trace'[k].node = j /\ trace'[k].approved
                                          /\ \A h \in DOMAIN trace' : trace'[h].node = j => h <= k
    BY <1>4, <2>2, <2>6, Zenon DEF AttemptInv, ChainInv
  <2>9. node'[Current'.node].status = "running" /\ (run' = "completed" => \A j \in 1..6 : node'[j].status = "completed")
    BY <2>2, <2>7
  <2>10. limit' = limit
    BY <1>4
  <2> QED BY <2>3, <2>5, <2>7, <2>8, <2>9, <2>10 DEF ChainInv
<1> QED BY <1>8, <1>12, <1>13, <1>14, <1>15 DEF AttemptInv

\* Whom an attempt asks now has not been named, or everybody has.
LEMMA AskedIs == ASSUME NEW i \in 1..6, NEW preferred, NEW excluded, NEW a \in Selected(Plan[i], preferred, excluded)
                 PROVE  a \notin excluded \/ Staying[i] \subseteq excluded
<1>1. CASE Ranked(Plan[i], excluded) = {}
  BY <1>1 DEF Ranked, Staying
<1>2. CASE Ranked(Plan[i], excluded) # {}
  BY <1>2 DEF Selected, Foremost, Ranked
<1> QED BY <1>1, <1>2

\* What the end of an attempt does to the rows of attempts and of decisions
LEMMA EndedRows ==
    ASSUME AttemptInv, Running, NEW how, NEW asked, NEW agent, NEW row, how # "running",
           Ended(how, asked, agent), trace' = Append(trace, row), row.node = Current.node, row.number = Current.number,
           row.approved <=> how = "completed", asked = 0 \/ asked \in Asked, UNCHANGED <<market, limit, changes>>
    PROVE  /\ LimitInv' /\ RowInv' /\ NamedInv' /\ TraceInv'
           /\ \A i : Tries(i)' = Tries(i)
           /\ Current.node \in 1..6 /\ Current'.status = how
           /\ \A k \in DOMAIN trace : k \in DOMAIN trace' /\ trace'[k] = trace[k]
           /\ Len(attempts) \in DOMAIN trace' /\ trace'[Len(attempts)] = row
           /\ \A k \in DOMAIN trace' : k = Len(attempts) \/ (k < Len(attempts) /\ k \in DOMAIN trace)
           /\ Len(attempts) \in DOMAIN attempts' /\ attempts'[Len(attempts)].status = how
           /\ attempts' # << >>
<1>1. PICK n : n = Len(attempts)
  OBVIOUS
<1>2. PICK new : new = [node |-> attempts[n].node, number |-> attempts[n].number, agent |-> agent, asked |-> asked,
                        status |-> how, inputs |-> attempts[n].inputs]
  OBVIOUS
<1>3. attempts # << >> /\ attempts[n].status = "running" /\ Current = attempts[n]
  BY <1>1 DEF Running, Current
<1>4. attempts' = [attempts EXCEPT ![n] = new]
  BY <1>1, <1>2 DEF Ended
<1>5. /\ new.node = attempts[n].node /\ new.number = attempts[n].number /\ new.asked = asked /\ new.status = how
      /\ new.inputs = attempts[n].inputs
  BY <1>2
<1>6. /\ n \in Nat /\ n \in 1..n /\ DOMAIN attempts = 1..n /\ DOMAIN attempts' = 1..n /\ Len(attempts') = n
      /\ attempts'[n] = new /\ \A k \in 1..n : k # n => attempts'[k] = attempts[k]
      /\ SomeSeq(attempts')
  <2>1. SomeSeq(attempts) /\ SomeSeq([attempts EXCEPT ![n] = new]) /\ Len([attempts EXCEPT ![n] = new]) = n
        /\ DOMAIN [attempts EXCEPT ![n] = new] = DOMAIN attempts /\ n \in DOMAIN attempts
        /\ [attempts EXCEPT ![n] = new][n] = new
        /\ \A k \in DOMAIN attempts : k # n => [attempts EXCEPT ![n] = new][k] = attempts[k]
    BY <1>1, <1>3, Replaced DEF AttemptInv, LimitInv
  <2>2. n \in Nat /\ DOMAIN attempts = 1..n
    BY <1>1, Appended DEF AttemptInv, LimitInv
  <2> QED BY <1>4, <2>1, <2>2
<1>7. DOMAIN trace = 1..n - 1
  <2>1. \A k \in 1..n : k # n => attempts[k].status # "running"
    <3>1. \A h \in DOMAIN attempts : h < Len(attempts) => attempts[h].status # "running"
      BY DEF AttemptInv, RowInv
    <3> QED BY <1>1, <1>6, <3>1
  <2>2. DOMAIN trace = {k \in 1..n : attempts[k].status # "running"}
    BY <1>6 DEF AttemptInv, TraceInv
  <2> QED BY <1>3, <1>6, <2>1, <2>2
<1>8. /\ DOMAIN trace' = 1..n /\ trace'[n] = row /\ (\A k \in 1..n - 1 : trace'[k] = trace[k]) /\ SomeSeq(trace')
  <2>1. SomeSeq(trace)
    BY DEF AttemptInv, LimitInv
  <2>2. /\ Len(trace) \in Nat /\ DOMAIN trace = 1..Len(trace) /\ SomeSeq(trace') /\ DOMAIN trace' = 1..Len(trace) + 1
        /\ trace'[Len(trace) + 1] = row /\ \A k \in DOMAIN trace : trace'[k] = trace[k]
    BY <2>1, Appended
  <2>3. Len(trace) = n - 1
    BY <1>6, <1>7, <2>2
  <2> QED BY <1>6, <1>7, <2>2, <2>3
<1>9. LimitInv'
  BY <1>6, <1>8 DEF AttemptInv, LimitInv
<1>10. \A k \in 1..n : attempts'[k].node = attempts[k].node /\ attempts'[k].number = attempts[k].number
                       /\ attempts'[k].inputs = attempts[k].inputs /\ (k # n => attempts'[k] = attempts[k])
  BY <1>5, <1>6
<1>11. RowInv'
  <2> SUFFICES ASSUME NEW k \in 1..n
               PROVE  /\ attempts'[k].node \in 1..6
                      /\ attempts'[k].number = Cardinality({h \in 1..k : attempts'[h].node = attempts'[k].node})
                      /\ attempts'[k].number <= limit
                      /\ attempts'[k].inputs = Plan[attempts'[k].node].bound
                      /\ k < n => attempts'[k].status # "running"
    BY <1>6 DEF RowInv
  <2>1. {h \in 1..k : attempts'[h].node = attempts'[k].node} = {h \in 1..k : attempts[h].node = attempts[k].node}
    BY <1>6, <1>10
  <2>2. /\ attempts[k].node \in 1..6
        /\ attempts[k].number = Cardinality({h \in 1..k : attempts[h].node = attempts[k].node})
        /\ attempts[k].number <= limit
        /\ attempts[k].inputs = Plan[attempts[k].node].bound
        /\ k < Len(attempts) => attempts[k].status # "running"
    BY <1>6 DEF AttemptInv, RowInv
  <2>3. attempts'[k].number = Cardinality({h \in 1..k : attempts'[h].node = attempts'[k].node})
    BY <1>10, <2>1, <2>2
  <2>4. k < n => attempts'[k].status # "running"
    BY <1>1, <1>6, <1>10, <2>2
  <2> QED BY <1>10, <2>2, <2>3, <2>4
<1>12. NamedInv'
  <2>1. \A m \in 1..n : Named(attempts', m) = Named(attempts, m)
    BY <1>6, <1>10 DEF Named
  <2>2. Staying' = Staying
    BY DEF Staying, Fits, Listed
  <2> SUFFICES ASSUME NEW m \in 1..n, attempts'[m].asked # 0
               PROVE  \/ attempts'[m].asked \notin Named(attempts', m)
                      \/ Staying'[attempts'[m].node] \subseteq Named(attempts', m)
    BY <1>6 DEF NamedInv
  <2>3. CASE m # n
    BY <1>6, <1>10, <2>1, <2>2, <2>3 DEF AttemptInv, NamedInv
  <2>4. CASE m = n
    <3>1. attempts[n].node \in 1..6
      BY <1>6 DEF AttemptInv, RowInv
    <3>2. Earlier(attempts[n].node) = Named(attempts, n)
      BY <1>1, <1>6 DEF Earlier, Tries, Named
    <3>3. asked \in Selected(Plan[attempts[n].node], node[attempts[n].node].assigned, Named(attempts, n))
      BY <1>3, <1>5, <1>6, <2>4, <3>2 DEF Asked
    <3>4. asked \notin Named(attempts, n) \/ Staying[attempts[n].node] \subseteq Named(attempts, n)
      BY <3>1, <3>3, AskedIs
    <3> QED BY <1>5, <1>6, <2>1, <2>2, <2>4, <3>4
  <2> QED BY <2>3, <2>4
<1>13. TraceInv'
  <2>1. \A k \in 1..n : attempts'[k].status # "running"
    <3>1. \A h \in DOMAIN attempts : h < Len(attempts) => attempts[h].status # "running"
      BY DEF AttemptInv, RowInv
    <3> QED BY <1>1, <1>5, <1>6, <3>1
  <2>2. \A k \in 1..n - 1 : /\ trace'[k].node = attempts'[k].node /\ trace'[k].number = attempts'[k].number
                            /\ trace'[k].approved <=> attempts'[k].status = "completed"
    <3> SUFFICES ASSUME NEW k \in 1..n - 1
                 PROVE  /\ trace'[k].node = attempts'[k].node /\ trace'[k].number = attempts'[k].number
                        /\ trace'[k].approved <=> attempts'[k].status = "completed"
      OBVIOUS
    <3>1. /\ trace[k].node = attempts[k].node /\ trace[k].number = attempts[k].number
          /\ trace[k].approved <=> attempts[k].status = "completed"
      BY <1>7 DEF AttemptInv, TraceInv
    <3>2. trace'[k] = trace[k] /\ attempts'[k] = attempts[k]
      BY <1>6, <1>8
    <3> QED BY <3>1, <3>2, Zenon
  <2>3. /\ trace'[n].node = attempts'[n].node /\ trace'[n].number = attempts'[n].number
        /\ trace'[n].approved <=> attempts'[n].status = "completed"
    BY <1>3, <1>5, <1>6, <1>8, Zenon
  <2>4. DOMAIN trace' = {k \in DOMAIN attempts' : attempts'[k].status # "running"}
    BY <1>6, <1>8, <2>1
  <2>5. \A k \in DOMAIN trace' : k = n \/ k \in 1..n - 1
    BY <1>6, <1>8
  <2> QED BY <2>2, <2>3, <2>4, <2>5, Zenon DEF TraceInv
<1>14. \A i : Tries(i)' = Tries(i)
  BY <1>6, <1>10 DEF Tries
<1>15. Current.node \in 1..6 /\ Current'.status = how
  BY <1>3, <1>5, <1>6 DEF AttemptInv, RowInv, Current
<1>16. /\ \A k \in DOMAIN trace : k \in DOMAIN trace' /\ trace'[k] = trace[k]
       /\ n \in DOMAIN trace' /\ trace'[n] = row
       /\ \A k \in DOMAIN trace' : k = n \/ (k < n /\ k \in DOMAIN trace)
  BY <1>6, <1>7, <1>8
<1>17. n \in DOMAIN attempts' /\ attempts'[n].status = how /\ attempts' # << >>
  BY <1>5, <1>6
<1> QED BY <1>1, <1>9, <1>11, <1>12, <1>13, <1>14, <1>15, <1>16, <1>17

\* The end of an attempt leaves the chain in order, if what it makes of the nodes does.
LEMMA EndedStep ==
    ASSUME AttemptInv, Running, NEW how, NEW asked, NEW agent, NEW row, how # "running",
           Ended(how, asked, agent), trace' = Append(trace, row), row.node = Current.node, row.number = Current.number,
           row.approved <=> how = "completed", asked = 0 \/ asked \in Asked, UNCHANGED <<market, limit, changes>>,
           node' = [j \in 1..6 |-> node'[j]],
           \A j \in 1..6 : node'[j].status = "completed" =>
               \/ node'[j] = node[j] /\ j # Current.node
               \/ node'[j].result /\ j = Current.node /\ how = "completed",
           \A j \in 1..6 : node'[j].status = "pending" =>
               node'[j] = node[j] \/ (j = Current.node /\ Cardinality(Tries(j)) < limit),
           run' = "completed" => how = "cancelled" \/ \A j \in 1..6 : node'[j].status = "completed"
    PROVE  AttemptInv'
<1>1. PICK n : n = Len(attempts)
  OBVIOUS
<1>2. PICK i \in 1..6 : i = Current.node
  BY EndedRows
<1>3. /\ LimitInv' /\ RowInv' /\ NamedInv' /\ TraceInv'
      /\ \A j : Tries(j)' = Tries(j)
      /\ Current'.status = how
      /\ \A k \in DOMAIN trace : k \in DOMAIN trace' /\ trace'[k] = trace[k]
      /\ n \in DOMAIN trace' /\ trace'[n] = row
      /\ \A k \in DOMAIN trace' : k = n \/ (k < n /\ k \in DOMAIN trace)
      /\ n \in DOMAIN attempts' /\ attempts'[n].status = how
  BY <1>1, EndedRows
<1>4. ASSUME NEW j \in 1..6, node'[j].status = "pending" PROVE Cardinality(Tries(j)') < limit'
  BY <1>3, <1>4 DEF AttemptInv, ChainInv
<1>5. ASSUME NEW j \in 1..6, node'[j].status = "completed"
      PROVE  /\ node'[j].result
             /\ \E k \in DOMAIN trace' : /\ trace'[k].node = j /\ trace'[k].approved
                                         /\ \A h \in DOMAIN trace' : trace'[h].node = j => h <= k
  <2>1. CASE node'[j] = node[j] /\ j # i
    <3>1. node[j].status = "completed"
      BY <1>5, <2>1
    <3>2. node[j].result /\ \E k \in DOMAIN trace : /\ trace[k].node = j /\ trace[k].approved
                                                    /\ \A h \in DOMAIN trace : trace[h].node = j => h <= k
      BY <3>1, Zenon DEF AttemptInv, ChainInv
    <3>3. PICK k \in DOMAIN trace : /\ trace[k].node = j /\ trace[k].approved
                                    /\ \A h \in DOMAIN trace : trace[h].node = j => h <= k
      BY <3>2
    <3>4. \A h \in DOMAIN trace' : trace'[h].node = j => h <= k
      BY <1>2, <1>3, <2>1, <3>3
    <3>5. k \in DOMAIN trace' /\ trace'[k] = trace[k]
      BY <1>3, <3>3
    <3> QED BY <2>1, <3>2, <3>3, <3>4, <3>5, Zenon
  <2>2. CASE node'[j].result /\ j = i /\ how = "completed"
    <3>1. trace'[n].node = j /\ trace'[n].approved
      BY <1>2, <1>3, <2>2, Zenon
    <3>2. \A h \in DOMAIN trace' : h <= n
      <4>1. n \in Nat
        BY <1>1, Appended DEF AttemptInv, LimitInv
      <4> QED BY <1>3, <4>1
    <3> QED BY <1>3, <2>2, <3>1, <3>2, Zenon
  <2> QED BY <1>2, <1>5, <2>1, <2>2
<1>6. run' = "completed" => \/ \A j \in 1..6 : node'[j].status = "completed"
                            \/ \E k \in DOMAIN attempts' : attempts'[k].status = "cancelled"
  BY <1>3
<1>7. ChainInv'
  BY <1>3, <1>4, <1>5, <1>6, Zenon DEF ChainInv
<1> QED BY <1>3, <1>7 DEF AttemptInv

\* What a running attempt says of the nodes
LEMMA RunningIs == ASSUME AttemptInv, Running
                   PROVE  /\ Current.node \in 1..6 /\ node = [j \in 1..6 |-> node[j]] /\ DOMAIN node = 1..6
                          /\ node[Current.node].status = "running" /\ run = "running"
                          /\ \A j \in 1..6 : j < Current.node => node[j].status = "completed"
<1>1. node = [j \in 1..6 |-> node[j]]
  BY DEF AttemptInv, ChainInv
<1>2. attempts # << >> /\ Current.status = "running" /\ run = "running"
  BY DEF Running
<1>3. Current.node \in 1..6
  <2>1. Len(attempts) \in DOMAIN attempts
    BY <1>2, Replaced DEF AttemptInv, LimitInv
  <2> QED BY <2>1 DEF AttemptInv, RowInv, Current
<1>4. DOMAIN node = 1..6
  BY <1>1
<1> QED BY <1>1, <1>2, <1>3, <1>4 DEF AttemptInv, ChainInv

\* The decision on an attempt
LEMMA TracedRow == ASSUME NEW success, NEW cancelled, NEW retry, NEW agent, Traced(success, cancelled, retry, agent)
                   PROVE  \E row : /\ trace' = Append(trace, row)
                                   /\ row.node = Current.node /\ row.number = Current.number
                                   /\ row.approved = (success /\ ~cancelled /\ ~retry)
<1>1. PICK approved : approved = (success /\ ~cancelled /\ ~retry)
  OBVIOUS
<1>2. PICK decision, gate, handoffs, row :
        /\ row = [node |-> Current.node, number |-> Current.number, agent |-> agent, decision |-> decision,
                  approved |-> approved, gate |-> gate, handoffs |-> handoffs]
        /\ trace' = Append(trace, row)
  BY <1>1, Zenon DEF Traced
<1>3. row.node = Current.node /\ row.number = Current.number /\ row.approved = approved
  BY <1>2
<1> QED BY <1>1, <1>2, <1>3, Zenon

\* Succeed
LEMMA SucceedStep == ASSUME AttemptInv, Succeed PROVE AttemptInv'
<1>1. Running /\ UNCHANGED <<market, limit, changes>>
  BY DEF Succeed
<1>2. PICK i \in 1..6 : i = Current.node
  BY <1>1, RunningIs
<1>3. PICK a \in Asked : Ended("completed", a, a) /\ Traced(TRUE, FALSE, FALSE, a)
  BY Zenon DEF Succeed
<1>4. PICK row : trace' = Append(trace, row) /\ row.node = Current.node /\ row.number = Current.number /\ row.approved
  BY <1>3, TracedRow, Zenon
<1>5. node' = [j \in 1..6 |-> IF j = i THEN Settled(node[i], "completed", TRUE) ELSE node[j]]
  <2>1. node' = [node EXCEPT ![i] = Settled(node[i], "completed", TRUE)]
    BY <1>2, Zenon DEF Succeed
  <2> QED BY <1>1, <2>1, RunningIs
<1>6. node'[i].status = "completed" /\ node'[i].result /\ \A j \in 1..6 : j # i => node'[j] = node[j]
  <2>1. node'[i] = Settled(node[i], "completed", TRUE) /\ \A j \in 1..6 : j # i => node'[j] = node[j]
    BY <1>5, Zenon
  <2>2. PICK yes : yes = TRUE
    OBVIOUS
  <2>3. node'[i] = Settled(node[i], "completed", yes)
    BY <2>1, <2>2, Zenon
  <2>4. node'[i].status = "completed" /\ node'[i].result = yes
    BY <2>3 DEF Settled
  <2> QED BY <2>1, <2>2, <2>4, Zenon
<1>7. run' = "completed" => \A j \in 1..6 : node'[j].status = "completed"
  <2>1. run' = IF i = 6 THEN "completed" ELSE run
    BY <1>2, PlanIs DEF Succeed
  <2>2. run = "running" /\ \A j \in 1..6 : j < i => node[j].status = "completed"
    BY <1>1, <1>2, RunningIs
  <2>3. ASSUME run' = "completed", NEW j \in 1..6, j # i PROVE node'[j].status = "completed"
    BY <1>6, <2>1, <2>2, <2>3
  <2> QED BY <1>6, <2>3
<1>8. node' = [j \in 1..6 |-> node'[j]]
  BY <1>5, Zenon
<1>9. row.approved <=> "completed" = "completed"
  BY <1>4, Zenon
<1> QED BY <1>1, <1>2, <1>3, <1>4, <1>6, <1>7, <1>8, <1>9, EndedStep

\* Cancelled
LEMMA CancelledStep == ASSUME AttemptInv, Cancelled PROVE AttemptInv'
<1>1. Running /\ UNCHANGED <<market, limit, changes>>
  BY DEF Cancelled
<1>2. PICK i \in 1..6 : i = Current.node
  BY <1>1, RunningIs
<1>3. PICK c \in Cancellations :
        /\ Ended("cancelled", c.asked, c.agent) /\ Traced(c.success, TRUE, FALSE, c.agent)
        /\ node' = [j \in DOMAIN Plan |-> IF j = i THEN Settled(node[j], "cancelled", c.success)
                                          ELSE IF j > i THEN Settled(node[j], "cancelled", node[j].result) ELSE node[j]]
  BY <1>2, Zenon DEF Cancelled
<1>4. PICK row : trace' = Append(trace, row) /\ row.node = Current.node /\ row.number = Current.number /\ ~row.approved
  BY <1>3, TracedRow, Zenon
<1>5. node' = [j \in 1..6 |-> node'[j]] /\ \A j \in 1..6 :
        (j >= i => node'[j].status = "cancelled") /\ (j < i => node'[j] = node[j])
  <2>1. \A n, res : Settled(n, "cancelled", res).status = "cancelled"
    BY DEF Settled
  <2> QED BY <1>3, <2>1, PlanIs
<1>6. \A j \in 1..6 : node'[j].status \in {"completed", "pending"} => node'[j] = node[j] /\ j # i
  BY <1>5
<1>7. row.approved <=> "cancelled" = "completed"
  BY <1>4, Zenon
<1>8. c.asked = 0 \/ c.asked \in Asked
  BY <1>3 DEF Cancellations
<1> QED BY <1>1, <1>2, <1>3, <1>4, <1>5, <1>6, <1>7, <1>8, EndedStep

\* Fail
LEMMA FailStep == ASSUME AttemptInv, Fail PROVE AttemptInv'
<1>1. Running /\ UNCHANGED <<market, limit, changes>>
  BY DEF Fail
<1>2. PICK i \in 1..6 : i = Current.node
  BY <1>1, RunningIs
<1>3. PICK f \in Failures, retry \in BOOLEAN :
        /\ Ended("failed", f.asked, f.agent) /\ Traced(FALSE, FALSE, retry, f.agent)
        /\ \/ /\ Cardinality(Tries(i)) < limit
              /\ node' = [node EXCEPT ![i] = [candidates |-> @.candidates, status |-> "pending", result |-> FALSE,
                                              assigned |-> Rerouted(i, Earlier(i) \cup {f.agent})]]
              /\ UNCHANGED run
           \/ /\ node' = [j \in DOMAIN Plan |->
                               IF j = i THEN Settled(node[j], "failed", node[j].result)
                               ELSE IF j > i THEN Settled(node[j], "blocked", node[j].result) ELSE node[j]]
              /\ run' = "failed"
  BY <1>2, Zenon DEF Fail
<1>4. PICK row : trace' = Append(trace, row) /\ row.node = Current.node /\ row.number = Current.number /\ ~row.approved
  BY <1>3, TracedRow, Zenon
<1>5. f.asked = 0 \/ f.asked \in Asked
  BY <1>3 DEF Failures
<1>6. CASE Cardinality(Tries(i)) < limit
           /\ node' = [node EXCEPT ![i] = [candidates |-> @.candidates, status |-> "pending", result |-> FALSE,
                                           assigned |-> Rerouted(i, Earlier(i) \cup {f.agent})]]
           /\ UNCHANGED run
  <2>1. PICK new, res, assigned :
          /\ node' = [node EXCEPT ![i] = new]
          /\ new = [candidates |-> node[i].candidates, status |-> "pending", result |-> res, assigned |-> assigned]
    BY <1>6, Zenon
  <2>2. node' = [j \in 1..6 |-> node'[j]] /\ node'[i].status = "pending" /\ \A j \in 1..6 : j # i => node'[j] = node[j]
    BY <1>1, <2>1, RunningIs
  <2>3. \A j \in 1..6 : node'[j].status = "completed" => node'[j] = node[j] /\ j # i
    BY <2>2
  <2>4. \A j \in 1..6 : node'[j].status = "pending" => node'[j] = node[j] \/ (j = i /\ Cardinality(Tries(j)) < limit)
    BY <1>6, <2>2
  <2>5. run' # "completed"
    BY <1>1, <1>6, RunningIs
  <2>6. row.approved <=> "failed" = "completed"
    BY <1>4, Zenon
  <2> QED BY <1>1, <1>2, <1>3, <1>4, <1>5, <2>2, <2>3, <2>4, <2>5, <2>6, EndedStep
<1>7. CASE node' = [j \in DOMAIN Plan |->
                      IF j = i THEN Settled(node[j], "failed", node[j].result)
                      ELSE IF j > i THEN Settled(node[j], "blocked", node[j].result) ELSE node[j]]
           /\ run' = "failed"
  <2>1. node' = [j \in 1..6 |-> node'[j]] /\ \A j \in 1..6 :
          (j >= i => node'[j].status \in {"failed", "blocked"}) /\ (j < i => node'[j] = node[j])
    <3>1. \A n, res : Settled(n, "failed", res).status = "failed" /\ Settled(n, "blocked", res).status = "blocked"
      BY DEF Settled
    <3> QED BY <1>7, <3>1, PlanIs
  <2>2. \A j \in 1..6 : node'[j].status \in {"completed", "pending"} => node'[j] = node[j] /\ j # i
    BY <2>1
  <2>3. row.approved <=> "failed" = "completed"
    BY <1>4, Zenon
  <2> QED BY <1>1, <1>2, <1>3, <1>4, <1>5, <1>7, <2>1, <2>2, <2>3, EndedStep
<1> QED BY <1>3, <1>6, <1>7

\* Two attempts at one node have different numbers.
LEMMA NumbersDiffer == ASSUME AttemptInv, NEW k \in DOMAIN attempts, NEW m \in DOMAIN attempts,
                              attempts[k].node = attempts[m].node, attempts[k].number = attempts[m].number
                       PROVE  k = m
<1>1. DOMAIN attempts = 1..Len(attempts) /\ Len(attempts) \in Nat
  BY Appended DEF AttemptInv, LimitInv
<1>2. ASSUME NEW g \in DOMAIN attempts, NEW h \in DOMAIN attempts, g < h, attempts[g].node = attempts[h].node
      PROVE  attempts[g].number # attempts[h].number
  <2> DEFINE G == {x \in 1..g : attempts[x].node = attempts[g].node}
             H == {x \in 1..h : attempts[x].node = attempts[h].node}
  <2>1. attempts[g].number = Cardinality(G) /\ attempts[h].number = Cardinality(H)
    BY DEF AttemptInv, RowInv
  <2>2. G \subseteq H /\ h \in H /\ h \notin G
    BY <1>1, <1>2
  <2>3. IsFiniteSet(H)
    <3>1. IsFiniteSet(1..h)
      BY <1>1, FS_Interval
    <3> QED BY <3>1, FS_Subset
  <2> HIDE DEF G, H
  <2> QED BY <2>1, <2>2, <2>3, FS_Subset
<1> QED BY <1>1, <1>2

\* Every attempt that ended has the one decision that fits it.
LEMMA TraceIsRight == AttemptInv => AttemptsAreTraced
<1> SUFFICES ASSUME AttemptInv PROVE AttemptsAreTraced
  OBVIOUS
<1>1. ASSUME NEW m \in DOMAIN attempts, attempts[m].status # "running"
      PROVE  /\ Cardinality({k \in DOMAIN trace :
                   trace[k].node = attempts[m].node /\ trace[k].number = attempts[m].number}) = 1
             /\ \A k \in DOMAIN trace : trace[k].node = attempts[m].node /\ trace[k].number = attempts[m].number =>
                  (trace[k].approved <=> attempts[m].status = "completed")
  <2>1. m \in DOMAIN trace
    BY <1>1 DEF AttemptInv, TraceInv
  <2>2. ASSUME NEW k \in DOMAIN trace
        PROVE  trace[k].node = attempts[m].node /\ trace[k].number = attempts[m].number <=> k = m
    BY <2>1, <2>2, NumbersDiffer DEF AttemptInv, TraceInv
  <2>3. {k \in DOMAIN trace : trace[k].node = attempts[m].node /\ trace[k].number = attempts[m].number} = {m}
    BY <2>1, <2>2
  <2>4. trace[m].approved <=> attempts[m].status = "completed"
    BY <2>1, Zenon DEF AttemptInv, TraceInv
  <2> QED BY <2>2, <2>3, <2>4, FS_Singleton, Zenon
<1>2. ASSUME run = "completed", \A k \in DOMAIN attempts : attempts[k].status # "cancelled" PROVE Unresolved(trace) = 0
  <2>1. \A i \in 1..6 : node[i].status = "completed"
    BY <1>2 DEF AttemptInv, ChainInv
  <2>2. ASSUME NEW k \in DOMAIN trace PROVE trace[Max({h \in DOMAIN trace : trace[h].node = trace[k].node})].approved
    <3>1. trace[k].node \in 1..6
      BY DEF AttemptInv, TraceInv, RowInv
    <3>2. PICK m \in DOMAIN trace : /\ trace[m].node = trace[k].node /\ trace[m].approved
                                    /\ \A h \in DOMAIN trace : trace[h].node = trace[k].node => h <= m
      BY <2>1, <3>1, Zenon DEF AttemptInv, ChainInv
    <3>3. Max({h \in DOMAIN trace : trace[h].node = trace[k].node}) = m
      <4>1. \A h \in DOMAIN trace : h \in Nat
        BY Appended DEF AttemptInv, LimitInv
      <4> QED BY <3>2, <4>1 DEF Max
    <3> QED BY <3>2, <3>3, Zenon
  <2>3. {i \in {trace[k].node : k \in DOMAIN trace} : ~trace[Max({h \in DOMAIN trace : trace[h].node = i})].approved} = {}
    BY <2>2, Zenon
  <2> QED BY <2>3, FS_EmptySet DEF Unresolved
<1>3. ASSUME NEW a \in Range(attempts), a.status # "running"
      PROVE  /\ Cardinality({k \in DOMAIN trace : trace[k].node = a.node /\ trace[k].number = a.number}) = 1
             /\ \A row \in Range(trace) : row.node = a.node /\ row.number = a.number =>
                  (row.approved <=> a.status = "completed")
  <2>1. PICK m \in DOMAIN attempts : a = attempts[m]
    BY DEF Range
  <2>2. \A row \in Range(trace) : \E k \in DOMAIN trace : row = trace[k]
    BY DEF Range
  <2> QED BY <1>1, <1>3, <2>1, <2>2, Zenon
<1>4. run = "completed" /\ (\A a \in Range(attempts) : a.status # "cancelled") => Unresolved(trace) = 0
  BY <1>2 DEF Range
<1> QED BY <1>3, <1>4, Zenon DEF AttemptsAreTraced

\* Nobody is asked again before everybody was named.
LEMMA AskedIsRight == AttemptInv => NobodyAskedAgain
<1> SUFFICES ASSUME AttemptInv, NEW k \in DOMAIN attempts, NEW m \in DOMAIN attempts,
                    k < m, attempts[k].node = attempts[m].node,
                    attempts[k].asked = attempts[m].asked, attempts[k].asked # 0, attempts[k].agent = attempts[k].asked
             PROVE  {a \in Agents : (Card[a].builtin \/ changes = 0) /\ Fits(a, Plan[attempts[m].node])}
                      \subseteq {attempts[j].agent : j \in {h \in 1..m - 1 : attempts[h].node = attempts[m].node}}
  BY Zenon DEF NobodyAskedAgain
<1>1. DOMAIN attempts = 1..Len(attempts) /\ Len(attempts) \in Nat
  BY Appended DEF AttemptInv, LimitInv
<1>2. attempts[m].asked \in Named(attempts, m)
  BY <1>1 DEF Named
<1>3. attempts[m].node \in 1..6 /\ Staying[attempts[m].node] \subseteq Named(attempts, m)
  BY <1>2 DEF AttemptInv, NamedInv, RowInv
<1> QED BY <1>3 DEF Staying, Named

\* Every attempt has its inputs.
LEMMA InputsAreRight == AttemptInv => InputsAreThere
BY DEF AttemptInv, RowInv, InputsAreThere, Range

\* Every action, and a step of anything else, keeps the invariant.
LEMMA AttemptsNextInv == ASSUME AttemptInv, [AttemptsNext]_attemptVars PROVE AttemptInv'
<1>1. CASE UNCHANGED attemptVars
  <2>1. LimitInv' /\ RowInv'
    BY <1>1 DEF attemptVars, AttemptInv, LimitInv, RowInv
  <2>4. TraceInv'
    <3>1. attempts' = attempts /\ trace' = trace
      BY <1>1 DEF attemptVars
    <3> QED BY <3>1, Zenon DEF AttemptInv, TraceInv
  <2>2. NamedInv'
    <3>1. Staying' = Staying
      BY <1>1 DEF attemptVars, Staying, Fits, Listed
    <3> QED BY <1>1, <3>1 DEF attemptVars, AttemptInv, NamedInv
  <2>3. ChainInv'
    BY <1>1 DEF attemptVars, AttemptInv, ChainInv, Current, Tries
  <2> QED BY <2>1, <2>2, <2>3, <2>4 DEF AttemptInv
<1> QED BY <1>1, BeginStep, SucceedStep, CancelledStep, FailStep, ChangeStep DEF AttemptsNext

\* Every attempt that ended has the one decision that fits it.
THEOREM EveryEndIsDecided == ASSUME AttemptsAssumption PROVE AttemptsSpec => []AttemptsAreTraced
<1>1. AttemptsInit => AttemptInv
  BY AttemptsStart
<1>2. AttemptInv /\ [AttemptsNext]_attemptVars => AttemptInv'
  BY AttemptsNextInv
<1> QED BY <1>1, <1>2, TraceIsRight, PTL DEF AttemptsSpec

\* No agent that failed a node is asked for it again while another one fits,
\* and an attempt starts only with the results of the nodes it depends on.
THEOREM NobodyIsAskedTwice == ASSUME AttemptsAssumption PROVE AttemptsSpec => [](NobodyAskedAgain /\ InputsAreThere)
<1>1. AttemptsInit => AttemptInv
  BY AttemptsStart
<1>2. AttemptInv /\ [AttemptsNext]_attemptVars => AttemptInv'
  BY AttemptsNextInv
<1> QED BY <1>1, <1>2, AskedIsRight, InputsAreRight, PTL DEF AttemptsSpec

-----------------------------------------------------------------------------
(* Evidence: the inductive invariant *)

IdSet == {Ids[i] : i \in DOMAIN Ids}
\* A page has the fields of PageType, of whatever values.
PageShape(p) ==
    p = [norm |-> p.norm, kind |-> p.kind, weak |-> p.weak, date |-> p.date, score |-> p.score,
         publisher |-> p.publisher, doubt |-> p.doubt]

\* Citation ids differ from each other, from URLs and from the id of no catalog, and there
\* are enough of them; no URL is empty.
EvidenceAssumption ==
    /\ IsFiniteSet(Pages) /\ Pages # {} /\ \A p \in Pages : PageShape(p)
    /\ Needs \subseteq NeedType
    /\ MaxSearches \in Nat /\ MaxQueries \in Nat /\ MaxClaims \in Nat /\ Fanout \in Nat \ {0}
    /\ Ids \in Seq(IdSet) /\ \A i, j \in DOMAIN Ids : Ids[i] = Ids[j] => i = j
    /\ \A n \in Needs : n.total <= Len(Ids)
    /\ Unknown # NoId /\ \A i \in DOMAIN Ids : Ids[i] \notin {NoId, Unknown}
    /\ \A p \in Pages : p.norm \notin {"", Unknown} /\ \A i \in DOMAIN Ids : p.norm # Ids[i]

\* The pages there are, enriched or not, and what artifacts are made of.
Known == Pages \cup {[p EXCEPT !.date = "new"] : p \in Pages}
Norms == {p.norm : p \in Pages}
Curations == {"gathered", "cited", "selected", "filtered"}
Artifacts == [key : Norms \cup IdSet \cup {Unknown}, url : Norms \cup {""}, status : Curations, page : Known,
              meta : SUBSET {"placeholder"}]

\* Keys are unique, and only a placeholder has an unknown one.
TableOK(table) ==
    /\ table \in Seq(Artifacts) /\ KeysAreUnique(table)
    /\ \A k \in DOMAIN table : table[k].key = Unknown => "placeholder" \in table[k].meta

FoundInv ==
    /\ need \in Needs /\ hunt \in [round : Nat, searches : 0..MaxSearches]
    /\ found \subseteq Known

\* An artifact that is the only one of a curated source, under the source's citation id
Cites(k, i) ==
    /\ artifacts[k].url = catalog[i].norm /\ artifacts[k].key = Ids[i]
    /\ artifacts[k].status = "cited" /\ artifacts[k].meta = {}
    /\ \A h \in DOMAIN artifacts : artifacts[h].url = catalog[i].norm => h = k

\* What there is between gathering and curating, and then
GatheredInv ==
    /\ \A k \in DOMAIN artifacts :
         artifacts[k].key = artifacts[k].url /\ artifacts[k].url \in Norms /\ artifacts[k].meta = {}
    /\ \A p \in found : \E k \in DOMAIN artifacts : artifacts[k].url = p.norm
    /\ \A p, q \in found : p.norm = q.norm => p = q
CuratedInv ==
    /\ catalog \in Seq(Known) /\ Len(catalog) <= Len(Ids)
    /\ \A i \in DOMAIN catalog : \E k \in DOMAIN artifacts : Cites(k, i)

StageInv ==
    /\ stage \in {"gather", "enrich", "curate", "answer", "completed", "failed"}
    /\ stage \in {"gather", "enrich"} => artifacts = << >>
    /\ stage \notin {"answer", "completed"} => answer = NoAnswer /\ claims.list = << >> /\ links = {}
    /\ stage = "curate" => GatheredInv
    /\ stage \in {"answer", "completed"} => CuratedInv

Earned(c) == c.score.status \in {"none", "mixed"} => c.ids # {} /\ c.ids \subseteq CatalogIds

ClaimShape(c) == c = [id |-> c.id, ids |-> c.ids, confidence |-> c.confidence, score |-> c.score]

ClaimsInv ==
    /\ answer = [claims |-> answer.claims, critique |-> answer.critique, published |-> answer.published]
    /\ \E n \in Nat : DOMAIN answer.claims = 1..n
    /\ \A i \in DOMAIN answer.claims : answer.claims[i].ids \subseteq CatalogIds \cup {Unknown}
    /\ claims = [version |-> claims.version, list |-> claims.list] /\ claims.version \in Nat
    /\ \A i \in DOMAIN claims.list :
         /\ ClaimShape(claims.list[i]) /\ Earned(claims.list[i])
         /\ claims.list[i].ids \subseteq CatalogIds \cup {Unknown}
         /\ \A j \in DOMAIN claims.list : claims.list[i].id = claims.list[j].id => i = j
    /\ \A l \in links :
         /\ \E i \in DOMAIN claims.list : l.claim = claims.list[i].id /\ l.key \in claims.list[i].ids
         /\ \E k \in DOMAIN artifacts : artifacts[k].key = l.key

\* What was read of claims that are still there is what they are, but for their scores.
QueriedOK(seen) ==
    /\ seen = [pc |-> seen.pc, answer |-> seen.answer, rows |-> seen.rows, version |-> seen.version, list |-> seen.list]
    /\ TableOK(seen.rows) /\ seen.version \in Nat /\ seen.version <= claims.version
    /\ seen.pc = "score" /\ seen.version = claims.version =>
         /\ DOMAIN seen.list = DOMAIN claims.list
         /\ \A i \in DOMAIN seen.list :
              /\ ClaimShape(seen.list[i]) /\ Earned(seen.list[i])
              /\ seen.list[i].id = claims.list[i].id /\ seen.list[i].ids = claims.list[i].ids

QueriedInv == reader = [r \in Readers |-> reader[r]] /\ \A r \in Readers : QueriedOK(reader[r])

EvidenceInv == FoundInv /\ TableOK(artifacts) /\ StageInv /\ ClaimsInv /\ QueriedInv

-----------------------------------------------------------------------------
(* Evidence: lemmas *)

\* Induction up to a number.
LEMMA UpTo == ASSUME NEW N \in Nat, NEW S, 0 \in S, \A n \in 0..N : n \in S /\ n < N => n + 1 \in S PROVE 0..N \subseteq S
<1> DEFINE T == {n \in 0..N : n \notin S}
           R == OpToRel(<, Nat)
<1>1. SUFFICES ASSUME T # {} PROVE FALSE
  OBVIOUS
<1>2. \E x \in T : \A y \in T : ~(<<y, x>> \in R)
  <2>1. T \subseteq Nat
    OBVIOUS
  <2> HIDE DEF T, R
  <2>2. IsWellFoundedOn(R, Nat)
    BY NatLessThanWellFounded DEF R
  <2> QED BY <1>1, <2>1, <2>2, WFMin
<1>3. PICK x \in T : \A y \in T : ~(<<y, x>> \in R)
  BY <1>2
<1>4. x # 0 /\ x - 1 \in 0..N /\ x - 1 < x
  OBVIOUS
<1>5. <<x - 1, x>> \in R
  BY <1>4 DEF OpToRel
<1>6. x - 1 \in S
  BY <1>3, <1>4, <1>5
<1>7. (x - 1) + 1 \in S
  BY <1>4, <1>6
<1> QED BY <1>4, <1>7

\* The table is upserted source by source.
LEMMA UpsertedUnfolds ==
    ASSUME NEW stored, NEW sources, Len(sources) \in Nat
    PROVE  \E t : /\ t[0] = stored /\ Upserted(stored, sources) = t[Len(sources)]
                  /\ \A n \in 1..Len(sources) : t[n] = Upsert(stored, t[n - 1], sources[n])
<1> DEFINE N == Len(sources)
           Is(t, m) == t = [n \in 0..m |-> IF n = 0 THEN stored ELSE Upsert(stored, t[n - 1], sources[n])]
           S == {m \in 0..N : \E t : Is(t, m)}
<1>1. 0 \in S
  <2>1. Is([n \in 0..0 |-> stored], 0)
    <3>1. \A n \in 0..0 : n = 0
      OBVIOUS
    <3> QED BY <3>1
  <2> HIDE DEF Is
  <2> QED BY <2>1
<1>2. ASSUME NEW m \in 0..N, m \in S, m < N PROVE m + 1 \in S
  <2>1. PICK t : Is(t, m)
    BY <1>2
  <2> DEFINE u == [n \in 0..m + 1 |-> IF n = m + 1 THEN Upsert(stored, t[m], sources[m + 1]) ELSE t[n]]
  <2>2. \A n \in 0..m + 1 : u[n] = IF n = 0 THEN stored ELSE Upsert(stored, u[n - 1], sources[n])
    <3> TAKE n \in 0..m + 1
    <3>1. CASE n = 0
      BY <2>1, <3>1
    <3>2. CASE n # 0 /\ n <= m
      <4>1. u[n] = t[n] /\ u[n - 1] = t[n - 1]
        BY <3>2
      <4> QED BY <2>1, <3>2, <4>1
    <3>3. CASE n = m + 1
      <4>1. u[n - 1] = t[m]
        BY <3>3
      <4> QED BY <3>3, <4>1
    <3> QED BY <3>1, <3>2, <3>3
  <2>3. Is(u, m + 1)
    BY <2>2
  <2> HIDE DEF u, Is
  <2> QED BY <2>3, <1>2
<1>3. PICK t : Is(t, N)
  <2> HIDE DEF S
  <2>1. 0..N \subseteq S
    BY <1>1, <1>2, UpTo
  <2> QED BY <2>1 DEF S
<1> DEFINE f == CHOOSE u : Is(u, N)
<1>4. Is(f, N)
  BY <1>3
<1>5. Upserted(stored, sources) = f[N]
  BY DEF Upserted
<1> HIDE DEF f
<1> QED BY <1>4, <1>5

\* Pages are finitely many, and enriching them leaves their URLs.
LEMMA KnownIs ==
    ASSUME EvidenceAssumption
    PROVE  /\ IsFiniteSet(Known)
           /\ \A p \in Known : PageShape(p) /\ p.norm \in Norms /\ p.norm \notin {"", Unknown} /\ p.norm \notin IdSet
           /\ \A p \in Known : [p EXCEPT !.date = "new"] \in Known /\ [p EXCEPT !.date = "new"].norm = p.norm
<1> USE DEF EvidenceAssumption
<1>1. IsFiniteSet({[p EXCEPT !.date = "new"] : p \in Pages})
  <2> DEFINE f == [p \in Pages |-> [p EXCEPT !.date = "new"]]
         T == {[p EXCEPT !.date = "new"] : p \in Pages}
  <2>1. f \in Surjection(Pages, T)
    BY DEF Surjection, Range
  <2> QED BY <2>1, FS_Surjection
<1>2. IsFiniteSet(Known)
  BY <1>1, FS_Union DEF Known
<1>3. ASSUME NEW p \in Pages
      PROVE  /\ PageShape([p EXCEPT !.date = "new"]) /\ [p EXCEPT !.date = "new"].norm = p.norm
             /\ [[p EXCEPT !.date = "new"] EXCEPT !.date = "new"] = [p EXCEPT !.date = "new"]
  <2>1. p = [norm |-> p.norm, kind |-> p.kind, weak |-> p.weak, date |-> p.date, score |-> p.score,
             publisher |-> p.publisher, doubt |-> p.doubt]
    BY DEF PageShape
  <2>2. PICK q : q = [p EXCEPT !.date = "new"]
    OBVIOUS
  <2>3. q = [norm |-> p.norm, kind |-> p.kind, weak |-> p.weak, date |-> "new", score |-> p.score,
             publisher |-> p.publisher, doubt |-> p.doubt]
    BY <2>1, <2>2
  <2>4. PageShape(q) /\ q.norm = p.norm
    BY <2>3 DEF PageShape
  <2>5. PICK again : again = [q EXCEPT !.date = "new"]
    OBVIOUS
  <2>6. again = [norm |-> p.norm, kind |-> p.kind, weak |-> p.weak, date |-> "new", score |-> p.score,
                 publisher |-> p.publisher, doubt |-> p.doubt]
    BY <2>3, <2>5
  <2> QED BY <2>2, <2>3, <2>4, <2>5, <2>6, Zenon
<1>4. ASSUME NEW p \in Pages PROVE p.norm \in Norms /\ p.norm \notin {"", Unknown} /\ p.norm \notin IdSet
  BY DEF Norms, IdSet
<1>5. ASSUME NEW p \in Known
      PROVE  /\ PageShape(p) /\ p.norm \in Norms /\ p.norm \notin {"", Unknown} /\ p.norm \notin IdSet
             /\ [p EXCEPT !.date = "new"] \in Known /\ [p EXCEPT !.date = "new"].norm = p.norm
  <2>1. CASE p \in Pages
    BY <2>1, <1>3, <1>4 DEF Known
  <2>2. CASE \E q \in Pages : p = [q EXCEPT !.date = "new"]
    <3>1. PICK q \in Pages : p = [q EXCEPT !.date = "new"]
      BY <2>2
    <3>2. PageShape(p) /\ p.norm = q.norm /\ [p EXCEPT !.date = "new"] = p
      BY <3>1, <1>3
    <3> QED BY <3>2, <1>4
  <2> QED BY <2>1, <2>2 DEF Known
<1> QED BY <1>2, <1>5

\* The smaller and the larger of two numbers
LEMMA LesserOf == ASSUME NEW a \in Int, NEW b \in Int
                  PROVE  Min({a, b}) = IF a <= b THEN a ELSE b
<1>1. \A x \in {a, b} : (\A y \in {a, b} : x <= y) <=> x = IF a <= b THEN a ELSE b
  OBVIOUS
<1> QED BY <1>1 DEF Min

\* So many of a number as fit into a budget do not exceed it.
LEMMA DividedBy == ASSUME NEW a \in Nat, NEW f \in Nat \ {0}, NEW n \in Nat, n <= a \div f PROVE f * n <= a
<1>1. f * (a \div f) <= a /\ a \div f \in Nat
  OBVIOUS
<1>2. f * n <= f * (a \div f)
  BY <1>1
<1>3. f * n \in Int /\ f * (a \div f) \in Int
  BY <1>1
<1> QED BY <1>1, <1>2, <1>3

\* The claims, and what was read of them, stay what they are while nothing writes them,
\* the catalog or the artifacts.
LEMMA ClaimsLeft ==
    ASSUME EvidenceInv, UNCHANGED <<catalog, artifacts, answer, claims, links, reader>>
    PROVE  (TableOK(artifacts) /\ ClaimsInv /\ QueriedInv)'
<1>1. UNCHANGED CatalogIds
  BY DEF CatalogIds
<1>2. TableOK(artifacts)'
  BY DEF EvidenceInv
<1>3. ClaimsInv'
  BY <1>1 DEF EvidenceInv, ClaimsInv, Earned
<1>4. QueriedInv'
  BY <1>1 DEF EvidenceInv, QueriedInv, QueriedOK, Earned
<1> QED BY <1>2, <1>3, <1>4

\* A round keeps the budget: web searches take what is left of it, and academic ones
\* what is left of that, each for all its sources.
LEMMA RoundStep == ASSUME EvidenceAssumption, EvidenceInv, Round PROVE EvidenceInv'
<1>1. PICK web \in 0..MaxQueries, sets \in 0..MaxQueries, pages \in SUBSET Pages :
         LET afterWeb == hunt.searches + Min({web, MaxSearches - hunt.searches})
             academic == Min({sets, (MaxSearches - afterWeb) \div Fanout}) IN
         /\ hunt' = [round |-> hunt.round + 1, searches |-> afterWeb + Fanout * academic]
         /\ found' = found \cup pages
  BY DEF Round
<1> DEFINE afterWeb == hunt.searches + Min({web, MaxSearches - hunt.searches})
           academic == Min({sets, (MaxSearches - afterWeb) \div Fanout})
<1>2. FoundInv'
  <2>0. /\ web \in Nat /\ sets \in Nat /\ MaxSearches \in Nat /\ Fanout \in Nat \ {0}
        /\ hunt.searches \in 0..MaxSearches /\ hunt.round \in Nat
    <3>1. MaxQueries \in Nat /\ MaxSearches \in Nat
      BY DEF EvidenceAssumption
    <3>2. Fanout \in Nat \ {0}
      BY DEF EvidenceAssumption
    <3>3. hunt \in [round : Nat, searches : 0..MaxSearches]
      BY DEF EvidenceInv, FoundInv
    <3>4. hunt.searches \in 0..MaxSearches /\ hunt.round \in Nat
      BY <3>3
    <3>5. web \in Nat /\ sets \in Nat
      BY <3>1
    <3> QED BY <3>1, <3>2, <3>4, <3>5
  <2>1. afterWeb \in Nat /\ afterWeb <= MaxSearches
    BY <2>0, LesserOf
  <2> HIDE DEF afterWeb
  <2>2. (MaxSearches - afterWeb) \in Nat /\ (MaxSearches - afterWeb) \div Fanout \in Nat
    BY <2>0, <2>1
  <2>3. academic \in Nat /\ academic <= (MaxSearches - afterWeb) \div Fanout
    BY <2>0, <2>2, LesserOf
  <2> HIDE DEF academic
  <2>4. Fanout * academic <= MaxSearches - afterWeb /\ Fanout * academic \in Nat
    BY <2>0, <2>2, <2>3, DividedBy
  <2>5. hunt' = [round |-> hunt.round + 1, searches |-> afterWeb + Fanout * academic]
    BY <1>1 DEF afterWeb, academic
  <2>6. hunt' \in [round : Nat, searches : 0..MaxSearches]
    BY <2>0, <2>1, <2>4, <2>5
  <2> QED BY <1>1, <2>6 DEF EvidenceInv, FoundInv, Round, Known
<1>3. UNCHANGED <<stage, catalog, artifacts, answer, claims, links, reader>> /\ stage = "gather"
  BY DEF Round
<1>4. StageInv'
  BY <1>3 DEF EvidenceInv, StageInv
<1> QED BY <1>2, <1>3, <1>4, ClaimsLeft DEF EvidenceInv

\* Deepening takes no more than is left of the budget.
LEMMA DeepenStep == ASSUME EvidenceAssumption, EvidenceInv, Deepen PROVE EvidenceInv'
<1>1. PICK deeper \in 0..MaxSearches - hunt.searches, pages \in SUBSET Pages :
         hunt' = [hunt EXCEPT !.searches = @ + deeper] /\ found' = found \cup pages
  BY DEF Deepen
<1>2. MaxSearches \in Nat /\ hunt \in [round : Nat, searches : 0..MaxSearches]
  BY DEF EvidenceAssumption, EvidenceInv, FoundInv
<1>3. hunt' \in [round : Nat, searches : 0..MaxSearches]
  BY <1>1, <1>2
<1>4. FoundInv'
  BY <1>1, <1>3 DEF EvidenceInv, FoundInv, Deepen, Known
<1>5. UNCHANGED <<catalog, artifacts, answer, claims, links, reader>> /\ stage = "gather" /\ stage' = "enrich"
  BY DEF Deepen
<1>6. StageInv'
  BY <1>5 DEF EvidenceInv, StageInv
<1> QED BY <1>4, <1>5, <1>6, ClaimsLeft DEF EvidenceInv

\* Citation ids are finitely many.
LEMMA IdsFinite == EvidenceAssumption => IsFiniteSet(IdSet)
<1> SUFFICES ASSUME EvidenceAssumption PROVE IsFiniteSet(IdSet)
  OBVIOUS
<1>1. Len(Ids) \in Nat /\ DOMAIN Ids = 1..Len(Ids)
  <2>1. Ids \in Seq(IdSet)
    BY DEF EvidenceAssumption
  <2> QED BY <2>1
<1>2. IsFiniteSet(1..Len(Ids))
  BY <1>1, FS_Interval
<1> DEFINE f == [i \in 1..Len(Ids) |-> Ids[i]]
<1>3. f \in Surjection(1..Len(Ids), IdSet)
  BY <1>1 DEF Surjection, IdSet
<1> QED BY <1>2, <1>3, FS_Surjection

\* The catalog's ids are among them once there are claims or answers.
LEMMA CitedIds == ASSUME EvidenceAssumption, EvidenceInv, stage \in {"answer", "completed"}
               PROVE CatalogIds \subseteq IdSet
<1>1. Ids \in Seq(IdSet)
  BY DEF EvidenceAssumption
<1>2. catalog \in Seq(Known) /\ Len(catalog) <= Len(Ids)
  BY DEF EvidenceInv, StageInv, CuratedInv
<1>3. DOMAIN catalog \subseteq DOMAIN Ids
  BY <1>1, <1>2
<1> QED BY <1>3 DEF CatalogIds, IdSet

\* A claim without a gap has earned it.
LEMMA WithoutGap ==
    ASSUME EvidenceAssumption, EvidenceInv, NEW r \in Readers,
           reader[r].pc = "score", reader[r].version = claims.version,
           NEW i \in DOMAIN reader[r].list, NEW support, NEW a,
           support = {row \in Range(reader[r].rows) : [claim |-> reader[r].list[i].id, key |-> row.key] \in links},
           ~Gap(reader[r].list[i], support, a)
    PROVE  reader[r].list[i].ids # {} /\ reader[r].list[i].ids \subseteq CatalogIds
<1> DEFINE c == reader[r].list[i]
           rows == reader[r].rows
<1>1. i \in DOMAIN claims.list /\ c.id = claims.list[i].id /\ c.ids = claims.list[i].ids
  BY DEF EvidenceInv, QueriedInv, QueriedOK
<1>2. c.ids \subseteq CatalogIds \cup {Unknown}
  BY <1>1 DEF EvidenceInv, ClaimsInv
<1>3. ASSUME NEW row \in support PROVE row.key \in c.ids
  <2>1. [claim |-> c.id, key |-> row.key] \in links
    OBVIOUS
  <2>2. PICK j \in DOMAIN claims.list : c.id = claims.list[j].id /\ row.key \in claims.list[j].ids
    BY <2>1 DEF EvidenceInv, ClaimsInv
  <2>3. i = j
    BY <1>1, <2>2 DEF EvidenceInv, ClaimsInv
  <2> QED BY <1>1, <2>2, <2>3
<1>4. support # {} /\ ~(Cardinality(support) < Cardinality(c.ids)) /\ \A row \in support : "placeholder" \notin row.meta
  BY DEF Gap
<1>5. ASSUME NEW row \in support PROVE row.key # Unknown
  BY <1>4 DEF EvidenceInv, QueriedInv, QueriedOK, TableOK, Range
<1>6. Unknown \notin c.ids
  <2> SUFFICES ASSUME Unknown \in c.ids PROVE FALSE
    OBVIOUS
  <2> DEFINE f == [row \in support |-> row.key]
             T == c.ids \ {Unknown}
  <2>1. f \in Injection(support, T)
    <3>1. f \in [support -> T]
      BY <1>3, <1>5
    <3>2. ASSUME NEW v \in support, NEW w \in support, v.key = w.key PROVE v = w
      BY <3>2 DEF EvidenceInv, QueriedInv, QueriedOK, TableOK, KeysAreUnique, Range
    <3> QED BY <3>1, <3>2 DEF Injection, IsInjective
  <2>2. stage \in {"answer", "completed"}
    <3>1. claims.list # << >>
      BY <1>1
    <3> QED BY <3>1 DEF EvidenceInv, StageInv
  <2>3. IsFiniteSet(c.ids)
    <3>1. CatalogIds \subseteq IdSet /\ IsFiniteSet(IdSet)
      BY <2>2, CitedIds, IdsFinite
    <3>2. IsFiniteSet(IdSet \cup {Unknown})
      BY <3>1, FS_AddElement
    <3> QED BY <3>1, <3>2, <1>2, FS_Subset
  <2>4. IsFiniteSet(T) /\ Cardinality(T) = Cardinality(c.ids) - 1
    BY <2>3, FS_RemoveElement
  <2>5. Cardinality(support) <= Cardinality(T)
    BY <2>1, <2>4, FS_Injection
  <2>6. Cardinality(c.ids) \in Nat /\ Cardinality(T) \in Nat /\ Cardinality(support) \in Nat
    <3>1. IsFiniteSet(support)
      BY <2>1, <2>4, FS_Injection
    <3> QED BY <3>1, <2>3, <2>4, FS_CardinalityType
  <2> HIDE DEF T, f, c
  <2> QED BY <1>4, <2>4, <2>5, <2>6
<1> QED BY <1>2, <1>3, <1>4, <1>6

\* The claims of a draft cite the catalog, or an id of no catalog.
LEMMA AnswerStep == ASSUME EvidenceAssumption, EvidenceInv, Answer PROVE EvidenceInv'
<1>1. PICK n \in 0..MaxClaims, critique \in Critiques :
        \E list \in [1..n -> [name : {"C1", "C2"}, ids : SUBSET (CatalogIds \cup {Unknown}), confidence : Confidences]] :
           answer' = [claims |-> list, critique |-> critique, published |-> FALSE]
  BY Zenon DEF Answer
<1>2. PICK list \in [1..n -> [name : {"C1", "C2"}, ids : SUBSET (CatalogIds \cup {Unknown}), confidence : Confidences]] :
           answer' = [claims |-> list, critique |-> critique, published |-> FALSE]
  BY <1>1
<1>3. PICK no : no = FALSE
  OBVIOUS
<1>4. answer' = [claims |-> list, critique |-> critique, published |-> no]
  BY <1>2, <1>3, Zenon
<1>5. \A k \in 1..n : list[k].ids \subseteq CatalogIds \cup {Unknown}
  OBVIOUS
<1>6. UNCHANGED <<need, stage, hunt, found, catalog, artifacts, claims, links, reader>> /\ stage = "answer"
  BY DEF Answer
<1>7. UNCHANGED CatalogIds
  BY <1>6 DEF CatalogIds
<1>8. ClaimsInv'
  <2>1. n \in Nat
    <3>1. MaxClaims \in Nat
      BY DEF EvidenceAssumption
    <3> QED BY <3>1
  <2> QED BY <1>4, <1>5, <1>6, <1>7, <2>1 DEF EvidenceInv, ClaimsInv, Earned
<1>9. FoundInv' /\ TableOK(artifacts)'
  BY <1>6 DEF EvidenceInv, FoundInv, TableOK
<1>11. StageInv'
  <2>1. CuratedInv => CuratedInv'
    BY <1>6 DEF CuratedInv, Cites
  <2> QED BY <1>6, <2>1 DEF EvidenceInv, StageInv
<1>10. QueriedInv'
  BY <1>6, <1>7 DEF EvidenceInv, QueriedInv, QueriedOK, Earned
<1> QED BY <1>8, <1>9, <1>10, <1>11 DEF EvidenceInv

\* What readers do leaves the run, and so all that is said of it.
LEMMA RunLeft == ASSUME EvidenceInv, UNCHANGED <<runVars, claims, links>>
                 PROVE  (FoundInv /\ TableOK(artifacts) /\ StageInv /\ ClaimsInv)'
<1>1. UNCHANGED <<need, stage, hunt, found, catalog, artifacts, answer>>
  BY DEF runVars
<1>2. UNCHANGED CatalogIds
  BY <1>1 DEF CatalogIds
<1>3. FoundInv' /\ TableOK(artifacts)'
  BY <1>1 DEF EvidenceInv, FoundInv, TableOK
<1>4. StageInv'
  <2>1. GatheredInv => GatheredInv'
    BY <1>1 DEF GatheredInv
  <2>2. CuratedInv => CuratedInv'
    BY <1>1 DEF CuratedInv, Cites
  <2> QED BY <1>1, <2>1, <2>2 DEF EvidenceInv, StageInv
<1>5. ClaimsInv'
  BY <1>1, <1>2 DEF EvidenceInv, ClaimsInv, Earned
<1> QED BY <1>3, <1>4, <1>5 DEF EvidenceInv

\* A reader that has only the record knows no artifacts and no claims.
LEMMA ReadRecordStep == ASSUME EvidenceAssumption, EvidenceInv, NEW r \in Readers, ReadRecord(r) PROVE EvidenceInv'
<1>1. UNCHANGED <<runVars, claims, links>>
  BY DEF ReadRecord
<1>2. PICK told : reader' = [reader EXCEPT ![r] = [NoRead EXCEPT !.pc = "artifacts", !.answer = told]]
  BY Zenon DEF ReadRecord
<1>3. PICK empty : empty = NoAnswer
  OBVIOUS
<1>4. NoRead = [pc |-> "idle", answer |-> empty, rows |-> << >>, version |-> 0, list |-> << >>]
  BY <1>3, Zenon DEF NoRead
<1>5. reader' = [reader EXCEPT ![r] = [pc |-> "artifacts", answer |-> told, rows |-> << >>,
                                       version |-> 0, list |-> << >>]]
  <2>1. PICK seen : seen = NoRead
    OBVIOUS
  <2>2. seen = [pc |-> seen.pc, answer |-> seen.answer, rows |-> seen.rows, version |-> seen.version, list |-> seen.list]
    BY <1>4, <2>1
  <2>4. seen.rows = << >> /\ seen.version = 0 /\ seen.list = << >>
    BY <1>4, <2>1
  <2>5. PICK now : now = [seen EXCEPT !.pc = "artifacts", !.answer = told]
    OBVIOUS
  <2>3. now = [pc |-> "artifacts", answer |-> told, rows |-> seen.rows, version |-> seen.version, list |-> seen.list]
    BY <2>2, <2>5
  <2> QED BY <1>2, <2>1, <2>4, <2>5, <2>3, Zenon
<1>6. claims' = claims /\ UNCHANGED CatalogIds /\ claims.version \in Nat
  BY <1>1 DEF runVars, CatalogIds, EvidenceInv, ClaimsInv
<1>7. TableOK(<< >>)
  BY DEF TableOK, KeysAreUnique
<1>8. QueriedInv'
  <2>1. \A p \in Readers : p # r => reader'[p] = reader[p]
    BY <1>5 DEF EvidenceInv, QueriedInv
  <2>2. reader'[r] = [pc |-> "artifacts", answer |-> told, rows |-> << >>, version |-> 0, list |-> << >>]
    BY <1>5 DEF EvidenceInv, QueriedInv
  <2>3. QueriedOK(reader[r])'
    BY <2>2, <1>6, <1>7 DEF QueriedOK
  <2>4. ASSUME NEW p \in Readers, p # r PROVE QueriedOK(reader[p])'
    BY <2>1, <2>4, <1>6 DEF EvidenceInv, QueriedInv, QueriedOK, Earned
  <2>5. reader' = [p \in Readers |-> reader'[p]]
    BY <1>5 DEF EvidenceInv, QueriedInv
  <2> QED BY <2>3, <2>4, <2>5 DEF QueriedInv
<1> QED BY <1>1, <1>8, RunLeft DEF EvidenceInv

\* The artifacts read are a table with unique keys, whatever becomes of them.
LEMMA ReadArtifactsStep == ASSUME EvidenceAssumption, EvidenceInv, NEW r \in Readers, ReadArtifacts(r) PROVE EvidenceInv'
<1>1. UNCHANGED <<runVars, claims, links>>
  BY DEF ReadArtifacts
<1>2. reader' = [reader EXCEPT ![r].pc = "claims", ![r].rows = artifacts]
  BY DEF ReadArtifacts
<1>6. claims' = claims /\ UNCHANGED CatalogIds /\ claims.version \in Nat
  BY <1>1 DEF runVars, CatalogIds, EvidenceInv, ClaimsInv
<1>8. QueriedInv'
  <2>1. \A p \in Readers : p # r => reader'[p] = reader[p]
    BY <1>2 DEF EvidenceInv, QueriedInv
  <2>2. reader'[r] = [pc |-> "claims", answer |-> reader[r].answer, rows |-> artifacts, version |-> reader[r].version,
                      list |-> reader[r].list]
    <3> DEFINE seen == reader[r]
    <3>1. seen = [pc |-> seen.pc, answer |-> seen.answer, rows |-> seen.rows,
                  version |-> seen.version, list |-> seen.list]
      BY DEF EvidenceInv, QueriedInv, QueriedOK
    <3>2. reader'[r] = [seen EXCEPT !.pc = "claims", !.rows = artifacts]
      BY <1>2 DEF EvidenceInv, QueriedInv
    <3> HIDE DEF seen
    <3>3. reader'[r] = [pc |-> "claims", answer |-> seen.answer, rows |-> artifacts,
                        version |-> seen.version, list |-> seen.list]
      BY <3>1, <3>2
    <3> QED BY <3>3 DEF seen
  <2>3. QueriedOK(reader[r])'
    BY <2>2, <1>6 DEF QueriedOK, EvidenceInv, QueriedInv
  <2>4. ASSUME NEW p \in Readers, p # r PROVE QueriedOK(reader[p])'
    BY <2>1, <2>4, <1>6 DEF EvidenceInv, QueriedInv, QueriedOK, Earned
  <2>5. reader' = [p \in Readers |-> reader'[p]]
    BY <1>2 DEF EvidenceInv, QueriedInv
  <2> QED BY <2>3, <2>4, <2>5 DEF QueriedInv
<1> QED BY <1>1, <1>8, RunLeft DEF EvidenceInv

\* Claims read are those there are, until the run is completed again.
LEMMA ReadClaimsStep == ASSUME EvidenceAssumption, EvidenceInv, NEW r \in Readers, ReadClaims(r) PROVE EvidenceInv'
<1>1. UNCHANGED <<runVars, claims, links>>
  BY DEF ReadClaims
<1>2. reader' = [reader EXCEPT ![r].pc = "score", ![r].version = claims.version, ![r].list = claims.list]
  BY DEF ReadClaims
<1>6. claims' = claims /\ UNCHANGED CatalogIds /\ claims.version \in Nat
  BY <1>1 DEF runVars, CatalogIds, EvidenceInv, ClaimsInv
<1>8. QueriedInv'
  <2>1. \A p \in Readers : p # r => reader'[p] = reader[p]
    BY <1>2 DEF EvidenceInv, QueriedInv
  <2>2. reader'[r] = [pc |-> "score", answer |-> reader[r].answer, rows |-> reader[r].rows, version |-> claims.version,
                      list |-> claims.list]
    <3> DEFINE seen == reader[r]
    <3>1. seen = [pc |-> seen.pc, answer |-> seen.answer, rows |-> seen.rows,
                  version |-> seen.version, list |-> seen.list]
      BY DEF EvidenceInv, QueriedInv, QueriedOK
    <3>2. reader'[r] = [seen EXCEPT !.pc = "score", !.version = claims.version, !.list = claims.list]
      BY <1>2 DEF EvidenceInv, QueriedInv
    <3> HIDE DEF seen
    <3>3. reader'[r] = [pc |-> "score", answer |-> seen.answer, rows |-> seen.rows,
                        version |-> claims.version, list |-> claims.list]
      BY <3>1, <3>2
    <3> QED BY <3>3 DEF seen
  <2>3. QueriedOK(reader[r])'
    BY <2>2, <1>6 DEF QueriedOK, EvidenceInv, QueriedInv, ClaimsInv, Earned
  <2>4. ASSUME NEW p \in Readers, p # r PROVE QueriedOK(reader[p])'
    BY <2>1, <2>4, <1>6 DEF EvidenceInv, QueriedInv, QueriedOK, Earned
  <2>5. reader' = [p \in Readers |-> reader'[p]]
    BY <1>2 DEF EvidenceInv, QueriedInv
  <2> QED BY <2>3, <2>4, <2>5 DEF QueriedInv
<1> QED BY <1>1, <1>8, RunLeft DEF EvidenceInv

\* What is scored are the claims that were read, and their scores are earned.
LEMMA ScoredAre ==
    ASSUME EvidenceAssumption, EvidenceInv, NEW r \in Readers,
           reader[r].pc = "score", reader[r].version = claims.version,
           NEW i \in DOMAIN reader[r].list
    PROVE  /\ DOMAIN Scored(reader[r]) = DOMAIN reader[r].list
           /\ ClaimShape(Scored(reader[r])[i]) /\ Earned(Scored(reader[r])[i])
           /\ Scored(reader[r])[i].id = reader[r].list[i].id /\ Scored(reader[r])[i].ids = reader[r].list[i].ids
<1> DEFINE c == reader[r].list[i]
           support == {row \in Range(reader[r].rows) : [claim |-> c.id, key |-> row.key] \in links}
           score == ClaimScore(c, support, reader[r].answer)
<1>1. DOMAIN Scored(reader[r]) = DOMAIN reader[r].list
  BY DEF Scored
<1>2. Scored(reader[r])[i] = IF c.score # NoScore THEN c ELSE [c EXCEPT !.score = score]
  BY Zenon DEF Scored
<1>3. ClaimShape(c) /\ Earned(c)
  BY DEF EvidenceInv, QueriedInv, QueriedOK
<1>4. score.status \in {"none", "mixed"} => ~Gap(c, support, reader[r].answer)
  BY DEF ClaimScore
<1>5. score.status \in {"none", "mixed"} => c.ids # {} /\ c.ids \subseteq CatalogIds
  BY <1>4, WithoutGap
<1> HIDE DEF score, c
<1>6. CASE c.score # NoScore
  BY <1>1, <1>2, <1>3, <1>6 DEF c
<1>7. CASE ~(c.score # NoScore)
  <2>1. [c EXCEPT !.score = score] = [id |-> c.id, ids |-> c.ids, confidence |-> c.confidence, score |-> score]
    BY <1>3 DEF ClaimShape
  <2>2. Scored(reader[r])[i] = [id |-> c.id, ids |-> c.ids, confidence |-> c.confidence, score |-> score]
    BY <1>2, <1>7, <2>1
  <2>3. /\ Scored(reader[r])[i].id = c.id /\ Scored(reader[r])[i].ids = c.ids
        /\ Scored(reader[r])[i].confidence = c.confidence /\ Scored(reader[r])[i].score = score
    BY <2>2
  <2>4. ClaimShape(Scored(reader[r])[i])
    BY <2>2, <2>3 DEF ClaimShape
  <2>5. Earned(Scored(reader[r])[i])
    BY <2>3, <1>5 DEF Earned
  <2> QED BY <1>1, <2>3, <2>4, <2>5 DEF c
<1> QED BY <1>6, <1>7

\* Scores are written only on the claims that were read, and those without a gap earned them.
LEMMA ScoreClaimsStep == ASSUME EvidenceAssumption, EvidenceInv, NEW r \in Readers, ScoreClaims(r) PROVE EvidenceInv'
<1>1. UNCHANGED <<need, stage, hunt, found, catalog, artifacts, answer, links>> /\ reader[r].pc = "score"
  BY DEF ScoreClaims, runVars
<1>2. UNCHANGED CatalogIds
  BY <1>1 DEF CatalogIds
<1>3. /\ claims' = [version |-> claims'.version, list |-> claims'.list] /\ claims'.version = claims.version
      /\ DOMAIN claims'.list = DOMAIN claims.list
      /\ \A i \in DOMAIN claims.list :
           /\ ClaimShape(claims'.list[i]) /\ Earned(claims'.list[i])
           /\ claims'.list[i].id = claims.list[i].id /\ claims'.list[i].ids = claims.list[i].ids
      /\ claims.list = << >> => claims'.list = << >>
  <2>1. CASE reader[r].version = claims.version
    <3>1. claims' = [claims EXCEPT !.list = Scored(reader[r])]
      BY <2>1 DEF ScoreClaims
    <3>2. claims' = [version |-> claims.version, list |-> Scored(reader[r])]
      BY <3>1 DEF EvidenceInv, ClaimsInv
    <3>3. DOMAIN Scored(reader[r]) = DOMAIN reader[r].list
      BY DEF Scored
    <3>4. /\ DOMAIN reader[r].list = DOMAIN claims.list
          /\ \A i \in DOMAIN reader[r].list :
               reader[r].list[i].id = claims.list[i].id /\ reader[r].list[i].ids = claims.list[i].ids
      BY <1>1, <2>1 DEF EvidenceInv, QueriedInv, QueriedOK
    <3>5. \A i \in DOMAIN reader[r].list :
           /\ ClaimShape(Scored(reader[r])[i]) /\ Earned(Scored(reader[r])[i])
           /\ Scored(reader[r])[i].id = reader[r].list[i].id /\ Scored(reader[r])[i].ids = reader[r].list[i].ids
      BY <1>1, <2>1, ScoredAre
    <3>6. claims.list = << >> => Scored(reader[r]) = << >>
      BY <3>3, <3>4 DEF Scored
    <3> HIDE DEF Scored
    <3> QED BY <3>2, <3>3, <3>4, <3>5, <3>6
  <2>2. CASE reader[r].version # claims.version
    <3>1. claims' = claims
      BY <2>2 DEF ScoreClaims
    <3> QED BY <3>1 DEF EvidenceInv, ClaimsInv
  <2> QED BY <2>1, <2>2
<1>4. FoundInv' /\ TableOK(artifacts)'
  BY <1>1 DEF EvidenceInv, FoundInv, TableOK
<1>5. StageInv'
  <2>1. GatheredInv => GatheredInv'
    BY <1>1 DEF GatheredInv
  <2>2. CuratedInv => CuratedInv'
    <3>1. UNCHANGED <<catalog, artifacts>>
      BY <1>1
    <3> QED BY <3>1 DEF CuratedInv, Cites
  <2> QED BY <1>1, <1>3, <2>1, <2>2 DEF EvidenceInv, StageInv
<1>6. ClaimsInv'
  BY <1>1, <1>2, <1>3 DEF EvidenceInv, ClaimsInv, Earned
<1>7. QueriedInv'
  <2>0. reader' = [reader EXCEPT ![r] = NoRead]
    BY DEF ScoreClaims
  <2>1. \A p \in Readers : p # r => reader'[p] = reader[p]
    BY <2>0 DEF EvidenceInv, QueriedInv
  <2>2. PICK empty : reader'[r] = [pc |-> "idle", answer |-> empty, rows |-> << >>, version |-> 0, list |-> << >>]
    <3>1. PICK empty : empty = NoAnswer
      OBVIOUS
    <3>2. NoRead = [pc |-> "idle", answer |-> empty, rows |-> << >>, version |-> 0, list |-> << >>]
      BY <3>1, Zenon DEF NoRead
    <3> QED BY <2>0, <3>2 DEF EvidenceInv, QueriedInv
  <2>3. QueriedOK(reader[r])'
    <3>1. TableOK(<< >>)
      BY DEF TableOK, KeysAreUnique
    <3>2. claims.version \in Nat
      BY DEF EvidenceInv, ClaimsInv
    <3> QED BY <2>2, <1>3, <3>1, <3>2 DEF QueriedOK
  <2>4. ASSUME NEW p \in Readers, p # r PROVE QueriedOK(reader[p])'
    BY <2>1, <2>4, <1>2, <1>3 DEF EvidenceInv, QueriedInv, QueriedOK, Earned
  <2>5. reader' = [p \in Readers |-> reader'[p]]
    BY <2>0 DEF EvidenceInv, QueriedInv
  <2> QED BY <2>3, <2>4, <2>5 DEF QueriedInv
<1> QED BY <1>4, <1>5, <1>6, <1>7 DEF EvidenceInv

\* Sources that are upserted, and the artifacts they make
Sources == [page : Known, id : IdSet \cup {NoId}, status : Curations]

\* What upserting makes of a source, and of a row that it matches
LEMMA RowsAre ==
    ASSUME EvidenceAssumption, NEW s \in Sources
    PROVE  /\ NewArtifact(s) \in Artifacts
           /\ NewArtifact(s).url = s.page.norm /\ NewArtifact(s).meta = {}
           /\ NewArtifact(s).key = IF s.id = NoId THEN s.page.norm ELSE s.id
           /\ \A row \in Artifacts :
                /\ Updated(row, s) \in Artifacts
                /\ Updated(row, s).url = s.page.norm /\ Updated(row, s).meta = row.meta
                /\ Updated(row, s).key = IF s.id = NoId THEN row.key ELSE s.id
                /\ Updated(row, s).status = IF Rank(s.status) >= Rank(row.status) THEN s.status ELSE row.status
<1>1. s.page \in Known /\ s.page.norm \in Norms /\ s.id \in IdSet \cup {NoId} /\ s.status \in Curations
  BY KnownIs DEF Sources
<1>2. ASSUME NEW row \in Artifacts
      PROVE  /\ Updated(row, s) \in Artifacts
             /\ Updated(row, s).url = s.page.norm /\ Updated(row, s).meta = row.meta
             /\ Updated(row, s).key = IF s.id = NoId THEN row.key ELSE s.id
             /\ Updated(row, s).status = IF Rank(s.status) >= Rank(row.status) THEN s.status ELSE row.status
  <2>1. PICK key, state : /\ key = (IF s.id = NoId THEN row.key ELSE s.id)
                          /\ state = (IF Rank(s.status) >= Rank(row.status) THEN s.status ELSE row.status)
    OBVIOUS
  <2>2. key \in Norms \cup IdSet \cup {Unknown} /\ state \in Curations
    BY <1>1, <2>1 DEF Artifacts
  <2>3. Updated(row, s) = [row EXCEPT !.key = key, !.url = s.page.norm, !.page = s.page, !.status = state]
    BY <2>1, Zenon DEF Updated
  <2> QED BY <1>1, <2>1, <2>2, <2>3 DEF Artifacts
<1> QED BY <1>1, <1>2 DEF NewArtifact, Artifacts

\* Nothing outranks a citation, and a citation outranks the rest.
LEMMA Ranks == /\ \A x \in Curations : Rank("cited") >= Rank(x) /\ (Rank(x) >= Rank("cited") => x = "cited")
               /\ \A x \in Curations : Rank(x) \in Nat
<1>1. /\ Rank("cited") = 2 /\ Rank("selected") = 1 /\ Rank("filtered") = 1 /\ Rank("gathered") = 0
  BY DEF Rank
<1> QED BY <1>1 DEF Curations

\* Of one index that matches, the row is updated.
LEMMA UpsertAt ==
    ASSUME NEW stored, NEW pending, NEW s, NEW k \in Int, Matches(stored, pending, s) = {k}
    PROVE  Upsert(stored, pending, s) = [pending EXCEPT ![k] = Updated(@, s)]
<1>1. Min({k}) = k
  BY DEF Min
<1> QED BY <1>1 DEF Upsert

\* What is gathered into an empty table are new rows.
LEMMA GatheredRows ==
    ASSUME EvidenceAssumption, NEW n \in Nat, NEW sources \in [1..n -> Sources], \A i \in 1..n : sources[i].id = NoId
    PROVE  Upserted(<< >>, sources) = [i \in 1..n |-> NewArtifact(sources[i])]
<1>1. Len(sources) = n
  <2>1. sources \in Seq(Sources)
    OBVIOUS
  <2> QED BY <2>1
<1>2. PICK t : /\ t[0] = << >> /\ Upserted(<< >>, sources) = t[n]
               /\ \A m \in 1..n : t[m] = Upsert(<< >>, t[m - 1], sources[m])
  BY <1>1, UpsertedUnfolds
<1> DEFINE Rows(m) == [i \in 1..m |-> NewArtifact(sources[i])]
           S == {m \in 0..n : t[m] = Rows(m)}
<1>3. 0 \in S
  BY <1>2
<1>4. ASSUME NEW m \in 0..n, m \in S, m < n PROVE m + 1 \in S
  <2>1. Matches(<< >>, t[m], sources[m + 1]) = {}
    BY DEF Matches, ByKey, ByUrl
  <2>2. t[m + 1] = Append(t[m], NewArtifact(sources[m + 1]))
    <3>1. m + 1 \in 1..n /\ (m + 1) - 1 = m
      BY <1>4
    <3>2. t[m + 1] = Upsert(<< >>, t[(m + 1) - 1], sources[m + 1])
      BY <1>2, <3>1
    <3>3. t[m + 1] = Upsert(<< >>, t[m], sources[m + 1])
      BY <3>1, <3>2
    <3> QED BY <2>1, <3>3, Zenon DEF Upsert
  <2>3. \A i \in 1..n : NewArtifact(sources[i]) \in Artifacts
    BY RowsAre
  <2>4. t[m] \in Seq(Artifacts) /\ Len(t[m]) = m
    BY <1>4, <2>3
  <2>5. Append(t[m], NewArtifact(sources[m + 1])) = Rows(m + 1)
    BY <1>4, <2>4
  <2> QED BY <1>4, <2>2, <2>5
<1>5. n \in S
  <2> HIDE DEF S
  <2>1. 0..n \subseteq S
    BY <1>3, <1>4, UpTo
  <2> QED BY <2>1
<1> QED BY <1>2, <1>5

\* Gathering into the empty table leaves one row for every URL, or fails.
LEMMA GatheredStep == ASSUME EvidenceAssumption, EvidenceInv, Gathered PROVE EvidenceInv'
<1>0. PICK seen \in SUBSET {p \in found : p.date = "hidden"} : \E order \in Sorted(Enriched(found, seen)) :
         LET pages == Enriched(found, seen)
             table == Upserted(artifacts, [i \in DOMAIN order |-> Source(order[i], NoId, "gathered")]) IN
         /\ found' = pages
         /\ IF pages = {} \/ ~KeysAreUnique(table)
            THEN stage' = "failed" /\ UNCHANGED artifacts
            ELSE stage' = "curate" /\ artifacts' = table
  BY Zenon DEF Gathered
<1>1. PICK order \in Sorted(Enriched(found, seen)) :
         LET pages == Enriched(found, seen)
             table == Upserted(artifacts, [i \in DOMAIN order |-> Source(order[i], NoId, "gathered")]) IN
         /\ found' = pages
         /\ IF pages = {} \/ ~KeysAreUnique(table)
            THEN stage' = "failed" /\ UNCHANGED artifacts
            ELSE stage' = "curate" /\ artifacts' = table
  BY <1>0
<1> DEFINE pages == Enriched(found, seen)
           n == Cardinality(pages)
           sources == [i \in DOMAIN order |-> Source(order[i], NoId, "gathered")]
           table == Upserted(artifacts, sources)
<1>2. pages \subseteq Known
  BY KnownIs DEF Enriched, EvidenceInv, FoundInv
<1>3. n \in Nat
  BY <1>2, KnownIs, FS_Subset, FS_CardinalityType
<1>4. order \in [1..n -> pages] /\ \A p \in pages : \E i \in 1..n : order[i] = p
  BY DEF Sorted, Bijection, Surjection, Injection
<1>5. /\ need \in Needs /\ found' = pages /\ stage = "enrich" /\ artifacts = << >>
      /\ hunt' \in [round : Nat, searches : 0..MaxSearches] /\ need' = need
      /\ UNCHANGED <<catalog, answer, claims, links, reader>>
  <2>1. MaxSearches \in Nat /\ hunt' = [round |-> 0, searches |-> 0]
    BY DEF EvidenceAssumption, Gathered
  <2> QED BY <1>1, <2>1 DEF Gathered, EvidenceInv, StageInv, FoundInv
<1>6. FoundInv'
  BY <1>2, <1>5 DEF FoundInv
<1>7. answer = NoAnswer /\ claims.list = << >> /\ links = {}
  BY <1>5 DEF EvidenceInv, StageInv
<1>8. sources \in [1..n -> Sources] /\ \A i \in 1..n : sources[i].id = NoId /\ sources[i].page = order[i]
  BY <1>2, <1>4 DEF Sources, Source, Curations
<1>9. table = [i \in 1..n |-> NewArtifact(sources[i])]
  <2> HIDE DEF n, sources
  <2> QED BY <1>3, <1>5, <1>8, GatheredRows
<1>10. \A i \in 1..n : /\ table[i] \in Artifacts /\ table[i].url = order[i].norm /\ table[i].key = order[i].norm
                       /\ table[i].meta = {}
  <2> HIDE DEF n, sources
  <2> QED BY <1>8, <1>9, RowsAre
<1> HIDE DEF sources, n, pages, table
<1>11. CASE pages = {} \/ ~KeysAreUnique(table)
  <2>1. stage' = "failed" /\ artifacts' = artifacts
    BY <1>1, <1>11 DEF pages, table, sources
  <2> QED BY <1>5, <1>6, <1>7, <2>1 DEF EvidenceInv, TableOK, StageInv, ClaimsInv,
      QueriedInv, QueriedOK, Earned, CatalogIds
<1>12. CASE ~(pages = {} \/ ~KeysAreUnique(table))
  <2>1. stage' = "curate" /\ artifacts' = table
    BY <1>1, <1>12 DEF pages, table, sources
  <2>2. \A i \in 1..n : order[i] \in Known /\ order[i].norm # Unknown /\ order[i].norm \in Norms
    BY <1>2, <1>4, KnownIs
  <2>3. TableOK(table)
    <3>1. table \in Seq(Artifacts) /\ DOMAIN table = 1..n
      BY <1>3, <1>9, <1>10
    <3> QED BY <3>1, <2>2, <1>10, <1>12 DEF TableOK
  <2>4. GatheredInv'
    <3>1. DOMAIN table = 1..n
      BY <1>9
    <3>2. \A p \in pages : \E k \in DOMAIN table : table[k].url = p.norm
      BY <1>4, <1>10, <3>1
    <3>3. ASSUME NEW p \in pages, NEW q \in pages, p.norm = q.norm PROVE p = q
      <4>1. PICK i \in 1..n, j \in 1..n : order[i] = p /\ order[j] = q
        BY <1>4
      <4>2. i = j
        BY <4>1, <3>1, <3>3, <1>10, <1>12 DEF KeysAreUnique
      <4> QED BY <4>1, <4>2
    <3> QED BY <2>1, <2>2, <1>5, <1>10, <3>1, <3>2, <3>3 DEF GatheredInv
  <2>5. TableOK(artifacts)'
    BY <2>1, <2>3 DEF TableOK, KeysAreUnique
  <2>6. StageInv'
    BY <2>1, <2>4, <1>5, <1>7 DEF StageInv
  <2>7. ClaimsInv' /\ QueriedInv'
    BY <1>5, <1>7 DEF EvidenceInv, ClaimsInv, QueriedInv, QueriedOK, Earned, CatalogIds
  <2> QED BY <1>6, <2>5, <2>6, <2>7 DEF EvidenceInv
<1> QED BY <1>11, <1>12

\* The first of some numbers
LEMMA LeastOf == ASSUME NEW S, S \subseteq Nat, S # {} PROVE Min(S) \in S
<1> DEFINE R == OpToRel(<, Nat)
<1>1. \E x \in S : \A y \in S : ~(<<y, x>> \in R)
  <2> HIDE DEF R
  <2>1. IsWellFoundedOn(R, Nat)
    BY NatLessThanWellFounded DEF R
  <2> QED BY <2>1, WFMin
<1>2. PICK x \in S : \A y \in S : ~(<<y, x>> \in R)
  BY <1>1
<1> HIDE DEF R
<1>3. ASSUME NEW y \in S PROVE x <= y
  <2>1. y \in Nat /\ x \in Nat
    OBVIOUS
  <2>2. y < x => <<y, x>> \in R
    BY <2>1 DEF OpToRel, R
  <2> QED BY <1>2, <2>1, <2>2
<1> QED BY <1>3 DEF Min

\* Two sequences, one after the other
LEMMA Joined == ASSUME NEW T, NEW s \in Seq(T), NEW u \in Seq(T)
                PROVE  /\ s \o u \in Seq(T) /\ Len(s \o u) = Len(s) + Len(u)
                       /\ Len(s) \in Nat /\ Len(u) \in Nat
                       /\ \A m \in 1..Len(s) : (s \o u)[m] = s[m]
                       /\ \A m \in 1..Len(u) : (s \o u)[Len(s) + m] = u[m]
OBVIOUS

\* The beginning of a sequence
LEMMA Prefix == ASSUME NEW T, NEW s \in Seq(T), NEW n \in Nat, n <= Len(s)
                PROVE  /\ SubSeq(s, 1, n) \in Seq(T) /\ Len(SubSeq(s, 1, n)) = n
                       /\ \A i \in 1..n : SubSeq(s, 1, n)[i] = s[i]
OBVIOUS

\* The sources of a curation, in the order in which they are upserted
SourcesOK(sources, c, f, curated) ==
    /\ Len(sources) = 2 * c + f
    /\ \A m \in 1..2 * c + f :
         /\ sources[m] \in Sources /\ sources[m].page \in found
         /\ m <= c => sources[m] = Source(curated[m], Ids[m], "cited")
         /\ m > c /\ m <= 2 * c => sources[m] = Source(curated[m - c], Ids[m - c], "selected")
         /\ m > 2 * c => sources[m].id = NoId
\* So is the sequence of the code made up.
LEMMA SourcesAre ==
    ASSUME EvidenceAssumption, found \subseteq Known, NEW c \in Nat, c <= Len(Ids), NEW curated \in [1..c -> found],
           NEW f \in Nat, NEW filtered \in [1..f -> found]
    PROVE  SourcesOK(Curation(curated, filtered), c, f, curated)
<1> DEFINE sources == Curation(curated, filtered)
           A == [i \in DOMAIN curated |-> Source(curated[i], Ids[i], "cited")]
           B == [i \in DOMAIN curated |-> Source(curated[i], Ids[i], "selected")]
           C == [i \in DOMAIN filtered |-> Source(filtered[i], NoId, "filtered")]
<1>1. \A i \in 1..c : Ids[i] \in IdSet
  <2>1. Ids \in Seq(IdSet)
    BY DEF EvidenceAssumption
  <2> QED BY <2>1 DEF IdSet
<1>2. \A p \in found, id \in IdSet \cup {NoId}, s \in Curations :
        /\ Source(p, id, s) \in Sources
        /\ Source(p, id, s).page = p /\ Source(p, id, s).id = id
  BY DEF Source, Sources
<1>3. "cited" \in Curations /\ "selected" \in Curations /\ "filtered" \in Curations
  BY DEF Curations
<1>4. /\ A \in Seq(Sources) /\ Len(A) = c
      /\ \A i \in 1..c : A[i] = Source(curated[i], Ids[i], "cited") /\ A[i].page \in found
  BY <1>1, <1>2, <1>3
<1>5. /\ B \in Seq(Sources) /\ Len(B) = c
      /\ \A i \in 1..c : B[i] = Source(curated[i], Ids[i], "selected") /\ B[i].page \in found
  BY <1>1, <1>2, <1>3
<1>6. C \in Seq(Sources) /\ Len(C) = f /\ \A i \in 1..f : C[i].id = NoId /\ C[i].page \in found
  <2>1. \A i \in 1..f : Source(filtered[i], NoId, "filtered") \in Sources
    BY <1>2, <1>3
  <2>2. C = [i \in 1..f |-> Source(filtered[i], NoId, "filtered")]
    OBVIOUS
  <2> HIDE DEF C
  <2>3. C \in Seq(Sources) /\ Len(C) = f
    BY <2>1, <2>2
  <2>4. ASSUME NEW i \in 1..f PROVE C[i].id = NoId /\ C[i].page \in found
    <3>1. C[i] = Source(filtered[i], NoId, "filtered") /\ filtered[i] \in found
      BY <2>2
    <3> QED BY <3>1 DEF Source
  <2> QED BY <2>3, <2>4
<1> DEFINE D == A \o B
<1>7. sources = D \o C
  BY DEF Curation
<1> HIDE DEF A, B, C, sources
<1>8. /\ D \in Seq(Sources) /\ Len(D) = 2 * c
      /\ \A m \in 1..c : D[m] = A[m]
      /\ \A m \in 1..c : D[c + m] = B[m]
  <2>1. /\ D \in Seq(Sources) /\ Len(D) = c + c
        /\ \A m \in 1..c : D[m] = A[m]
        /\ \A m \in 1..c : D[c + m] = B[m]
    <3>1. /\ D \in Seq(Sources) /\ Len(D) = Len(A) + Len(B)
          /\ \A m \in 1..Len(A) : D[m] = A[m]
          /\ \A m \in 1..Len(B) : D[Len(A) + m] = B[m]
      <4>1. A \in Seq(Sources) /\ B \in Seq(Sources)
        BY <1>4, <1>5
      <4> QED BY <4>1, Joined
    <3> QED BY <1>4, <1>5, <3>1
  <2> QED BY <2>1
<1> HIDE DEF D
<1>10. /\ Len(sources) = 2 * c + f /\ sources \in Seq(Sources)
       /\ \A m \in 1..2 * c : sources[m] = D[m]
       /\ \A m \in 1..f : sources[2 * c + m] = C[m]
  <2>1. /\ sources \in Seq(Sources) /\ Len(sources) = Len(D) + Len(C)
        /\ \A m \in 1..Len(D) : sources[m] = D[m]
        /\ \A m \in 1..Len(C) : sources[Len(D) + m] = C[m]
    <3>1. D \in Seq(Sources) /\ C \in Seq(Sources)
      BY <1>6, <1>8
    <3>2. /\ D \o C \in Seq(Sources) /\ Len(D \o C) = Len(D) + Len(C)
          /\ \A m \in 1..Len(D) : (D \o C)[m] = D[m]
          /\ \A m \in 1..Len(C) : (D \o C)[Len(D) + m] = C[m]
      BY <3>1, Joined
    <3> QED BY <1>7, <3>2, Zenon
  <2> QED BY <1>6, <1>8, <2>1
<1>9. ASSUME NEW m \in 1..2 * c + f
      PROVE  /\ sources[m] \in Sources /\ sources[m].page \in found
             /\ m <= c => sources[m] = Source(curated[m], Ids[m], "cited")
             /\ m > c /\ m <= 2 * c => sources[m] = Source(curated[m - c], Ids[m - c], "selected")
             /\ m > 2 * c => sources[m].id = NoId
  <2>1. CASE m <= c
    <3>1. m \in 1..c /\ m \in 1..2 * c
      BY <2>1
    <3>2. sources[m] = A[m]
      BY <1>8, <1>10, <3>1
    <3>3. A[m] = Source(curated[m], Ids[m], "cited") /\ A[m].page \in found
      BY <1>4, <3>1
    <3>4. sources[m] \in Sources
      BY <1>10
    <3> QED BY <2>1, <3>2, <3>3, <3>4
  <2>2. CASE m > c /\ m <= 2 * c
    <3>1. m - c \in 1..c /\ m = c + (m - c) /\ m \in 1..2 * c
      BY <2>2
    <3>2. D[m] = B[m - c]
      BY <1>8, <3>1
    <3>3. sources[m] = B[m - c]
      BY <1>10, <3>1, <3>2
    <3>4. B[m - c] = Source(curated[m - c], Ids[m - c], "selected") /\ B[m - c].page \in found
      BY <1>5, <3>1
    <3>5. sources[m] \in Sources
      BY <1>10
    <3> QED BY <2>2, <3>3, <3>4, <3>5
  <2>3. CASE m > 2 * c
    <3>1. m - 2 * c \in 1..f /\ m = 2 * c + (m - 2 * c)
      BY <2>3
    <3>2. sources[m] = C[m - 2 * c]
      BY <1>10, <3>1
    <3>3. C[m - 2 * c].id = NoId /\ C[m - 2 * c].page \in found
      BY <1>6, <3>1
    <3>4. sources[m] \in Sources
      BY <1>10
    <3> QED BY <2>3, <3>2, <3>3, <3>4
  <2> QED BY <2>1, <2>2, <2>3
<1> QED BY <1>9, <1>10 DEF sources, SourcesOK

\* After a curation every curated source has its artifact, cited under its id.
PersistedOK(table, c, curated) ==
    /\ table \in Seq(Artifacts) /\ DOMAIN table = DOMAIN artifacts
    /\ \A k \in DOMAIN artifacts :
         /\ table[k].url = artifacts[k].url /\ table[k].meta = {} /\ table[k].key # Unknown
         /\ \A i \in 1..c : artifacts[k].url = curated[i].norm => table[k].key = Ids[i] /\ table[k].status = "cited"
\* Because rows are found by the keys they had before, all three upserts of a curated
\* source meet the one row that its URL was gathered under.
LEMMA PersistedRows ==
    ASSUME EvidenceAssumption, TableOK(artifacts), GatheredInv, found \subseteq Known,
           NEW c \in Nat, c <= Len(Ids), NEW curated \in [1..c -> found],
           \A i, j \in 1..c : curated[i] = curated[j] => i = j,
           NEW f \in Nat, NEW filtered \in [1..f -> found]
    PROVE  PersistedOK(Persisted(curated, filtered), c, curated)
<1> DEFINE sources == Curation(curated, filtered)
<1> DEFINE N == 2 * c + f
<1>3. /\ Len(sources) = N
      /\ \A m \in 1..N :
           /\ sources[m] \in Sources /\ sources[m].page \in found
           /\ m <= c => sources[m] = Source(curated[m], Ids[m], "cited")
           /\ m > c /\ m <= 2 * c => sources[m] = Source(curated[m - c], Ids[m - c], "selected")
           /\ m > 2 * c => sources[m].id = NoId
  <2>1. SourcesOK(Curation(curated, filtered), c, f, curated)
    BY SourcesAre
  <2> QED BY <2>1 DEF SourcesOK
<1>2. Persisted(curated, filtered) = Upserted(artifacts, sources)
  BY DEF Persisted
<1> HIDE DEF sources
<1>4. PICK t : /\ t[0] = artifacts /\ Upserted(artifacts, sources) = t[N]
               /\ \A m \in 1..N : t[m] = Upsert(artifacts, t[m - 1], sources[m])
  <2>1. Len(sources) \in Nat
    BY <1>3
  <2>2. PICK t : /\ t[0] = artifacts /\ Upserted(artifacts, sources) = t[Len(sources)]
                 /\ \A m \in 1..Len(sources) : t[m] = Upsert(artifacts, t[m - 1], sources[m])
    BY <2>1, UpsertedUnfolds
  <2> HIDE DEF N
  <2> QED BY <1>3, <2>2
<1> DEFINE OK(tab, m) ==
             /\ tab \in Seq(Artifacts) /\ DOMAIN tab = DOMAIN artifacts
             /\ \A k \in DOMAIN artifacts :
                  /\ tab[k].url = artifacts[k].url /\ tab[k].meta = {} /\ tab[k].key # Unknown
                  /\ \A i \in 1..c : i <= m /\ artifacts[k].url = curated[i].norm
                       => tab[k].key = Ids[i] /\ tab[k].status = "cited"
           S == {m \in 0..N : OK(t[m], m)}
<1>5. 0 \in S
  <2>1. OK(artifacts, 0)
    BY DEF TableOK, GatheredInv
  <2> HIDE DEF OK
  <2> QED BY <1>4, <2>1
<1>6. \A i \in 1..c : Ids[i] \in IdSet /\ Ids[i] # NoId /\ Ids[i] # Unknown
  <2>1. Ids \in Seq(IdSet) /\ \A i \in DOMAIN Ids : Ids[i] \notin {NoId, Unknown}
    BY DEF EvidenceAssumption
  <2> QED BY <2>1 DEF IdSet
<1>7. ASSUME NEW m \in 0..N, m \in S, m < N PROVE m + 1 \in S
  <2> DEFINE s == sources[m + 1]
             tab == t[m]
  <2>1. OK(tab, m)
    BY <1>7
  <2>2. m + 1 \in 1..N /\ t[m + 1] = Upsert(artifacts, tab, s)
    <3>1. m + 1 \in 1..N /\ (m + 1) - 1 = m
      BY <1>7
    <3>2. t[m + 1] = Upsert(artifacts, t[(m + 1) - 1], s)
      BY <1>4, <3>1
    <3> QED BY <3>1, <3>2
  <2>3. s \in Sources /\ s.page \in found
    BY <1>3, <2>2
  <2>4. PICK h \in DOMAIN artifacts : artifacts[h].url = s.page.norm
    BY <2>3 DEF GatheredInv
  <2>5. Matches(artifacts, tab, s) = {h}
    <3>1. ByKey(artifacts, tab, s.page.norm) = {h}
      BY <2>4 DEF ByKey, GatheredInv, TableOK, KeysAreUnique
    <3>2. s.id # NoId => ByKey(artifacts, tab, s.id) = {}
      <4>1. \A k \in DOMAIN artifacts : artifacts[k].key \in Norms
        BY DEF GatheredInv
      <4>2. s.id # NoId => s.id \in IdSet
        BY <2>3 DEF Sources
      <4>3. \A p \in Pages : p.norm \notin IdSet
        BY DEF EvidenceAssumption, IdSet
      <4> QED BY <4>1, <4>2, <4>3 DEF ByKey, Norms
    <3> QED BY <3>1, <3>2 DEF Matches
  <2>6. h \in Int /\ h \in DOMAIN tab /\ tab[h] \in Artifacts
    BY <2>1 DEF TableOK
  <2>7. t[m + 1] = [tab EXCEPT ![h] = Updated(tab[h], s)]
    <3>1. Upsert(artifacts, tab, s) = [tab EXCEPT ![h] = Updated(@, s)]
      <4> HIDE DEF s, tab
      <4> QED BY <2>5, <2>6, UpsertAt
    <3> QED BY <2>2, <3>1
  <2>8. /\ Updated(tab[h], s) \in Artifacts
        /\ Updated(tab[h], s).url = s.page.norm /\ Updated(tab[h], s).meta = tab[h].meta
        /\ Updated(tab[h], s).key = IF s.id = NoId THEN tab[h].key ELSE s.id
        /\ Updated(tab[h], s).status = IF Rank(s.status) >= Rank(tab[h].status) THEN s.status ELSE tab[h].status
    BY <2>3, <2>6, RowsAre
  <2>9. OK(t[m + 1], m + 1)
    <3>1. t[m + 1] \in Seq(Artifacts) /\ DOMAIN t[m + 1] = DOMAIN artifacts
      BY <2>1, <2>6, <2>7, <2>8
    <3>2. \A k \in DOMAIN artifacts : k # h => t[m + 1][k] = tab[k]
      BY <2>1, <2>7
    <3>3. t[m + 1][h] = Updated(tab[h], s)
      BY <2>6, <2>7
    <3>4. \A p, q \in found : p.norm = q.norm => p = q
      BY DEF GatheredInv
    <3>5. CASE m + 1 <= c
      <4>1. s = Source(curated[m + 1], Ids[m + 1], "cited") /\ m + 1 \in 1..c
        BY <1>3, <2>2, <3>5
      <4>2. /\ s.page = curated[m + 1] /\ s.id = Ids[m + 1] /\ s.status = "cited"
            /\ Ids[m + 1] # NoId /\ Ids[m + 1] # Unknown
        BY <1>6, <4>1 DEF Source
      <4>3. Updated(tab[h], s).key = Ids[m + 1] /\ Updated(tab[h], s).status = "cited"
        <5>1. tab[h].status \in Curations
          BY <2>6 DEF Artifacts
        <5>2. Rank(s.status) >= Rank(tab[h].status)
          BY <4>2, <5>1, Ranks
        <5> QED BY <2>8, <4>2, <5>2
      <4>4. \A i \in 1..c : artifacts[h].url = curated[i].norm => i = m + 1
        BY <2>3, <2>4, <3>4, <4>1, <4>2
      <4>5. \A k \in DOMAIN artifacts : \A i \in 1..c : k # h /\ artifacts[k].url = curated[i].norm => i # m + 1
        BY <2>4, <4>2 DEF GatheredInv, TableOK, KeysAreUnique
      <4>6. ASSUME NEW k \in DOMAIN artifacts
            PROVE  /\ t[m + 1][k].url = artifacts[k].url /\ t[m + 1][k].meta = {} /\ t[m + 1][k].key # Unknown
                   /\ \A i \in 1..c : i <= m + 1 /\ artifacts[k].url = curated[i].norm
                        => t[m + 1][k].key = Ids[i] /\ t[m + 1][k].status = "cited"
        <5>1. CASE k = h
          <6> HIDE DEF s, tab
          <6>1. tab[h].meta = {}
            BY <2>1, <2>4
          <6> QED BY <2>4, <2>8, <3>3, <4>2, <4>3, <4>4, <5>1, <6>1
        <5>2. CASE k # h
          <6>1. \A i \in 1..c : i <= m + 1 /\ i # m + 1 => i <= m
            OBVIOUS
          <6> HIDE DEF s
          <6> QED BY <2>1, <3>2, <4>5, <5>2, <6>1
        <5> QED BY <5>1, <5>2
      <4> QED BY <3>1, <4>6
    <3>6. CASE m + 1 > c
      <4>0. s.id # Unknown
        <5>1. Unknown \notin IdSet /\ Unknown # NoId
          BY DEF EvidenceAssumption, IdSet
        <5> QED BY <2>3, <5>1 DEF Sources
      <4>1. Updated(tab[h], s).key # Unknown
        BY <2>1, <2>4, <2>8, <4>0
      <4>2. ASSUME NEW i \in 1..c, artifacts[h].url = curated[i].norm
            PROVE  Updated(tab[h], s).key = Ids[i] /\ Updated(tab[h], s).status = "cited"
        <5>1. i <= m /\ tab[h].key = Ids[i] /\ tab[h].status = "cited"
          BY <2>1, <2>4, <3>6, <4>2
        <5>2. Rank(s.status) >= Rank(tab[h].status) => s.status = "cited"
          BY <2>3, <5>1, Ranks DEF Sources
        <5>3. s.id # NoId => s.id = Ids[i]
          <6>1. CASE m + 1 <= 2 * c
            <7>1. s = Source(curated[m + 1 - c], Ids[m + 1 - c], "selected") /\ m + 1 - c \in 1..c
              BY <1>3, <2>2, <3>6, <6>1
            <7>2. s.page = curated[m + 1 - c] /\ s.id = Ids[m + 1 - c]
              BY <7>1 DEF Source
            <7>3. i = m + 1 - c
              BY <2>4, <3>4, <4>2, <7>1, <7>2
            <7> QED BY <7>2, <7>3
          <6>2. CASE m + 1 > 2 * c
            BY <1>3, <2>2, <6>2
          <6> QED BY <6>1, <6>2
        <5> QED BY <2>8, <5>1, <5>2, <5>3
      <4>3. \A i \in 1..c : i <= m + 1 => i <= m
        BY <3>6
      <4>6. ASSUME NEW k \in DOMAIN artifacts
            PROVE  /\ t[m + 1][k].url = artifacts[k].url /\ t[m + 1][k].meta = {} /\ t[m + 1][k].key # Unknown
                   /\ \A i \in 1..c : i <= m + 1 /\ artifacts[k].url = curated[i].norm
                        => t[m + 1][k].key = Ids[i] /\ t[m + 1][k].status = "cited"
        <5>1. CASE k = h
          <6> HIDE DEF s, tab
          <6>1. tab[h].meta = {}
            BY <2>1, <2>4
          <6> QED BY <2>4, <2>8, <3>3, <4>1, <4>2, <5>1, <6>1
        <5>2. CASE k # h
          <6> HIDE DEF s, tab
          <6>1. t[m + 1][k] = tab[k]
            BY <3>2, <5>2
          <6>2. /\ tab[k].url = artifacts[k].url /\ tab[k].meta = {} /\ tab[k].key # Unknown
                /\ \A i \in 1..c : i <= m /\ artifacts[k].url = curated[i].norm
                     => tab[k].key = Ids[i] /\ tab[k].status = "cited"
            BY <2>1
          <6> QED BY <4>3, <6>1, <6>2
        <5> QED BY <5>1, <5>2
      <4> QED BY <3>1, <4>6
    <3> QED BY <3>5, <3>6
  <2> HIDE DEF OK
  <2> QED BY <1>7, <2>9
<1>8. N \in S
  <2> HIDE DEF S
  <2>1. N \in Nat /\ 0..N \subseteq S
    BY <1>5, <1>7, UpTo
  <2> QED BY <2>1
<1> QED BY <1>2, <1>4, <1>8 DEF PersistedOK

\* Curating cites every source that is in the catalog, or fails.
LEMMA CurateStep == ASSUME EvidenceAssumption, EvidenceInv, Curate PROVE EvidenceInv'
<1>1. stage = "curate" /\ UNCHANGED <<need, hunt, found, answer, claims, links, reader>>
  BY DEF Curate
<1>2. PICK selected \in (IF need.live THEN Sieved(found) ELSE {found}) :
        \E filtered \in Prioritized(found \ selected) : \E chosen \in Sorted(Refilled(selected, filtered)) :
         LET curated == SubSeq(chosen, 1, Min({Len(chosen), need.total}))
             table == Persisted(curated, filtered) IN
         /\ catalog' = curated
         /\ IF KeysAreUnique(table) THEN artifacts' = table /\ stage' = "answer"
            ELSE stage' = "failed" /\ UNCHANGED artifacts
  BY Zenon DEF Curate
<1>3. PICK filtered \in Prioritized(found \ selected) : \E chosen \in Sorted(Refilled(selected, filtered)) :
         LET curated == SubSeq(chosen, 1, Min({Len(chosen), need.total}))
             table == Persisted(curated, filtered) IN
         /\ catalog' = curated
         /\ IF KeysAreUnique(table) THEN artifacts' = table /\ stage' = "answer"
            ELSE stage' = "failed" /\ UNCHANGED artifacts
  BY <1>2
<1>4. PICK chosen \in Sorted(Refilled(selected, filtered)) :
         LET curated == SubSeq(chosen, 1, Min({Len(chosen), need.total}))
             table == Persisted(curated, filtered) IN
         /\ catalog' = curated
         /\ IF KeysAreUnique(table) THEN artifacts' = table /\ stage' = "answer"
            ELSE stage' = "failed" /\ UNCHANGED artifacts
  BY <1>3
<1>5. found \subseteq Known /\ need \in Needs /\ TableOK(artifacts) /\ GatheredInv
  BY <1>1 DEF EvidenceInv, FoundInv, StageInv
<1>6. IsFiniteSet(found)
  BY <1>5, KnownIs, FS_Subset
<1>7. selected \subseteq found
  BY Zenon DEF Sieved
<1> DEFINE f == Cardinality(found \ selected)
           refilled == Refilled(selected, filtered)
           n == Cardinality(refilled)
<1>8. f \in Nat /\ filtered \in [1..f -> found]
  <2>1. IsFiniteSet(found \ selected)
    BY <1>6, FS_Subset
  <2>2. f \in Nat
    BY <2>1, FS_CardinalityType
  <2> QED BY <2>2 DEF Prioritized, Bijection, Injection
<1>9. refilled \subseteq found
  <2> HIDE DEF f
  <2>1. Len(filtered) = f
    <3>1. filtered \in Seq(found)
      BY <1>8
    <3> QED BY <1>8, <3>1
  <2> DEFINE Sel(k) == selected \cup {filtered[j] : j \in 1..k}
             enough == {k \in 0..Len(filtered) : k = Len(filtered) \/ Met(Sel(k))}
  <2>2. enough \subseteq Nat /\ f \in enough
    BY <1>8, <2>1
  <2>3. Min(enough) \in enough
    <3> HIDE DEF enough
    <3> QED BY <2>2, LeastOf
  <2>4. refilled = Sel(Min(enough))
    BY Zenon DEF Refilled
  <2>5. \A k \in 0..f : Sel(k) \subseteq found
    BY <1>7, <1>8
  <2> HIDE DEF Sel
  <2>6. Min(enough) \in 0..f
    BY <2>1, <2>3
  <2> HIDE DEF enough, refilled
  <2> QED BY <2>4, <2>5, <2>6
<1>10. n \in Nat
  <2> HIDE DEF refilled
  <2> QED BY <1>6, <1>9, FS_Subset, FS_CardinalityType
<1>11. chosen \in [1..n -> refilled] /\ \A i, j \in 1..n : chosen[i] = chosen[j] => i = j
  <2>1. chosen \in Injection(1..n, refilled)
    BY Zenon DEF Sorted, Bijection
  <2> HIDE DEF n, refilled
  <2> QED BY <2>1 DEF Injection, IsInjective
<1> HIDE DEF f, n, refilled
<1> DEFINE c == Min({n, need.total})
           curated == SubSeq(chosen, 1, c)
           table == Persisted(curated, filtered)
<1>12. c \in Nat /\ c <= n /\ c <= Len(Ids)
  <2>1. need.total \in Nat /\ need.total <= Len(Ids) /\ Len(Ids) \in Nat
    <3>1. Needs \subseteq NeedType /\ Ids \in Seq(IdSet) /\ \A m \in Needs : m.total <= Len(Ids)
      BY DEF EvidenceAssumption
    <3> QED BY <1>5, <3>1 DEF NeedType
  <2> QED BY <1>10, <2>1, LesserOf
<1>13. chosen \in Seq(found) /\ Len(chosen) = n
  BY <1>9, <1>10, <1>11
<1> HIDE DEF c
<1>14. curated \in [1..c -> found] /\ (\A i, j \in 1..c : curated[i] = curated[j] => i = j)
       /\ curated \in Seq(found) /\ Len(curated) = c
  <2>1. curated \in Seq(found) /\ Len(curated) = c /\ \A i \in 1..c : curated[i] = chosen[i]
    BY <1>10, <1>12, <1>13, Prefix
  <2> HIDE DEF curated
  <2>2. \A i \in 1..c : i \in 1..n
    BY <1>10, <1>12
  <2> QED BY <1>11, <1>12, <2>1, <2>2
<1>15. /\ catalog' = curated
       /\ IF KeysAreUnique(table) THEN artifacts' = table /\ stage' = "answer"
          ELSE stage' = "failed" /\ UNCHANGED artifacts
  BY <1>4, <1>13, Zenon DEF c
<1> HIDE DEF curated
<1>16. /\ table \in Seq(Artifacts) /\ DOMAIN table = DOMAIN artifacts
       /\ \A k \in DOMAIN artifacts :
            /\ table[k].url = artifacts[k].url /\ table[k].meta = {} /\ table[k].key # Unknown
            /\ \A i \in 1..c : artifacts[k].url = curated[i].norm => table[k].key = Ids[i] /\ table[k].status = "cited"
  <2>1. PersistedOK(table, c, curated)
    BY <1>5, <1>8, <1>12, <1>14, PersistedRows
  <2> HIDE DEF table
  <2> QED BY <2>1 DEF PersistedOK
<1> HIDE DEF table
<1>17. FoundInv'
  BY <1>1 DEF EvidenceInv, FoundInv
<1>18. answer = NoAnswer /\ claims.list = << >> /\ links = {}
  BY <1>1 DEF EvidenceInv, StageInv
<1>19. ClaimsInv' /\ QueriedInv'
  <2>1. ClaimsInv'
    <3>1. answer.claims = << >>
      BY <1>18, Zenon DEF NoAnswer
    <3> QED BY <1>1, <1>18, <3>1 DEF EvidenceInv, ClaimsInv
  <2> QED BY <1>1, <1>18, <2>1 DEF EvidenceInv, QueriedInv, QueriedOK
<1>20. CASE ~KeysAreUnique(table)
  <2>1. stage' = "failed" /\ artifacts' = artifacts
    BY <1>15, <1>20
  <2> QED BY <1>1, <1>17, <1>18, <1>19, <2>1 DEF EvidenceInv, TableOK, StageInv
<1>21. CASE KeysAreUnique(table)
  <2>1. stage' = "answer" /\ artifacts' = table
    BY <1>15, <1>21
  <2>2. TableOK(artifacts)'
    BY <2>1, <1>16, <1>21 DEF TableOK, KeysAreUnique
  <2>3. CuratedInv'
    <3>1. catalog' \in Seq(Known) /\ Len(catalog') = c /\ DOMAIN catalog' = 1..c
      BY <1>5, <1>14, <1>15
    <3>2. ASSUME NEW i \in 1..c PROVE \E k \in DOMAIN artifacts' : Cites(k, i)'
      <4>1. curated[i] \in found
        BY <1>14
      <4>2. PICK k \in DOMAIN artifacts : artifacts[k].url = curated[i].norm
        BY <1>5, <4>1 DEF GatheredInv
      <4>3. \A h \in DOMAIN artifacts : artifacts[h].url = curated[i].norm => h = k
        BY <1>5, <4>2 DEF GatheredInv, TableOK, KeysAreUnique
      <4>4. Cites(k, i)'
        BY <2>1, <1>15, <1>16, <4>2, <4>3 DEF Cites
      <4> QED BY <2>1, <1>16, <4>2, <4>4
    <3> QED BY <1>12, <3>1, <3>2 DEF CuratedInv
  <2>4. StageInv'
    BY <2>1, <2>3 DEF StageInv
  <2> QED BY <1>17, <1>19, <2>2, <2>4 DEF EvidenceInv
<1> QED BY <1>20, <1>21

\* Citing the catalog again leaves keys, URLs and citations.
CitedOK(table) ==
    /\ table \in Seq(Artifacts) /\ DOMAIN table = DOMAIN artifacts
    /\ \A k \in DOMAIN artifacts :
         /\ table[k].url = artifacts[k].url /\ table[k].key = artifacts[k].key /\ table[k].meta = artifacts[k].meta
         /\ artifacts[k].status = "cited" => table[k].status = "cited"
\* A row is found by its id, which a source of the catalog has already.
LEMMA CitedRows ==
    ASSUME EvidenceAssumption, TableOK(artifacts), CuratedInv
    PROVE  CitedOK(Upserted(artifacts, [i \in DOMAIN catalog |-> Source(catalog[i], Ids[i], "cited")]))
<1> DEFINE sources == [i \in DOMAIN catalog |-> Source(catalog[i], Ids[i], "cited")]
           N == Len(catalog)
<1>1. N \in Nat /\ DOMAIN catalog = 1..N /\ \A i \in 1..N : catalog[i] \in Known
  BY DEF CuratedInv
<1>2. \A i \in 1..N : Ids[i] \in IdSet /\ Ids[i] # NoId
  <2>1. Ids \in Seq(IdSet) /\ \A i \in DOMAIN Ids : Ids[i] \notin {NoId, Unknown}
    BY DEF EvidenceAssumption
  <2>2. N <= Len(Ids)
    BY DEF CuratedInv
  <2> QED BY <1>1, <2>1, <2>2 DEF IdSet
<1>3. \A i \in 1..N : /\ sources[i] \in Sources /\ sources[i].page = catalog[i] /\ sources[i].id = Ids[i]
                      /\ sources[i].status = "cited"
  <2> HIDE DEF N
  <2> QED BY <1>1, <1>2 DEF Source, Sources, Curations
<1>4. Len(sources) = N
  <2>1. sources = [i \in 1..N |-> Source(catalog[i], Ids[i], "cited")]
    BY <1>1
  <2>2. \A i \in 1..N : Source(catalog[i], Ids[i], "cited") \in Sources
    BY <1>3, <2>1
  <2> HIDE DEF N, sources
  <2>3. sources \in Seq(Sources)
    BY <1>1, <2>1, <2>2
  <2> QED BY <1>1, <2>1, <2>3
<1> HIDE DEF sources
<1>5. PICK t : /\ t[0] = artifacts /\ Upserted(artifacts, sources) = t[N]
               /\ \A m \in 1..N : t[m] = Upsert(artifacts, t[m - 1], sources[m])
  <2>1. Len(sources) \in Nat
    BY <1>1, <1>4
  <2>2. PICK t : /\ t[0] = artifacts /\ Upserted(artifacts, sources) = t[Len(sources)]
                 /\ \A m \in 1..Len(sources) : t[m] = Upsert(artifacts, t[m - 1], sources[m])
    BY <2>1, UpsertedUnfolds
  <2> HIDE DEF N
  <2> QED BY <1>4, <2>2
<1> DEFINE S == {m \in 0..N : CitedOK(t[m])}
<1> HIDE DEF N
<1>6. 0 \in S
  <2>1. CitedOK(artifacts)
    BY DEF TableOK, CitedOK
  <2> QED BY <1>1, <1>5, <2>1
<1>7. ASSUME NEW m \in 0..N, m \in S, m < N PROVE m + 1 \in S
  <2> DEFINE s == sources[m + 1]
             tab == t[m]
  <2>1. CitedOK(tab)
    BY <1>7
  <2>2. m + 1 \in 1..N /\ t[m + 1] = Upsert(artifacts, tab, s)
    <3>1. m + 1 \in 1..N /\ (m + 1) - 1 = m
      BY <1>1, <1>7
    <3>2. t[m + 1] = Upsert(artifacts, t[(m + 1) - 1], s)
      BY <1>5, <3>1
    <3> QED BY <3>1, <3>2
  <2>3. /\ s \in Sources /\ s.page = catalog[m + 1] /\ s.id = Ids[m + 1] /\ s.status = "cited" /\ s.id # NoId
    BY <1>2, <1>3, <2>2
  <2>4. PICK h \in DOMAIN artifacts : Cites(h, m + 1)
    BY <1>1, <2>2 DEF CuratedInv
  <2>5. Matches(artifacts, tab, s) = {h}
    <3>1. ByKey(artifacts, tab, s.id) = {h}
      BY <2>3, <2>4 DEF ByKey, Cites, TableOK, KeysAreUnique
    <3> QED BY <2>3, <3>1 DEF Matches
  <2>6. h \in Int /\ h \in DOMAIN tab /\ tab[h] \in Artifacts
    BY <2>1 DEF TableOK, CitedOK
  <2>7. t[m + 1] = [tab EXCEPT ![h] = Updated(tab[h], s)]
    <3>1. Upsert(artifacts, tab, s) = [tab EXCEPT ![h] = Updated(@, s)]
      <4> HIDE DEF s, tab
      <4> QED BY <2>5, <2>6, UpsertAt
    <3> QED BY <2>2, <3>1
  <2>8. /\ Updated(tab[h], s) \in Artifacts
        /\ Updated(tab[h], s).url = s.page.norm /\ Updated(tab[h], s).meta = tab[h].meta
        /\ Updated(tab[h], s).key = IF s.id = NoId THEN tab[h].key ELSE s.id
        /\ Updated(tab[h], s).status = IF Rank(s.status) >= Rank(tab[h].status) THEN s.status ELSE tab[h].status
    BY <2>3, <2>6, RowsAre
  <2>9. Updated(tab[h], s).status = "cited"
    <3>1. tab[h].status \in Curations
      BY <2>6 DEF Artifacts
    <3>2. Rank(s.status) >= Rank(tab[h].status)
      BY <2>3, <3>1, Ranks
    <3> QED BY <2>3, <2>8, <3>2
  <2>10. Updated(tab[h], s).url = artifacts[h].url /\ Updated(tab[h], s).key = artifacts[h].key
         /\ Updated(tab[h], s).meta = artifacts[h].meta
    BY <2>1, <2>3, <2>4, <2>8 DEF Cites, CitedOK
  <2>11. CitedOK(t[m + 1])
    <3> HIDE DEF s
    <3>1. t[m + 1] \in Seq(Artifacts) /\ DOMAIN t[m + 1] = DOMAIN artifacts
      BY <2>1, <2>6, <2>7, <2>8 DEF CitedOK
    <3>2. \A k \in DOMAIN artifacts : k # h => t[m + 1][k] = tab[k]
      BY <2>1, <2>7 DEF CitedOK
    <3>3. t[m + 1][h] = Updated(tab[h], s)
      BY <2>6, <2>7
    <3> HIDE DEF tab
    <3> QED BY <2>1, <2>9, <2>10, <3>1, <3>2, <3>3 DEF CitedOK
  <2> QED BY <1>7, <2>2, <2>11
<1>8. N \in S
  <2> HIDE DEF S
  <2>1. 0..N \subseteq S
    BY <1>1, <1>6, <1>7, UpTo
  <2> QED BY <1>1, <2>1
<1> QED BY <1>5, <1>8 DEF sources

\* No two claims of an answer have the same id.
LEMMA ClaimIdsDiffer ==
    ASSUME NEW n \in Nat, NEW list, DOMAIN list = 1..n, NEW i \in 1..n, NEW j \in 1..n,
        ClaimId(list, i) = ClaimId(list, j)
    PROVE  i = j
<1>1. ASSUME NEW k \in 1..n, NEW m \in 1..n, k < m, ClaimId(list, k) = ClaimId(list, m) PROVE FALSE
  <2> DEFINE A(h) == {g \in 1..h : list[g].name = list[h].name}
  <2>1. list[k].name = list[m].name /\ Cardinality(A(k)) = Cardinality(A(m))
    BY <1>1 DEF ClaimId
  <2>2. A(k) \subseteq A(m) \ {m} /\ m \in A(m)
    BY <1>1, <2>1
  <2>3. IsFiniteSet(1..m)
    BY FS_Interval
  <2>4. IsFiniteSet(A(m))
    BY <2>3, FS_Subset
  <2> HIDE DEF A
  <2>5. IsFiniteSet(A(m) \ {m}) /\ Cardinality(A(m) \ {m}) = Cardinality(A(m)) - 1
    BY <2>2, <2>4, FS_RemoveElement
  <2>6. Cardinality(A(k)) <= Cardinality(A(m) \ {m})
    BY <2>2, <2>5, FS_Subset
  <2>7. Cardinality(A(m)) \in Nat
    BY <2>4, FS_CardinalityType
  <2> QED BY <2>1, <2>5, <2>6, <2>7
<1> QED BY <1>1

\* Completing a run makes a placeholder for every id without a row; no score is left.
LEMMA CompleteStep == ASSUME EvidenceAssumption, EvidenceInv, Complete PROVE EvidenceInv'
<1> DEFINE cited == Upserted(artifacts, [i \in DOMAIN catalog |-> Source(catalog[i], Ids[i], "cited")])
           list == answer.claims
           missing == (UNION {c.ids : c \in Range(list)}) \ {r.key : r \in Range(cited)}
<1>1. /\ stage \in {"answer", "completed"} /\ stage' = "completed"
      /\ UNCHANGED <<need, hunt, found, catalog, reader>>
  BY DEF Complete
<1>2. PICK added \in Bijection(1..Cardinality(missing), missing) :
        artifacts' = cited \o [i \in DOMAIN added |-> Placeholder(added[i])]
  BY Zenon DEF Complete
<1>3. claims' = [version |-> claims.version + 1,
                 list |-> [i \in DOMAIN list |->
                             [id |-> ClaimId(list, i), ids |-> list[i].ids, confidence |-> list[i].confidence,
                              score |-> NoScore]]]
  BY DEF Complete
<1>4. links' = UNION {{[claim |-> ClaimId(list, i), key |-> id] : id \in list[i].ids} : i \in DOMAIN list}
  BY DEF Complete
<1>5. UNCHANGED CatalogIds
  BY <1>1 DEF CatalogIds
<1>6. /\ answer' = [claims |-> answer'.claims, critique |-> answer'.critique, published |-> answer'.published]
      /\ answer'.claims = list
  <2>1. PICK yes : yes = TRUE
    OBVIOUS
  <2>2. answer' = [answer EXCEPT !.published = yes]
    BY <2>1, Zenon DEF Complete
  <2>3. answer = [claims |-> answer.claims, critique |-> answer.critique, published |-> answer.published]
    BY DEF EvidenceInv, ClaimsInv
  <2>4. answer' = [claims |-> answer.claims, critique |-> answer.critique, published |-> yes]
    BY <2>2, <2>3
  <2> QED BY <2>4
<1>7. PICK n \in Nat : DOMAIN list = 1..n
  BY DEF EvidenceInv, ClaimsInv
<1>8. \A i \in 1..n : list[i].ids \subseteq CatalogIds \cup {Unknown}
  BY <1>7 DEF EvidenceInv, ClaimsInv
<1>9. CuratedInv /\ TableOK(artifacts) /\ CatalogIds \subseteq IdSet
  BY <1>1, CitedIds DEF EvidenceInv, StageInv
<1>10. CitedOK(cited)
  BY <1>9, CitedRows
<1> DEFINE p == Cardinality(missing)
<1> HIDE DEF cited, list
<1>11. missing \subseteq IdSet \cup {Unknown} /\ \A k \in DOMAIN cited : cited[k].key \notin missing
  <2>1. ASSUME NEW id \in missing PROVE id \in IdSet \cup {Unknown}
    <3>1. PICK c \in Range(list) : id \in c.ids
      OBVIOUS
    <3>2. PICK i \in 1..n : c = list[i]
      BY <1>7, <3>1 DEF Range
    <3> QED BY <1>8, <1>9, <3>1, <3>2
  <2>2. ASSUME NEW k \in DOMAIN cited PROVE cited[k].key \notin missing
    <3>1. cited[k] \in Range(cited)
      BY DEF Range
    <3>2. cited[k].key \in {r.key : r \in Range(cited)}
      BY <3>1
    <3> QED BY <3>2
  <2> QED BY <2>1, <2>2
<1>12. p \in Nat
  <2>1. IsFiniteSet(IdSet \cup {Unknown})
    BY IdsFinite, FS_AddElement
  <2>2. IsFiniteSet(missing)
    BY <1>11, <2>1, FS_Subset
  <2> HIDE DEF missing
  <2> QED BY <2>2, FS_CardinalityType
<1>13. added \in [1..p -> missing] /\ (\A i, j \in 1..p : added[i] = added[j] => i = j)
       /\ \A id \in missing : \E i \in 1..p : added[i] = id
  <2>1. added \in Injection(1..p, missing) /\ added \in Surjection(1..p, missing)
    BY <1>2, Zenon DEF Bijection
  <2> HIDE DEF missing, p
  <2> QED BY <2>1 DEF Injection, Surjection, IsInjective
<1> HIDE DEF p
<1> DEFINE more == [i \in DOMAIN added |-> Placeholder(added[i])]
<1>14. /\ more \in Seq(Artifacts) /\ Len(more) = p
       /\ \A i \in 1..p : more[i].key = added[i] /\ more[i].url = "" /\ more[i].meta = {"placeholder"}
  <2>1. ASSUME NEW id \in missing
        PROVE  /\ Placeholder(id) \in Artifacts
               /\ Placeholder(id).key = id /\ Placeholder(id).url = "" /\ Placeholder(id).meta = {"placeholder"}
    <3>1. (CHOOSE page \in Pages : TRUE) \in Known
      <4>1. Pages # {}
        BY DEF EvidenceAssumption
      <4>2. (CHOOSE page \in Pages : TRUE) \in Pages
        BY <4>1, Zenon
      <4> QED BY <4>2 DEF Known
    <3> DEFINE page == CHOOSE q \in Pages : TRUE
    <3>2. Placeholder(id) = [key |-> id, url |-> "", status |-> "cited", page |-> page, meta |-> {"placeholder"}]
      BY DEF Placeholder
    <3>3. page \in Known
      BY <3>1
    <3>4. id \in IdSet \cup {Unknown}
      BY <1>11
    <3> HIDE DEF page, missing
    <3>5. [key |-> id, url |-> "", status |-> "cited", page |-> page, meta |-> {"placeholder"}] \in Artifacts
      BY <3>3, <3>4 DEF Artifacts, Curations
    <3>6. PICK row : row = Placeholder(id)
      OBVIOUS
    <3>7. row = [key |-> id, url |-> "", status |-> "cited", page |-> page, meta |-> {"placeholder"}]
      BY <3>2, <3>6
    <3>8. row.key = id /\ row.url = ""
      BY <3>7
    <3>9. row.meta = {"placeholder"}
      BY <3>7
    <3> QED BY <3>2, <3>5, <3>6, <3>8, <3>9
  <2>2. more = [i \in 1..p |-> Placeholder(added[i])] /\ \A i \in 1..p : added[i] \in missing
    BY <1>13
  <2> HIDE DEF missing, more
  <2>3. \A i \in 1..p : more[i] \in Artifacts /\ more[i] = Placeholder(added[i])
    BY <2>1, <2>2
  <2>4. more \in Seq(Artifacts) /\ Len(more) = p
    BY <1>12, <2>2, <2>3
  <2> QED BY <2>1, <2>2, <2>3, <2>4
<1>15. artifacts' = cited \o more
  BY <1>2
<1> HIDE DEF missing, more
<1> DEFINE l == Len(cited)
<1>16. /\ artifacts' \in Seq(Artifacts) /\ Len(artifacts') = l + p /\ l \in Nat /\ DOMAIN cited = 1..l
       /\ \A k \in 1..l : artifacts'[k] = cited[k]
       /\ \A k \in 1..p : artifacts'[l + k] = more[k]
  <2>1. cited \in Seq(Artifacts)
    BY <1>10 DEF CitedOK
  <2>2. /\ cited \o more \in Seq(Artifacts) /\ Len(cited \o more) = Len(cited) + Len(more) /\ Len(cited) \in Nat
        /\ \A k \in 1..Len(cited) : (cited \o more)[k] = cited[k]
        /\ \A k \in 1..Len(more) : (cited \o more)[Len(cited) + k] = more[k]
    <3>1. more \in Seq(Artifacts)
      BY <1>14
    <3> QED BY <2>1, <3>1, Joined
  <2>3. Len(more) = p /\ DOMAIN cited = 1..Len(cited)
    <3>1. Len(more) = p
      BY <1>14
    <3>2. DOMAIN cited = 1..Len(cited)
      BY <2>1
    <3> QED BY <3>1, <3>2
  <2> QED BY <1>15, <2>2, <2>3 DEF l
<1> HIDE DEF l
<1>17. ASSUME NEW k \in DOMAIN artifacts'
       PROVE  \/ k \in 1..l /\ k \in DOMAIN artifacts /\ artifacts'[k] = cited[k]
              \/ \E i \in 1..p : k = l + i /\ artifacts'[k] = more[i]
  <2>1. k \in 1..l + p
    BY <1>12, <1>16
  <2>2. CASE k <= l
    BY <1>10, <1>16, <2>1, <2>2 DEF CitedOK
  <2>3. CASE k > l
    <3>1. k - l \in 1..p /\ k = l + (k - l)
      BY <1>12, <1>16, <2>1, <2>3
    <3> QED BY <1>16, <3>1
  <2> QED BY <1>16, <2>1, <2>2, <2>3
<1>18. TableOK(artifacts)'
  <2>1. ASSUME NEW j \in DOMAIN artifacts', NEW k \in DOMAIN artifacts', artifacts'[j].key = artifacts'[k].key PROVE j = k
    <3>1. CASE j \in 1..l /\ j \in DOMAIN artifacts /\ artifacts'[j] = cited[j]
      <4>1. CASE k \in 1..l /\ k \in DOMAIN artifacts /\ artifacts'[k] = cited[k]
        BY <1>9, <1>10, <2>1, <3>1, <4>1 DEF TableOK, KeysAreUnique, CitedOK
      <4>2. CASE \E i \in 1..p : k = l + i /\ artifacts'[k] = more[i]
        <5>1. PICK i \in 1..p : artifacts'[k] = more[i]
          BY <4>2
        <5>2. artifacts'[k].key \in missing
          <6>1. added[i] \in missing
            BY <1>13
          <6>2. more[i].key = added[i]
            BY <1>14
          <6> QED BY <5>1, <6>1, <6>2
        <5>3. artifacts'[j].key \notin missing
          BY <1>11, <1>16, <3>1
        <5> QED BY <2>1, <5>2, <5>3
      <4> QED BY <1>17, <4>1, <4>2
    <3>2. CASE \E i \in 1..p : j = l + i /\ artifacts'[j] = more[i]
      <4>1. CASE k \in 1..l /\ k \in DOMAIN artifacts /\ artifacts'[k] = cited[k]
        <5>1. PICK i \in 1..p : artifacts'[j] = more[i]
          BY <3>2
        <5>2. artifacts'[j].key \in missing
          <6>1. added[i] \in missing
            BY <1>13
          <6>2. more[i].key = added[i]
            BY <1>14
          <6> QED BY <5>1, <6>1, <6>2
        <5>3. artifacts'[k].key \notin missing
          BY <1>11, <1>16, <4>1
        <5> QED BY <2>1, <5>2, <5>3
      <4>2. CASE \E i \in 1..p : k = l + i /\ artifacts'[k] = more[i]
        <5>1. PICK g \in 1..p : j = l + g /\ artifacts'[j] = more[g]
          BY <3>2
        <5>2. PICK i \in 1..p : k = l + i /\ artifacts'[k] = more[i]
          BY <4>2
        <5>3. added[g] = added[i]
          BY <1>14, <2>1, <5>1, <5>2
        <5> QED BY <1>13, <5>1, <5>2, <5>3
      <4> QED BY <1>17, <4>1, <4>2
    <3> QED BY <1>17, <3>1, <3>2
  <2>2. ASSUME NEW k \in DOMAIN artifacts', artifacts'[k].key = Unknown PROVE "placeholder" \in artifacts'[k].meta
    <3>1. CASE k \in 1..l /\ k \in DOMAIN artifacts /\ artifacts'[k] = cited[k]
      BY <1>9, <1>10, <2>2, <3>1 DEF TableOK, CitedOK
    <3>2. CASE \E i \in 1..p : k = l + i /\ artifacts'[k] = more[i]
      BY <1>14, <3>2
    <3> QED BY <1>17, <3>1, <3>2
  <2> QED BY <1>16, <2>1, <2>2 DEF TableOK, KeysAreUnique
<1>19. CuratedInv'
  <2>1. ASSUME NEW i \in DOMAIN catalog PROVE \E k \in DOMAIN artifacts' : Cites(k, i)'
    <3>1. PICK k \in DOMAIN artifacts : Cites(k, i)
      BY <1>9 DEF CuratedInv
    <3>2. k \in 1..l /\ k \in DOMAIN artifacts' /\ artifacts'[k] = cited[k]
      BY <1>10, <1>12, <1>16 DEF CitedOK
    <3>3. catalog[i].norm # ""
      <4>1. catalog[i] \in Known
        BY <1>9 DEF CuratedInv
      <4> QED BY <4>1, KnownIs
    <3>4. ASSUME NEW h \in DOMAIN artifacts', artifacts'[h].url = catalog[i].norm PROVE h = k
      <4>1. CASE h \in 1..l /\ h \in DOMAIN artifacts /\ artifacts'[h] = cited[h]
        BY <1>10, <3>1, <3>4, <4>1 DEF CitedOK, Cites
      <4>2. CASE \E j \in 1..p : h = l + j /\ artifacts'[h] = more[j]
        BY <1>14, <3>3, <3>4, <4>2
      <4> QED BY <1>17, <4>1, <4>2
    <3>5. Cites(k, i)'
      BY <1>1, <1>10, <3>1, <3>2, <3>4 DEF Cites, CitedOK
    <3> QED BY <3>2, <3>5
  <2> QED BY <1>1, <1>9, <2>1 DEF CuratedInv
<1>20. ClaimsInv'
  <2>1. claims'.version = claims.version + 1 /\ claims.version \in Nat /\ DOMAIN claims'.list = 1..n
    BY <1>3, <1>7 DEF EvidenceInv, ClaimsInv
  <2>2. ASSUME NEW i \in 1..n
        PROVE  /\ claims'.list[i].id = ClaimId(list, i) /\ claims'.list[i].ids = list[i].ids
               /\ ClaimShape(claims'.list[i]) /\ claims'.list[i].score = NoScore
    BY <1>3, <1>7 DEF ClaimShape
  <2>3. ASSUME NEW i \in 1..n, NEW j \in 1..n, claims'.list[i].id = claims'.list[j].id PROVE i = j
    BY <1>7, <2>2, <2>3, ClaimIdsDiffer
  <2>4. ASSUME NEW i \in 1..n PROVE Earned(claims.list[i])'
    <3>1. NoScore.status = "none yet"
      BY DEF NoScore
    <3>2. claims'.list[i].score.status = "none yet"
      BY <2>2, <3>1
    <3> QED BY <3>2 DEF Earned
  <2>5. ASSUME NEW link \in links'
        PROVE  /\ \E i \in 1..n : link.claim = claims'.list[i].id /\ link.key \in claims'.list[i].ids
               /\ \E k \in DOMAIN artifacts' : artifacts'[k].key = link.key
    <3>1. PICK i \in 1..n : link.claim = ClaimId(list, i) /\ link.key \in list[i].ids
      BY <1>4, <1>7
    <3>2. CASE link.key \in missing
      <4>1. PICK k \in 1..p : added[k] = link.key
        BY <1>13, <3>2
      <4>2. l + k \in DOMAIN artifacts' /\ artifacts'[l + k].key = link.key
        <5>1. l + k \in 1..l + p /\ DOMAIN artifacts' = 1..l + p
          BY <1>12, <1>16
        <5>2. artifacts'[l + k] = more[k] /\ more[k].key = link.key
          BY <1>14, <1>16, <4>1
        <5> QED BY <5>1, <5>2
      <4> QED BY <2>2, <3>1, <4>2
    <3>3. CASE link.key \notin missing
      <4>1. list[i] \in Range(list)
        BY <1>7 DEF Range
      <4>2. \E k \in DOMAIN cited : cited[k].key = link.key
        <5>0. link.key \in UNION {c.ids : c \in Range(list)}
          BY <3>1, <4>1
        <5>1. link.key \in {r.key : r \in Range(cited)}
          BY <3>3, <5>0 DEF missing
        <5>2. PICK row \in Range(cited) : link.key = row.key
          BY <5>1
        <5>3. \E k \in DOMAIN cited : row = cited[k]
          BY DEF Range
        <5> QED BY <5>2, <5>3
      <4>3. \A k \in DOMAIN cited : k \in DOMAIN artifacts' /\ artifacts'[k] = cited[k]
        BY <1>12, <1>16
      <4> QED BY <2>2, <3>1, <4>2, <4>3
    <3> QED BY <3>2, <3>3
  <2>6. claims' = [version |-> claims'.version, list |-> claims'.list]
    BY <1>3
  <2>7. \E m \in Nat : DOMAIN answer'.claims = 1..m
    BY <1>6, <1>7
  <2>8. \A i \in DOMAIN answer'.claims : answer'.claims[i].ids \subseteq CatalogIds' \cup {Unknown}
    BY <1>5, <1>6, <1>7, <1>8
  <2>9. \A i \in DOMAIN claims'.list :
          /\ ClaimShape(claims'.list[i]) /\ Earned(claims.list[i])'
          /\ claims'.list[i].ids \subseteq CatalogIds' \cup {Unknown}
          /\ \A j \in DOMAIN claims'.list : claims'.list[i].id = claims'.list[j].id => i = j
    BY <1>5, <1>8, <2>1, <2>2, <2>3, <2>4
  <2>10. \A link \in links' :
          /\ \E i \in DOMAIN claims'.list : link.claim = claims'.list[i].id /\ link.key \in claims'.list[i].ids
          /\ \E k \in DOMAIN artifacts' : artifacts'[k].key = link.key
    BY <2>1, <2>5
  <2>11. claims'.version \in Nat
    BY <2>1
  <2> QED BY <1>6, <2>6, <2>7, <2>8, <2>9, <2>10, <2>11 DEF ClaimsInv
<1>21. FoundInv'
  BY <1>1 DEF EvidenceInv, FoundInv
<1>22. StageInv'
  BY <1>1, <1>19 DEF StageInv
<1>23. QueriedInv'
  <2>1. claims'.version = claims.version + 1 /\ claims.version \in Nat
    BY <1>3 DEF EvidenceInv, ClaimsInv
  <2>2. ASSUME NEW r \in Readers PROVE QueriedOK(reader[r])'
    BY <1>1, <2>1 DEF EvidenceInv, QueriedInv, QueriedOK
  <2> QED BY <1>1, <2>2 DEF EvidenceInv, QueriedInv
<1> QED BY <1>18, <1>20, <1>21, <1>22, <1>23 DEF EvidenceInv

\* It holds at first ...
LEMMA EvidenceInitInv == ASSUME EvidenceAssumption, EvidenceInit PROVE EvidenceInv
<1>1. need \in Needs /\ stage = "gather" /\ hunt = [round |-> 0, searches |-> 0] /\ found = {} /\ catalog = << >>
      /\ artifacts = << >> /\ answer = NoAnswer /\ claims = [version |-> 0, list |-> << >>] /\ links = {}
      /\ reader = [r \in Readers |-> NoRead]
  BY DEF EvidenceInit
<1>2. MaxSearches \in Nat
  BY DEF EvidenceAssumption
<1>3. FoundInv /\ TableOK(artifacts) /\ StageInv
  BY <1>1, <1>2 DEF FoundInv, TableOK, KeysAreUnique, StageInv
<1>4. answer.claims = << >>
      /\ answer = [claims |-> answer.claims, critique |-> answer.critique, published |-> answer.published]
  BY <1>1, Zenon DEF NoAnswer
<1>5. ClaimsInv
  <2>1. DOMAIN answer.claims = 1..0
    BY <1>4
  <2>2. claims = [version |-> claims.version, list |-> claims.list] /\ claims.version = 0 /\ claims.list = << >>
    BY <1>1
  <2>3. links = {}
    BY <1>1
  <2>4. (\E n \in Nat : DOMAIN answer.claims = 1..n) /\ DOMAIN answer.claims = {}
    BY <2>1
  <2>5. DOMAIN claims.list = {}
    BY <2>2
  <2>6. claims.version \in Nat
    BY <2>2
  <2> QED BY <1>4, <2>2, <2>3, <2>4, <2>5, <2>6 DEF ClaimsInv
<1>6. PICK empty : NoRead = [pc |-> "idle", answer |-> empty, rows |-> << >>, version |-> 0, list |-> << >>]
  BY Zenon DEF NoRead
<1>7. QueriedOK(NoRead)
  BY <1>1, <1>6 DEF QueriedOK, TableOK, KeysAreUnique
<1>8. QueriedInv
  <2> HIDE DEF NoRead
  <2> QED BY <1>1, <1>7 DEF QueriedInv
<1> QED BY <1>3, <1>5, <1>8 DEF EvidenceInv

\* ... and after every step ...
LEMMA EvidenceNextInv == ASSUME EvidenceAssumption, EvidenceInv, [EvidenceNext]_evidenceVars PROVE EvidenceInv'
<1>1. CASE UNCHANGED evidenceVars
  <2>1. UNCHANGED <<runVars, claims, links>> /\ reader' = reader
    BY <1>1 DEF evidenceVars, runVars
  <2>2. UNCHANGED CatalogIds /\ claims' = claims
    BY <2>1 DEF runVars, CatalogIds
  <2>3. QueriedInv'
    BY <2>1, <2>2 DEF EvidenceInv, QueriedInv, QueriedOK, Earned
  <2> QED BY <2>1, <2>3, RunLeft DEF EvidenceInv
<1> QED BY <1>1, RoundStep, DeepenStep, GatheredStep, CurateStep, AnswerStep, CompleteStep,
           ReadRecordStep, ReadArtifactsStep, ReadClaimsStep, ScoreClaimsStep DEF EvidenceNext

\* ... and where it holds, the evidence is traceable.
LEMMA TracesAreThere == ASSUME EvidenceAssumption, EvidenceInv PROVE EvidenceIsTraceable
<1>1. ASSUME stage \in {"answer", "completed"}, NEW i \in DOMAIN catalog
      PROVE  LET same == {r \in Range(artifacts) : r.url = catalog[i].norm} IN
             /\ Cardinality({j \in DOMAIN artifacts : artifacts[j].url = catalog[i].norm}) = 1
             /\ \A r \in same : r.key = Ids[i] /\ r.status = "cited" /\ "placeholder" \notin r.meta
  <2>1. PICK k \in DOMAIN artifacts : Cites(k, i)
    BY <1>1 DEF EvidenceInv, StageInv, CuratedInv
  <2>2. {j \in DOMAIN artifacts : artifacts[j].url = catalog[i].norm} = {k}
    BY <2>1 DEF Cites
  <2>3. Cardinality({k}) = 1
    BY FS_Singleton
  <2>4. ASSUME NEW r \in Range(artifacts), r.url = catalog[i].norm
        PROVE  r.key = Ids[i] /\ r.status = "cited" /\ "placeholder" \notin r.meta
    BY <2>1, <2>4 DEF Cites, Range
  <2> QED BY <2>2, <2>3, <2>4
<1>2. ASSUME NEW link \in links PROVE \E r \in Range(artifacts) : r.key = link.key
  BY DEF EvidenceInv, ClaimsInv, Range
<1> QED BY <1>1, <1>2 DEF EvidenceIsTraceable

\* It bounds the searches ...
LEMMA BudgetIsKept == ASSUME EvidenceAssumption, EvidenceInv PROVE SearchBudget
<1>1. MaxSearches \in Nat
  BY DEF EvidenceAssumption
<1> QED BY <1>1 DEF EvidenceInv, FoundInv, SearchBudget

\* ... and says of every claim that it earned its score.
LEMMA ScoresAreRight == ASSUME EvidenceInv PROVE ScoresAreEarned
BY DEF EvidenceInv, ClaimsInv, Earned, ScoresAreEarned, Range

\* Whatever is searched, found and filtered: searches stay within their budget, every curated
\* source has one artifact, cited under the answer's id, and every link of a claim leads to an artifact.
THEOREM EvidenceIsKept == ASSUME EvidenceAssumption PROVE EvidenceSpec => [](SearchBudget /\ EvidenceIsTraceable)
<1>1. EvidenceInv => SearchBudget /\ EvidenceIsTraceable
  BY BudgetIsKept, TracesAreThere
<1> QED BY <1>1, EvidenceInitInv, EvidenceNextInv, PTL DEF EvidenceSpec

\* A score without a gap is that of a claim whose citations are all curated sources, however
\* many readers score claims from what they queried before the run was completed again.
THEOREM NoScoreIsUnearned == ASSUME EvidenceAssumption PROVE EvidenceSpec => []ScoresAreEarned
<1>1. EvidenceInv => ScoresAreEarned
  BY ScoresAreRight
<1> QED BY <1>1, EvidenceInitInv, EvidenceNextInv, PTL DEF EvidenceSpec
=============================================================================
