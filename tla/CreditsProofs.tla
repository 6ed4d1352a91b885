----------------------------- MODULE CreditsProofs -----------------------------
(***************************************************************************)
(* Proofs about Credits, for every set of threads, coroutines and checkout *)
(* sessions, every amount and any number of requests and restarts; and      *)
(* about the routes that are coroutines, on their own on the event loop,    *)
(* where what one has read no other changes before it commits: the ledger   *)
(* is exact there.                                                          *)
(***************************************************************************)
EXTENDS MCCredits, FiniteSetTheorems, TLAPS

\* A handler that writes knows what it writes: the session of a webhook, an
\* amount it found covered when it reserves.
WriteInv == \A r \in Requests : op[r].pc = "write" =>
    /\ op[r].kind = "webhook" => op[r].session \in Sessions
    /\ op[r].kind = "reserve" => op[r].had /\ op[r].saw >= op[r].amount

\* A handler on its way to the transfer is the only one of its session, whose
\* transaction is pending and unpaid.
TransferInv == \A r \in Requests : op[r].pc = "transfer" =>
    /\ op[r].session \in Sessions
    /\ tx[op[r].session] = "pending" /\ sent[op[r].session] = 0
    /\ \A q \in Requests : op[q].pc = "transfer" /\ op[q].session = op[r].session => q = r

\* A session without a transaction was never paid out.
UnpaidInv == \A s \in Sessions : tx[s] = "none" => sent[s] = 0

IInv == TypeOK /\ WriteInv /\ TransferInv /\ UnpaidInv /\ CreditedOnce /\ TransferredOnce

-----------------------------------------------------------------------------
(* Lemmas *)

\* The balance written is a balance: the deduction is clamped at zero, and the
\* reservation was covered by the balance it read.
LEMMA NewBalanceNat ==
    ASSUME NEW o \in Operations, o.kind = "reserve" => o.had /\ o.saw >= o.amount
    PROVE  /\ NewBalance(o) \in Nat
           /\ o.kind \in {"deduct", "reserve"} =>
                (IF o.had THEN o.saw ELSE Opening(o)) - NewBalance(o) \in Nat
<1> DEFINE base == IF o.had THEN o.saw ELSE Opening(o)
<1>1. o.kind \in Kinds /\ o.amount \in Nat /\ o.saw \in Nat /\ o.had \in BOOLEAN
  BY DEF Operations
<1>2. base \in Nat
  BY <1>1, CreditsAssumption DEF Opening
<1>3. o.kind = "reserve" => base >= o.amount
  BY <1>1
<1>4. NewBalance(o) = CASE o.kind = "balance" -> base
                        [] o.kind = "deduct" -> IF base > o.amount THEN base - o.amount ELSE 0
                        [] o.kind = "webhook" -> base + o.amount
                        [] o.kind = "reserve" -> base - o.amount
  BY DEF NewBalance
<1> HIDE DEF base
<1>5. NewBalance(o) \in Nat /\ (o.kind \in {"deduct", "reserve"} => base - NewBalance(o) \in Nat)
  <2>1. CASE o.kind = "balance"
    BY <1>2, <1>4, <2>1
  <2>2. CASE o.kind = "webhook"
    BY <1>1, <1>2, <1>4, <2>2
  <2>3. CASE o.kind = "deduct"
    BY <1>1, <1>2, <1>4, <2>3
  <2>4. CASE o.kind = "reserve"
    BY <1>1, <1>2, <1>3, <1>4, <2>4
  <2> QED BY <1>1, <2>1, <2>2, <2>3, <2>4 DEF Kinds
<1> QED BY <1>5 DEF base

\* A request that returns to idle disturbs no other.
LEMMA IdleStep ==
    ASSUME IInv, NEW r \in Requests, op' = [op EXCEPT ![r] = Idle],
           UNCHANGED <<exists, balance, tx, sent, ledger, begun, crashes>>
    PROVE  IInv'
<1>1. Idle \in Operations /\ Idle.pc = "idle"
  BY DEF Idle, Operations, Kinds
<1>2. op \in [Requests -> Operations]
  BY DEF IInv, TypeOK
<1>3. /\ op' \in [Requests -> Operations]
      /\ \A q \in Requests : op'[q] = op[q] \/ op'[q].pc = "idle"
  BY <1>1, <1>2
<1>4. TypeOK'
  BY <1>3 DEF IInv, TypeOK, ledger
<1>5. WriteInv' /\ TransferInv' /\ UnpaidInv' /\ CreditedOnce' /\ TransferredOnce'
  BY <1>3 DEF IInv, WriteInv, TransferInv, UnpaidInv, CreditedOnce, TransferredOnce, ledger
<1> QED BY <1>4, <1>5 DEF IInv

-----------------------------------------------------------------------------
(* The inductive invariant *)

LEMMA InitInv == Init => IInv
<1> SUFFICES ASSUME Init PROVE IInv
  OBVIOUS
<1>1. Idle \in Operations /\ Idle.pc = "idle"
  BY DEF Idle, Operations, Kinds
<1>2. op \in [Requests -> Operations] /\ \A r \in Requests : op[r].pc = "idle"
  BY <1>1 DEF Init
<1>3. TypeOK
  BY <1>2 DEF Init, TypeOK
<1>4. WriteInv /\ TransferInv
  BY <1>2 DEF WriteInv, TransferInv
<1>5. UnpaidInv /\ CreditedOnce /\ TransferredOnce
  BY DEF Init, UnpaidInv, CreditedOnce, TransferredOnce
<1> QED BY <1>3, <1>4, <1>5 DEF IInv

\* A handler that reads only gains the knowledge its commit relies on.
LEMMA ReadStep ==
    ASSUME IInv, NEW r \in Requests, NEW kind \in Kinds, NEW amount \in Nat,
           NEW s \in Sessions \cup {NoSession}, kind = "webhook" => s \in Sessions,
           Read(r, kind, amount, s)
    PROVE  IInv'
<1> DEFINE k == [pc |-> "write", kind |-> kind, amount |-> amount, session |-> s,
                 had |-> exists, saw |-> balance]
<1>1. /\ TypeOK /\ op[r].pc = "idle" /\ begun' = begun + 1
      /\ UNCHANGED <<exists, balance, tx, sent, ledger, crashes>>
  BY DEF Read, IInv
<1>2. UNCHANGED <<exists, balance, tx, sent, credited, opening, taken, crashes>> /\ begun' \in Nat
  BY <1>1 DEF ledger, TypeOK
<1>3. CASE op' = op
  BY <1>2, <1>3 DEF IInv, TypeOK, WriteInv, TransferInv, UnpaidInv, CreditedOnce, TransferredOnce
<1>4. CASE op' = [op EXCEPT ![r] = k] /\ (kind = "reserve" => exists /\ balance >= amount)
  <2>1. k \in Operations /\ op \in [Requests -> Operations]
    BY <1>1 DEF TypeOK, Operations
  <2>2. op' \in [Requests -> Operations] /\ op'[r] = k /\ \A q \in Requests \ {r} : op'[q] = op[q]
    BY <1>4, <2>1
  <2>3. TypeOK'
    BY <1>1, <1>2, <2>2 DEF TypeOK
  <2>4. WriteInv'
    BY <1>4, <2>2 DEF IInv, WriteInv
  <2>5. \A q \in Requests : op'[q].pc = "transfer" => q # r /\ op'[q] = op[q]
    BY <2>2
  <2>6. TransferInv' /\ UnpaidInv' /\ CreditedOnce' /\ TransferredOnce'
    BY <1>2, <2>5 DEF IInv, TransferInv, UnpaidInv, CreditedOnce, TransferredOnce
  <2> QED BY <2>3, <2>4, <2>6 DEF IInv
<1>5. op' = op \/ (op' = [op EXCEPT ![r] = k] /\ (kind = "reserve" => exists /\ balance >= amount))
  BY DEF Read
<1> QED BY <1>3, <1>4, <1>5

\* A commit inserts a transaction only where there is none.
LEMMA CommitStep == ASSUME IInv, NEW r \in Requests, Commit(r) PROVE IInv'
<1> DEFINE o == op[r]
           base == IF o.had THEN o.saw ELSE Opening(o)
<1>1. /\ TypeOK /\ o \in Operations /\ o.pc = "write" /\ ~Clashes(o)
      /\ o.kind = "webhook" => o.session \in Sessions /\ tx[o.session] = "none"
      /\ o.kind = "reserve" => o.had /\ o.saw >= o.amount
  BY DEF Commit, IInv, TypeOK, WriteInv, Clashes, Processed
<1>2. NewBalance(o) \in Nat /\ (o.kind \in {"deduct", "reserve"} => base - NewBalance(o) \in Nat)
  BY <1>1, NewBalanceNat
<1>3. /\ exists' = TRUE
      /\ balance' = IF o.had /\ NewBalance(o) = o.saw THEN balance ELSE NewBalance(o)
      /\ opening' = IF o.had THEN opening ELSE Opening(o)
      /\ taken' = IF o.kind \in {"deduct", "reserve"} THEN taken + (base - NewBalance(o)) ELSE taken
      /\ UNCHANGED <<sent, begun, crashes>>
  BY DEF Commit
<1>4. Opening(o) \in Nat
  BY CreditsAssumption DEF Opening
<1>5. exists' \in BOOLEAN /\ balance' \in Nat /\ opening' \in Nat
  BY <1>1, <1>2, <1>3, <1>4 DEF TypeOK
<1>6. taken' \in Nat
  <2> HIDE DEF base, o
  <2> QED BY <1>1, <1>2, <1>3 DEF TypeOK
<1>7. CASE o.kind = "webhook"
  <2> DEFINE s == o.session
             k == [o EXCEPT !.pc = "transfer"]
  <2>1. /\ tx' = [tx EXCEPT ![s] = "pending"] /\ credited' = [credited EXCEPT ![s] = @ + 1]
        /\ op' = [op EXCEPT ![r] = k]
    BY <1>7 DEF Commit
  <2>2. /\ s \in Sessions /\ tx[s] = "none" /\ k \in Operations
        /\ k.pc = "transfer" /\ k.session = s
        /\ credited[s] = 0 /\ sent[s] = 0
    BY <1>1, <1>7 DEF Operations, IInv, CreditedOnce, UnpaidInv
  <2>3. /\ op' \in [Requests -> Operations] /\ op'[r] = k
        /\ \A q \in Requests \ {r} : op'[q] = op[q]
        /\ tx' \in [Sessions -> {"none", "pending", "completed"}] /\ tx'[s] = "pending"
        /\ \A z \in Sessions \ {s} : tx'[z] = tx[z] /\ credited'[z] = credited[z]
        /\ credited' \in [Sessions -> Nat] /\ credited'[s] = 1
    BY <1>1, <2>1, <2>2 DEF TypeOK
  <2> HIDE DEF k, s, o, base
  <2>4. TypeOK'
    BY <1>1, <1>3, <1>5, <1>6, <2>3 DEF TypeOK
  <2>5. WriteInv'
    BY <2>2, <2>3 DEF IInv, WriteInv
  <2>6. TransferInv'
    BY <1>3, <2>2, <2>3 DEF IInv, TransferInv
  <2>7. UnpaidInv' /\ CreditedOnce' /\ TransferredOnce'
    BY <1>3, <2>2, <2>3 DEF IInv, UnpaidInv, CreditedOnce, TransferredOnce
  <2> QED BY <2>4, <2>5, <2>6, <2>7 DEF IInv
<1>8. CASE o.kind # "webhook"
  <2>1. op' = [op EXCEPT ![r] = Idle] /\ UNCHANGED <<tx, credited>>
    BY <1>8 DEF Commit
  <2>2. Idle \in Operations /\ Idle.pc = "idle"
    BY DEF Idle, Operations, Kinds
  <2>3. op' \in [Requests -> Operations] /\ \A q \in Requests : op'[q] = op[q] \/ op'[q].pc = "idle"
    BY <1>1, <2>1, <2>2 DEF TypeOK
  <2> HIDE DEF o, base
  <2>4. TypeOK'
    BY <1>1, <1>3, <1>5, <1>6, <2>1, <2>3 DEF TypeOK
  <2>5. WriteInv' /\ TransferInv' /\ UnpaidInv' /\ CreditedOnce' /\ TransferredOnce'
    BY <1>3, <2>1, <2>3 DEF IInv, WriteInv, TransferInv, UnpaidInv, CreditedOnce, TransferredOnce
  <2> QED BY <2>4, <2>5 DEF IInv
<1> QED BY <1>7, <1>8

\* The one handler of a pending session pays it at most once.
LEMMA TransferStep == ASSUME IInv, NEW c \in Requests, Transfer(c) PROVE IInv'
<1> DEFINE s == op[c].session
<1>1. /\ TypeOK /\ op[c].pc = "transfer" /\ s \in Sessions /\ tx[s] = "pending" /\ sent[s] = 0
      /\ \A q \in Requests \ {c} : op[q].pc = "transfer" => op[q].session # s
      /\ \A q \in Requests : op[q].pc = "transfer" => op[q].session \in Sessions
  BY DEF Transfer, IInv, TransferInv
<1>2. /\ tx' = [tx EXCEPT ![s] = "completed"] \/ tx' = tx
      /\ op' = [op EXCEPT ![c] = Idle]
      /\ sent' = [sent EXCEPT ![s] = @ + 1] \/ sent' = sent
      /\ UNCHANGED <<exists, balance, credited, opening, taken, begun, crashes>>
  BY DEF Transfer, ledger
<1>3. Idle \in Operations /\ Idle.pc = "idle"
  BY DEF Idle, Operations, Kinds
<1>4. /\ op' \in [Requests -> Operations] /\ op'[c].pc = "idle"
      /\ \A q \in Requests \ {c} : op'[q] = op[q]
      /\ tx' \in [Sessions -> {"none", "pending", "completed"}] /\ tx'[s] \in {"completed", "pending"}
      /\ sent' \in [Sessions -> Nat] /\ sent'[s] <= 1
      /\ \A z \in Sessions \ {s} : tx'[z] = tx[z] /\ sent'[z] = sent[z]
  BY <1>1, <1>2, <1>3 DEF TypeOK
<1> HIDE DEF s
<1>5. TypeOK'
  BY <1>1, <1>2, <1>4 DEF TypeOK
<1>6. WriteInv'
  BY <1>4 DEF IInv, WriteInv
<1>7. TransferInv'
  BY <1>1, <1>4 DEF IInv, TransferInv
<1>8. UnpaidInv' /\ CreditedOnce' /\ TransferredOnce'
  BY <1>1, <1>2, <1>4 DEF IInv, UnpaidInv, CreditedOnce, TransferredOnce
<1> QED BY <1>5, <1>6, <1>7, <1>8 DEF IInv

\* A restart may leave transfers sent whose transactions stay pending; each
\* pending session had one handler, so at most one transfer is added to it.
LEMMA CrashStep == ASSUME IInv, Crash PROVE IInv'
<1>1. PICK C \in SUBSET {c \in Coroutines : op[c].pc = "transfer"} :
         sent' = [s \in Sessions |-> sent[s] + Cardinality({c \in C : op[c].session = s})]
  BY DEF Crash
<1>2. /\ TypeOK /\ op' = [r \in Requests |-> Idle]
      /\ crashes' = crashes + 1
      /\ UNCHANGED <<exists, balance, tx, credited, opening, taken, begun>>
  BY DEF Crash, ledger, IInv
<1>3. Idle \in Operations /\ Idle.pc = "idle"
  BY DEF Idle, Operations, Kinds
<1>4. ASSUME NEW s \in Sessions
      PROVE  /\ sent'[s] \in Nat /\ sent'[s] <= 1
             /\ tx[s] = "none" => sent'[s] = 0
  <2> DEFINE D == {c \in C : op[c].session = s}
  <2>1. sent[s] \in Nat /\ sent[s] <= 1 /\ (tx[s] = "none" => sent[s] = 0)
    BY <1>2 DEF IInv, TypeOK, TransferredOnce, UnpaidInv
  <2>2. CASE D = {}
    <3>1. Cardinality(D) = 0
      BY <2>2, FS_EmptySet
    <3>2. sent'[s] = sent[s] + 0
      BY <1>1, <3>1
    <3> QED BY <2>1, <3>2
  <2>3. CASE D # {}
    <3>1. PICK c \in D : TRUE
      BY <2>3
    <3>2. /\ c \in Requests /\ op[c].pc = "transfer" /\ op[c].session = s
          /\ tx[s] = "pending" /\ sent[s] = 0
      BY <3>1, <1>1 DEF Requests, IInv, TransferInv
    <3>3. D = {c}
      BY <3>1, <3>2, <1>1 DEF Requests, IInv, TransferInv
    <3>4. Cardinality(D) = 1
      BY <3>3, FS_Singleton
    <3>5. sent'[s] = sent[s] + 1
      BY <1>1, <3>4
    <3> QED BY <3>2, <3>5
  <2> QED BY <2>2, <2>3
<1>5. sent' \in [Sessions -> Nat]
  BY <1>1, <1>4
<1>6. TypeOK'
  BY <1>2, <1>3, <1>5 DEF TypeOK
<1>7. WriteInv' /\ TransferInv'
  BY <1>2, <1>3 DEF WriteInv, TransferInv
<1>8. UnpaidInv' /\ CreditedOnce' /\ TransferredOnce'
  BY <1>2, <1>4 DEF IInv, UnpaidInv, CreditedOnce, TransferredOnce
<1> QED BY <1>6, <1>7, <1>8 DEF IInv

LEMMA NextInv == IInv /\ [Next]_vars => IInv'
<1> SUFFICES ASSUME IInv, [Next]_vars PROVE IInv'
  OBVIOUS
<1>1. Grant \in Nat /\ Amounts \subseteq Nat /\ Threads \subseteq Requests /\ Coroutines \subseteq Requests
  BY CreditsAssumption DEF Requests
<1>2. ASSUME NEW t \in Threads, GetBalance(t) \/ DeductCredits(t) PROVE IInv'
  BY <1>1, <1>2, ReadStep DEF GetBalance, DeductCredits, Kinds
<1>3. ASSUME NEW c \in Coroutines, StripeWebhook(c) \/ ReserveCredits(c) PROVE IInv'
  BY <1>1, <1>3, ReadStep DEF StripeWebhook, ReserveCredits, Kinds
<1>4. ASSUME NEW r \in Requests, Progress(r) PROVE IInv'
  <2>1. CASE CommitFails(r)
    BY <2>1, IdleStep DEF CommitFails
  <2> QED BY <1>4, <2>1, CommitStep, TransferStep DEF Progress
<1>5. CASE UNCHANGED vars
  BY <1>5 DEF vars, ledger, IInv, TypeOK, WriteInv, TransferInv, UnpaidInv, CreditedOnce, TransferredOnce
<1> QED BY <1>2, <1>3, <1>4, <1>5, CrashStep DEF Next

LEMMA Invariance == Spec => []IInv
  BY InitInv, NextInv, PTL DEF Spec

-----------------------------------------------------------------------------
(* Theorems *)

\* The balance stays a natural number: no deduction or reservation, however
\* stale what it read, takes it below zero.
THEOREM BalanceNeverNegative == Spec => []TypeOK
  BY Invariance, PTL DEF IInv

\* A checkout session is credited once, however often its event is delivered and
\* however its handlers, the other routes and restarts interleave.
THEOREM GrantedOnce == Spec => []CreditedOnce
  BY Invariance, PTL DEF IInv

\* A checkout session is paid out in HBAR at most once.
THEOREM PaidOutOnce == Spec => []TransferredOnce
  BY Invariance, PTL DEF IInv

-----------------------------------------------------------------------------
(* The event loop on its own *)

\* The sessions whose grant was committed.
Credited == {s \in Sessions : credited[s] > 0}

\* A handler between its reads and its commit knows the row as it is, and is alone.
FreshInv ==
    /\ \A t \in Threads : op[t].pc = "idle"
    /\ \A c \in Coroutines : op[c].pc = "write" =>
         /\ op[c].had = exists /\ op[c].saw = balance
         /\ op[c].kind \in {"webhook", "reserve"}
         /\ op[c].kind = "webhook" => op[c].amount = Grant
         /\ \A d \in Coroutines : op[d].pc = "write" => d = c

\* Before the row is created nothing was credited or taken.
NoRowInv == ~exists => balance = 0 /\ taken = 0 /\ Credited = {}

LoopInv == IInv /\ FreshInv /\ NoRowInv /\ IsFiniteSet(Credited) /\ LedgerBalances

-----------------------------------------------------------------------------

\* The steps of the loop are steps of Credits.
LEMMA LoopSteps ==
    ASSUME NEW c \in Coroutines
    PROVE  /\ Loop!StripeWebhook(c) => StripeWebhook(c)
           /\ Loop!ReserveCredits(c) => ReserveCredits(c)
           /\ Loop!Progress(c) => Progress(c)
<1>1. \A kind, amount, session : Loop!Read(c, kind, amount, session) => Read(c, kind, amount, session)
  BY DEF Loop!Read, Read, Loop!Processed, Processed, Loop!ledger, ledger
<1>2. Loop!LoopFree => LoopFree
  BY DEF Loop!LoopFree, LoopFree
<1>3. Loop!StripeWebhook(c) => StripeWebhook(c)
  BY <1>1, <1>2 DEF Loop!StripeWebhook, StripeWebhook
<1>4. Loop!ReserveCredits(c) => ReserveCredits(c)
  BY <1>1, <1>2 DEF Loop!ReserveCredits, ReserveCredits, Loop!NoSession, NoSession
<1>5. /\ Loop!Idle = Idle /\ Loop!ledger = ledger
      /\ \A o : /\ Loop!Clashes(o) <=> Clashes(o)
              /\ Loop!Opening(o) = Opening(o) /\ Loop!NewBalance(o) = NewBalance(o)
  BY DEF Loop!Idle, Idle, Loop!NoSession, NoSession, Loop!ledger, ledger, Loop!Clashes, Clashes,
         Loop!Processed, Processed, Loop!Opening, Opening, Loop!NewBalance, NewBalance
<1>6. Loop!Commit(c) => Commit(c)
  BY <1>5 DEF Loop!Commit, Commit
<1>7. Loop!CommitFails(c) => CommitFails(c)
  BY <1>5 DEF Loop!CommitFails, CommitFails, Loop!ledger, ledger
<1>8. Loop!Transfer(c) => Transfer(c)
  BY <1>5 DEF Loop!Transfer, Transfer, Loop!ledger, ledger
<1> QED BY <1>3, <1>4, <1>6, <1>7, <1>8 DEF Loop!Progress, Progress

\* A step that leaves the row and the ledger alone.
LEMMA RowKept ==
    ASSUME LoopInv, UNCHANGED <<exists, balance, ledger>>
    PROVE  NoRowInv' /\ IsFiniteSet(Credited)' /\ LedgerBalances'
  BY DEF LoopInv, NoRowInv, LedgerBalances, Credited, ledger

\* A handler ends.
LEMMA EndStep ==
    ASSUME LoopInv, IInv', NEW c \in Coroutines, op' = [op EXCEPT ![c] = Idle], UNCHANGED <<exists, balance, ledger>>
    PROVE  LoopInv'
<1>1. op \in [Requests -> Operations] /\ Coroutines \subseteq Requests /\ Threads \subseteq Requests
  BY DEF LoopInv, IInv, TypeOK, Requests
<1>2. \A r \in Requests : op'[r] = op[r] \/ op'[r].pc = "idle"
  BY <1>1 DEF Idle
<1>3. FreshInv'
  BY <1>1, <1>2 DEF LoopInv, FreshInv
<1> QED BY <1>3, RowKept DEF LoopInv

\* A handler reads the row as it is, while no other is about to write.
LEMMA LoopReadStep ==
    ASSUME LoopInv, IInv', NEW c \in Coroutines, LoopFree, NEW kind \in {"webhook", "reserve"}, NEW amount,
           NEW session, Read(c, kind, amount, session), kind = "webhook" => amount = Grant
    PROVE  LoopInv'
<1>1. op \in [Requests -> Operations] /\ Coroutines \subseteq Requests /\ Threads \subseteq Requests
      /\ c \notin Threads
  BY CreditsAssumption DEF LoopInv, IInv, TypeOK, Requests
<1> DEFINE k == [pc |-> "write", kind |-> kind, amount |-> amount, session |-> session, had |-> exists,
                 saw |-> balance]
<1>2. UNCHANGED <<exists, balance, ledger>> /\ (op' = op \/ op' = [op EXCEPT ![c] = k])
  BY DEF Read
<1>3. /\ k.had = exists /\ k.saw = balance /\ k.kind = kind /\ k.amount = amount
  OBVIOUS
<1> HIDE DEF k
<1>4. ASSUME op' = op PROVE FreshInv'
  BY <1>2, <1>4 DEF LoopInv, FreshInv
<1>5. ASSUME op' = [op EXCEPT ![c] = k] PROVE FreshInv'
  <2>1. op'[c] = k /\ \A r \in Requests : r # c => op'[r] = op[r]
    BY <1>1, <1>5
  <2>2. \A d \in Coroutines : op'[d].pc = "write" => d = c
    BY <1>1, <2>1 DEF LoopFree
  <2> QED BY <1>1, <1>2, <1>3, <2>1, <2>2 DEF LoopInv, FreshInv
<1>6. FreshInv'
  BY <1>2, <1>4, <1>5
<1> QED BY <1>2, <1>6, RowKept DEF LoopInv

\* A commit adds to the ledger exactly what it does to the balance.
LEMMA LoopCommitStep == ASSUME LoopInv, IInv', NEW c \in Coroutines, Commit(c) PROVE LoopInv'
<1> DEFINE o == op[c]
<1>1. /\ op \in [Requests -> Operations] /\ Coroutines \subseteq Requests /\ Threads \subseteq Requests
      /\ c \notin Threads /\ balance \in Nat /\ taken \in Nat /\ opening \in Nat /\ exists \in BOOLEAN
      /\ Grant \in Nat /\ Grant # 0 /\ IInv
  BY CreditsAssumption DEF LoopInv, IInv, TypeOK, Requests
<1>2. /\ o.pc = "write" /\ o.had = exists /\ o.saw = balance /\ o.amount \in Nat
      /\ o.kind \in {"webhook", "reserve"}
      /\ o.kind = "webhook" => o.amount = Grant
      /\ \A d \in Coroutines : op[d].pc = "write" => d = c
      /\ Opening(o) = 0
  BY <1>1 DEF Commit, LoopInv, FreshInv, Opening, Operations
<1>3. /\ o.kind = "webhook" => o.session \in Sessions /\ credited[o.session] = 0
      /\ o.kind = "reserve" => exists /\ balance >= o.amount
  BY <1>1, <1>2 DEF Commit, IInv, WriteInv, Clashes, Processed, CreditedOnce
<1>4. /\ exists' = TRUE
      /\ balance' = IF o.had /\ NewBalance(o) = o.saw THEN balance ELSE NewBalance(o)
      /\ opening' = IF o.had THEN opening ELSE Opening(o)
      /\ taken' = IF o.kind \in {"deduct", "reserve"}
                  THEN taken + ((IF o.had THEN o.saw ELSE Opening(o)) - NewBalance(o)) ELSE taken
  BY DEF Commit
<1>5. /\ o.kind = "webhook" => NewBalance(o) = (IF exists THEN balance ELSE 0) + Grant
      /\ o.kind = "reserve" => NewBalance(o) = (IF exists THEN balance ELSE 0) - o.amount
  <2> HIDE DEF o
  <2>1. CASE o.kind = "webhook"
    BY <1>2, <2>1 DEF NewBalance
  <2>2. CASE o.kind = "reserve"
    BY <1>2, <2>2 DEF NewBalance
  <2> QED BY <2>1, <2>2
<1>6. op'[c].pc # "write" /\ \A r \in Requests : r # c => op'[r] = op[r]
  <2>1. op' = [op EXCEPT ![c].pc = "transfer"] \/ op' = [op EXCEPT ![c] = Idle]
    BY DEF Commit
  <2>2. CASE op' = [op EXCEPT ![c].pc = "transfer"]
    BY <1>1, <2>2 DEF Operations
  <2>3. CASE op' = [op EXCEPT ![c] = Idle]
    BY <1>1, <2>3 DEF Idle
  <2> QED BY <2>1, <2>2, <2>3
<1>7. FreshInv'
  BY <1>1, <1>2, <1>6 DEF LoopInv, FreshInv
<1> HIDE DEF o
<1>8. CASE o.kind = "webhook"
  <2> DEFINE s == o.session
  <2>1. s \in Sessions /\ credited[s] = 0 /\ credited' = [credited EXCEPT ![s] = @ + 1]
        /\ credited \in [Sessions -> Nat]
    BY <1>1, <1>3, <1>8 DEF Commit, o, IInv, TypeOK
  <2>2. s \notin Credited /\ Credited' = Credited \cup {s}
    BY <2>1 DEF Credited
  <2>3. IsFiniteSet(Credited)' /\ Cardinality(Credited') = Cardinality(Credited) + 1
        /\ Cardinality(Credited) \in Nat
    BY <2>2, FS_AddElement, FS_CardinalityType DEF LoopInv
  <2>4. /\ balance' = (IF exists THEN balance ELSE 0) + Grant /\ taken' = taken
        /\ opening' = IF exists THEN opening ELSE 0
    BY <1>1, <1>2, <1>4, <1>5, <1>8
  <2>5. Grant * (Cardinality(Credited) + 1) = Grant * Cardinality(Credited) + Grant
    BY <1>1, <2>3
  <2>6. balance' + taken' = opening' + Grant * Cardinality(Credited')
    <3>1. CASE exists
      <4>1. balance + taken = opening + Grant * Cardinality(Credited)
        BY <3>1 DEF LoopInv, LedgerBalances, Credited
      <4>2. Grant * Cardinality(Credited) \in Nat
        BY <1>1, <2>3
      <4> QED BY <1>1, <2>3, <2>4, <2>5, <3>1, <4>1, <4>2
    <3>2. CASE ~exists
      <4>1. taken = 0 /\ Cardinality(Credited) = 0
        BY <3>2, FS_EmptySet DEF LoopInv, NoRowInv
      <4> QED BY <1>1, <2>3, <2>4, <3>2, <4>1
    <3> QED BY <3>1, <3>2
  <2> QED BY <1>4, <1>7, <2>3, <2>6 DEF LoopInv, NoRowInv, LedgerBalances, Credited
<1>9. CASE o.kind = "reserve"
  <2>1. UNCHANGED credited /\ exists
    BY <1>3, <1>9 DEF Commit, o
  <2>2. balance' = balance - o.amount /\ taken' = taken + o.amount /\ opening' = opening
    BY <1>1, <1>2, <1>3, <1>4, <1>5, <1>9, <2>1
  <2>3. balance + taken = opening + Grant * Cardinality(Credited)
    BY <2>1 DEF LoopInv, LedgerBalances, Credited
  <2>4. balance' + taken' = balance + taken
    BY <1>1, <1>2, <2>2
  <2>5. Credited' = Credited
    BY <2>1 DEF Credited
  <2> QED BY <1>4, <1>7, <2>2, <2>3, <2>4, <2>5 DEF LoopInv, NoRowInv, LedgerBalances, Credited
<1> QED BY <1>2, <1>8, <1>9

LEMMA LoopNextInv == LoopInv /\ LoopNext => LoopInv'
<1> SUFFICES ASSUME LoopInv, LoopNext PROVE LoopInv'
  OBVIOUS
<1>1. PICK c \in Coroutines : StripeWebhook(c) \/ ReserveCredits(c) \/ Progress(c)
  BY LoopSteps DEF LoopNext
<1>2. IInv'
  <2>1. [Next]_vars
    BY <1>1 DEF Next, Requests
  <2> QED BY <2>1, NextInv DEF LoopInv
<1>3. CASE StripeWebhook(c)
  BY <1>2, <1>3, LoopReadStep DEF StripeWebhook
<1>4. CASE ReserveCredits(c)
  BY <1>2, <1>4, LoopReadStep DEF ReserveCredits
<1>5. CASE Commit(c)
  BY <1>2, <1>5, LoopCommitStep
<1>6. CASE CommitFails(c) \/ Transfer(c)
  BY <1>2, <1>6, EndStep DEF CommitFails, Transfer
<1> QED BY <1>1, <1>3, <1>4, <1>5, <1>6 DEF Progress

LEMMA LoopInitInv == Init => LoopInv
<1> SUFFICES ASSUME Init PROVE LoopInv
  OBVIOUS
<1>1. FreshInv
  BY DEF Init, FreshInv, Idle, Requests
<1>2. Credited = {}
  BY DEF Init, Credited
<1>3. NoRowInv /\ LedgerBalances
  BY <1>2 DEF Init, NoRowInv, LedgerBalances
<1> QED BY <1>1, <1>2, <1>3, InitInv, FS_EmptySet DEF LoopInv

\* Between coroutines no grant of the Stripe webhook and no reservation of a research run
\* is lost: the balance is what the committed grants and reservations make it, for any
\* number of requests and sessions.
THEOREM LoopLedgerExact == MCSpec => []LoopLedgerBalances
<1>1. MCInit => (loop => LoopInv)
  BY LoopInitInv DEF MCInit
<1>2. (loop => LoopInv) /\ [MCNext]_<<vars, loop>> => (loop => LoopInv)'
  <2> SUFFICES ASSUME loop', loop => LoopInv, [MCNext]_<<vars, loop>> PROVE LoopInv'
    OBVIOUS
  <2>1. loop /\ LoopInv
    BY DEF MCNext
  <2>2. CASE MCNext
    BY <2>1, <2>2, LoopNextInv DEF MCNext
  <2>3. CASE UNCHANGED <<vars, loop>>
    <3>1. UNCHANGED <<op, exists, balance, ledger>>
      BY <2>3 DEF vars, ledger
    <3>2. IInv'
      BY <2>1, <2>3, NextInv DEF LoopInv
    <3>3. FreshInv'
      BY <2>1, <3>1 DEF LoopInv, FreshInv
    <3> QED BY <2>1, <3>1, <3>2, <3>3, RowKept DEF LoopInv
  <2> QED BY <2>2, <2>3
<1>3. (loop => LoopInv) => LoopLedgerBalances
  BY DEF LoopInv, LoopLedgerBalances
<1> QED BY <1>1, <1>2, <1>3, PTL DEF MCSpec
=============================================================================
