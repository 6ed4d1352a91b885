-------------------------------- MODULE Credits --------------------------------
(***************************************************************************)
(* The credit balance of one user: the balance, deduct and Stripe webhook  *)
(* routes (api/routes/credits.py) and the reservation made when a research *)
(* run is created (create_research_run_route).                             *)
(*                                                                         *)
(* balance and deduct are plain functions, which FastAPI runs on threads;  *)
(* the webhook and the reservation are coroutines, which no other one      *)
(* interrupts between reading and committing, though a thread may.  A      *)
(* session reads rows when it queries them and writes at its commit the    *)
(* value computed from what it read.                                       *)
(***************************************************************************)
EXTENDS Integers, FiniteSets

CONSTANTS Threads,        \* requests that may be on a thread at once
          Coroutines,     \* requests that may be on the event loop at once
          Sessions,       \* Stripe checkout sessions
          Grant,          \* credits of a checkout
          Amounts,        \* amounts deducted or reserved
          DefaultCredits, \* DEFAULT_CREDITS
          DatabaseFails,  \* commits may fail: a locked or lost database
          MaxRequests,    \* bound: requests begun
          MaxCrashes      \* bound: restarts of the API process

NoSession == "no session"

ASSUME CreditsAssumption ==
    /\ Threads \cap Coroutines = {}
    /\ IsFiniteSet(Coroutines)
    /\ NoSession \notin Sessions
    /\ Grant \in Nat \ {0}
    /\ Amounts \subseteq Nat \ {0}
    /\ DefaultCredits \in Nat
    /\ DatabaseFails \in BOOLEAN
    /\ MaxRequests \in Nat
    /\ MaxCrashes \in Nat

Requests == Threads \cup Coroutines

VARIABLES
    exists,   \* the user has a row in user_credits
    balance,  \* user_credits.balance, 0 while there is no row
    tx,       \* stripe_transactions.status by session, "none" without a row
    op,       \* per request: its handler's locals
    sent,     \* HBAR transfers made for a session
    credited, \* history: commits that credited a session
    opening,  \* history: the balance the row was created with
    taken,    \* history: credits the committed deductions and reservations took
    begun,    \* requests begun
    crashes   \* restarts of the API process

ledger == <<credited, opening, taken>>
vars == <<exists, balance, tx, op, sent, credited, opening, taken, begun, crashes>>

Kinds == {"balance", "deduct", "webhook", "reserve"}

Idle == [pc |-> "idle", kind |-> "balance", amount |-> 0, session |-> NoSession,
         had |-> FALSE, saw |-> 0]

Init ==
    /\ exists = FALSE
    /\ balance = 0
    /\ tx = [s \in Sessions |-> "none"]
    /\ op = [r \in Requests |-> Idle]
    /\ sent = [s \in Sessions |-> 0]
    /\ credited = [s \in Sessions |-> 0]
    /\ opening = 0
    /\ taken = 0
    /\ begun = 0
    /\ crashes = 0

-----------------------------------------------------------------------------

\* Mutant: only a finished transaction counts as processed.
ProcessedWhenCompleted(s) == tx[s] = "completed"

\* The session has its row: the webhook's idempotency check, and the unique
\* constraint on stripe_session_id.
Processed(s) == tx[s] # "none"

\* No coroutine is between its reads and its commit.
LoopFree == \A c \in Coroutines : op[c].pc # "write"

\* A handler up to its commit: what it reads decides whether it writes at all.
\* balance creates a missing row; deduct always writes; the webhook stops at a
\* processed session; the reservation stops at an insufficient balance (402).
Read(r, kind, amount, session) ==
    LET writes == CASE kind = "balance" -> ~exists
                    [] kind = "deduct" -> TRUE
                    [] kind = "webhook" -> ~Processed(session)
                    [] kind = "reserve" -> exists /\ balance >= amount
    IN  /\ op[r].pc = "idle" /\ begun < MaxRequests
        /\ begun' = begun + 1
        /\ op' = IF writes
                 THEN [op EXCEPT ![r] = [pc |-> "write", kind |-> kind, amount |-> amount,
                                         session |-> session, had |-> exists, saw |-> balance]]
                 ELSE op
        /\ UNCHANGED <<exists, balance, tx, sent, ledger, crashes>>

GetBalance(t) == Read(t, "balance", 0, NoSession)

DeductCredits(t) == \E a \in Amounts : Read(t, "deduct", a, NoSession)

StripeWebhook(c) == LoopFree /\ \E s \in Sessions : Read(c, "webhook", Grant, s)

ReserveCredits(c) == LoopFree /\ \E a \in Amounts : Read(c, "reserve", a, NoSession)

\* The balance a row is created with.
Opening(o) == IF o.kind \in {"balance", "deduct"} THEN DefaultCredits ELSE 0

\* Mutants: the deduction is not clamped; the grant replaces the balance.
NewBalanceUnclamped(o) ==
    LET base == IF o.had THEN o.saw ELSE Opening(o)
    IN  CASE o.kind = "balance" -> base
          [] o.kind = "deduct" -> base - o.amount
          [] o.kind = "webhook" -> base + o.amount
          [] o.kind = "reserve" -> base - o.amount
NewBalanceReplaced(o) ==
    LET base == IF o.had THEN o.saw ELSE Opening(o)
    IN  CASE o.kind = "balance" -> base
          [] o.kind = "deduct" -> IF base > o.amount THEN base - o.amount ELSE 0
          [] o.kind = "webhook" -> o.amount
          [] o.kind = "reserve" -> base - o.amount

\* The balance a handler writes.
NewBalance(o) ==
    LET base == IF o.had THEN o.saw ELSE Opening(o)
    IN  CASE o.kind = "balance" -> base
          [] o.kind = "deduct" -> IF base > o.amount THEN base - o.amount ELSE 0
          [] o.kind = "webhook" -> base + o.amount
          [] o.kind = "reserve" -> base - o.amount

\* The commit would insert a row that is there by now: a unique constraint
\* refuses the transaction.
Clashes(o) == (~o.had /\ exists) \/ (o.kind = "webhook" /\ Processed(o.session))

\* The commit.  The ORM leaves out a column whose value did not change.  The
\* webhook goes on to its HBAR transfer, every other handler returns.
Commit(r) ==
    LET o == op[r]
        base == IF o.had THEN o.saw ELSE Opening(o)
    IN  /\ o.pc = "write" /\ ~Clashes(o)
        /\ exists' = TRUE
        /\ balance' = IF o.had /\ NewBalance(o) = o.saw THEN balance ELSE NewBalance(o)
        /\ opening' = IF o.had THEN opening ELSE Opening(o)
        /\ taken' = IF o.kind \in {"deduct", "reserve"} THEN taken + (base - NewBalance(o)) ELSE taken
        /\ IF o.kind = "webhook"
             THEN /\ tx' = [tx EXCEPT ![o.session] = "pending"]
                  /\ credited' = [credited EXCEPT ![o.session] = @ + 1]
                  /\ op' = [op EXCEPT ![r].pc = "transfer"]
             ELSE /\ op' = [op EXCEPT ![r] = Idle]
                  /\ UNCHANGED <<tx, credited>>
        /\ UNCHANGED <<sent, begun, crashes>>

\* The commit is refused, by a constraint or a failing database: nothing is written.
CommitFails(r) ==
    /\ op[r].pc = "write"
    /\ Clashes(op[r]) \/ DatabaseFails
    /\ op' = [op EXCEPT ![r] = Idle]
    /\ UNCHANGED <<exists, balance, tx, sent, ledger, begun, crashes>>

\* Mutant: a failed transfer leaves the transaction as it is.
TransferUnhandled(c) ==
    LET s == op[c].session
    IN  /\ op[c].pc = "transfer"
        /\ \/ sent' = [sent EXCEPT ![s] = @ + 1] /\ tx' = [tx EXCEPT ![s] = "completed"]
           \/ UNCHANGED <<sent, tx>>
        /\ op' = [op EXCEPT ![c] = Idle]
        /\ UNCHANGED <<exists, balance, ledger, begun, crashes>>

\* _transfer_hbar succeeds or raises; the transaction is completed either way,
\* unless the commit that says so fails: the handler for it commits on the same
\* session without a rollback.
Transfer(c) ==
    LET s == op[c].session
    IN  /\ op[c].pc = "transfer"
        /\ \/ sent' = [sent EXCEPT ![s] = @ + 1]
           \/ UNCHANGED sent
        /\ \/ tx' = [tx EXCEPT ![s] = "completed"]
           \/ DatabaseFails /\ UNCHANGED tx
        /\ op' = [op EXCEPT ![c] = Idle]
        /\ UNCHANGED <<exists, balance, ledger, begun, crashes>>

\* The API process restarts; the transfers it had sent stay sent.
Crash ==
    /\ crashes < MaxCrashes
    /\ crashes' = crashes + 1
    /\ op' = [r \in Requests |-> Idle]
    /\ \E C \in SUBSET {c \in Coroutines : op[c].pc = "transfer"} :
         sent' = [s \in Sessions |-> sent[s] + Cardinality({c \in C : op[c].session = s})]
    /\ UNCHANGED <<exists, balance, tx, ledger, begun>>

Progress(r) == Commit(r) \/ CommitFails(r) \/ Transfer(r)

Next ==
    \/ \E t \in Threads : GetBalance(t) \/ DeductCredits(t)
    \/ \E c \in Coroutines : StripeWebhook(c) \/ ReserveCredits(c)
    \/ \E r \in Requests : Progress(r)
    \/ Crash

Spec == Init /\ [][Next]_vars

\* A handler runs on: its thread is scheduled, and the transfer's await ends.
FairSpec == Spec /\ \A r \in Requests : WF_vars(Progress(r))

-----------------------------------------------------------------------------
(* Properties.                                                               *)

Operations == [pc : {"idle", "write", "transfer"}, kind : Kinds, amount : Nat,
               session : Sessions \cup {NoSession}, had : BOOLEAN, saw : Nat]

\* Every variable has its type; in particular the balance never goes below zero,
\* however stale what a handler read.
TypeOK ==
    /\ exists \in BOOLEAN
    /\ balance \in Nat
    /\ tx \in [Sessions -> {"none", "pending", "completed"}]
    /\ op \in [Requests -> Operations]
    /\ sent \in [Sessions -> Nat]
    /\ credited \in [Sessions -> Nat]
    /\ opening \in Nat
    /\ taken \in Nat
    /\ begun \in Nat
    /\ crashes \in Nat

\* Stripe delivers an event at least once, the webhook credits it once: a session
\* has a transaction exactly when it was credited, and was credited once.
CreditedOnce == \A s \in Sessions : credited[s] = IF tx[s] = "none" THEN 0 ELSE 1

\* No session is paid out twice in HBAR, over redelivered events and restarts.
TransferredOnce == \A s \in Sessions : sent[s] <= 1

\* The row is what its commits make it: no grant, deduction or reservation is lost.
\* It holds for the coroutines alone: a balance or deduct request on a thread can
\* write back a balance it computed before a grant was committed.
LedgerBalances ==
    exists => balance + taken = opening + Grant * Cardinality({s \in Sessions : credited[s] > 0})

\* A transaction does not stay pending, as long as the database takes commits and
\* the process lives.
TransferSettles == \A s \in Sessions : (tx[s] = "pending") ~> (tx[s] = "completed")
=============================================================================
