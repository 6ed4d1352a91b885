-------------------------------- MODULE MCCredits --------------------------------
(***************************************************************************)
(* Small instances of Credits for TLC, two in one run: all routes at once  *)
(* on a database that may fail, or (loop) the coroutines alone on one that  *)
(* takes every commit, where the ledger is exact.                          *)
(***************************************************************************)
EXTENDS Credits

VARIABLE loop \* which of the two instances a behaviour is of

Loop == INSTANCE Credits WITH DatabaseFails <- FALSE

LoopNext ==
    \E c \in Coroutines : Loop!StripeWebhook(c) \/ Loop!ReserveCredits(c) \/ Loop!Progress(c)

MCInit == loop \in BOOLEAN /\ Init

MCNext ==
    /\ UNCHANGED loop
    /\ \/ ~loop /\ Next
       \/ loop /\ LoopNext

MCSpec == MCInit /\ [][MCNext]_<<vars, loop>>

MCFairSpec == MCSpec /\ \A c \in Coroutines : WF_vars(Loop!Progress(c))

\* On the event loop alone no grant, deduction or reservation is lost:
\* LedgerBalances of Credits.
LoopLedgerBalances == loop => LedgerBalances

\* On the event loop alone every committed grant reaches its transfer:
\* TransferSettles of Credits.
LoopTransferSettles ==
    \A s \in Sessions : (loop /\ tx[s] = "pending") ~> (tx[s] = "completed")
=============================================================================
