------------------------------ MODULE MCMicrotask ------------------------------
(* Small instances of Microtask for TLC. *)
EXTENDS Microtask
CONSTANTS k1, k2, k3

\* Problem framing, literature mining, synthesis.
ThreeTodos == <<k1, k2, k3>>

\* What the coroutine of a task calls: each todo has its own key and payment.
TodoRequests ==
    [action : {"proposal"}, task : Tasks, key : Keys]
      \cup [action : {"authorize", "release", "refund"}, payment : Payments, key : Keys]

=============================================================================
