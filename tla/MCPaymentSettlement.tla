-------------------------- MODULE MCPaymentSettlement --------------------------
(* Small instances of PaymentSettlement for TLC. *)
EXTENDS PaymentRefinement, TLC

\* The runtime proposes and authorizes once per attempt, under the attempt's key.
\* Release and refund also come from the verifier's own tools, which have no
\* action context and so use the default key.
Runtime == "attempt"
Default == "default"

Settle(k) == [action : {"release", "refund"}, payment : Payments, key : k]

\* One attempt of a task, and a verifier that settles under another key.
OneAttempt ==
    [action : {"proposal"}, task : Tasks, key : {Runtime}]
      \cup [action : {"authorize"}, payment : Payments, key : {Runtime}]
      \cup Settle({Runtime, Default})

\* Todos of one task (POST /execute), each with a key and a payment of its own.
Todos ==
    [action : {"proposal"}, task : Tasks, key : Keys]
      \cup [action : {"authorize", "release", "refund"}, payment : Payments, key : Keys]

\* Ids, callers and keys are interchangeable where they are model values.
Symmetry == Permutations(Payments) \cup Permutations(Callers) \cup Permutations(Keys)
=============================================================================
