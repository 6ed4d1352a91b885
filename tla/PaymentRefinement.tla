--------------------------- MODULE PaymentRefinement ---------------------------
(* PaymentSettlement implements Settlement: the record of a payment is its row, *)
(* and the escrow of a task is the contract's, approvals counted away.          *)
EXTENDS PaymentSettlement

Promise == INSTANCE Settlement
             WITH of <- task, record <- status, held <- [t \in Tasks |-> escrow[t].state]

\* With the escrow on chain (~Offline), every step of the callers, the chain and the other
\* verifiers is a step of the promise or changes nothing it speaks of: over
\* stale reads, timeouts, crashes and reverted calls.
ImplementsSettlement == Promise!Spec
=============================================================================
