----------------------------- MODULE MCMarketplace -----------------------------
(* Small instances of Marketplace for TLC. *)
EXTENDS Marketplace
CONSTANTS builtin, custom, ub, uc, x, z, periodic, script

\* A built-in agent whose document names an account of a wrong format, and a
\* submitted one.
Documents == [u \in Uris |-> IF u = ub THEN [agent |-> builtin, account |-> z]
                             ELSE [agent |-> custom, account |-> x]]
Inventory == [i \in Supported |-> x]
Before == [d \in Ids |-> IF d = builtin THEN ub ELSE NoUri]
Processes == [s \in Syncers |-> IF s = script THEN "script" ELSE "api"]
=============================================================================
