----------------------------- MODULE Bookkeeping -----------------------------
(***************************************************************************)
(* The three components that keep books in memory or in tables of their    *)
(* own: the rate limiter and the administration of sigimora-server, and    *)
(* the transaction ledger of sigimora-mcp.  The code lets none of them     *)
(* read or write another's state, so a behaviour here is a behaviour of    *)
(* one of them with the other two at rest.                                 *)
(***************************************************************************)
EXTENDS RateLimiter, ServerAdmin, TransactionLedger

VARIABLE book     \* the component that runs

Init ==
  /\ book \in {"limiter", "admin", "ledger"}
  /\ LimiterInit /\ AdminInit /\ LedgerInit

Next ==
  /\ \/ book = "limiter" /\ LimiterNext /\ UNCHANGED <<adminVars, ledgerVars>>
     \/ book = "admin" /\ AdminNext /\ UNCHANGED <<limiterVars, ledgerVars>>
     \/ book = "ledger" /\ LedgerNext /\ UNCHANGED <<limiterVars, adminVars>>
  /\ UNCHANGED book

Spec == Init /\ [][Next]_<<book, limiterVars, adminVars, ledgerVars>>
=============================================================================
