---------------------------- MODULE MCReviewWork ----------------------------
(***************************************************************************)
(* Instance of the work inside one review: the pipeline of its stages and  *)
(* what its model calls may spend.  They share no state: a behaviour is    *)
(* one of ReviewPipeline or of CostLedger, chosen in the initial state.    *)
(***************************************************************************)
EXTENDS ReviewPipeline, CostLedger, TLC

CONSTANTS c1, c2, o1

VARIABLE part   \* what this behaviour is about

vars == <<pipelineVars, ledgerVars, part>>

\* Call c1 of an installation costs more than its estimate and is tried twice, the
\* platform call c2 costs less than its own.
MCTries == (c1 :> 2) @@ (c2 :> 1)
MCOrgOf == (c1 :> o1) @@ (c2 :> Global)
MCEst == (c1 :> 1) @@ (c2 :> 2)
MCAct == (c1 :> 2) @@ (c2 :> 1)
MCInitialCap == [s \in Scopes |-> 3]

Init == part \in {"pipeline", "ledger"} /\ PipelineInit /\ LedgerInit

Pipeline == part = "pipeline" /\ PipelineNext /\ UNCHANGED <<ledgerVars, part>>
Ledger == part = "ledger" /\ LedgerNext /\ UNCHANGED <<pipelineVars, part>>

\* Calls end, and transactions that wait for one another stay where they are: only the
\* pipeline is checked for deadlock.
Rest == part = "ledger" /\ UNCHANGED vars

Next == Pipeline \/ Ledger \/ Rest

Spec == Init /\ [][Next]_vars
=============================================================================
