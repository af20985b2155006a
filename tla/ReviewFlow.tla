----------------------------- MODULE ReviewFlow -----------------------------
(***************************************************************************)
(* A push on its way to GitHub: the webhook's transaction, the outbox row, *)
(* the Temporal execution that the row starts, the pull request's mutex    *)
(* and the posting activity.  It composes ReviewRuns (the tables of the    *)
(* lifecycle) and PrMutex (the mutex and the places of an execution) with  *)
(* what connects them: the delivery of the outbox row, the workflow id of  *)
(* a pull request, of which Temporal keeps one open execution, and the     *)
(* review that GitHub shows.                                               *)
(*                                                                         *)
(* Abstracted: the batches, leases and attempts of the outbox (Outbox; a   *)
(* dead row is here a pending one that is not delivered again), the ladder *)
(* of core.posted_reviews behind a won or lost posting claim, whether a    *)
(* failed run reads FAILED or CANCELLED, and the stages of the review      *)
(* (their writes go through the guard, see ReviewRuns).                    *)
(***************************************************************************)
EXTENDS Integers, Sequences

CONSTANTS
  Reviews,        \* pull requests with their review row
  Runs,           \* run ids: a uuid7 is younger than those minted before
  Executions,     \* executions that Temporal may open, numbered in that order
  PrOf,           \* the pull request whose workflow id an execution has
  Mutexes, TTL,   \* mutex ids, numbered likewise, and the lease
  NoRun, NoReview, NoMutex, NoExecution

ASSUME IdsAssumption ==
  /\ Runs \subseteq Nat /\ Executions \subseteq Nat /\ Mutexes \subseteq Nat
  /\ NoExecution \notin Executions
ASSUME PrOfAssumption == PrOf \in [Executions -> Reviews]
ASSUME NullsAssumption == NoRun \notin Runs /\ NoReview \notin Reviews /\ NoMutex \notin Mutexes
ASSUME TTLAssumption == TTL \in Nat \ {0}

VARIABLES
  \* of ReviewRuns
  state, review, born, supersedes, supersededBy, cancelReason, current, events,
  allocations, lastWriter,
  \* of PrMutex, for the executions
  rowPr, holder, released, lease, pc, handle, granted, busyWith,
  outbox,   \* the outbox row that a run's webhook wrote
  runOf,    \* the run in the input of an execution, NoRun before it is opened
  running,  \* the open execution under a pull request's workflow id
  posting,  \* what the posting activity of an execution has done
  shown     \* the run whose review GitHub shows on the pull request

R == INSTANCE ReviewRuns WITH PersistAttempts <- 3, RecordAttempts <- 3
M == INSTANCE PrMutex WITH Workflows <- Executions, Prs <- Reviews,
                           NoPr <- NoReview, Nobody <- NoExecution

runVars == <<state, review, born, supersedes, supersededBy, cancelReason, current,
             events, allocations, lastWriter>>
mutexVars == <<rowPr, holder, released, lease, pc, handle, granted, busyWith>>
deliveryVars == <<outbox, runOf, running>>
postVars == <<posting, shown>>
vars == <<runVars, mutexVars, deliveryVars, postVars>>

-----------------------------------------------------------------------------
Init ==
  /\ R!Init
  /\ M!Init
  /\ outbox = [r \in Runs |-> "none"]
  /\ runOf = [e \in Executions |-> NoRun]
  /\ running = [v \in Reviews |-> NoExecution]
  /\ posting = [e \in Executions |-> "no"]
  /\ shown = [v \in Reviews |-> NoRun]

\* The id that is minted next, of those not used yet.
Lowest(ids) == {i \in ids : \A j \in ids : i <= j}

Open(e) == running[PrOf[e]] = e

\* persistWebhook: the run and its outbox row are inserted in one transaction.
PersistWebhook(v, r) ==
  /\ r \in Lowest({q \in Runs : state[q] = "UNBORN"})
  /\ R!AllocateRun(v, r)
  /\ outbox' = [outbox EXCEPT ![r] = "pending"]
  /\ UNCHANGED <<mutexVars, runOf, running, postVars>>

\* The first half of dispatchRow: the guard's transaction.  A redelivered row
\* finds its run RUNNING (ALREADY_APPLIED) and passes as well.
DispatchRow(r) ==
  /\ outbox[r] = "pending"
  /\ \/ R!DispatchRow(r)
     \/ R!AssertCurrentRun(r) /\ state[r] = "RUNNING" /\ UNCHANGED runVars
  /\ outbox' = [outbox EXCEPT ![r] = "guarded"]
  /\ UNCHANGED <<mutexVars, runOf, running, postVars>>

\* The execution that Temporal opens next under the workflow id of v.
NextExecution(v) == Lowest({e \in Executions : PrOf[e] = v /\ runOf[e] = NoRun})

\* The second half: startWorkflow with USE_EXISTING.  While an execution is open
\* under the workflow id, the call succeeds and its input is dropped.  The
\* answer may be lost, and then the row is delivered again.
StartWorkflow(r) ==
  LET v == review[r] IN
  /\ outbox[r] = "guarded"
  /\ IF running[v] = NoExecution
       THEN \E e \in NextExecution(v) :
              /\ running' = [running EXCEPT ![v] = e]
              /\ runOf' = [runOf EXCEPT ![e] = r]
       ELSE UNCHANGED <<running, runOf>>
  /\ \E answer \in {"dispatched", "pending"} : outbox' = [outbox EXCEPT ![r] = answer]
  /\ UNCHANGED <<runVars, mutexVars, postVars>>

\* The sink fails after the guard has committed, and the row is tried again.
DispatchRowFails(r) ==
  /\ outbox[r] = "guarded"
  /\ outbox' = [outbox EXCEPT ![r] = "pending"]
  /\ UNCHANGED <<runVars, mutexVars, runOf, running, postVars>>

-----------------------------------------------------------------------------
FreshMutex == Lowest({m \in Mutexes : rowPr[m] = NoReview})

\* Mutant: a busy gate answers "accepted" with the row that it found.
GateSharesRow(e) ==
  /\ Open(e)
  /\ \/ \E m \in FreshMutex : M!GateAccepted(e, m) \/ M!GateAckLost(e, m)
     \/ /\ pc[e] = "gate"
        /\ \E m \in M!LiveRows(PrOf[e]) : handle' = [handle EXCEPT ![e] = m]
        /\ pc' = [pc EXCEPT ![e] = "held"]
        /\ UNCHANGED <<rowPr, holder, released, lease, granted, busyWith>>
  /\ UNCHANGED <<runVars, deliveryVars, postVars>>

\* startReviewForWebhook and what reviewPullRequest does with its answer.
Gate(e) ==
  /\ Open(e)
  /\ \/ \E m \in FreshMutex : M!GateAccepted(e, m) \/ M!GateAckLost(e, m)
     \/ M!GateBusy(e)
  /\ UNCHANGED <<runVars, deliveryVars, postVars>>

\* The claim checks that orchestrate makes through claimCheck.
ClaimCheck(e) ==
  /\ Open(e)
  /\ M!ClaimConfirmed(e) \/ M!ClaimFailsOpen(e) \/ M!ClaimLost(e)
  /\ UNCHANGED <<runVars, deliveryVars, postVars>>

\* Mutant: the claim's transaction does not run the stale-write guard.
PostClaimUnguarded(e) ==
  /\ pc[e] \in {"posting", "zombie"}
  /\ posting' = [posting EXCEPT ![e] = "claimed"]
  /\ UNCHANGED <<runVars, mutexVars, deliveryVars, shown>>

\* doPost, phase 1: the stale-write guard and the posting claim commit together.
\* A retry of the activity comes here again, whatever the attempt before did.
PostClaim(e) ==
  /\ pc[e] \in {"posting", "zombie"}
  /\ R!AssertCurrentRun(runOf[e])
  /\ posting' = [posting EXCEPT ![e] = "claimed"]
  /\ UNCHANGED <<runVars, mutexVars, deliveryVars, shown>>

\* The call to GitHub, made outside of any transaction: a created or refreshed
\* review, a degraded outcome without one, or an error.  An attempt goes on when
\* the workflow has stopped waiting for it.
PostReview(e) ==
  /\ posting[e] = "claimed"
  /\ \E outcome \in {"published", "unposted", "no"} :
       /\ posting' = [posting EXCEPT ![e] = IF outcome = "no" THEN "no" ELSE "returned"]
       /\ shown' = [shown EXCEPT ![PrOf[e]] = IF outcome = "published" THEN runOf[e] ELSE @]
  /\ UNCHANGED <<runVars, mutexVars, deliveryVars>>

\* Mutant: the terminal write does not compare the state it leaves.
FinalizeReviewRunForced(e) ==
  /\ Open(e)
  /\ pc[e] = "posting" /\ posting[e] = "returned"
  /\ state' = [state EXCEPT ![runOf[e]] = "COMPLETED"]
  /\ UNCHANGED <<review, born, supersedes, supersededBy, cancelReason, current,
                 events, allocations, lastWriter>>
  /\ UNCHANGED <<mutexVars, deliveryVars, postVars>>

\* finalizeReviewRun after a posting that returned.  On a StateDrift the workflow
\* goes to its finally as after any failed stage.
FinalizeReviewRun(e) ==
  /\ Open(e)
  /\ pc[e] = "posting" /\ posting[e] = "returned"
  /\ R!FinalizeReviewRun(runOf[e])
  /\ UNCHANGED <<mutexVars, deliveryVars, postVars>>

\* The finally is reached and the mutex released, or the release given up.
Cleanup(e) ==
  /\ Open(e)
  /\ M!StagesEnd(e) \/ M!Release(e)
  /\ UNCHANGED <<runVars, deliveryVars, postVars>>

\* The catch around the finally records that the run failed, if it is RUNNING
\* still; a failure to do so is swallowed.
RecordRunFailed(e) ==
  /\ Open(e)
  /\ pc[e] = "done"
  /\ R!RecordRunFailed(runOf[e])
  /\ UNCHANGED <<mutexVars, deliveryVars, postVars>>

\* The execution is closed: it returned or threw.  A gate that did not accept
\* returns with the run as it is.
Return(e) ==
  /\ Open(e)
  /\ pc[e] \in {"done", "skipped"}
  /\ running' = [running EXCEPT ![PrOf[e]] = NoExecution]
  /\ UNCHANGED <<runVars, mutexVars, outbox, runOf, postVars>>

\* Terminated, timed out, or failed in the gate, which is outside of every try.
\* A posting attempt that is left behind may go on for ever here.
Terminate(e) ==
  /\ Open(e)
  /\ M!Terminate(e)
  /\ running' = [running EXCEPT ![PrOf[e]] = NoExecution]
  /\ UNCHANGED <<runVars, outbox, runOf, postVars>>

\* Mutant: the sweep goes by the runs that have got an execution.
ReapStartedRuns ==
  /\ \E e \in Executions : runOf[e] # NoRun /\ R!ReapStaleRuns(born[runOf[e]])
  /\ UNCHANGED <<mutexVars, deliveryVars, postVars>>

\* reviewRunReaperActivity, on its schedule; see ReviewRuns.
ReapStaleRuns ==
  /\ \E cutoff \in 1..allocations : R!ReapStaleRuns(cutoff)
  /\ UNCHANGED <<mutexVars, deliveryVars, postVars>>

\* The mutex janitor and the passing of time.
MutexUpkeep ==
  /\ M!JanitorSweep \/ M!Tick
  /\ UNCHANGED <<runVars, deliveryVars, postVars>>

Next ==
  \/ \E v \in Reviews, r \in Runs : PersistWebhook(v, r)
  \/ \E r \in Runs : DispatchRow(r) \/ StartWorkflow(r) \/ DispatchRowFails(r)
  \/ \E e \in Executions :
       \/ Gate(e) \/ ClaimCheck(e) \/ PostClaim(e) \/ PostReview(e)
       \/ FinalizeReviewRun(e) \/ Cleanup(e) \/ RecordRunFailed(e) \/ Return(e)
       \/ Terminate(e)
  \/ ReapStaleRuns
  \/ MutexUpkeep

\* The reaper is on a schedule.
Fairness == WF_vars(ReapStaleRuns)

Spec == Init /\ [][Next]_vars
FairSpec == Spec /\ Fairness

-----------------------------------------------------------------------------
\* The delivery's and the posting's own variables; a closed execution is never
\* the one that a workflow id resolves to.
TypeOK ==
  /\ outbox \in [Runs -> {"none", "pending", "guarded", "dispatched"}]
  /\ runOf \in [Executions -> Runs \cup {NoRun}]
  /\ running \in [Reviews -> Executions \cup {NoExecution}]
  /\ \A v \in Reviews : running[v] \in Executions =>
       PrOf[running[v]] = v /\ review[runOf[running[v]]] = v
  /\ posting \in [Executions -> {"no", "claimed", "returned"}]
  /\ shown \in [Reviews -> Runs \cup {NoRun}]

\* The composition adds no behaviour to either component, so what is proved of
\* them holds of the whole.
RunsRefinement == R!Spec
MutexRefinement == M!Spec

\* A review that overwrites the review of a newer run on GitHub comes from an
\* execution whose claim on the pull request was not confirmed any more: it
\* outlived its lease, failed open or was given up by its workflow.  With a
\* confirmed claim the four claim checks and the stale-write guard together rule
\* it out, although the call to GitHub comes after the last of them.
OvertakenPublishOutlivedItsLease ==
  [][\A e \in Executions :
       LET v == PrOf[e] IN
       (/\ posting[e] = "claimed" /\ posting'[e] = "returned"
        /\ shown[v] # NoRun /\ shown'[v] = runOf[e]
        /\ born[shown'[v]] < born[shown[v]])
         => ~M!Confirmed(e)]_vars

\* A run that the dispatcher has moved to RUNNING leaves that state: not only
\* when its execution ends well, but also when its start was attached to another
\* execution, its gate was busy, its row died or its execution was terminated.
RunningRunEnds ==
  \A r \in Runs : state[r] = "RUNNING" ~> state[r] \in R!TerminalStates

\* temporal-workflow-integration.md:658 lets the newest review publish when a push
\* arrives mid-review, and :666 says "No review is lost": the run of the newest
\* push, once its row is dispatched, has got an execution.
NoReviewLost ==
  \A r \in Runs :
    outbox[r] = "dispatched" /\ state[r] = "RUNNING" =>
      \E e \in Executions : runOf[e] = r

\* temporal-workflow-integration.md:670: the claim check of a superseded run
\* fails before posting.
ClaimCheckStopsSuperseded ==
  [][\A e \in Executions :
       pc[e] = "held" /\ pc'[e] = "posting" => supersededBy[runOf[e]] = NoRun]_vars
=============================================================================
