------------------------------- MODULE Outbox -------------------------------
(***************************************************************************)
(* core.outbox and the singleton OutboxDispatcherWorkflow that drains it.  *)
(* The workflow is sequential; what interleaves with it are the producers, *)
(* the expiry of leases and the activity attempts it has given up on: a    *)
(* timed-out attempt goes on in its worker and may take effect later.  An  *)
(* activity call is one action with every outcome its retries can have:    *)
(* taken effect or not, and answered, or failed for the workflow.          *)
(***************************************************************************)
EXTENDS Naturals, FiniteSets

CONSTANTS
  NumRows,      \* rows the producers append; a row's number is its created_at rank
  BatchSize,    \* LIMIT of a claim
  MaxAttempts,  \* OUTBOX_MAX_ATTEMPTS
  MaxTries,     \* maximumAttempts of retryDb
  MaxAbandoned  \* bound of the model: abandoned attempts outstanding at a time

ASSUME BoundsAssumption ==
  /\ NumRows \in Nat /\ MaxAbandoned \in Nat
  /\ BatchSize \in Nat \ {0} /\ MaxAttempts \in Nat \ {0} /\ MaxTries \in Nat \ {0}

VARIABLES
  state,      \* outbox.state, "absent" before the producer's INSERT
  attempts,   \* outbox.attempts
  leased,     \* leased_until is in the future
  pc,         \* where the dispatcher workflow is
  batch,      \* rows of the claimed batch still to be handled
  expected,   \* row.attempts as read by the claim
  tries,      \* failed attempts of the claim that is under way
  inFlight,   \* abandoned activity attempts that may still take effect
  delivered,  \* history: the sink accepted the row at least once
  failures,   \* history: handlings of the row that the workflow saw fail, up to MaxAttempts
  signals     \* history: outbox.dead_letter signals of the row, up to 2

vars == <<state, attempts, leased, pc, batch, expected, tries, inFlight,
          delivered, failures, signals>>
loop == <<pc, batch, expected, tries>>

Rows == 1..NumRows

-----------------------------------------------------------------------------
\* An abandoned attempt of dispatchRow, markDispatched or markAttemptFailed.
Call(op, r, e) == [op |-> op, row |-> r, expected |-> e]
Calls == [op : {"dispatchRow", "markDispatched", "markAttemptFailed"}, row : Rows,
          expected : 0..MaxAttempts]

Places == {"claim", "dispatch", "mark", "fail", "failed", "cancelled"}

Init ==
  /\ state = [r \in Rows |-> "absent"]
  /\ attempts = [r \in Rows |-> 0]
  /\ leased = [r \in Rows |-> FALSE]
  /\ pc = "claim"
  /\ batch = {}
  /\ expected = [r \in Rows |-> 0]
  /\ tries = 0
  /\ inFlight = {}
  /\ delivered = [r \in Rows |-> FALSE]
  /\ failures = [r \in Rows |-> 0]
  /\ signals = [r \in Rows |-> 0]

\* appendReviewDispatch, committed with the webhook's transaction.
Append(r) ==
  /\ state[r] = "absent"
  /\ \A s \in Rows : s < r => state[s] # "absent"
  /\ state' = [state EXCEPT ![r] = "pending"]
  /\ UNCHANGED <<attempts, leased, loop, inFlight, delivered, failures, signals>>

-----------------------------------------------------------------------------
\* Mutant: a row whose handling failed before is passed over.
NeverTried == {r \in Rows : state[r] = "pending" /\ ~leased[r] /\ attempts[r] = 0}

Eligible == {r \in Rows : state[r] = "pending" /\ ~leased[r]}

\* claimPending: the oldest eligible rows, up to the batch size.
OldestEligible ==
  {r \in Eligible : Cardinality({s \in Eligible : s < r}) < BatchSize}

\* The claim's UPDATE.
LeaseRows(claimed) == leased' = [r \in Rows |-> leased[r] \/ r \in claimed]

\* The claim answers: an empty batch sends the workflow to sleep and back here.
ClaimPendingRows ==
  /\ pc = "claim"
  /\ LeaseRows(OldestEligible)
  /\ batch' = OldestEligible
  /\ expected' = [r \in Rows |-> IF r \in OldestEligible THEN attempts[r] ELSE expected[r]]
  /\ tries' = 0
  /\ pc' = IF OldestEligible = {} THEN "claim" ELSE "dispatch"
  /\ UNCHANGED <<state, attempts, inFlight, delivered, failures, signals>>

\* An attempt of the claim fails for the workflow, before or after its commit:
\* its leases stay and the retry passes these rows over.  When the retries are
\* exhausted nothing catches the error and the workflow execution fails.
ClaimAttemptFails ==
  /\ pc = "claim"
  /\ \E claimed \in {{}, OldestEligible} : LeaseRows(claimed)
  /\ IF tries + 1 = MaxTries
       THEN pc' = "failed" /\ tries' = 0
       ELSE pc' = pc /\ tries' = tries + 1
  /\ UNCHANGED <<state, attempts, batch, expected, inFlight, delivered, failures, signals>>

\* The row at which the workflow's loop is.
Current(r) == r \in batch /\ \A s \in batch : r <= s

\* The loop goes on with the next row, or claims again.
NextRow(r) ==
  /\ batch' = batch \ {r}
  /\ pc' = IF batch = {r} THEN "claim" ELSE "dispatch"
  /\ UNCHANGED <<expected, tries>>

\* A step of the loop that changes its place only.
Goto(place) == pc' = place /\ UNCHANGED <<batch, expected, tries>>

\* The error reaches the workflow's catch.
FailureSeen(r) ==
  /\ Goto("fail")
  /\ failures' = [failures EXCEPT ![r] = IF @ = MaxAttempts THEN @ ELSE @ + 1]

\* An attempt that the workflow gave up on either has had its effect, or never
\* will, or is left running.
Abandon(call) ==
  \/ UNCHANGED inFlight
  \/ /\ Cardinality(inFlight) < MaxAbandoned
     /\ inFlight' = inFlight \cup {call}

\* dispatchRow: the guard transaction passes and the sink accepts the payload.
DispatchRow(r) ==
  /\ pc = "dispatch" /\ Current(r)
  /\ delivered' = [delivered EXCEPT ![r] = TRUE]
  /\ Goto("mark")
  /\ UNCHANGED <<state, attempts, leased, inFlight, failures, signals>>

\* Mutant: the error of the sink does not reach the catch.
DispatchErrorSwallowed(r) ==
  /\ pc = "dispatch" /\ Current(r)
  /\ Goto("mark")
  /\ UNCHANGED <<state, attempts, leased, inFlight, delivered, failures, signals>>

\* dispatchRow throws, with the sink's effect done, outstanding or not to come:
\* a stale run, a state drift, a sink error or a timeout.
DispatchRowFails(r) ==
  /\ pc = "dispatch" /\ Current(r)
  /\ FailureSeen(r)
  /\ \/ delivered' = [delivered EXCEPT ![r] = TRUE] /\ UNCHANGED inFlight
     \/ UNCHANGED delivered /\ Abandon(Call("dispatchRow", r, 0))
  /\ UNCHANGED <<state, attempts, leased, signals>>

\* The heartbeat of a running dispatchRow.
ExtendLease(r) ==
  /\ \/ pc = "dispatch" /\ Current(r)
     \/ \E call \in inFlight : call.op = "dispatchRow" /\ call.row = r
  /\ ~leased[r]
  /\ leased' = [leased EXCEPT ![r] = TRUE]
  /\ UNCHANGED <<state, attempts, loop, inFlight, delivered, failures, signals>>

\* markDispatched's UPDATE, guarded by state = 'pending'.
SetDispatched(r) ==
  IF state[r] = "pending"
    THEN /\ state' = [state EXCEPT ![r] = "dispatched"]
         /\ leased' = [leased EXCEPT ![r] = FALSE]
    ELSE UNCHANGED <<state, leased>>

MarkDispatched(r) ==
  /\ pc = "mark" /\ Current(r)
  /\ SetDispatched(r)
  /\ NextRow(r)
  /\ UNCHANGED <<attempts, inFlight, delivered, failures, signals>>

\* Every attempt of markDispatched fails for the workflow; the UPDATE may have
\* been committed by one of them.  The catch treats it as a failed dispatch.
MarkDispatchedFails(r) ==
  /\ pc = "mark" /\ Current(r)
  /\ \/ SetDispatched(r) /\ UNCHANGED inFlight
     \/ UNCHANGED <<state, leased>> /\ Abandon(Call("markDispatched", r, 0))
  /\ FailureSeen(r)
  /\ UNCHANGED <<attempts, delivered, signals>>

\* markAttemptFailed's UPDATE, guarded by attempts = expectedAttempts.
CountAttempt(r, e) ==
  IF attempts[r] = e
    THEN /\ attempts' = [attempts EXCEPT ![r] = @ + 1]
         /\ leased' = [leased EXCEPT ![r] = FALSE]
         /\ state' = [state EXCEPT ![r] = IF e + 1 >= MaxAttempts THEN "dead" ELSE @]
    ELSE UNCHANGED <<state, attempts, leased>>

\* The dead-letter signal that follows the UPDATE in the activity.
Signal(r, e) ==
  IF attempts[r] = e /\ e + 1 >= MaxAttempts
    THEN signals' = [signals EXCEPT ![r] = IF @ = 2 THEN @ ELSE @ + 1]
    ELSE UNCHANGED signals

\* markAttemptFailed answers.  If the worker died between the commit and the
\* log line, the answer is that of a redrive and the signal is lost.
MarkAttemptFailed(r) ==
  /\ pc = "fail" /\ Current(r)
  /\ CountAttempt(r, expected[r])
  /\ Signal(r, expected[r]) \/ UNCHANGED signals
  /\ NextRow(r)
  /\ UNCHANGED <<inFlight, delivered, failures>>

\* markAttemptFailed exhausts its retries inside the catch: the error leaves the
\* workflow function and the execution fails.
MarkAttemptFailedFails(r) ==
  /\ pc = "fail" /\ Current(r)
  /\ \/ CountAttempt(r, expected[r]) /\ UNCHANGED inFlight
     \/ /\ UNCHANGED <<state, attempts, leased>>
        /\ Abandon(Call("markAttemptFailed", r, expected[r]))
  /\ Goto("failed")
  /\ UNCHANGED <<delivered, failures, signals>>

\* An abandoned attempt takes effect after all.
LateCall(call) ==
  /\ call \in inFlight
  /\ inFlight' = inFlight \ {call}
  /\ \/ /\ call.op = "dispatchRow"
        /\ delivered' = [delivered EXCEPT ![call.row] = TRUE]
        /\ UNCHANGED <<state, attempts, leased, signals>>
     \/ /\ call.op = "markDispatched"
        /\ SetDispatched(call.row)
        /\ UNCHANGED <<attempts, delivered, signals>>
     \/ /\ call.op = "markAttemptFailed"
        /\ CountAttempt(call.row, call.expected)
        /\ Signal(call.row, call.expected)
        /\ UNCHANGED delivered
  /\ UNCHANGED <<loop, failures>>

\* The workflow is cancelled; isCancellation keeps the catch from counting it.
Cancel ==
  /\ pc \notin {"failed", "cancelled"}
  /\ Goto("cancelled")
  /\ UNCHANGED <<state, attempts, leased, inFlight, delivered, failures, signals>>

\* ensureOutboxDispatcherSingleton at the boot of a worker.
Boot ==
  /\ pc \in {"failed", "cancelled"}
  /\ pc' = "claim" /\ batch' = {} /\ tries' = 0
  /\ UNCHANGED <<state, attempts, leased, expected, inFlight, delivered, failures, signals>>

LeaseExpires(r) ==
  /\ leased[r]
  /\ leased' = [leased EXCEPT ![r] = FALSE]
  /\ UNCHANGED <<state, attempts, loop, inFlight, delivered, failures, signals>>

WorkflowStep ==
  \/ ClaimPendingRows
  \/ ClaimAttemptFails
  \/ \E r \in Rows : \/ DispatchRow(r)
                     \/ DispatchRowFails(r)
                     \/ MarkDispatched(r)
                     \/ MarkDispatchedFails(r)
                     \/ MarkAttemptFailed(r)
                     \/ MarkAttemptFailedFails(r)

Next ==
  \/ WorkflowStep
  \/ \E r \in Rows : Append(r) \/ ExtendLease(r) \/ LeaseExpires(r)
  \/ \E call \in Calls : LateCall(call)
  \/ Cancel
  \/ Boot

\* Temporal keeps a running workflow going, an abandoned attempt ends, and a
\* lease that is not extended runs out.  Of the claims that find rows, not every
\* one loses its answer.
Fairness ==
  /\ WF_vars(WorkflowStep)
  /\ SF_vars(OldestEligible # {} /\ ClaimPendingRows)
  /\ \A r \in Rows : WF_vars(LeaseExpires(r))
  /\ \A call \in Calls : WF_vars(LateCall(call))

Spec == Init /\ [][Next]_vars
FairSpec == Spec /\ Fairness

-----------------------------------------------------------------------------
TypeOK ==
  /\ state \in [Rows -> {"absent", "pending", "dispatched", "dead"}]
  /\ attempts \in [Rows -> 0..MaxAttempts]
  /\ leased \in [Rows -> BOOLEAN]
  /\ pc \in Places
  /\ batch \in SUBSET Rows
  /\ expected \in [Rows -> 0..MaxAttempts]
  /\ tries \in 0..(MaxTries - 1)
  /\ inFlight \in SUBSET Calls
  /\ delivered \in [Rows -> BOOLEAN]
  /\ failures \in [Rows -> 0..MaxAttempts]
  /\ signals \in [Rows -> 0..2]

\* A row marked dispatched has reached its sink: no order of failures, retries
\* and late attempts acknowledges a review that was never started.
DispatchedWasDelivered == \A r \in Rows : state[r] = "dispatched" => delivered[r]

\* A row is dead exactly when its attempts are used up.
DeadIffExhausted == \A r \in Rows : state[r] = "dead" <=> attempts[r] = MaxAttempts

\* The attempts column never exceeds the number of failed handlings: retried,
\* redriven and late markAttemptFailed calls count a failure once.
AttemptsCountFailures == \A r \in Rows : attempts[r] <= failures[r]

\* At most one dead-letter signal per row, and only for a dead one.
SignalAtMostOnce ==
  \A r \in Rows : signals[r] <= 1 /\ (signals[r] = 1 => state[r] = "dead")

\* A pending row is settled, unless the dispatcher's execution ends first.
PendingIsSettled ==
  \A r \in Rows :
    state[r] = "pending" ~> (state[r] # "pending" \/ pc \in {"failed", "cancelled"})

\* temporal-workflow-integration.md:537 makes dispatched a final state.
DispatchedIsFinal ==
  [][\A r \in Rows : state[r] = "dispatched" => state'[r] = "dispatched"]_vars
=============================================================================
