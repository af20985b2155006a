----------------------------- MODULE ReviewRuns -----------------------------
(***************************************************************************)
(* The review-run lifecycle kept in Postgres: core.review_runs,            *)
(* core.pull_request_reviews.current_run_id and the per-run event stream   *)
(* audit.workflow_events.  Every action is one database transaction of the *)
(* code: the allocator a webhook runs, the outbox dispatcher's guard, the  *)
(* terminal transitions of the review workflow, the reaper's sweep and a   *)
(* durable write behind the stale-write guard.  Row locks on the review    *)
(* (FOR UPDATE / FOR SHARE) and on the run (FOR UPDATE) serialise them.    *)
(***************************************************************************)
EXTENDS Naturals, Sequences, FiniteSets

CONSTANTS
  Reviews,   \* rows of core.pull_request_reviews, one per pull request
  Runs,      \* the run ids that uuid7 may mint
  NoRun,     \* SQL NULL in a run-id column
  NoReview,  \* the review of a run that is not inserted yet
  PersistAttempts, RecordAttempts
             \* maximumAttempts of persistReviewFindings and recordReviewLifecycleEvent

ASSUME NullAssumption == NoRun \notin Runs /\ NoReview \notin Reviews
ASSUME AttemptsAssumption == {PersistAttempts, RecordAttempts} \subseteq Nat \ {0}

VARIABLES
  state,         \* review_runs.lifecycle_state, "UNBORN" before the INSERT
  review,        \* review_runs.review_id
  born,          \* position of the run in allocation order, 0 before the INSERT
  supersedes,    \* review_runs.supersedes_run_id
  supersededBy,  \* review_runs.superseded_by_run_id
  cancelReason,  \* review_runs.cancel_reason
  current,       \* pull_request_reviews.current_run_id
  events,        \* workflow_events of a run, in sequence_no order
  allocations,   \* how many runs exist
  lastWriter     \* the run behind the latest guarded write to a review's findings

vars == <<state, review, born, supersedes, supersededBy, cancelReason, current,
          events, allocations, lastWriter>>

-----------------------------------------------------------------------------
ActiveStates == {"PENDING", "RUNNING", "WAITING_RETRY"}
TerminalStates == {"COMPLETED", "FAILED", "CANCELLED", "PARTIAL"}
LifecycleStates == ActiveStates \cup TerminalStates

\* The event types written by these transactions.
EventTypes == {"WEBHOOK_RECEIVED", "RUN_SUPERSEDED", "INGESTED",
               "lifecycle_transition", "FINDINGS_PERSISTED", "ANALYZED"}

\* One row of workflow_events; "to" is the target of a lifecycle_transition.
Event(type, to) == [type |-> type, to |-> to]
Milestone(type) == Event(type, "none")
Transition(to) == Event("lifecycle_transition", to)

\* emitWorkflowEvent: MAX(sequence_no) + 1 under the run's advisory lock.
Emit(log, r, new) == [log EXCEPT ![r] = @ \o new]

Logged(r, e) == \E i \in 1..Len(events[r]) : events[r][i] = e

Times(r, e) == Cardinality({i \in 1..Len(events[r]) : events[r][i] = e})

\* Mutant: the supersede forgets runs that are already executing.
PendingRunsOf(v) == {r \in Runs : review[r] = v /\ state[r] = "PENDING"}

ActiveRunsOf(v) == {r \in Runs : review[r] = v /\ state[r] \in ActiveStates}

\* Mutant: the guard only finds the review row, it does not compare the pointer.
AssertReviewExists(r) == review[r] \in Reviews

\* assertCurrentRun: the AD-4 stale-write guard; a mismatch aborts the
\* caller's transaction, so it only ever appears as an enabling condition.
AssertCurrentRun(r) == review[r] \in Reviews /\ current[review[r]] = r

-----------------------------------------------------------------------------
Init ==
  /\ state = [r \in Runs |-> "UNBORN"]
  /\ review = [r \in Runs |-> NoReview]
  /\ born = [r \in Runs |-> 0]
  /\ supersedes = [r \in Runs |-> NoRun]
  /\ supersededBy = [r \in Runs |-> NoRun]
  /\ cancelReason = [r \in Runs |-> "none"]
  /\ current = [v \in Reviews |-> NoRun]
  /\ events = [r \in Runs |-> <<>>]
  /\ allocations = 0
  /\ lastWriter = [v \in Reviews |-> NoRun]

\* Mutant: the predecessor is whatever the review pointed at, active or not.
PreviousRun(v) == {current[v]}

\* supersedeRun: every active run of the review is cancelled in one UPDATE;
\* "old" is rows[0] of its RETURNING, in no particular order, and the only run
\* that gets a RUN_SUPERSEDED event.
SupersededRun(v) ==
  IF ActiveRunsOf(v) = {} THEN {NoRun} ELSE ActiveRunsOf(v)

SupersedeRun(v, new, old) ==
  /\ old \in SupersededRun(v)
  /\ state' = [r \in Runs |-> IF r = new THEN "PENDING"
                              ELSE IF r \in ActiveRunsOf(v) THEN "CANCELLED"
                              ELSE state[r]]
  /\ cancelReason' = [r \in Runs |-> IF r \in ActiveRunsOf(v) THEN "superseded"
                                     ELSE cancelReason[r]]
  /\ supersededBy' = [r \in Runs |-> IF r \in ActiveRunsOf(v) THEN new
                                     ELSE supersededBy[r]]
  /\ events' = [r \in Runs |->
                  IF r = new THEN <<Milestone("WEBHOOK_RECEIVED")>>
                  ELSE IF r = old THEN Append(events[r], Milestone("RUN_SUPERSEDED"))
                  ELSE events[r]]

\* flipCurrentRun: the pointer moves to the new run; after a supersede the
\* pointer must have named the superseded run, otherwise CurrentRunMismatch
\* rolls the webhook's transaction back.
FlipCurrentRun(v, new, oldRunIdExpected) ==
  /\ oldRunIdExpected # NoRun => current[v] = oldRunIdExpected
  /\ current' = [current EXCEPT ![v] = new]

\* allocateRun, the only writer that inserts runs: supersede, INSERT, flip, emit.
AllocateRun(v, new) ==
  /\ state[new] = "UNBORN"
  /\ allocations' = allocations + 1
  /\ born' = [born EXCEPT ![new] = allocations + 1]
  /\ review' = [review EXCEPT ![new] = v]
  /\ \E old \in Runs \cup {NoRun} :
       /\ SupersedeRun(v, new, old)
       /\ supersedes' = [supersedes EXCEPT ![new] = old]
       /\ FlipCurrentRun(v, new, old)
  /\ UNCHANGED lastWriter

\* Mutant: the event names the state the run leaves.
TransitionRunLogsFrom(r, from, to, milestones) ==
  /\ state[r] = from
  /\ state' = [state EXCEPT ![r] = to]
  /\ events' = Emit(events, r, <<Transition(from)>> \o milestones)
  /\ UNCHANGED <<review, born, supersedes, supersededBy, cancelReason, current,
                 allocations, lastWriter>>

\* transitionRun on its APPLIED branch.  ALREADY_APPLIED and StateDrift leave
\* the tables as they are.
TransitionRun(r, from, to, milestones) ==
  /\ state[r] = from
  /\ state' = [state EXCEPT ![r] = to]
  /\ events' = Emit(events, r, <<Transition(to)>> \o milestones)
  /\ UNCHANGED <<review, born, supersedes, supersededBy, cancelReason, current,
                 allocations, lastWriter>>

\* The dispatcher's guard transaction: stale-write guard, PENDING to RUNNING,
\* and the INGESTED milestone only when the transition was applied.
DispatchRow(r) ==
  /\ AssertCurrentRun(r)
  /\ TransitionRun(r, "PENDING", "RUNNING", <<Milestone("INGESTED")>>)

\* The terminal activities of the review workflow; none of them looks at
\* current_run_id.
FinalizeReviewRun(r) == TransitionRun(r, "RUNNING", "COMPLETED", <<>>)
RecordRunFailed(r) == TransitionRun(r, "RUNNING", "FAILED", <<>>)
RecordRunCancelled(r) == TransitionRun(r, "RUNNING", "CANCELLED", <<>>)

\* Mutant: the sweep takes runs that were never dispatched, too.
ActiveOldRuns(cutoff) == {r \in Runs : state[r] \in ActiveStates /\ born[r] <= cutoff}

\* reviewRunReaperActivity: one UPDATE over every RUNNING run old enough, of
\* every tenant.  started_at is the time of the INSERT, so the sweep takes the
\* runs born up to some cutoff; it writes no workflow event.
StaleRuns(cutoff) == {r \in Runs : state[r] = "RUNNING" /\ born[r] <= cutoff}

ReapStaleRuns(cutoff) ==
  /\ StaleRuns(cutoff) # {}
  /\ state' = [r \in Runs |-> IF r \in StaleRuns(cutoff) THEN "CANCELLED" ELSE state[r]]
  /\ cancelReason' = [r \in Runs |-> IF r \in StaleRuns(cutoff) THEN "timeout"
                                     ELSE cancelReason[r]]
  /\ UNCHANGED <<review, born, supersedes, supersededBy, current, events,
                 allocations, lastWriter>>

\* A milestone is skipped if a SELECT finds it.  An attempt whose SELECT ran before
\* an overlapping attempt has committed (a clean review has no INSERT that would
\* make it wait) emits its own.
EmitOnce(r, type, attempts) ==
  \/ Logged(r, Milestone(type)) /\ UNCHANGED events
  \/ /\ Times(r, Milestone(type)) < attempts
     /\ events' = Emit(events, r, <<Milestone(type)>>)

\* persistAggregated, run by the workflow of an ingested run: the guard, the
\* findings INSERT and the milestone in one transaction.  The run's own
\* lifecycle state is not consulted.
PersistFindings(r) ==
  /\ Logged(r, Milestone("INGESTED"))
  /\ AssertCurrentRun(r)
  /\ lastWriter' = [lastWriter EXCEPT ![review[r]] = r]
  /\ EmitOnce(r, "FINDINGS_PERSISTED", PersistAttempts)
  /\ UNCHANGED <<state, review, born, supersedes, supersededBy, cancelReason,
                 current, allocations>>

\* recordReviewLifecycleEvent, also run by that workflow: the milestone of a stage,
\* without a guard.
RecordReviewLifecycleEvent(r) ==
  /\ Logged(r, Milestone("INGESTED"))
  /\ EmitOnce(r, "ANALYZED", RecordAttempts)
  /\ UNCHANGED <<state, review, born, supersedes, supersededBy, cancelReason, current,
                 allocations, lastWriter>>

Next ==
  \/ \E v \in Reviews, new \in Runs : AllocateRun(v, new)
  \/ \E r \in Runs : \/ DispatchRow(r)
                     \/ FinalizeReviewRun(r)
                     \/ RecordRunFailed(r)
                     \/ RecordRunCancelled(r)
                     \/ PersistFindings(r)
                     \/ RecordReviewLifecycleEvent(r)
  \/ \E cutoff \in 1..allocations : ReapStaleRuns(cutoff)

Spec == Init /\ [][Next]_vars

-----------------------------------------------------------------------------
\* Every column keeps a value the table's CHECK constraints admit.
TypeOK ==
  /\ state \in [Runs -> LifecycleStates \cup {"UNBORN"}]
  /\ review \in [Runs -> Reviews \cup {NoReview}]
  /\ born \in [Runs -> Nat]
  /\ supersedes \in [Runs -> Runs \cup {NoRun}]
  /\ supersededBy \in [Runs -> Runs \cup {NoRun}]
  /\ cancelReason \in [Runs -> {"none", "superseded", "timeout"}]
  /\ current \in [Reviews -> Runs \cup {NoRun}]
  /\ events \in [Runs -> Seq([type : EventTypes, to : LifecycleStates \cup {"none"}])]
  /\ allocations \in Nat
  /\ lastWriter \in [Reviews -> Runs \cup {NoRun}]

\* A run that is still active is the run its review points at.  So a review
\* never has two active runs, supersedeRun never cancels more than the one row
\* it reports, and flipCurrentRun's optimistic guard (CurrentRunMismatch) never
\* rejects a webhook, whatever the reaper did to the run in between.
ActiveRunIsCurrent ==
  \A r \in Runs : state[r] \in ActiveStates =>
    review[r] \in Reviews /\ current[review[r]] = r

\* The two lineage columns are inverse of one another and agree with the state
\* and with allocation order: a run named as superseded is CANCELLED for that
\* reason and its successor is younger and belongs to the same review.
LineageConsistent ==
  /\ \A r, n \in Runs : supersededBy[r] = n <=> supersedes[n] = r
  /\ \A r \in Runs : supersededBy[r] # NoRun =>
       /\ state[r] = "CANCELLED"
       /\ cancelReason[r] = "superseded"
       /\ review[supersededBy[r]] = review[r]
       /\ born[r] < born[supersededBy[r]]

\* The state a reader of the event stream reconstructs.
StateOfEvent(e) ==
  CASE e.type = "WEBHOOK_RECEIVED" -> "PENDING"
    [] e.type = "RUN_SUPERSEDED" -> "CANCELLED"
    [] e.type = "lifecycle_transition" -> e.to

\* The events that say something of the state; overlapping attempts may emit a
\* milestone twice.
OfLifecycle(e) == e.type \in {"WEBHOOK_RECEIVED", "RUN_SUPERSEDED", "lifecycle_transition"}
Repeatable == {Milestone("FINDINGS_PERSISTED"), Milestone("ANALYZED")}

\* Replaying a run's event stream gives its lifecycle state, except that a
\* reaped run still reads as RUNNING there: the reaper's cancellation is the
\* one change of state without an event.  And however often the outbox redelivers
\* a row, no event is there twice, but for the milestones.
EventStreamExplainsState ==
  \A r \in Runs : state[r] # "UNBORN" =>
    LET log == events[r]
    IN /\ \E i \in 1..Len(log) :
            /\ OfLifecycle(log[i]) /\ \A j \in i+1..Len(log) : ~OfLifecycle(log[j])
            /\ StateOfEvent(log[i])
                 = IF cancelReason[r] = "timeout" THEN "RUNNING" ELSE state[r]
       /\ \A i, j \in 1..Len(log) : log[i] = log[j] => i = j \/ log[i] \in Repeatable

\* A finished run stays finished: no late activity, retry, redelivered outbox
\* row or supersede moves it to another state or rewrites why it ended.
TerminalIsFinal ==
  [][\A r \in Runs : state[r] \in TerminalStates =>
       /\ state'[r] = state[r]
       /\ cancelReason'[r] = cancelReason[r]
       /\ supersededBy'[r] = supersededBy[r]]_vars

\* The findings of a review are only ever written by younger and younger runs:
\* once a newer run has written, an older run's workflow that is still going
\* never writes again.
WritesMoveForward ==
  [][\A v \in Reviews :
       (lastWriter[v] # NoRun /\ lastWriter'[v] # lastWriter[v]) =>
         born[lastWriter[v]] < born[lastWriter'[v]]]_vars

\* The columns of the run that a review points at, as the slot of RunSlot.
SlotPhase(v) ==
  IF current[v] = NoRun THEN "none"
  ELSE IF state[current[v]] = "PENDING" THEN "queued"
  ELSE IF state[current[v]] = "RUNNING" THEN "running"
  ELSE "over"

Slot == INSTANCE RunSlot WITH
          newest <- current,
          phase <- [v \in Reviews |-> SlotPhase(v)],
          used <- {r \in Runs : state[r] # "UNBORN"},
          writer <- lastWriter

\* The tables implement the slot: superseding, dispatching, ending, reaping and
\* writing, with their guards and row locks, show nothing of an overtaken run.
RunsHoldOneSlot == Slot!Spec
=============================================================================
