------------------------------ MODULE PrMutex ------------------------------
(***************************************************************************)
(* The lease-based mutex of a pull request (core.pr_review_mutex) and its  *)
(* users: the gate activity that acquires it, the claim checks by which a  *)
(* review workflow renews it, the release in the workflow's finally and    *)
(* the janitor.  Every action but Tick is one transaction together with    *)
(* what the caller does with its answer.                                   *)
(*                                                                         *)
(* Time is relative: lease[m] is lease_expires_at minus the database's     *)
(* now(), in ticks, and stops at -1.  The acquire transaction treats a     *)
(* lease as valid while it is > 0, the janitor sweeps it once it is < 0.   *)
(***************************************************************************)
EXTENDS Integers

CONSTANTS
  Workflows,  \* executions of the review workflow
  Prs,        \* pull requests
  PrOf,       \* the pull request of an execution
  Mutexes,    \* the mutex ids gen_random_uuid() may mint
  TTL,        \* the lease, in ticks
  NoPr, NoMutex, Nobody

ASSUME PrOfAssumption == PrOf \in [Workflows -> Prs]
ASSUME TTLAssumption == TTL \in Nat \ {0}
ASSUME NullsAssumption == NoPr \notin Prs /\ NoMutex \notin Mutexes /\ Nobody \notin Workflows

VARIABLES
  rowPr,     \* the pull request of a row, NoPr before the INSERT
  holder,    \* holder_workflow_id
  released,  \* released_at IS NOT NULL
  lease,     \* lease_expires_at - now()
  pc,        \* where an execution is
  handle,    \* the mutex_id the gate returned to it
  granted,   \* what is left of the lease it last saw confirmed
  busyWith   \* the holder it was told of when it was turned away

vars == <<rowPr, holder, released, lease, pc, handle, granted, busyWith>>
rows == <<rowPr, holder, released, lease>>

-----------------------------------------------------------------------------
\* "gate": the gate activity may run; "held": between the gate and the last
\* claim check; "posting": after it; "zombie": the workflow is gone, its posting
\* activity is not; "cleanup": in the finally; "skipped": skipped_busy.
Places == {"gate", "held", "posting", "zombie", "cleanup", "done", "skipped"}

LiveRows(p) == {m \in Mutexes : rowPr[m] = p /\ ~released[m]}

Init ==
  /\ rowPr = [m \in Mutexes |-> NoPr]
  /\ holder = [m \in Mutexes |-> Nobody]
  /\ released = [m \in Mutexes |-> FALSE]
  /\ lease = [m \in Mutexes |-> -1]
  /\ pc = [w \in Workflows |-> "gate"]
  /\ handle = [w \in Workflows |-> NoMutex]
  /\ granted = [w \in Workflows |-> -1]
  /\ busyWith = [w \in Workflows |-> Nobody]

\* Mutant: an expired row is left live when its successor is inserted.
InsertOnly(p, w, m) ==
  /\ rowPr[m] = NoPr
  /\ \A old \in LiveRows(p) : lease[old] <= 0
  /\ rowPr' = [rowPr EXCEPT ![m] = p]
  /\ holder' = [holder EXCEPT ![m] = w]
  /\ lease' = [lease EXCEPT ![m] = TTL]
  /\ UNCHANGED released

\* acquirePrReviewMutex under the advisory lock: no live row with a valid lease;
\* the expired one is marked released and a fresh row is inserted.
ReclaimAndInsert(p, w, m) ==
  /\ rowPr[m] = NoPr
  /\ \A old \in LiveRows(p) : lease[old] <= 0
  /\ \/ /\ LiveRows(p) = {}
        /\ UNCHANGED released
     \/ \E old \in LiveRows(p) : released' = [released EXCEPT ![old] = TRUE]
  /\ rowPr' = [rowPr EXCEPT ![m] = p]
  /\ holder' = [holder EXCEPT ![m] = w]
  /\ lease' = [lease EXCEPT ![m] = TTL]

\* The gate's transaction commits and the workflow gets the mutex id.
GateAccepted(w, m) ==
  /\ pc[w] = "gate"
  /\ ReclaimAndInsert(PrOf[w], w, m)
  /\ pc' = [pc EXCEPT ![w] = "held"]
  /\ handle' = [handle EXCEPT ![w] = m]
  /\ granted' = [granted EXCEPT ![w] = TTL]
  /\ UNCHANGED busyWith

\* The transaction commits but its answer is lost, so Temporal runs the gate
\* again: the row stays behind and no execution knows its id.
GateAckLost(w, m) ==
  /\ pc[w] = "gate"
  /\ ReclaimAndInsert(PrOf[w], w, m)
  /\ UNCHANGED <<pc, handle, granted, busyWith>>

\* skipped_busy: a live row has a valid lease, or the advisory lock is taken by
\* another acquire of the same pull request; the holder, if a row is there, is
\* whoever that row names.
GateBusy(w) ==
  /\ pc[w] = "gate"
  /\ \/ \E m \in LiveRows(PrOf[w]) :
          /\ lease[m] > 0
          /\ busyWith' = [busyWith EXCEPT ![w] = holder[m]]
     \/ /\ \E other \in Workflows \ {w} : pc[other] = "gate" /\ PrOf[other] = PrOf[w]
        /\ \/ \E m \in LiveRows(PrOf[w]) :
                busyWith' = [busyWith EXCEPT ![w] = holder[m]]
           \/ LiveRows(PrOf[w]) = {} /\ UNCHANGED busyWith
  /\ pc' = [pc EXCEPT ![w] = "skipped"]
  /\ UNCHANGED <<rows, handle, granted>>

\* Mutant: the renewal does not ask whether the row is still live.
RenewReleasedToo(w) == lease' = [lease EXCEPT ![handle[w]] = TTL]

\* renewPrReviewMutexLease returning true; an expired row that nobody reclaimed
\* is revived.
RenewLease(w) ==
  /\ ~released[handle[w]]
  /\ lease' = [lease EXCEPT ![handle[w]] = TTL]

\* A claim check that confirms the claim; the last one precedes the posting.
ClaimConfirmed(w) ==
  /\ pc[w] = "held"
  /\ RenewLease(w)
  /\ granted' = [granted EXCEPT ![w] = TTL]
  /\ \E next \in {"held", "posting"} : pc' = [pc EXCEPT ![w] = next]
  /\ UNCHANGED <<rowPr, holder, released, handle, busyWith>>

\* claimStillHeld fails open: the activity ran out of attempts, with or without
\* its UPDATE having been committed, and the review goes on.
ClaimFailsOpen(w) ==
  /\ pc[w] = "held"
  /\ UNCHANGED lease \/ RenewLease(w)
  /\ \E next \in {"held", "posting"} : pc' = [pc EXCEPT ![w] = next]
  /\ UNCHANGED <<rowPr, holder, released, handle, granted, busyWith>>

\* abortIfClaimLost: the row was released, the workflow fails with
\* PrMutexLostClaim and its finally runs.
ClaimLost(w) ==
  /\ pc[w] = "held"
  /\ released[handle[w]]
  /\ pc' = [pc EXCEPT ![w] = "cleanup"]
  /\ UNCHANGED <<rows, handle, granted, busyWith>>

\* The posting activity ends, or some stage fails, or the workflow is cancelled.
StagesEnd(w) ==
  /\ pc[w] \in {"held", "posting"}
  /\ pc' = [pc EXCEPT ![w] = "cleanup"]
  /\ UNCHANGED <<rows, handle, granted, busyWith>>

\* The workflow is terminated or its execution times out: no finally runs.  A
\* posting activity that has started is not stopped by that.
Terminate(w) ==
  /\ pc[w] \in {"gate", "held", "posting", "cleanup"}
  /\ pc' = [pc EXCEPT ![w] = IF pc[w] = "posting" THEN "zombie" ELSE "done"]
  /\ UNCHANGED <<rows, handle, granted, busyWith>>

ZombieEnds(w) ==
  /\ pc[w] = "zombie"
  /\ pc' = [pc EXCEPT ![w] = "done"]
  /\ UNCHANGED <<rows, handle, granted, busyWith>>

\* releasePrReviewMutexActivity; stageOutcome swallows its failure after five
\* attempts, so the workflow ends either way.
Release(w) ==
  /\ pc[w] = "cleanup"
  /\ pc' = [pc EXCEPT ![w] = "done"]
  /\ released' = [released EXCEPT ![handle[w]] = TRUE] \/ UNCHANGED released
  /\ UNCHANGED <<rowPr, holder, lease, handle, granted, busyWith>>

\* Mutant: only rows whose id reached a workflow are eligible.
ExpiredAndKnown == {m \in Mutexes : /\ rowPr[m] # NoPr /\ ~released[m] /\ lease[m] < 0
                                    /\ \E w \in Workflows : handle[w] = m}

ExpiredRows == {m \in Mutexes : rowPr[m] # NoPr /\ ~released[m] /\ lease[m] < 0}

\* mutexJanitorActivity: one transaction over the expired rows of every tenant;
\* SKIP LOCKED leaves out a row that another transaction has locked, which only
\* a reclaiming acquire, a renewal or a release does.
JanitorSweep ==
  /\ \E swept \in SUBSET ExpiredRows :
       /\ \A m \in ExpiredRows \ swept :
            \E w \in Workflows : pc[w] \in {"gate", "held", "cleanup"} /\ PrOf[w] = rowPr[m]
       /\ swept # {}
       /\ released' = [m \in Mutexes |-> released[m] \/ m \in swept]
  /\ UNCHANGED <<rowPr, holder, lease, pc, handle, granted, busyWith>>

Elapse(t) == IF t >= 0 THEN t - 1 ELSE t

Tick ==
  /\ \/ \E m \in Mutexes : lease[m] >= 0
     \/ \E w \in Workflows : granted[w] >= 0
  /\ lease' = [m \in Mutexes |-> Elapse(lease[m])]
  /\ granted' = [w \in Workflows |-> Elapse(granted[w])]
  /\ UNCHANGED <<rowPr, holder, released, pc, handle, busyWith>>

Next ==
  \/ \E w \in Workflows :
       \/ \E m \in Mutexes : GateAccepted(w, m) \/ GateAckLost(w, m)
       \/ GateBusy(w)
       \/ ClaimConfirmed(w)
       \/ ClaimFailsOpen(w)
       \/ ClaimLost(w)
       \/ StagesEnd(w)
       \/ Terminate(w)
       \/ ZombieEnds(w)
       \/ Release(w)
  \/ JanitorSweep
  \/ Tick

\* Time passes and the janitor is on a schedule.
Fairness == WF_vars(Tick) /\ WF_vars(JanitorSweep)

Spec == Init /\ [][Next]_vars
FairSpec == Spec /\ Fairness

-----------------------------------------------------------------------------
TypeOK ==
  /\ rowPr \in [Mutexes -> Prs \cup {NoPr}]
  /\ holder \in [Mutexes -> Workflows \cup {Nobody}]
  /\ released \in [Mutexes -> BOOLEAN]
  /\ lease \in [Mutexes -> -1..TTL]
  /\ pc \in [Workflows -> Places]
  /\ handle \in [Workflows -> Mutexes \cup {NoMutex}]
  /\ granted \in [Workflows -> -1..TTL]
  /\ busyWith \in [Workflows -> Workflows \cup {Nobody}]

\* At most one live row per pull request, without help from the partial unique
\* index uq_pr_review_mutex_live_pr: the acquire never trips over it.
OneLiveRow == \A p \in Prs : \A m, n \in LiveRows(p) : m = n

\* The execution relies on a claim it has seen confirmed less than a lease ago.
Confirmed(w) == pc[w] \in {"held", "posting", "zombie"} /\ granted[w] > 0

\* Nobody takes a confirmed claim away: neither the janitor nor another gate
\* releases the row of an execution whose last confirmation is younger than a
\* lease, across lost answers, expiries, revivals and sweeps.
ConfirmedClaimIsLive == \A w \in Workflows : Confirmed(w) => ~released[handle[w]]

\* Two executions never both rely on a confirmed claim on one pull request, so
\* two of them can be posting at once only if one of them outlived its lease or
\* its last check failed open.
ConfirmedClaimIsExclusive ==
  \A w, x \in Workflows :
    Confirmed(w) /\ Confirmed(x) /\ PrOf[w] = PrOf[x] => w = x

\* A row of a finished, terminated or never informed execution is released in
\* the end: a dead review does not keep its pull request busy for ever.
Abandoned(m) ==
  /\ rowPr[m] # NoPr /\ ~released[m]
  /\ \A w \in Workflows : handle[w] = m => pc[w] \in {"zombie", "done"}

AbandonedRowIsReleased == \A m \in Mutexes : Abandoned(m) ~> released[m]

\* pr_mutex.ts:20-21 says that an acquire that does not succeed names the holder.
BusyNamesHolder == \A w \in Workflows : pc[w] = "skipped" => busyWith[w] # Nobody
=============================================================================
