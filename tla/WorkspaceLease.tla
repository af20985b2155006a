--------------------------- MODULE WorkspaceLease ---------------------------
(***************************************************************************)
(* The leases of core.workspace_leases, the directory they stand for, and  *)
(* everybody who touches them: the executions of reviewPullRequest, whose  *)
(* activities allocateWorkspace, cloneRepoIntoWorkspace and                *)
(* releaseWorkspace are retried and can outlive their execution, and the   *)
(* scheduled workspaceRetentionWorkflow.                                   *)
(*                                                                         *)
(* One run.  A lease has an id of its own but the directory is keyed by    *)
(* the run, and a run can get a second execution (its outbox row is sent   *)
(* again after the first one closed), so that leases of one run share it.  *)
(***************************************************************************)
EXTENDS Naturals, FiniteSets

CONSTANTS
  Leases,            \* workspace ids that may be minted
  Executions,        \* executions of reviewPullRequest for the run
  Retention,         \* the execution of workspaceRetentionWorkflow
  Late,              \* stands for nobody: the attempt was given up
  None,
  Tries,             \* maximumAttempts of an activity
  MaxCleanups,       \* CLEANUP_MAX_ATTEMPTS
  MaxLate,           \* bound: attempts given up that go on
  MaxAttempts,       \* bound: cleanup_attempts of a row
  HeartbeatsWritten  \* whether anybody writes core.worker_heartbeats

ASSUME LeaseAssumption ==
  /\ Tries \in Nat \ {0} /\ MaxCleanups \in Nat \ {0}
  /\ MaxLate \in Nat /\ MaxAttempts \in Nat
  /\ HeartbeatsWritten \in BOOLEAN
  /\ None \notin Leases
  /\ Retention \notin Executions /\ Late \notin Executions \cup {Retention}

VARIABLES
  lease,   \* lease[w]: the row of workspace w
  dir,     \* the directory runs/<run_id>
  written, \* history: whether the lease was held when the clone in dir was written
  flow,    \* flow[o]: where workflow o is, and the activity attempt it awaits
  todo,    \* the ids that the retention workflow has still to release
  late     \* the attempts that go on although nobody awaits them

vars == <<lease, dir, written, flow, todo, late>>

Workflows == Executions \cup {Retention}
States == {"ALLOCATED", "RELEASE_REQUESTED", "RELEASED", "ORPHANED", "FAILED_CLEANUP"}
Active == {"ALLOCATED", "RELEASE_REQUESTED"}

\* due: the grace of a requested release, or the backoff of a failed one, is over.
LeaseRow == [state : States \cup {"none", "purged"}, attempts : 0 .. MaxAttempts, due : BOOLEAN]

\* An attempt of an activity: its place, the lease it is about and the state it read.
Attempt == [op : {"allocate"}, at : {"mkdir", "insert", "resolve"},
              ws : Leases \cup {None}, from : {None}]
      \cup [op : {"clone"}, at : {"assert", "write", "finish"}, ws : Leases, from : {None}]
      \cup [op : {"release"}, at : {"read", "hop", "rm", "fail", "flip"},
              ws : Leases, from : States \cup {None}]

\* Nobody takes an attempt for the absence of one.
ASSUME NoneAssumption == None \notin Attempt

Allocation  == [op |-> "allocate", at |-> "mkdir", ws |-> None, from |-> None]
CloneOf(w)  == [op |-> "clone", at |-> "assert", ws |-> w, from |-> None]
ReleaseOf(w) == [op |-> "release", at |-> "read", ws |-> w, from |-> None]
First(a) == IF a.op = "allocate" THEN Allocation
            ELSE IF a.op = "clone" THEN CloneOf(a.ws) ELSE ReleaseOf(a.ws)

Stages == {"new", "allocate", "allocated", "clone", "review", "cleanup", "finally", "ended",
           "idle", "swept", "reap"}

TypeOK ==
  /\ lease \in [Leases -> LeaseRow]
  /\ dir \in {"absent", "empty", "cloned"}
  /\ written \in {"never", "held", "stale"}
  /\ flow \in [Workflows -> [at : Stages, call : Attempt \cup {None}, tries : 0 .. Tries,
                          handle : Leases \cup {None}]]
  /\ todo \subseteq Leases
  /\ late \subseteq Attempt

Init ==
  /\ lease = [w \in Leases |-> [state |-> "none", attempts |-> 0, due |-> FALSE]]
  /\ dir = "absent"
  /\ written = "never"
  /\ flow = [o \in Workflows |-> [at |-> IF o = Retention THEN "idle" ELSE "new",
                               call |-> None, tries |-> 0, handle |-> None]]
  /\ todo = {}
  /\ late = {}

-----------------------------------------------------------------------------
(***************************************************************************)
(* The workflows.  A workflow awaits at most one attempt; an answer, and   *)
(* a failure of the last try, move it on.                                  *)
(***************************************************************************)

\* Workflow o goes to stage s and calls activity c there (None: it calls nothing).
Enter(o, s, c) ==
  [at |-> s, call |-> c, tries |-> IF c = None THEN 0 ELSE 1,
   handle |-> IF s = "ended" THEN None ELSE flow[o].handle]

\* What an answer is to the workflow that awaits it: allocate names the workspace.
AfterAnswer(o, a) ==
  CASE a.op = "allocate" -> [Enter(o, "allocated", None) EXCEPT !.handle = a.ws]
    [] a.op = "clone"    -> Enter(o, "review", None)
    [] a.op = "release"  -> IF o = Retention THEN Enter(o, "reap", None)
                            ELSE IF flow[o].at = "cleanup"
                                   THEN Enter(o, "finally", ReleaseOf(flow[o].handle))
                                   ELSE Enter(o, "ended", None)

\* A failed attempt is tried again; the last failure of a release is absorbed, that of a
\* clone leads to the finally, that of an allocation leaves no handle to release.
AfterFailure(o, a) ==
  IF flow[o].tries < Tries
    THEN [flow[o] EXCEPT !.call = First(a), !.tries = @ + 1]
    ELSE CASE a.op = "allocate" -> Enter(o, "ended", None)
           [] a.op = "clone"    -> Enter(o, "finally", ReleaseOf(flow[o].handle))
           [] a.op = "release"  -> AfterAnswer(o, a)

\* Attempt a, awaited by o or by nobody, goes on as b, returns, or throws.
Goto(o, a, b) ==
  IF o = Late THEN late' = (late \ {a}) \cup {b} /\ UNCHANGED flow
              ELSE flow' = [flow EXCEPT ![o].call = b] /\ UNCHANGED late
Return(o, a) ==
  IF o = Late THEN late' = late \ {a} /\ UNCHANGED flow
              ELSE flow' = [flow EXCEPT ![o] = AfterAnswer(o, a)] /\ UNCHANGED late
Throw(o, a) ==
  IF o = Late THEN late' = late \ {a} /\ UNCHANGED flow
              ELSE flow' = [flow EXCEPT ![o] = AfterFailure(o, a)] /\ UNCHANGED late

\* An attempt fails: a statement of it throws, its worker dies, or start_to_close has passed
\* and Temporal gives it up although it goes on.
AttemptFails(o) ==
  /\ flow[o].call # None
  /\ \/ Cardinality(late) < MaxLate /\ late' = late \cup {flow[o].call}
     \/ UNCHANGED late
  /\ flow' = [flow EXCEPT ![o] = AfterFailure(o, flow[o].call)]
  /\ UNCHANGED <<lease, dir, written, todo>>

\* An attempt nobody awaits dies with its worker.
LateDies(a) ==
  /\ late' = late \ {a}
  /\ UNCHANGED <<lease, dir, written, flow, todo>>

IsOpen(e) == flow[e].at \notin {"new", "ended"}

\* The dispatcher starts an execution; one is open per workflow id at any time.
StartExecution(e) ==
  /\ flow[e].at = "new"
  /\ \A x \in Executions : ~IsOpen(x)
  /\ flow' = [flow EXCEPT ![e] = Enter(e, "allocate", Allocation)]
  /\ UNCHANGED <<lease, dir, written, todo, late>>

\* Between allocation and clone a stage may fail; the review ends one way or another.
Proceed(e) ==
  /\ \/ /\ flow[e].at = "allocated"
        /\ \/ flow' = [flow EXCEPT ![e] = Enter(e, "clone", CloneOf(flow[e].handle))]
           \/ flow' = [flow EXCEPT ![e] = Enter(e, "finally", ReleaseOf(flow[e].handle))]
     \/ /\ flow[e].at = "review"
        /\ flow' = [flow EXCEPT ![e] = Enter(e, "cleanup", ReleaseOf(flow[e].handle))]
  /\ UNCHANGED <<lease, dir, written, todo, late>>

\* The execution is terminated or times out: no finally.
Terminate(e) ==
  /\ IsOpen(e)
  /\ flow' = [flow EXCEPT ![e] = Enter(e, "ended", None)]
  /\ \/ flow[e].call # None /\ Cardinality(late) < MaxLate /\ late' = late \cup {flow[e].call}
     \/ UNCHANGED late
  /\ UNCHANGED <<lease, dir, written, todo>>

-----------------------------------------------------------------------------
(***************************************************************************)
(* transitionLease, and the activities step by step.                       *)
(***************************************************************************)

\* At most one active lease: the partial unique index ux_workspace_active_run.
IndexAllows(w, s) == s \in Active => \A x \in Leases \ {w} : lease[x].state \notin Active

\* StateDrift is thrown unless the row is where the caller saw it, or where it shall go.
Drifted(w, from, to) == lease[w].state \notin {from, to}

\* transitionLease in a transaction of its own; a row that is there already is left alone.
CanTransition(w, from, to) == ~Drifted(w, from, to) /\ IndexAllows(w, to)
TransitionLease(w, from, to) ==
  /\ CanTransition(w, from, to)
  /\ lease' = IF lease[w].state = to THEN lease
              ELSE [lease EXCEPT ![w].state = to, ![w].due = FALSE]

MakeDirectory(o, a) ==
  /\ a.op = "allocate" /\ a.at = "mkdir"
  /\ dir' = IF dir = "absent" THEN "empty" ELSE dir
  /\ Goto(o, a, [a EXCEPT !.at = "insert"])
  /\ UNCHANGED <<lease, written, todo>>

\* Fault: the conflict is on ALLOCATED leases only.
InsertBesideRelease(o, a) ==
  /\ a.op = "allocate" /\ a.at = "insert"
  /\ \E w \in Leases :
       /\ IF \E x \in Leases : lease[x].state = "ALLOCATED"
            THEN lease[w].state = "ALLOCATED" /\ UNCHANGED lease
            ELSE /\ lease[w].state = "none"
                 /\ lease' = [lease EXCEPT ![w].state = "ALLOCATED"]
       /\ Goto(o, a, [a EXCEPT !.at = "resolve", !.ws = w])
  /\ UNCHANGED <<dir, written, todo>>

\* INSERT ... ON CONFLICT DO NOTHING and the SELECT of the active row, in one transaction.
InsertLease(o, a) ==
  /\ a.op = "allocate" /\ a.at = "insert"
  /\ \E w \in Leases :
       /\ IF \E x \in Leases : lease[x].state \in Active
            THEN lease[w].state \in Active /\ UNCHANGED lease
            ELSE /\ lease[w].state = "none"
                 /\ w = CHOOSE x \in Leases : lease[x].state = "none"
                 /\ lease' = [lease EXCEPT ![w].state = "ALLOCATED"]
       /\ Goto(o, a, [a EXCEPT !.at = "resolve", !.ws = w])
  /\ UNCHANGED <<dir, written, todo>>

\* realpath: the directory must still be there.
ResolvePath(o, a) ==
  /\ a.op = "allocate" /\ a.at = "resolve"
  /\ IF dir = "absent" THEN Throw(o, a) ELSE Return(o, a)
  /\ UNCHANGED <<lease, dir, written, todo>>

\* The no-op transition ALLOCATED -> ALLOCATED and the heartbeat of the lease.
AssertAllocated(o, a) ==
  /\ a.op = "clone" /\ a.at = "assert"
  /\ IF lease[a.ws].state = "ALLOCATED" THEN Goto(o, a, [a EXCEPT !.at = "write"])
                                        ELSE Throw(o, a)
  /\ UNCHANGED <<lease, dir, written, todo>>

\* mkdir -p of the askpass directory, then git clone: it refuses a non-empty target
\* and, when it fails by itself, removes what it created.
GitClone(o, a) ==
  /\ a.op = "clone" /\ a.at = "write"
  /\ \/ /\ dir # "cloned"
        /\ dir' = "cloned"
        /\ written' = IF lease[a.ws].state = "ALLOCATED" THEN "held" ELSE "stale"
        /\ Goto(o, a, [a EXCEPT !.at = "finish"])
     \/ /\ dir' = IF dir = "absent" THEN "empty" ELSE dir
        /\ Throw(o, a)
        /\ UNCHANGED written
  /\ UNCHANGED <<lease, todo>>

\* fetch, checkout and the size check; a failure leaves the clone where it is.
FinishClone(o, a) ==
  /\ a.op = "clone" /\ a.at = "finish"
  /\ Return(o, a) \/ Throw(o, a)
  /\ UNCHANGED <<lease, dir, written, todo>>

\* getById without a lock.
ReadLease(o, a) ==
  /\ a.op = "release" /\ a.at = "read"
  /\ LET s == lease[a.ws].state IN
       IF s \in {"none", "purged", "RELEASED"} THEN Return(o, a)
       ELSE Goto(o, a, [a EXCEPT !.at = IF s \in {"ALLOCATED", "ORPHANED"} THEN "hop" ELSE "rm",
                                 !.from = s])
  /\ UNCHANGED <<lease, dir, written, todo>>

\* ALLOCATED or ORPHANED -> RELEASE_REQUESTED; a drift and the unique index reject it.
RequestRelease(o, a) ==
  /\ a.op = "release" /\ a.at = "hop"
  /\ \/ /\ TransitionLease(a.ws, a.from, "RELEASE_REQUESTED")
        /\ Goto(o, a, [a EXCEPT !.at = "rm", !.from = "RELEASE_REQUESTED"])
     \/ /\ ~CanTransition(a.ws, a.from, "RELEASE_REQUESTED")
        /\ Throw(o, a)
        /\ UNCHANGED lease
  /\ UNCHANGED <<dir, written, todo>>

\* Fault: a failed rm is logged and the release goes on.
RemoveOrIgnore(o, a) ==
  /\ a.op = "release" /\ a.at = "rm"
  /\ \/ dir' = "absent" /\ written' = "never"
     \/ UNCHANGED <<dir, written>>
  /\ Goto(o, a, [a EXCEPT !.at = "flip"])
  /\ UNCHANGED <<lease, todo>>

\* rm -rf of the directory of the run, whichever lease it is for.
RemoveDirectory(o, a) ==
  /\ a.op = "release" /\ a.at = "rm"
  /\ \/ /\ dir' = "absent" /\ written' = "never"
        /\ Goto(o, a, [a EXCEPT !.at = "flip"])
     \/ /\ Goto(o, a, [a EXCEPT !.at = "fail"])
        /\ UNCHANGED <<dir, written>>
  /\ UNCHANGED <<lease, todo>>

\* The transition to FAILED_CLEANUP and cleanup_attempts + 1, in one transaction.
\* When the row is FAILED_CLEANUP already the transition is a no-op, the count is not.
RecordCleanupFailure(o, a) ==
  /\ a.op = "release" /\ a.at = "fail"
  /\ IF Drifted(a.ws, a.from, "FAILED_CLEANUP") THEN UNCHANGED lease
     ELSE /\ lease[a.ws].attempts < MaxAttempts
          /\ lease' = [lease EXCEPT ![a.ws] =
                         [state |-> "FAILED_CLEANUP", attempts |-> @.attempts + 1, due |-> FALSE]]
  /\ Throw(o, a)
  /\ UNCHANGED <<dir, written, todo>>

MarkReleased(o, a) ==
  /\ a.op = "release" /\ a.at = "flip"
  /\ IF Drifted(a.ws, a.from, "RELEASED") THEN Throw(o, a) /\ UNCHANGED lease
     ELSE TransitionLease(a.ws, a.from, "RELEASED") /\ Return(o, a)
  /\ UNCHANGED <<dir, written, todo>>

AttemptStep(o, a) ==
  \/ MakeDirectory(o, a) \/ InsertLease(o, a) \/ ResolvePath(o, a)
  \/ AssertAllocated(o, a) \/ GitClone(o, a) \/ FinishClone(o, a)
  \/ ReadLease(o, a) \/ RequestRelease(o, a) \/ RemoveDirectory(o, a)
  \/ RecordCleanupFailure(o, a) \/ MarkReleased(o, a)

-----------------------------------------------------------------------------
(***************************************************************************)
(* The retention workflow: orphan sweep, reap, purge.                      *)
(***************************************************************************)

\* A grace or a backoff runs out.  Both are longer than the retries of a release take.
GraceEnds(w) ==
  /\ lease[w].state \in {"RELEASE_REQUESTED", "FAILED_CLEANUP"}
  /\ ~lease[w].due
  /\ \A o \in Workflows : flow[o].call # None => ~(flow[o].call.op = "release" /\ flow[o].call.ws = w)
  /\ lease' = [lease EXCEPT ![w].due = TRUE]
  /\ UNCHANGED <<dir, written, flow, todo, late>>

\* ALLOCATED leases past their orphan grace whose worker has an old heartbeat row.
\* Nothing in the code writes those rows; locked rows are skipped.
OrphanSweep ==
  /\ flow[Retention].at = "idle"
  /\ \E S \in SUBSET {w \in Leases : lease[w].state = "ALLOCATED" /\ HeartbeatsWritten} :
       lease' = [w \in Leases |-> IF w \in S THEN [lease[w] EXCEPT !.state = "ORPHANED"] ELSE lease[w]]
  /\ flow' = [flow EXCEPT ![Retention].at = "swept"]
  /\ UNCHANGED <<dir, written, todo, late>>

\* Fault: the last retry of a cleanup is not made.
ReapOneLess(w) ==
  \/ lease[w].state = "ORPHANED"
  \/ lease[w].state = "RELEASE_REQUESTED" /\ lease[w].due
  \/ lease[w].state = "FAILED_CLEANUP" /\ lease[w].due /\ lease[w].attempts + 1 < MaxCleanups

ReapEligible(w) ==
  \/ lease[w].state = "ORPHANED"
  \/ lease[w].state = "RELEASE_REQUESTED" /\ lease[w].due
  \/ lease[w].state = "FAILED_CLEANUP" /\ lease[w].due /\ lease[w].attempts < MaxCleanups

Reap ==
  /\ flow[Retention].at = "swept"
  /\ todo' = {w \in Leases : ReapEligible(w)}
  /\ flow' = [flow EXCEPT ![Retention].at = "reap"]
  /\ UNCHANGED <<lease, dir, written, late>>

\* The loop over the reaped ids, each with an activity call of its own.
ReleaseNext ==
  /\ flow[Retention].at = "reap" /\ flow[Retention].call = None
  /\ \E w \in todo :
       /\ todo' = todo \ {w}
       /\ flow' = [flow EXCEPT ![Retention] = Enter(Retention, "reap", ReleaseOf(w))]
  /\ UNCHANGED <<lease, dir, written, late>>

\* DELETE of the RELEASED rows past their retention.
PurgeReleased ==
  /\ flow[Retention].at = "reap" /\ flow[Retention].call = None /\ todo = {}
  /\ \E S \in SUBSET {w \in Leases : lease[w].state = "RELEASED"} :
       lease' = [w \in Leases |-> IF w \in S THEN [lease[w] EXCEPT !.state = "purged"] ELSE lease[w]]
  /\ flow' = [flow EXCEPT ![Retention].at = "idle"]
  /\ UNCHANGED <<dir, written, todo, late>>

-----------------------------------------------------------------------------

AwaitedStep(o) == flow[o].call # None /\ AttemptStep(o, flow[o].call)

Next ==
  \/ \E e \in Executions : StartExecution(e) \/ Proceed(e) \/ Terminate(e)
  \/ \E o \in Workflows : AwaitedStep(o) \/ AttemptFails(o)
  \/ \E a \in late : AttemptStep(Late, a) \/ LateDies(a)
  \/ \E w \in Leases : GraceEnds(w)
  \/ OrphanSweep \/ Reap \/ ReleaseNext \/ PurgeReleased

\* The retention workflow is at this place of a release.
ReleaseAt(at) ==
  /\ flow[Retention].call # None /\ flow[Retention].call.at = at
  /\ AttemptStep(Retention, flow[Retention].call)

\* The schedule starts the retention workflow again and again, time passes, Temporal sees
\* to it that an awaited attempt ends, and no statement of a release fails every time.
Fairness ==
  /\ WF_vars(OrphanSweep \/ Reap \/ ReleaseNext \/ PurgeReleased)
  /\ WF_vars(\E w \in Leases : GraceEnds(w))
  /\ WF_vars(AwaitedStep(Retention) \/ AttemptFails(Retention))
  /\ WF_vars(\E e \in Executions : AwaitedStep(e) \/ AttemptFails(e))
  /\ \A at \in {"read", "hop", "rm", "fail", "flip"} : SF_vars(ReleaseAt(at))

Spec == Init /\ [][Next]_vars /\ Fairness

-----------------------------------------------------------------------------
(***************************************************************************)
(* Properties.                                                             *)
(***************************************************************************)

\* A clone that nobody will remove any more was written by an attempt whose lease had
\* been released between its assertion and its git clone.
Quiet == \A a \in late \cup {flow[o].call : o \in Workflows} : a # None => a.op = "allocate"
LeftoverIsStale ==
  (/\ dir = "cloned" /\ Quiet
   /\ \A w \in Leases : lease[w].state \in {"none", "RELEASED", "purged"})
     => written = "stale"

\* The tree under a running review is only removed for another lease of the run, one that
\* has left the active set: a cleanup that is tried again, or one that was overtaken.
Reviewing(e) == flow[e].at = "review" /\ lease[flow[e].handle].state = "ALLOCATED"
RemovalIsForOldLease ==
  [][(dir = "cloned" /\ dir' = "absent") =>
       \A e \in Executions : Reviewing(e) =>
         \E a \in late \cup {flow[o].call : o \in Workflows} :
            /\ a # None /\ a.at = "rm" /\ a.ws # flow[e].handle
            /\ lease[a.ws].state \in {"RELEASED", "FAILED_CLEANUP", "purged"}]_vars

\* A release that was requested is completed, or its cleanup has failed MaxCleanups times.
RequestedIsReleased ==
  \A w \in Leases :
    lease[w].state \in {"RELEASE_REQUESTED", "FAILED_CLEANUP"}
      ~> (lease[w].state \in {"RELEASED", "purged"} \/ lease[w].attempts >= MaxCleanups)

\* What docs/architecture/temporal-workflow-integration.md:669 says of a worker that dies
\* in the middle of a review: the workspace lease is reclaimed.
AbandonedIsReclaimed ==
  \A w \in Leases : lease[w].state = "ALLOCATED" /\ (\A e \in Executions : ~IsOpen(e))
    ~> (lease[w].state # "ALLOCATED" \/ \E e \in Executions : IsOpen(e))
=============================================================================
