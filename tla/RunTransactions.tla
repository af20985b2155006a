-------------------------- MODULE RunTransactions --------------------------
(***************************************************************************)
(* The transactions of ReviewRuns at the grain of their statements, for    *)
(* one pull request.  A transaction buffers its writes, takes the row      *)
(* locks and the advisory locks its statements ask for in their order,     *)
(* waits for those of others, and lets go of all at its end; Postgres or a *)
(* dying worker may end it at any place.  A commit publishes the buffer.   *)
(* The foreign keys of audit.workflow_events make every INSERT of an event *)
(* lock the rows of its review and of its run.                             *)
(***************************************************************************)
EXTENDS Naturals, Sequences, SequencesExt, FiniteSets

CONSTANTS
  Review,  \* the row of core.pull_request_reviews
  LastRun, \* runs 1 .. LastRun may be minted
  MaxRows, \* bound: no transaction opens once there are so many event rows
  Slots,   \* connections: how many transactions are open at a time
  NoRun, NoReview, NoOp

ASSUME SlotsAssumption == IsFiniteSet(Slots) /\ {LastRun, MaxRows} \subseteq Nat

VARIABLES
  row,      \* core.review_runs, committed
  pointer,  \* pull_request_reviews.current_run_id, committed
  stream,   \* audit.workflow_events, committed
  minted,   \* the runs in the order in which they were committed
  writer,   \* the run behind the latest committed findings
  tx        \* the open transaction of each connection

vars == <<row, pointer, stream, minted, writer, tx>>

Runs == 1 .. LastRun

\* The terminal activities and the state they lead to.
EndOf == [finalizeReviewRun |-> "COMPLETED", recordRunFailed |-> "FAILED",
          recordRunCancelled |-> "CANCELLED"]
Ends == DOMAIN EndOf

Ops == Ends \cup {"allocateRun", "dispatchRow", "persistAggregated",
                  "recordReviewLifecycleEvent", "reap"}

ASSUME NullsAssumption == NoRun \notin Runs /\ NoReview # Review /\ NoOp \notin Ops

\* emitWorkflowEvent: advisory lock, MAX + 1 and INSERT, and the two foreign-key
\* checks of the INSERT in the order in which the constraints were created.
Emission == <<"lockLog", "append", "checkReview", "checkRun">>

\* Mutant: the transition comes before the guard.
StatementsUnguarded(op) ==
  CASE op = "allocateRun" -> <<"lockReview", "supersede">> \o Emission \o <<"insertRun">>
    [] op = "dispatchRow" -> <<"readRun", "updateRun", "assertCurrentRun">> \o Emission
    [] op \in Ends -> <<"readRun", "updateRun">> \o Emission
    [] op = "persistAggregated" -> <<"assertCurrentRun", "selectEvent">> \o Emission
    [] op = "recordReviewLifecycleEvent" -> <<"selectEvent">> \o Emission
    [] op = "reap" -> <<"sweep">>

\* The statements of a transaction that may wait, or read what others write.
Statements(op) ==
  CASE op = "allocateRun" -> <<"lockReview", "supersede">> \o Emission \o <<"insertRun">>
    [] op = "dispatchRow" -> <<"assertCurrentRun", "readRun", "updateRun">> \o Emission
    [] op \in Ends -> <<"readRun", "updateRun">> \o Emission
    [] op = "persistAggregated" -> <<"assertCurrentRun", "selectEvent">> \o Emission
    [] op = "recordReviewLifecycleEvent" -> <<"selectEvent">> \o Emission
    [] op = "reap" -> <<"sweep">>

Path(op) == Statements(op) \o <<"end">>

Places == {"lockReview", "supersede", "lockLog", "append", "checkReview", "checkRun",
           "insertRun", "assertCurrentRun", "readRun", "updateRun", "selectEvent",
           "sweep", "end"}

Unborn == [state |-> "UNBORN", supersedes |-> NoRun, supersededBy |-> NoRun,
           cancelReason |-> "none"]

\* An event row; "to" is the target of a lifecycle_transition.
EventRow(r, n, type, to) == [run |-> r, seq |-> n, type |-> type, to |-> to]

\* rows, log, point and wrote are what a commit publishes; old is what supersedeRun
\* returned, stale says that assertCurrentRun threw.
Idle == [op |-> NoOp, run |-> NoRun, at |-> "end", locks |-> {}, old |-> NoRun,
         stale |-> FALSE, rows |-> {}, log |-> {}, point |-> NoRun, wrote |-> NoRun]

Init ==
  /\ row = [r \in Runs |-> Unborn]
  /\ pointer = NoRun
  /\ stream = {}
  /\ minted = <<>>
  /\ writer = NoRun
  /\ tx = [s \in Slots |-> Idle]

-----------------------------------------------------------------------------
(* Locks *)

Active == {r \in Runs : row[r].state \in {"PENDING", "RUNNING"}}
Running == {r \in Runs : row[r].state = "RUNNING"}

\* The run whose event a transaction emits.
Subject(t) == IF t.op = "allocateRun" THEN t.old ELSE t.run

\* What may be locked: the review's row, a run's row, the advisory lock of a run's log.
ReviewRow == <<"review", NoRun>>
RunRow(r) == <<"run", r>>
LogLock(r) == <<"log", r>>

\* Mutant: transitionRun reads the run without FOR UPDATE.
WantsUnlocked(t) ==
  CASE t.at = "lockReview" -> {<<ReviewRow, "update">>}
    [] t.at = "assertCurrentRun" -> {<<ReviewRow, "share">>}
    [] t.at = "checkReview" -> {<<ReviewRow, "key">>}
    [] t.at = "updateRun" -> {<<RunRow(t.run), "noKey">>}
    [] t.at = "checkRun" -> {<<RunRow(Subject(t)), "key">>}
    [] t.at = "supersede" -> {<<RunRow(r), "noKey">> : r \in Active}
    [] t.at = "sweep" -> {<<RunRow(r), "noKey">> : r \in Running}
    [] t.at = "lockLog" -> {<<LogLock(Subject(t)), "update">>}
    [] OTHER -> {}

\* What the next statement of a transaction locks, and how: FOR UPDATE, FOR NO
\* KEY UPDATE, FOR SHARE or FOR KEY SHARE; an advisory lock excludes like FOR UPDATE.
Wants(t) ==
  CASE t.at = "lockReview" -> {<<ReviewRow, "update">>}
    [] t.at = "assertCurrentRun" -> {<<ReviewRow, "share">>}
    [] t.at = "checkReview" -> {<<ReviewRow, "key">>}
    [] t.at = "readRun" -> {<<RunRow(t.run), "update">>}
    [] t.at = "updateRun" -> {<<RunRow(t.run), "noKey">>}
    [] t.at = "checkRun" -> {<<RunRow(Subject(t)), "key">>}
    [] t.at = "supersede" -> {<<RunRow(r), "noKey">> : r \in Active}
    [] t.at = "sweep" -> {<<RunRow(r), "noKey">> : r \in Running}
    [] t.at = "lockLog" -> {<<LogLock(Subject(t)), "update">>}
    [] OTHER -> {}

\* Postgres's table of conflicting row locks.
Conflict(m, n) ==
  {m, n} \in {{"update"}, {"update", "noKey"}, {"update", "share"}, {"update", "key"},
              {"noKey"}, {"noKey", "share"}}

WaitsFor(s, q) ==
  /\ q # s
  /\ \E w \in Wants(tx[s]), l \in tx[q].locks : w[1] = l[1] /\ Conflict(w[2], l[2])

\* A transaction executes the statement "at": nobody is in its way.
Executes(s, at) ==
  /\ tx[s].op # NoOp
  /\ tx[s].at = at
  /\ \A q \in Slots : ~WaitsFor(s, q)

NextPlace(t) == LET p == Path(t.op) IN p[1 + CHOOSE i \in DOMAIN p : p[i] = t.at]

\* The transaction with the locks of its statement, before the next one.
Done(t) == [t EXCEPT !.locks = @ \cup Wants(t), !.at = NextPlace(t)]
Skip(t) == [Done(t) EXCEPT !.at = "end"]

Becomes(s, t) ==
  /\ tx' = [tx EXCEPT ![s] = t]
  /\ UNCHANGED <<row, pointer, stream, minted, writer>>

-----------------------------------------------------------------------------
(* Who opens a transaction *)

Logged(r, type) == \E e \in stream : e.run = r /\ e.type = type

\* The ids that are committed or that some open transaction has minted.
Minted == {r \in Runs : \/ row[r].state # "UNBORN"
                        \/ \E s \in Slots : tx[s].op = "allocateRun" /\ tx[s].run = r}

\* A push mints the next id; the dispatcher knows a run once it is committed,
\* the activities of its workflow run once it was ingested, also late ones.
MayOpen(op, r) ==
  CASE op = "allocateRun" -> r \notin Minted /\ 1 .. (r - 1) \subseteq Minted
    [] op = "dispatchRow" -> row[r].state # "UNBORN"
    [] op = "reap" -> row[r].state = "RUNNING"
    [] OTHER -> Logged(r, "INGESTED")

Open(s, op, r) ==
  /\ tx[s].op = NoOp
  /\ Cardinality(stream) < MaxRows
  /\ MayOpen(op, r)
  /\ Becomes(s, [Idle EXCEPT !.op = op, !.run = r, !.at = Path(op)[1]])

-----------------------------------------------------------------------------
(* Statements *)

\* upsertReview's ON CONFLICT DO UPDATE writes a column of a unique index and
\* thereby locks like the FOR UPDATE of supersedeRun that follows.
LockReview(s) == Executes(s, "lockReview") /\ Becomes(s, Done(tx[s]))

\* supersedeRun: the optimistic cancel of the run that is active when it is locked.
SupersedeRun(s) ==
  /\ Executes(s, "supersede")
  /\ IF Active = {} THEN Becomes(s, [Done(tx[s]) EXCEPT !.at = "insertRun"])
     ELSE \E old \in Active : Becomes(s,
            [Done(tx[s]) EXCEPT
               !.old = old,
               !.rows = {[run |-> r, change |-> "superseded", to |-> "CANCELLED"] : r \in Active}])

\* allocateRun after supersedeRun: INSERT, flipCurrentRun and WEBHOOK_RECEIVED;
\* CurrentRunMismatch rolls back.  Nobody else knows the new run yet.
InsertRun(s) ==
  /\ Executes(s, "insertRun")
  /\ IF tx[s].old \notin {NoRun, pointer} THEN Becomes(s, Idle)
     ELSE Becomes(s, [Done(tx[s]) EXCEPT
            !.point = tx[s].run,
            !.rows = @ \cup {[run |-> tx[s].run, change |-> "inserted", to |-> "PENDING"]},
            !.log = @ \cup {EventRow(tx[s].run, 1, "WEBHOOK_RECEIVED", "none")}])

\* assertCurrentRun: on a mismatch the forensic event is written and rolled back
\* with everything else.
AssertCurrentRun(s) ==
  /\ Executes(s, "assertCurrentRun")
  /\ IF pointer = tx[s].run
     THEN Becomes(s, [Done(tx[s]) EXCEPT !.wrote = IF tx[s].op = "persistAggregated"
                                                   THEN tx[s].run ELSE NoRun])
     ELSE Becomes(s, [Done(tx[s]) EXCEPT !.stale = TRUE, !.at = "lockLog"])

From(op) == IF op = "dispatchRow" THEN "PENDING" ELSE "RUNNING"
To(op) == IF op = "dispatchRow" THEN "RUNNING" ELSE EndOf[op]

\* transitionRun reads and locks the run: APPLIED goes on, ALREADY_APPLIED has
\* nothing to do, StateDrift rolls back.
ReadRun(s) ==
  /\ Executes(s, "readRun")
  /\ LET is == row[tx[s].run].state
         op == tx[s].op
     IN \/ is = To(op) /\ Becomes(s, Skip(tx[s]))
        \/ is = From(op) /\ Becomes(s, Done(tx[s]))
        \/ is \notin {From(op), To(op)} /\ Becomes(s, Idle)

UpdateRun(s) ==
  /\ Executes(s, "updateRun")
  /\ Becomes(s, [Done(tx[s]) EXCEPT
       !.rows = {[run |-> tx[s].run, change |-> "transition", to |-> To(tx[s].op)]}])

\* The idempotency SELECT before a milestone sees what is committed.
SelectEvent(s) ==
  /\ Executes(s, "selectEvent")
  /\ LET type == IF tx[s].op = "persistAggregated" THEN "FINDINGS_PERSISTED" ELSE "ANALYZED"
     IN Becomes(s, IF Logged(tx[s].run, type) THEN Skip(tx[s]) ELSE Done(tx[s]))

\* reviewRunReaperActivity's UPDATE; it writes no workflow event.
Sweep(s) ==
  /\ Executes(s, "sweep")
  /\ Becomes(s, [Done(tx[s]) EXCEPT
       !.rows = {[run |-> r, change |-> "timeout", to |-> "CANCELLED"] : r \in Running}])

\* Mutant: no advisory lock before MAX + 1.
LockNothing(s) ==
  /\ tx[s].op # NoOp /\ tx[s].at = "lockLog"
  /\ Becomes(s, [tx[s] EXCEPT !.at = NextPlace(tx[s])])

LockLog(s) == Executes(s, "lockLog") /\ Becomes(s, Done(tx[s]))

\* What a transaction appends to its subject's log, in order.
Emitted(t) ==
  IF t.stale THEN << <<"STALE_WRITE_BLOCKED", "none">> >>
  ELSE CASE t.op = "allocateRun" -> << <<"RUN_SUPERSEDED", "none">> >>
         [] t.op = "dispatchRow" -> << <<"lifecycle_transition", "RUNNING">>, <<"INGESTED", "none">> >>
         [] t.op \in Ends -> << <<"lifecycle_transition", EndOf[t.op]>> >>
         [] t.op = "persistAggregated" -> << <<"FINDINGS_PERSISTED", "none">> >>
         [] OTHER -> << <<"ANALYZED", "none">> >>

\* MAX(sequence_no) over what the transaction sees.
MaxSequence(r) == Max({e.seq : e \in {e \in stream : e.run = r}} \cup {0})

AppendEvent(s) ==
  /\ Executes(s, "append")
  /\ LET r == Subject(tx[s])
         new == Emitted(tx[s])
     IN Becomes(s, [Done(tx[s]) EXCEPT
          !.log = @ \cup {EventRow(r, MaxSequence(r) + i, new[i][1], new[i][2]) : i \in DOMAIN new}])

CheckReview(s) == Executes(s, "checkReview") /\ Becomes(s, Done(tx[s]))

\* A stale writer throws after its INSERT, and its transaction rolls back.
CheckRun(s) ==
  /\ Executes(s, "checkRun")
  /\ Becomes(s, IF tx[s].stale THEN Idle ELSE Done(tx[s]))

-----------------------------------------------------------------------------
(* End *)

Changed(t, w) ==
  CASE w.change = "inserted" -> [Unborn EXCEPT !.state = w.to, !.supersedes = t.old]
    [] w.change = "superseded" -> [row[w.run] EXCEPT !.state = w.to, !.supersededBy = t.run,
                                                     !.cancelReason = "superseded"]
    [] w.change = "timeout" -> [row[w.run] EXCEPT !.state = w.to, !.cancelReason = "timeout"]
    [] w.change = "transition" -> [row[w.run] EXCEPT !.state = w.to]

Commit(s) ==
  LET t == tx[s] IN
  /\ Executes(s, "end")
  /\ row' = [r \in Runs |-> IF \E w \in t.rows : w.run = r
                            THEN Changed(t, CHOOSE w \in t.rows : w.run = r) ELSE row[r]]
  /\ pointer' = IF t.point = NoRun THEN pointer ELSE t.point
  /\ minted' = IF t.point = NoRun THEN minted ELSE Append(minted, t.run)
  /\ writer' = IF t.wrote = NoRun THEN writer ELSE t.wrote
  /\ stream' = stream \cup t.log
  /\ tx' = [tx EXCEPT ![s] = Idle]

\* The victim of a deadlock, a worker that dies, a connection that is lost.
Abort(s) == tx[s].op # NoOp /\ Becomes(s, Idle)

Next ==
  \E s \in Slots :
    \/ \E op \in Ops, r \in Runs : Open(s, op, r)
    \/ LockReview(s) \/ SupersedeRun(s) \/ InsertRun(s) \/ AssertCurrentRun(s)
    \/ ReadRun(s) \/ UpdateRun(s) \/ SelectEvent(s) \/ Sweep(s)
    \/ LockLog(s) \/ AppendEvent(s) \/ CheckReview(s) \/ CheckRun(s)
    \/ Commit(s) \/ Abort(s)

Spec == Init /\ [][Next]_vars

-----------------------------------------------------------------------------
(* Properties *)

\* Whatever transactions overlap and abort, the events of a run carry the numbers
\* 1, 2, 3, ... once each.  The unique index cannot see to that, since the time of
\* the row is part of its key.
SequenceIsGapless ==
  \A r \in Runs :
    LET rows == {e \in stream : e.run = r}
    IN {e.seq : e \in rows} = 1 .. Cardinality(rows)

\* Transactions that take the review's row first (pushes, dispatches, guarded
\* writes) and the sweep never wait for one another in a circle: a deadlock needs a
\* terminal transition, which locks the run before the review, or a milestone, which
\* locks the log before either.
DeadlockNeedsLateLocker ==
  LET orderly == {s \in Slots : tx[s].op \in {"allocateRun", "dispatchRow",
                                              "persistAggregated", "reap"}}
  IN \A circle \in (SUBSET orderly) \ {{}} :
       \E s \in circle : \A q \in circle : ~WaitsFor(s, q)

\* The event stream of a run in the order of its numbers.
LogOf(r) ==
  LET rows == {e \in stream : e.run = r}
  IN [i \in 1 .. Cardinality(rows) |->
        LET e == CHOOSE e \in rows : e.seq = i IN [type |-> e.type, to |-> e.to]]

Positions(r) == {i \in DOMAIN minted : minted[i] = r}

Tables == INSTANCE ReviewRuns WITH
            Reviews <- {Review},
            PersistAttempts <- Cardinality(Slots), RecordAttempts <- Cardinality(Slots),
            state <- [r \in Runs |-> row[r].state],
            review <- [r \in Runs |-> IF row[r].state = "UNBORN" THEN NoReview ELSE Review],
            born <- [r \in Runs |-> Max(Positions(r) \cup {0})],
            supersedes <- [r \in Runs |-> row[r].supersedes],
            supersededBy <- [r \in Runs |-> row[r].supersededBy],
            cancelReason <- [r \in Runs |-> row[r].cancelReason],
            current <- [v \in {Review} |-> pointer],
            events <- [r \in Runs |-> LogOf(r)],
            allocations <- Len(minted),
            lastWriter <- [v \in {Review} |-> writer]

\* The row locks make every transaction one step: whatever they read on the way,
\* a commit does what the action of ReviewRuns does in the state it meets.
TransactionsAreAtomic == Tables!Spec

\* A claim of record_review_lifecycle.activity.ts:126 that does not hold: emits
\* that race on one milestone observe one another.
MilestoneOnce ==
  \A e, f \in stream : e.run = f.run /\ e.type = "ANALYZED" /\ f.type = "ANALYZED" => e = f
=============================================================================
