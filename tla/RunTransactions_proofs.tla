----------------------- MODULE RunTransactions_proofs -----------------------
(***************************************************************************)
(* What the statements of overlapping transactions leave true: the events  *)
(* of a run are numbered without a gap, transactions that lock in order do *)
(* not wait in a circle, and every commit is a step of ReviewRuns.  The    *)
(* inductive invariant Inv says of every open transaction where it may be  *)
(* (Placed), what it has locked (Locked, HoldsOnly), that what it has read *)
(* is still so (Sees) and what it has buffered (Wrote); of two, that their *)
(* locks do not conflict (Apart); and of the committed tables, TablesInv.  *)
(* For the refinement AtomicInv adds that runs are minted once and that    *)
(* the milestones that are there and those on their way are no more than   *)
(* the connections.                                                        *)
(***************************************************************************)
EXTENDS RunTransactions, FiniteSetTheorems, FunctionTheorems, SequenceTheorems, TLAPS

\* The paths of the transactions, place by place.
LEMMA AllocatePath ==
  LET p == Path("allocateRun")
  IN /\ DOMAIN p = 1..8
     /\ p[1] = "lockReview" /\ p[2] = "supersede" /\ p[3] = "lockLog" /\ p[4] = "append"
     /\ p[5] = "checkReview" /\ p[6] = "checkRun" /\ p[7] = "insertRun" /\ p[8] = "end"
BY DEF Path, Statements, Emission, Ends, EndOf

LEMMA DispatchPath ==
  LET p == Path("dispatchRow")
  IN /\ DOMAIN p = 1..8
     /\ p[1] = "assertCurrentRun" /\ p[2] = "readRun" /\ p[3] = "updateRun" /\ p[4] = "lockLog"
     /\ p[5] = "append" /\ p[6] = "checkReview" /\ p[7] = "checkRun" /\ p[8] = "end"
BY DEF Path, Statements, Emission, Ends, EndOf

LEMMA TerminalPath ==
  \A op \in Ends :
    LET p == Path(op)
    IN /\ DOMAIN p = 1..7
       /\ p[1] = "readRun" /\ p[2] = "updateRun" /\ p[3] = "lockLog" /\ p[4] = "append"
       /\ p[5] = "checkReview" /\ p[6] = "checkRun" /\ p[7] = "end"
BY DEF Path, Statements, Emission, Ends, EndOf

LEMMA PersistPath ==
  LET p == Path("persistAggregated")
  IN /\ DOMAIN p = 1..7
     /\ p[1] = "assertCurrentRun" /\ p[2] = "selectEvent" /\ p[3] = "lockLog" /\ p[4] = "append"
     /\ p[5] = "checkReview" /\ p[6] = "checkRun" /\ p[7] = "end"
BY DEF Path, Statements, Emission, Ends, EndOf

LEMMA RecordPath ==
  LET p == Path("recordReviewLifecycleEvent")
  IN /\ DOMAIN p = 1..6
     /\ p[1] = "selectEvent" /\ p[2] = "lockLog" /\ p[3] = "append" /\ p[4] = "checkReview"
     /\ p[5] = "checkRun" /\ p[6] = "end"
BY DEF Path, Statements, Emission, Ends, EndOf

LEMMA ReapPath ==
  LET p == Path("reap") IN DOMAIN p = 1..2 /\ p[1] = "sweep" /\ p[2] = "end"
BY DEF Path, Statements, Emission, Ends, EndOf

\* Where a transaction goes after a statement.
LEMMA NextPlaces ==
  ASSUME NEW t, t.op \in Ops
  PROVE  /\ t.op = "allocateRun" =>
              /\ t.at = "lockReview" => NextPlace(t) = "supersede"
              /\ t.at = "supersede" => NextPlace(t) = "lockLog"
              /\ t.at = "insertRun" => NextPlace(t) = "end"
         /\ t.at = "assertCurrentRun" =>
              /\ t.op = "dispatchRow" => NextPlace(t) = "readRun"
              /\ t.op = "persistAggregated" => NextPlace(t) = "selectEvent"
         /\ t.op \in Ends \cup {"dispatchRow"} =>
              /\ t.at = "readRun" => NextPlace(t) = "updateRun"
              /\ t.at = "updateRun" => NextPlace(t) = "lockLog"
         /\ t.op \in {"persistAggregated", "recordReviewLifecycleEvent"} =>
              (t.at = "selectEvent" => NextPlace(t) = "lockLog")
         /\ t.op = "reap" /\ t.at = "sweep" => NextPlace(t) = "end"
         /\ t.op # "reap" =>
              /\ t.at = "lockLog" => NextPlace(t) = "append"
              /\ t.at = "append" => NextPlace(t) = "checkReview"
              /\ t.at = "checkReview" => NextPlace(t) = "checkRun"
              /\ t.at = "checkRun" =>
                   NextPlace(t) = IF t.op = "allocateRun" THEN "insertRun" ELSE "end"
<1> DEFINE p == Path(t.op)
<1>0. ASSUME NEW k \in DOMAIN p, p[k] = t.at, \A i \in DOMAIN p : p[i] = t.at => i = k
      PROVE  NextPlace(t) = p[1 + k]
  <2>1. (CHOOSE i \in DOMAIN p : p[i] = t.at) = k
    BY <1>0
  <2> QED
    BY <2>1 DEF NextPlace
<1>1. CASE t.op = "allocateRun"
  BY <1>0, <1>1, AllocatePath DEF Ends, EndOf
<1>2. CASE t.op = "dispatchRow"
  BY <1>0, <1>2, DispatchPath DEF Ends, EndOf
<1>3. CASE t.op \in Ends
  BY <1>0, <1>3, TerminalPath DEF Ends, EndOf
<1>4. CASE t.op = "persistAggregated"
  BY <1>0, <1>4, PersistPath DEF Ends, EndOf
<1>5. CASE t.op = "recordReviewLifecycleEvent"
  BY <1>0, <1>5, RecordPath DEF Ends, EndOf
<1>6. CASE t.op = "reap"
  BY <1>0, <1>6, ReapPath DEF Ends, EndOf
<1> QED
  BY <1>1, <1>2, <1>3, <1>4, <1>5, <1>6 DEF Ops

-----------------------------------------------------------------------------
(* The state of a transaction *)

States == {"UNBORN", "PENDING", "RUNNING", "COMPLETED", "FAILED", "CANCELLED"}
RunOrNone == Runs \cup {NoRun}
Modes == {"update", "noKey", "share", "key"}
Locks == ({ReviewRow} \cup {RunRow(r) : r \in Runs} \cup {LogLock(r) : r \in Runs}) \X Modes
Changes == [run : Runs, change : {"inserted", "superseded", "timeout", "transition"},
            to : States]
EventTypes == {"WEBHOOK_RECEIVED", "RUN_SUPERSEDED", "lifecycle_transition", "INGESTED",
               "FINDINGS_PERSISTED", "ANALYZED", "STALE_WRITE_BLOCKED"}
EventRows == [run : Runs, seq : Nat, type : EventTypes, to : States \cup {"none"}]
RunRows == [state : States, supersedes : RunOrNone, supersededBy : RunOrNone,
            cancelReason : {"none", "superseded", "timeout"}]

OpenTx == [op : Ops, run : Runs, at : Places, locks : SUBSET Locks, old : RunOrNone,
           stale : BOOLEAN, rows : SUBSET Changes, log : SUBSET EventRows,
           point : RunOrNone, wrote : RunOrNone]

TypeInv ==
  /\ row \in [Runs -> RunRows]
  /\ pointer \in RunOrNone
  /\ stream \subseteq EventRows
  /\ minted \in Seq(Runs)
  /\ writer \in RunOrNone
  /\ tx \in [Slots -> {Idle} \cup OpenTx]

\* The places between the lock of a log and the end of the emission.
Emitting == {"append", "checkReview", "checkRun"}
Emission4 == {"lockLog"} \cup Emitting

PlacesOf(op) ==
  CASE op = "allocateRun" -> {"lockReview", "supersede", "insertRun", "end"} \cup Emission4
    [] op = "dispatchRow" -> {"assertCurrentRun", "readRun", "updateRun", "end"} \cup Emission4
    [] op \in Ends -> {"readRun", "updateRun", "end"} \cup Emission4
    [] op = "persistAggregated" -> {"assertCurrentRun", "selectEvent", "end"} \cup Emission4
    [] op = "recordReviewLifecycleEvent" -> {"selectEvent", "end"} \cup Emission4
    [] op = "reap" -> {"sweep", "end"}

Guarded == {"dispatchRow", "persistAggregated"}
Transitions == Ends \cup {"dispatchRow"}
Milestones == {"persistAggregated", "recordReviewLifecycleEvent"}

Placed(t) ==
  /\ t.at \in PlacesOf(t.op)
  /\ t.stale => t.op \in Guarded /\ t.at \in Emission4

\* The locks that a transaction has for certain.
Locked(t) ==
  /\ t.op = "allocateRun" /\ t.at # "lockReview" => <<ReviewRow, "update">> \in t.locks
  /\ t.op = "allocateRun" /\ t.at \notin {"lockReview", "supersede"} =>
       \A r \in Active : <<RunRow(r), "noKey">> \in t.locks
  /\ t.op \in Guarded /\ t.at # "assertCurrentRun" => <<ReviewRow, "share">> \in t.locks
  /\ t.op \in Transitions /\ t.at \notin {"assertCurrentRun", "readRun"} /\ ~t.stale =>
       <<RunRow(t.run), "update">> \in t.locks
  /\ t.at \in Emitting => <<LogLock(Subject(t)), "update">> \in t.locks
  /\ \A e \in t.log : \/ <<LogLock(e.run), "update">> \in t.locks
                      \/ t.op = "allocateRun" /\ e.run = t.run
  /\ \A w \in t.rows : \/ <<RunRow(w.run), "noKey">> \in t.locks
                       \/ t.op = "allocateRun" /\ w.run = t.run

\* What a transaction has read of the tables is still so.
Sees(t) ==
  /\ t.op \in Guarded /\ t.at # "assertCurrentRun" => (t.stale <=> pointer # t.run)
  /\ t.op = "allocateRun" <=> row[t.run].state = "UNBORN"
  /\ t.op \in Ends \cup Milestones => Logged(t.run, "INGESTED")
  /\ t.op \in Transitions /\ t.at \in {"updateRun"} \cup Emission4 /\ ~t.stale =>
       row[t.run].state = From(t.op)

\* The rows that are changed and the events that are inserted, as a transaction
\* buffers them.
Superseded == {[run |-> r, change |-> "superseded", to |-> "CANCELLED"] : r \in Active}
Inserted(t) == [run |-> t.run, change |-> "inserted", to |-> "PENDING"]
Transitioned(t) == [run |-> t.run, change |-> "transition", to |-> To(t.op)]
Received(t) == EventRow(t.run, 1, "WEBHOOK_RECEIVED", "none")
NewRows(t) == {EventRow(Subject(t), MaxSequence(Subject(t)) + i, Emitted(t)[i][1], Emitted(t)[i][2]) :
                 i \in DOMAIN Emitted(t)}
MilestoneOf(op) == IF op = "persistAggregated" THEN "FINDINGS_PERSISTED" ELSE "ANALYZED"

AllocateWrote(t) ==
  /\ t.wrote = NoRun
  /\ t.at \in {"lockReview", "supersede"} => t.old = NoRun /\ t.rows = {}
  /\ t.at \notin {"lockReview", "supersede"} =>
       IF Active = {} THEN t.old = NoRun ELSE t.old \in Active
  /\ t.at \in Emission4 => Active # {}
  /\ t.at \in Emission4 \cup {"insertRun"} => t.rows = Superseded
  /\ t.at # "end" => t.point = NoRun
  /\ t.at = "end" => /\ t.point = t.run /\ t.old \in {NoRun, pointer}
                     /\ t.rows = Superseded \cup {Inserted(t)}
  /\ t.at \in {"lockReview", "supersede", "lockLog", "append"} => t.log = {}
  /\ t.at \in {"checkReview", "checkRun"} => t.log = NewRows(t)
  /\ t.at = "insertRun" => t.log = IF t.old = NoRun THEN {} ELSE NewRows(t)
  /\ t.at = "end" => t.log = {Received(t)} \cup IF t.old = NoRun THEN {} ELSE NewRows(t)

TransitionWrote(t) ==
  /\ t.wrote = NoRun
  /\ t.at \in {"assertCurrentRun", "readRun", "updateRun"} => t.rows = {}
  /\ t.at \in Emission4 => t.rows = IF t.stale THEN {} ELSE {Transitioned(t)}
  /\ t.at = "end" => \/ t.rows = {} /\ t.log = {}
                     \/ /\ t.rows = {Transitioned(t)} /\ t.log = NewRows(t)
                        /\ row[t.run].state = From(t.op)

MilestoneWrote(t) ==
  /\ t.rows = {}
  /\ t.wrote = IF t.op = "persistAggregated" /\ t.at # "assertCurrentRun" /\ ~t.stale
               THEN t.run ELSE NoRun
  /\ t.at = "end" => \/ t.log = {} /\ Logged(t.run, MilestoneOf(t.op))
                     \/ t.log = NewRows(t)

ReapWrote(t) ==
  /\ t.wrote = NoRun /\ t.log = {}
  /\ t.at = "sweep" => t.rows = {}
  /\ \A w \in t.rows : w.change = "timeout" /\ w.to = "CANCELLED" /\ w.run \in Running

Wrote(t) ==
  /\ t.op = "allocateRun" => AllocateWrote(t)
  /\ t.op # "allocateRun" => /\ t.point = NoRun /\ t.old = NoRun
                             /\ t.at \notin {"checkReview", "checkRun", "end"} => t.log = {}
                             /\ t.at \in {"checkReview", "checkRun"} => t.log = NewRows(t)
  /\ t.op \in Transitions => TransitionWrote(t)
  /\ t.op \in Milestones => MilestoneWrote(t)
  /\ t.op = "reap" => ReapWrote(t)

\* The locks that a transaction may have; of those that take the run or the log
\* first, only their last ones matter.
HoldsOnly(t) ==
  \A l \in t.locks :
    /\ l[1] = ReviewRow =>
         /\ t.op = "allocateRun" => t.at # "lockReview"
         /\ t.op \in Guarded => t.at # "assertCurrentRun" /\ l[2] \in {"share", "key"}
         /\ t.op \in Ends \cup Milestones => l[2] \in {"share", "key"}
         /\ t.op # "reap"
    /\ l[1] \in {LogLock(r) : r \in Runs} => t.at \in Emitting \cup {"insertRun", "end"}
    /\ l[1] \in {RunRow(r) : r \in Runs} =>
         /\ t.op = "allocateRun" => t.at \notin {"lockReview", "supersede"}
         /\ t.op = "dispatchRow" => /\ l[1] = RunRow(t.run) /\ ~t.stale
                                    /\ t.at \notin {"assertCurrentRun", "readRun"}
         /\ t.op = "persistAggregated" => t.at = "end" /\ l[2] = "key"
         /\ t.op = "reap" => t.at = "end"

Ok(t) == Placed(t) /\ Locked(t) /\ HoldsOnly(t) /\ Sees(t) /\ Wrote(t)

\* Two open transactions hold no conflicting locks and insert different runs.
Apart(t, u) ==
  /\ \A l \in t.locks, m \in u.locks : l[1] = m[1] => ~Conflict(l[2], m[2])
  /\ t.op = "allocateRun" /\ u.op = "allocateRun" => t.run # u.run

\* The events of a run are numbered 1, 2, 3, ... once each.
Numbers(E, n) == {e.seq : e \in E} = 1..n /\ \A d, e \in E : d.seq = e.seq => d = e
EventsOf(r) == {e \in stream : e.run = r}

TablesInv ==
  /\ \A e \in stream : row[e.run].state # "UNBORN"
  /\ \A r \in Runs : Logged(r, "INGESTED") => row[r].state \notin {"UNBORN", "PENDING"}
  /\ \A r \in Runs : \E n \in Nat : Numbers(EventsOf(r), n)
  /\ Active \subseteq {pointer}
  /\ pointer # NoRun => row[pointer].state # "UNBORN"

Inv ==
  /\ TypeInv /\ TablesInv
  /\ \A s \in Slots : tx[s] # Idle => Ok(tx[s])
  /\ \A s, q \in Slots : s # q => Apart(tx[s], tx[q])

LEMMA IdleIsNotOpen == Idle \notin OpenTx /\ Idle.op = NoOp /\ Idle.locks = {}
BY NullsAssumption DEF Idle, OpenTx

LEMMA WantsType == ASSUME NEW t \in OpenTx, t.op = "allocateRun" /\ t.at \in Emission4 => t.old \in Runs
                   PROVE Wants(t) \subseteq Locks
<1>1. t.run \in Runs /\ (t.at \in Emission4 => Subject(t) \in Runs)
  BY DEF OpenTx, Subject
<1>2. Active \subseteq Runs /\ Running \subseteq Runs
  BY DEF Active, Running
<1> QED
  BY <1>1, <1>2 DEF Wants, Locks, Modes, Emission4, Emitting

LEMMA DoneFields ==
  ASSUME NEW t \in OpenTx
  PROVE  /\ Done(t) = [t EXCEPT !.locks = t.locks \cup Wants(t), !.at = NextPlace(t)]
         /\ Done(t).op = t.op /\ Done(t).run = t.run /\ Done(t).old = t.old
         /\ Done(t).stale = t.stale /\ Done(t).rows = t.rows /\ Done(t).log = t.log
         /\ Done(t).point = t.point /\ Done(t).wrote = t.wrote
         /\ Done(t).locks = t.locks \cup Wants(t) /\ Done(t).at = NextPlace(t)
BY DEF Done, OpenTx

-----------------------------------------------------------------------------
(* Statements: one transaction moves, the tables stay *)

LEMMA TablesStay ==
  ASSUME UNCHANGED <<row, pointer, stream>>
  PROVE  /\ Active' = Active /\ Running' = Running
         /\ \A r, type : Logged(r, type)' <=> Logged(r, type)
         /\ \A r : MaxSequence(r)' = MaxSequence(r)
         /\ \A t : NewRows(t)' = NewRows(t)
         /\ TablesInv => TablesInv'
<1>1. Active' = Active /\ Running' = Running
  BY DEF Active, Running
<1>2. \A r, type : Logged(r, type)' <=> Logged(r, type)
  BY DEF Logged
<1>3. \A r : MaxSequence(r)' = MaxSequence(r)
  BY DEF MaxSequence
<1>4. \A t : NewRows(t)' = NewRows(t)
  BY <1>3 DEF NewRows, Subject, Emitted, EventRow
<1>5. \A r : EventsOf(r)' = EventsOf(r)
  BY DEF EventsOf
<1>6. TablesInv => TablesInv'
  BY <1>1, <1>2, <1>5 DEF TablesInv
<1> QED
  BY <1>1, <1>2, <1>3, <1>4, <1>6

LEMMA OkStays ==
  ASSUME UNCHANGED <<row, pointer, stream>>, NEW t, Ok(t)
  PROVE  Ok(t)'
<1>1. /\ Active' = Active /\ Running' = Running
      /\ \A r, type : Logged(r, type)' <=> Logged(r, type)
      /\ NewRows(t)' = NewRows(t)
  BY TablesStay
<1>2. Placed(t)' /\ HoldsOnly(t)'
  BY DEF Ok, Placed, HoldsOnly
<1>3. Locked(t)'
  BY <1>1 DEF Ok, Locked
<1>4. Sees(t)'
  BY <1>1 DEF Ok, Sees
<1>5. Wrote(t)'
  <2>1. AllocateWrote(t) => AllocateWrote(t)'
    BY <1>1 DEF AllocateWrote, Superseded
  <2>2. TransitionWrote(t) => TransitionWrote(t)'
    BY <1>1 DEF TransitionWrote
  <2>3. MilestoneWrote(t) => MilestoneWrote(t)'
    BY <1>1 DEF MilestoneWrote
  <2>4. ReapWrote(t) => ReapWrote(t)'
    BY <1>1 DEF ReapWrote
  <2> QED
    BY <1>1, <2>1, <2>2, <2>3, <2>4 DEF Ok, Wrote
<1> QED
  BY <1>2, <1>3, <1>4, <1>5 DEF Ok

LEMMA ConflictIsMutual == ASSUME NEW m, NEW n, Conflict(m, n) PROVE Conflict(n, m)
BY DEF Conflict

\* A statement that was not in anybody's way and leaves the transaction in order.
LEMMA Moves ==
  ASSUME Inv, NEW s \in Slots, tx[s] \in OpenTx, \A q \in Slots : ~WaitsFor(s, q),
         NEW u \in OpenTx, u.op = tx[s].op, u.run = tx[s].run, Ok(u),
         u.locks \subseteq tx[s].locks \cup Wants(tx[s]), Becomes(s, u)
  PROVE  Inv'
<1>1. tx' = [tx EXCEPT ![s] = u] /\ UNCHANGED <<row, pointer, stream, minted, writer>>
  BY DEF Becomes
<1>2. TypeInv'
  BY <1>1 DEF Inv, TypeInv
<1>3. TablesInv'
  BY <1>1, TablesStay DEF Inv
<1>4. \A q \in Slots : tx'[q] = IF q = s THEN u ELSE tx[q]
  BY <1>1 DEF Inv, TypeInv
<1>5. ASSUME NEW q \in Slots, tx'[q] # Idle PROVE Ok(tx[q])'
  <2> DEFINE v == tx'[q]
  <2>1. Ok(v)
    BY <1>4, <1>5 DEF Inv
  <2> QED
    BY <1>1, <2>1, OkStays
<1>6. ASSUME NEW q \in Slots, q # s PROVE Apart(u, tx[q]) /\ Apart(tx[q], u)
  <2>1. Apart(tx[s], tx[q]) /\ Apart(tx[q], tx[s])
    BY <1>6 DEF Inv
  <2>2. \A l \in u.locks, m \in tx[q].locks : l[1] = m[1] => ~Conflict(l[2], m[2])
    BY <1>6, <2>1 DEF Apart, WaitsFor
  <2> QED
    BY <2>1, <2>2, ConflictIsMutual DEF Apart
<1>7. \A p, q \in Slots : p # q => Apart(tx[p], tx[q])'
  BY <1>4, <1>6 DEF Inv, Apart
<1> QED
  BY <1>2, <1>3, <1>5, <1>7 DEF Inv

\* An open transaction that executes a statement.
LEMMA Executing ==
  ASSUME Inv, NEW s \in Slots, NEW at, Executes(s, at)
  PROVE  /\ tx[s] \in OpenTx /\ tx[s].at = at /\ Ok(tx[s])
         /\ tx[s].op \in Ops /\ tx[s].run \in Runs
         /\ \A q \in Slots : ~WaitsFor(s, q)
<1>1. tx[s] \in {Idle} \cup OpenTx /\ tx[s].op # NoOp
  BY DEF Inv, TypeInv, Executes
<1>2. tx[s] \in OpenTx /\ tx[s] # Idle
  BY <1>1, IdleIsNotOpen
<1> QED
  BY <1>2 DEF Inv, Executes, OpenTx

\* A transaction ends without a commit.
LEMMA RollsBack == ASSUME Inv, NEW s \in Slots, Becomes(s, Idle) PROVE Inv'
<1>1. tx' = [tx EXCEPT ![s] = Idle] /\ UNCHANGED <<row, pointer, stream, minted, writer>>
  BY DEF Becomes
<1>2. TypeInv'
  BY <1>1 DEF Inv, TypeInv
<1>3. TablesInv'
  BY <1>1, TablesStay DEF Inv
<1>4. \A q \in Slots : tx'[q] = IF q = s THEN Idle ELSE tx[q]
  BY <1>1 DEF Inv, TypeInv
<1>5. ASSUME NEW q \in Slots, tx'[q] # Idle PROVE Ok(tx[q])'
  <2> DEFINE v == tx'[q]
  <2>1. Ok(v)
    BY <1>4, <1>5 DEF Inv
  <2> QED
    BY <1>1, <2>1, OkStays
<1>6. \A t : Apart(Idle, t) /\ Apart(t, Idle)
  <2>1. Idle.op # "allocateRun" /\ Idle.locks = {}
    BY IdleIsNotOpen, NullsAssumption DEF Ops
  <2> QED
    BY <2>1 DEF Apart
<1>7. \A p, q \in Slots : p # q => Apart(tx'[p], tx'[q])
  BY <1>4, <1>6 DEF Inv
<1> QED
  BY <1>2, <1>3, <1>5, <1>7 DEF Inv, Apart

\* The first statement is the one of its path.
LEMMA FirstPlaces ==
  /\ Path("allocateRun")[1] = "lockReview"
  /\ \A op \in Guarded : Path(op)[1] = "assertCurrentRun"
  /\ \A op \in Ends : Path(op)[1] = "readRun"
  /\ Path("recordReviewLifecycleEvent")[1] = "selectEvent"
  /\ Path("reap")[1] = "sweep"
BY AllocatePath, DispatchPath, TerminalPath, PersistPath, RecordPath, ReapPath DEF Guarded

LEMMA OpsAreDistinct ==
  /\ Ops = {"allocateRun", "reap"} \cup Transitions \cup Milestones
  /\ Ends = {"finalizeReviewRun", "recordRunFailed", "recordRunCancelled"}
BY DEF Ops, Transitions, Milestones, Ends, EndOf

LEMMA OpenInv ==
  ASSUME Inv, NEW s \in Slots, NEW op \in Ops, NEW r \in Runs, Open(s, op, r)
  PROVE  Inv'
<1> DEFINE u == [Idle EXCEPT !.op = op, !.run = r, !.at = Path(op)[1]]
<1>1. Becomes(s, u) /\ MayOpen(op, r)
  BY DEF Open
<1>2. /\ u.op = op /\ u.run = r /\ u.at = Path(op)[1] /\ u.locks = {} /\ u.old = NoRun
      /\ u.stale = FALSE /\ u.rows = {} /\ u.log = {} /\ u.point = NoRun /\ u.wrote = NoRun
  BY DEF Idle
<1>3. u.at \in Places
  BY <1>2, FirstPlaces, OpsAreDistinct DEF Places, Transitions, Milestones, Guarded
<1>4. u \in OpenTx
  BY <1>3 DEF OpenTx, Idle, RunOrNone
<1> HIDE DEF u
<1>5. row[r].state = "UNBORN" <=> op = "allocateRun"
  <2>1. \A e \in stream : row[e.run].state # "UNBORN"
    BY DEF Inv, TablesInv
  <2> QED
    BY <1>1, <2>1 DEF MayOpen, Minted, Logged
<1>6. Ok(u)
  <2>1. Placed(u)
    BY <1>2, FirstPlaces, OpsAreDistinct
       DEF Placed, PlacesOf, Transitions, Milestones, Guarded, Emission4, Emitting
  <2>2. Locked(u)
    BY <1>2, FirstPlaces, OpsAreDistinct DEF Locked, Transitions, Milestones, Guarded, Emitting
  <2>3. HoldsOnly(u)
    BY <1>2 DEF HoldsOnly
  <2>4. Sees(u)
    BY <1>1, <1>2, <1>5, FirstPlaces, OpsAreDistinct
       DEF Sees, MayOpen, Transitions, Milestones, Guarded, Emission4, Emitting
  <2>5. Wrote(u)
    BY <1>2, FirstPlaces, OpsAreDistinct
       DEF Wrote, AllocateWrote, TransitionWrote, MilestoneWrote, ReapWrote, Transitions,
           Milestones, Guarded, Emission4, Emitting
  <2> QED
    BY <2>1, <2>2, <2>3, <2>4, <2>5 DEF Ok
<1>7. ASSUME NEW q \in Slots, q # s PROVE Apart(u, tx[q]) /\ Apart(tx[q], u)
  <2>1. tx[q].op = "allocateRun" /\ op = "allocateRun" => tx[q].run # r
    BY <1>1 DEF MayOpen, Minted
  <2> QED
    BY <1>2, <2>1 DEF Apart
<1>8. tx' = [tx EXCEPT ![s] = u] /\ UNCHANGED <<row, pointer, stream, minted, writer>>
  BY <1>1 DEF Becomes
<1>9. TypeInv'
  BY <1>4, <1>8 DEF Inv, TypeInv
<1>10. TablesInv'
  BY <1>8, TablesStay DEF Inv
<1>11. \A q \in Slots : tx'[q] = IF q = s THEN u ELSE tx[q]
  BY <1>8 DEF Inv, TypeInv
<1>12. ASSUME NEW q \in Slots, tx'[q] # Idle PROVE Ok(tx[q])'
  <2> DEFINE v == tx'[q]
  <2>1. Ok(v)
    BY <1>6, <1>11, <1>12 DEF Inv
  <2> QED
    BY <1>8, <2>1, OkStays
<1>13. \A p, q \in Slots : p # q => Apart(tx'[p], tx'[q])
  BY <1>7, <1>11 DEF Inv
<1> QED
  BY <1>9, <1>10, <1>12, <1>13 DEF Inv, Apart

LEMMA PlacesAre ==
  /\ PlacesOf("allocateRun") = {"lockReview", "supersede", "insertRun", "end"} \cup Emission4
  /\ PlacesOf("dispatchRow") = {"assertCurrentRun", "readRun", "updateRun", "end"} \cup Emission4
  /\ \A op \in Ends : PlacesOf(op) = {"readRun", "updateRun", "end"} \cup Emission4
  /\ PlacesOf("persistAggregated") = {"assertCurrentRun", "selectEvent", "end"} \cup Emission4
  /\ PlacesOf("recordReviewLifecycleEvent") = {"selectEvent", "end"} \cup Emission4
  /\ PlacesOf("reap") = {"sweep", "end"}
BY DEF PlacesOf, Ends, EndOf

\* The place of a statement tells whose it is.
LEMMA WhoIsAt ==
  ASSUME NEW t, t.op \in Ops, Placed(t)
  PROVE  /\ t.at \in {"lockReview", "supersede", "insertRun"} => t.op = "allocateRun"
         /\ t.at = "assertCurrentRun" => t.op \in Guarded
         /\ t.at \in {"readRun", "updateRun"} => t.op \in Transitions
         /\ t.at = "selectEvent" => t.op \in Milestones
         /\ t.at = "sweep" => t.op = "reap"
         /\ t.at \in Emission4 => t.op # "reap"
         /\ t.at \in Places
BY OpsAreDistinct
   DEF Placed, PlacesOf, Transitions, Milestones, Guarded, Emission4, Emitting, Places

LEMMA DoneIsOpen ==
  ASSUME NEW t \in OpenTx, Placed(t), t.at # "end",
         t.op = "allocateRun" /\ t.at \in Emission4 => t.old \in Runs
  PROVE  Done(t) \in OpenTx
<1>1. t.op \in Ops
  BY DEF OpenTx
<1>2. NextPlace(t) \in Places
  BY <1>1, WhoIsAt, NextPlaces, OpsAreDistinct
     DEF Transitions, Milestones, Guarded, Emission4, Emitting, Places
<1>3. t.locks \cup Wants(t) \in SUBSET Locks
  BY WantsType DEF OpenTx
<1> QED
  BY <1>2, <1>3, DoneFields DEF OpenTx

\* The locks of the tables are of three kinds.
LEMMA LockKinds ==
  /\ \A r : ReviewRow # RunRow(r) /\ ReviewRow # LogLock(r)
  /\ \A r, q : RunRow(r) # LogLock(q)
  /\ \A r, q : RunRow(r) = RunRow(q) => r = q
  /\ \A r, q : LogLock(r) = LogLock(q) => r = q
BY DEF ReviewRow, RunRow, LogLock

LEMMA LockReviewInv == ASSUME Inv, NEW s \in Slots, LockReview(s) PROVE Inv'
<1> DEFINE t == tx[s]
           u == Done(tx[s])
<1>1. /\ t \in OpenTx /\ t.at = "lockReview" /\ Ok(t) /\ t.op \in Ops
      /\ \A q \in Slots : ~WaitsFor(s, q)
      /\ Becomes(s, u)
  BY Executing DEF LockReview
<1>2. t.op = "allocateRun" /\ ~t.stale
  BY <1>1, WhoIsAt DEF Ok, Placed, Guarded
<1>3. /\ u.op = t.op /\ u.run = t.run /\ u.old = t.old /\ u.stale = t.stale /\ u.rows = t.rows
      /\ u.log = t.log /\ u.point = t.point /\ u.wrote = t.wrote
      /\ u.locks = t.locks \cup {<<ReviewRow, "update">>} /\ u.at = "supersede"
  BY <1>1, <1>2, DoneFields, NextPlaces DEF Wants
<1>4. u \in OpenTx
  BY <1>1, <1>2, DoneIsOpen DEF Ok, Emission4, Emitting
<1> HIDE DEF t, u
<1>5. Placed(u)
  BY <1>2, <1>3, PlacesAre DEF Placed
<1>6. t.log = {} /\ t.rows = {}
  BY <1>1, <1>2 DEF Ok, Wrote, AllocateWrote
<1>7. Locked(u)
  BY <1>2, <1>3, <1>6 DEF Locked, Guarded, Transitions, Ends, EndOf, Emitting
<1>8. HoldsOnly(u)
  BY <1>1, <1>2, <1>3, LockKinds
     DEF Ok, HoldsOnly, Guarded, Transitions, Milestones, Ends, EndOf, Emitting
<1>9. Sees(u)
  BY <1>1, <1>2, <1>3 DEF Ok, Sees, Guarded, Transitions, Milestones, Ends, EndOf
<1>10. Wrote(u)
  BY <1>1, <1>2, <1>3
     DEF Ok, Wrote, AllocateWrote, Transitions, Milestones, Ends, EndOf, Emission4, Emitting
<1> QED
  BY <1>1, <1>3, <1>4, <1>5, <1>7, <1>8, <1>9, <1>10, Moves DEF Ok, t, u, Wants

LEMMA SupersedeRunInv == ASSUME Inv, NEW s \in Slots, SupersedeRun(s) PROVE Inv'
<1> DEFINE t == tx[s]
<1>1. /\ t \in OpenTx /\ t.at = "supersede" /\ Ok(t) /\ t.op \in Ops
      /\ \A q \in Slots : ~WaitsFor(s, q)
  BY Executing DEF SupersedeRun
<1>2. t.op = "allocateRun" /\ ~t.stale
  BY <1>1, WhoIsAt DEF Ok, Placed, Guarded
<1>3. Done(t) \in OpenTx
  BY <1>1, <1>2, DoneIsOpen DEF Ok, Emission4, Emitting
<1>4. t.old = NoRun /\ t.rows = {} /\ t.log = {} /\ t.wrote = NoRun /\ t.point = NoRun
  BY <1>1, <1>2 DEF Ok, Wrote, AllocateWrote
<1>5. Wants(t) = {<<RunRow(r), "noKey">> : r \in Active}
  BY <1>1 DEF Wants
<1>6. ASSUME NEW u \in OpenTx, Becomes(s, u), u.op = t.op, u.run = t.run, u.stale = t.stale,
             u.log = {}, u.wrote = NoRun, u.point = NoRun, u.locks = t.locks \cup Wants(t),
             u.rows = Superseded, u.at \in {"insertRun", "lockLog"},
             u.at = "lockLog" => Active # {},
             IF Active = {} THEN u.old = NoRun ELSE u.old \in Active,
             u.at = "insertRun" => Active = {}
      PROVE  Inv'
  <2>1. Placed(u)
    BY <1>2, <1>6, PlacesAre DEF Placed, Emission4
  <2>2. \A r \in Active : <<RunRow(r), "noKey">> \in u.locks
    BY <1>5, <1>6
  <2>3. \A w \in u.rows : w.run \in Active
    BY <1>6 DEF Superseded
  <2>4. Locked(u)
    BY <1>1, <1>2, <1>6, <2>2, <2>3 DEF Ok, Locked, Guarded, Transitions, Ends, EndOf, Emitting
  <2>5. \A l \in Wants(t) : \E r \in Active : l = <<RunRow(r), "noKey">>
    BY <1>5
  <2>6. HoldsOnly(u)
    BY <1>1, <1>2, <1>6, <2>5, LockKinds
       DEF Ok, HoldsOnly, Guarded, Milestones, Ends, EndOf, Emitting
  <2>7. Sees(u)
    BY <1>1, <1>2, <1>6 DEF Ok, Sees, Guarded, Transitions, Milestones, Ends, EndOf
  <2>8. NoRun \notin Active
    BY NullsAssumption DEF Active
  <2>9. AllocateWrote(u)
    BY <1>6, <2>8 DEF AllocateWrote, Emission4, Emitting
  <2>10. Wrote(u)
    BY <1>2, <1>6, <2>9 DEF Wrote, Transitions, Milestones, Ends, EndOf
  <2> QED
    BY <1>1, <1>6, <2>1, <2>4, <2>6, <2>7, <2>10, Moves DEF Ok
<1>7. NextPlace(t) = "lockLog"
  BY <1>1, <1>2, NextPlaces
<1>8. CASE Active = {}
  <2> DEFINE u == [Done(t) EXCEPT !.at = "insertRun"]
  <2>1. Becomes(s, u)
    BY <1>8 DEF SupersedeRun
  <2>2. u \in OpenTx
    BY <1>3 DEF OpenTx, Places
  <2>3. /\ u.op = t.op /\ u.run = t.run /\ u.old = t.old /\ u.stale = t.stale
        /\ u.rows = t.rows /\ u.log = t.log /\ u.point = t.point /\ u.wrote = t.wrote
        /\ u.locks = t.locks \cup Wants(t) /\ u.at = "insertRun"
    BY <1>1, <1>3, DoneFields DEF OpenTx
  <2>4. Superseded = {}
    BY <1>8 DEF Superseded
  <2> QED
    BY <1>4, <1>6, <1>8, <2>1, <2>2, <2>3, <2>4
<1>9. CASE Active # {}
  <2>1. PICK old \in Active : Becomes(s, [Done(t) EXCEPT !.old = old, !.rows = Superseded])
    BY <1>9 DEF SupersedeRun, Superseded
  <2> DEFINE u == [Done(t) EXCEPT !.old = old, !.rows = Superseded]
  <2>2. Superseded \subseteq Changes /\ old \in RunOrNone
    BY DEF Superseded, Changes, Active, States, RunOrNone
  <2>3. u \in OpenTx
    BY <1>3, <2>2 DEF OpenTx
  <2>4. /\ u.op = t.op /\ u.run = t.run /\ u.old = old /\ u.stale = t.stale
        /\ u.rows = Superseded /\ u.log = t.log /\ u.point = t.point /\ u.wrote = t.wrote
        /\ u.locks = t.locks \cup Wants(t) /\ u.at = "lockLog"
    BY <1>1, <1>3, <1>7, DoneFields DEF OpenTx
  <2> QED
    BY <1>4, <1>6, <1>9, <2>1, <2>3, <2>4
<1> QED
  BY <1>8, <1>9

LEMMA InsertRunInv == ASSUME Inv, NEW s \in Slots, InsertRun(s) PROVE Inv'
<1> DEFINE t == tx[s]
<1>1. /\ t \in OpenTx /\ t.at = "insertRun" /\ Ok(t) /\ t.op \in Ops /\ t.run \in Runs
      /\ \A q \in Slots : ~WaitsFor(s, q)
  BY Executing DEF InsertRun
<1>2. t.op = "allocateRun" /\ ~t.stale
  BY <1>1, WhoIsAt DEF Ok, Placed, Guarded
<1>3. CASE t.old \notin {NoRun, pointer}
  BY <1>3, RollsBack DEF InsertRun
<1>4. CASE t.old \in {NoRun, pointer}
  <2> DEFINE u == [Done(t) EXCEPT !.point = t.run, !.rows = t.rows \cup {Inserted(t)},
                                  !.log = t.log \cup {Received(t)}]
  <2>1. Done(t) \in OpenTx
    BY <1>1, <1>2, DoneIsOpen DEF Ok, Emission4, Emitting
  <2>2. /\ Done(t).op = t.op /\ Done(t).run = t.run /\ Done(t).old = t.old
        /\ Done(t).stale = t.stale /\ Done(t).wrote = t.wrote /\ Done(t).rows = t.rows
        /\ Done(t).log = t.log /\ Done(t).locks = t.locks /\ Done(t).at = "end"
    <3>1. Wants(t) = {}
      BY <1>1 DEF Wants
    <3>2. NextPlace(t) = "end"
      BY <1>1, <1>2, NextPlaces
    <3>3. t.locks \cup {} = t.locks
      BY <1>1 DEF OpenTx
    <3> HIDE DEF t
    <3> QED
      BY <1>1, <3>1, <3>2, <3>3, DoneFields
  <2>3. Becomes(s, u)
    BY <1>4, <2>1, <2>2 DEF InsertRun, Inserted, Received, OpenTx
  <2>4. /\ u.op = t.op /\ u.run = t.run /\ u.old = t.old /\ u.stale = t.stale
        /\ u.rows = t.rows \cup {Inserted(t)} /\ u.log = t.log \cup {Received(t)}
        /\ u.point = t.run /\ u.wrote = t.wrote /\ u.locks = t.locks /\ u.at = "end"
    BY <2>1, <2>2 DEF OpenTx
  <2>5. Inserted(t) \in Changes /\ Received(t) \in EventRows /\ t.run \in RunOrNone
    <3>1. \A r \in Runs : EventRow(r, 1, "WEBHOOK_RECEIVED", "none") \in EventRows
      BY DEF EventRows, EventRow, EventTypes
    <3>2. \A r \in Runs : [run |-> r, change |-> "inserted", to |-> "PENDING"] \in Changes
      BY DEF Changes, States
    <3> QED
      BY <1>1, <3>1, <3>2 DEF Inserted, Received, RunOrNone
  <2>6. u \in OpenTx
    BY <1>1, <2>1, <2>5 DEF OpenTx
  <2> HIDE DEF u
  <2>7. /\ t.rows = Superseded /\ t.log = IF t.old = NoRun THEN {} ELSE NewRows(t)
        /\ t.wrote = NoRun /\ IF Active = {} THEN t.old = NoRun ELSE t.old \in Active
    BY <1>1, <1>2 DEF Ok, Wrote, AllocateWrote
  <2>8. NewRows(u) = NewRows(t) /\ Received(u) = Received(t) /\ Inserted(u) = Inserted(t)
    BY <2>4 DEF NewRows, Received, Inserted, Subject, Emitted
  <2>9. Placed(u)
    BY <1>2, <2>4, PlacesAre DEF Placed
  <2>10. Received(t).run = t.run /\ Inserted(t).run = t.run
    BY DEF Received, Inserted, EventRow
  <2>11. Locked(u)
    BY <1>1, <1>2, <2>4, <2>10 DEF Ok, Locked, Guarded, Transitions, Ends, EndOf, Emitting
  <2>12. HoldsOnly(u)
    BY <1>1, <1>2, <2>4, LockKinds
       DEF Ok, HoldsOnly, Guarded, Milestones, Ends, EndOf, Emitting
  <2>13. Sees(u)
    BY <1>1, <1>2, <2>4 DEF Ok, Sees, Guarded, Transitions, Milestones, Ends, EndOf
  <2>14. AllocateWrote(u)
    BY <1>4, <2>4, <2>7, <2>8 DEF AllocateWrote, Emission4, Emitting
  <2>15. Wrote(u)
    BY <1>2, <2>4, <2>14 DEF Wrote, Transitions, Milestones, Ends, EndOf
  <2> QED
    BY <1>1, <2>3, <2>4, <2>6, <2>9, <2>11, <2>12, <2>13, <2>15, Moves DEF Ok
<1> QED
  BY <1>3, <1>4

LEMMA AssertCurrentRunInv == ASSUME Inv, NEW s \in Slots, AssertCurrentRun(s) PROVE Inv'
<1> DEFINE t == tx[s]
<1>1. /\ t \in OpenTx /\ t.at = "assertCurrentRun" /\ Ok(t) /\ t.op \in Ops /\ t.run \in Runs
      /\ \A q \in Slots : ~WaitsFor(s, q)
  BY Executing DEF AssertCurrentRun
<1>2. t.op \in Guarded /\ ~t.stale
  BY <1>1, WhoIsAt DEF Ok, Placed, Emission4, Emitting
<1>3. Done(t) \in OpenTx
  BY <1>1, <1>2, DoneIsOpen DEF Ok, Emission4, Emitting
<1>4. t.rows = {} /\ t.log = {} /\ t.wrote = NoRun /\ t.old = NoRun /\ t.point = NoRun
  BY <1>1, <1>2 DEF Ok, Wrote, TransitionWrote, MilestoneWrote, Guarded, Transitions, Milestones
<1>5. Wants(t) = {<<ReviewRow, "share">>}
  BY <1>1 DEF Wants
<1>6. ASSUME NEW u \in OpenTx, Becomes(s, u), u.op = t.op, u.run = t.run,
             u.stale <=> pointer # t.run, u.old = NoRun, u.rows = {}, u.log = {}, u.point = NoRun,
             u.locks = t.locks \cup Wants(t),
             u.wrote = IF t.op = "persistAggregated" /\ ~u.stale THEN t.run ELSE NoRun,
             u.at = IF u.stale THEN "lockLog"
                    ELSE IF t.op = "dispatchRow" THEN "readRun" ELSE "selectEvent"
      PROVE  Inv'
  <2>1. Placed(u)
    BY <1>2, <1>6, PlacesAre DEF Placed, Guarded, Emission4
  <2>2. Locked(u)
    BY <1>1, <1>2, <1>5, <1>6 DEF Ok, Locked, Guarded, Transitions, Ends, EndOf, Emitting
  <2>3. HoldsOnly(u)
    BY <1>1, <1>2, <1>5, <1>6, LockKinds
       DEF Ok, HoldsOnly, Guarded, Milestones, Ends, EndOf, Emitting
  <2>4. Sees(u)
    BY <1>1, <1>2, <1>6
       DEF Ok, Sees, Guarded, Transitions, Milestones, Ends, EndOf, Emission4, Emitting
  <2>5. t.op # "allocateRun" /\ t.op # "reap" /\ t.op \notin Ends
    BY <1>2 DEF Guarded, Ends, EndOf
  <2>6. u.at \in {"lockLog", "readRun", "selectEvent"}
    BY <1>6
  <2>7. t.op = "dispatchRow" => TransitionWrote(u)
    BY <1>6, <2>6 DEF TransitionWrote, Emission4, Emitting
  <2>8. t.op = "persistAggregated" => MilestoneWrote(u)
    BY <1>6, <2>6 DEF MilestoneWrote
  <2>9. Wrote(u)
    BY <1>2, <1>6, <2>5, <2>6, <2>7, <2>8 DEF Wrote, Transitions, Milestones, Guarded
  <2> QED
    BY <1>1, <1>6, <2>1, <2>2, <2>3, <2>4, <2>9, Moves DEF Ok
<1>7. NextPlace(t) = IF t.op = "dispatchRow" THEN "readRun" ELSE "selectEvent"
  BY <1>1, <1>2, NextPlaces DEF Guarded
<1>8. CASE pointer = t.run
  <2> DEFINE w == IF t.op = "persistAggregated" THEN t.run ELSE NoRun
             u == [Done(t) EXCEPT !.wrote = w]
  <2>1. Becomes(s, u)
    BY <1>8 DEF AssertCurrentRun
  <2>2. w \in RunOrNone
    BY <1>1 DEF RunOrNone
  <2>3. u \in OpenTx
    BY <1>3, <2>2 DEF OpenTx
  <2>4. /\ u.op = t.op /\ u.run = t.run /\ u.old = t.old /\ u.stale = t.stale
        /\ u.rows = t.rows /\ u.log = t.log /\ u.point = t.point /\ u.wrote = w
        /\ u.locks = t.locks \cup Wants(t) /\ u.at = NextPlace(t)
    BY <1>1, <1>3, DoneFields DEF OpenTx
  <2> QED
    BY <1>2, <1>4, <1>6, <1>7, <1>8, <2>1, <2>3, <2>4
<1>9. CASE pointer # t.run
  <2> DEFINE u == [Done(t) EXCEPT !.stale = TRUE, !.at = "lockLog"]
  <2>1. Becomes(s, u)
    BY <1>9 DEF AssertCurrentRun
  <2>2. u \in OpenTx
    BY <1>3 DEF OpenTx, Places
  <2>3. /\ u.op = t.op /\ u.run = t.run /\ u.old = t.old /\ u.stale = TRUE
        /\ u.rows = t.rows /\ u.log = t.log /\ u.point = t.point /\ u.wrote = t.wrote
        /\ u.locks = t.locks \cup Wants(t) /\ u.at = "lockLog"
    BY <1>1, <1>3, DoneFields DEF OpenTx
  <2> QED
    BY <1>4, <1>6, <1>9, <2>1, <2>2, <2>3
<1> QED
  BY <1>8, <1>9

LEMMA ReadRunInv == ASSUME Inv, NEW s \in Slots, ReadRun(s) PROVE Inv'
<1> DEFINE t == tx[s]
<1>1. /\ t \in OpenTx /\ t.at = "readRun" /\ Ok(t) /\ t.op \in Ops /\ t.run \in Runs
      /\ \A q \in Slots : ~WaitsFor(s, q)
  BY Executing DEF ReadRun
<1>2. t.op \in Transitions /\ ~t.stale
  BY <1>1, WhoIsAt DEF Ok, Placed, Emission4, Emitting
<1>3. Done(t) \in OpenTx
  BY <1>1, <1>2, DoneIsOpen DEF Ok, Emission4, Emitting
<1>4. t.rows = {} /\ t.log = {} /\ t.wrote = NoRun /\ t.old = NoRun /\ t.point = NoRun
  BY <1>1, <1>2 DEF Ok, Wrote, TransitionWrote, Transitions, Ends, EndOf
<1>5. Wants(t) = {<<RunRow(t.run), "update">>}
  BY <1>1 DEF Wants
<1>6. ASSUME NEW u \in OpenTx, Becomes(s, u), u.op = t.op, u.run = t.run, u.stale = t.stale,
             u.old = NoRun, u.rows = {}, u.log = {}, u.point = NoRun, u.wrote = NoRun,
             u.locks = t.locks \cup Wants(t), u.at \in {"end", "updateRun"},
             u.at = "updateRun" => row[t.run].state = From(t.op)
      PROVE  Inv'
  <2>1. Placed(u)
    BY <1>2, <1>6, PlacesAre DEF Placed, Transitions
  <2>2. Locked(u)
    BY <1>1, <1>2, <1>5, <1>6 DEF Ok, Locked, Guarded, Transitions, Ends, EndOf, Emitting
  <2>3. HoldsOnly(u)
    BY <1>1, <1>2, <1>5, <1>6, LockKinds
       DEF Ok, HoldsOnly, Guarded, Transitions, Milestones, Ends, EndOf, Emitting
  <2>4. Sees(u)
    BY <1>1, <1>2, <1>6
       DEF Ok, Sees, Guarded, Transitions, Milestones, Ends, EndOf, Emission4, Emitting
  <2>5. t.op # "allocateRun" /\ t.op # "reap" /\ t.op \notin Milestones
    BY <1>2 DEF Transitions, Milestones, Ends, EndOf
  <2>6. TransitionWrote(u)
    BY <1>6 DEF TransitionWrote, Emission4, Emitting
  <2>7. Wrote(u)
    BY <1>6, <2>5, <2>6 DEF Wrote
  <2> QED
    BY <1>1, <1>6, <2>1, <2>2, <2>3, <2>4, <2>7, Moves DEF Ok
<1>7. NextPlace(t) = "updateRun"
  BY <1>1, <1>2, NextPlaces DEF Transitions
<1>8. CASE Becomes(s, Skip(t))
  <2> DEFINE u == [Done(t) EXCEPT !.at = "end"]
  <2>1. Becomes(s, u)
    BY <1>8 DEF Skip
  <2>2. u \in OpenTx
    BY <1>3 DEF OpenTx, Places
  <2>3. /\ u.op = t.op /\ u.run = t.run /\ u.old = t.old /\ u.stale = t.stale
        /\ u.rows = t.rows /\ u.log = t.log /\ u.point = t.point /\ u.wrote = t.wrote
        /\ u.locks = t.locks \cup Wants(t) /\ u.at = "end"
    BY <1>1, <1>3, DoneFields DEF OpenTx
  <2> QED
    BY <1>4, <1>6, <2>1, <2>2, <2>3
<1>9. CASE row[t.run].state = From(t.op) /\ Becomes(s, Done(t))
  <2> DEFINE u == Done(t)
  <2>1. /\ u.op = t.op /\ u.run = t.run /\ u.old = t.old /\ u.stale = t.stale
        /\ u.rows = t.rows /\ u.log = t.log /\ u.point = t.point /\ u.wrote = t.wrote
        /\ u.locks = t.locks \cup Wants(t) /\ u.at = "updateRun"
    BY <1>1, <1>7, DoneFields
  <2> HIDE DEF u
  <2> QED
    BY <1>3, <1>4, <1>6, <1>9, <2>1 DEF u
<1> QED
  BY <1>8, <1>9, RollsBack DEF ReadRun

LEMMA UpdateRunInv == ASSUME Inv, NEW s \in Slots, UpdateRun(s) PROVE Inv'
<1> DEFINE t == tx[s]
           u == [Done(t) EXCEPT !.rows = {Transitioned(t)}]
<1>1. /\ t \in OpenTx /\ t.at = "updateRun" /\ Ok(t) /\ t.op \in Ops /\ t.run \in Runs
      /\ \A q \in Slots : ~WaitsFor(s, q)
  BY Executing DEF UpdateRun
<1>2. t.op \in Transitions /\ ~t.stale
  BY <1>1, WhoIsAt DEF Ok, Placed, Emission4, Emitting
<1>3. Done(t) \in OpenTx
  BY <1>1, <1>2, DoneIsOpen DEF Ok, Emission4, Emitting
<1>4. t.log = {} /\ t.wrote = NoRun /\ t.old = NoRun /\ t.point = NoRun
  BY <1>1, <1>2 DEF Ok, Wrote, TransitionWrote, Transitions, Ends, EndOf
<1>5. Wants(t) = {<<RunRow(t.run), "noKey">>}
  BY <1>1 DEF Wants
<1>6. NextPlace(t) = "lockLog"
  BY <1>1, <1>2, NextPlaces DEF Transitions
<1>7. To(t.op) \in States
  BY <1>2 DEF To, Transitions, Ends, EndOf, States
<1>8. Transitioned(t) \in Changes /\ Transitioned(t).run = t.run
  BY <1>1, <1>7 DEF Transitioned, Changes
<1>9. Becomes(s, u)
  BY DEF UpdateRun, Transitioned
<1>10. u \in OpenTx
  BY <1>3, <1>8 DEF OpenTx
<1>11. /\ u.op = t.op /\ u.run = t.run /\ u.old = t.old /\ u.stale = t.stale
       /\ u.rows = {Transitioned(t)} /\ u.log = t.log /\ u.point = t.point /\ u.wrote = t.wrote
       /\ u.locks = t.locks \cup Wants(t) /\ u.at = "lockLog"
  BY <1>1, <1>3, <1>6, DoneFields DEF OpenTx
<1> HIDE DEF u
<1>12. Transitioned(u) = Transitioned(t)
  BY <1>11 DEF Transitioned
<1>13. Placed(u)
  BY <1>2, <1>11, PlacesAre DEF Placed, Transitions, Emission4
<1>14. Locked(u)
  BY <1>1, <1>2, <1>4, <1>5, <1>8, <1>11
     DEF Ok, Locked, Guarded, Transitions, Ends, EndOf, Emitting
<1>15. HoldsOnly(u)
  BY <1>1, <1>2, <1>5, <1>11, LockKinds
     DEF Ok, HoldsOnly, Guarded, Transitions, Milestones, Ends, EndOf, Emitting
<1>16. Sees(u)
  BY <1>1, <1>2, <1>11 DEF Ok, Sees, Guarded, Transitions, Milestones, Ends, EndOf
<1>17. t.op # "allocateRun" /\ t.op # "reap" /\ t.op \notin Milestones
  BY <1>2 DEF Transitions, Milestones, Ends, EndOf
<1>18. TransitionWrote(u)
  BY <1>2, <1>4, <1>11, <1>12 DEF TransitionWrote
<1>19. Wrote(u)
  BY <1>4, <1>11, <1>17, <1>18 DEF Wrote
<1> QED
  BY <1>1, <1>9, <1>10, <1>11, <1>13, <1>14, <1>15, <1>16, <1>19, Moves DEF Ok

LEMMA SelectEventInv == ASSUME Inv, NEW s \in Slots, SelectEvent(s) PROVE Inv'
<1> DEFINE t == tx[s]
<1>1. /\ t \in OpenTx /\ t.at = "selectEvent" /\ Ok(t) /\ t.op \in Ops /\ t.run \in Runs
      /\ \A q \in Slots : ~WaitsFor(s, q)
  BY Executing DEF SelectEvent
<1>2. t.op \in Milestones /\ ~t.stale
  BY <1>1, WhoIsAt DEF Ok, Placed, Emission4, Emitting
<1>3. Done(t) \in OpenTx
  BY <1>1, <1>2, DoneIsOpen DEF Ok, Emission4, Emitting
<1>4. /\ t.rows = {} /\ t.log = {} /\ t.old = NoRun /\ t.point = NoRun
      /\ t.wrote = IF t.op = "persistAggregated" THEN t.run ELSE NoRun
  BY <1>1, <1>2 DEF Ok, Wrote, MilestoneWrote, Milestones
<1>5. Wants(t) = {}
  BY <1>1 DEF Wants
<1>6. ASSUME NEW u \in OpenTx, Becomes(s, u), u.op = t.op, u.run = t.run, u.stale = t.stale,
             u.old = NoRun, u.rows = {}, u.log = {}, u.point = NoRun, u.wrote = t.wrote,
             u.locks = t.locks, u.at \in {"end", "lockLog"},
             u.at = "end" => Logged(t.run, MilestoneOf(t.op))
      PROVE  Inv'
  <2>1. Placed(u)
    BY <1>2, <1>6, PlacesAre DEF Placed, Milestones, Emission4
  <2>2. Locked(u)
    BY <1>1, <1>2, <1>6 DEF Ok, Locked, Guarded, Milestones, Transitions, Ends, EndOf, Emitting
  <2>3. HoldsOnly(u)
    BY <1>1, <1>2, <1>6, LockKinds
       DEF Ok, HoldsOnly, Guarded, Transitions, Milestones, Ends, EndOf, Emitting
  <2>4. Sees(u)
    BY <1>1, <1>2, <1>6
       DEF Ok, Sees, Guarded, Transitions, Milestones, Ends, EndOf, Emission4, Emitting
  <2>5. t.op # "allocateRun" /\ t.op # "reap" /\ t.op \notin Transitions
    BY <1>2 DEF Transitions, Milestones, Ends, EndOf
  <2>6. MilestoneWrote(u)
    BY <1>2, <1>4, <1>6 DEF MilestoneWrote
  <2>7. Wrote(u)
    BY <1>6, <2>5, <2>6 DEF Wrote
  <2> QED
    BY <1>1, <1>6, <2>1, <2>2, <2>3, <2>4, <2>7, Moves DEF Ok
<1>7. NextPlace(t) = "lockLog"
  BY <1>1, <1>2, NextPlaces DEF Milestones
<1>8. t.locks \cup Wants(t) = t.locks
  BY <1>5
<1>9. Becomes(s, IF Logged(t.run, MilestoneOf(t.op)) THEN Skip(t) ELSE Done(t))
  BY DEF SelectEvent, MilestoneOf
<1>10. CASE Logged(t.run, MilestoneOf(t.op))
  <2> DEFINE u == [Done(t) EXCEPT !.at = "end"]
  <2>1. Becomes(s, u)
    BY <1>9, <1>10 DEF Skip
  <2>2. u \in OpenTx
    BY <1>3 DEF OpenTx, Places
  <2>3. /\ u.op = t.op /\ u.run = t.run /\ u.old = t.old /\ u.stale = t.stale
        /\ u.rows = t.rows /\ u.log = t.log /\ u.point = t.point /\ u.wrote = t.wrote
        /\ u.locks = t.locks /\ u.at = "end"
    BY <1>1, <1>3, <1>8, DoneFields DEF OpenTx
  <2> QED
    BY <1>4, <1>6, <1>10, <2>1, <2>2, <2>3
<1>11. CASE ~Logged(t.run, MilestoneOf(t.op))
  <2> DEFINE u == Done(t)
  <2>1. /\ u.op = t.op /\ u.run = t.run /\ u.old = t.old /\ u.stale = t.stale
        /\ u.rows = t.rows /\ u.log = t.log /\ u.point = t.point /\ u.wrote = t.wrote
        /\ u.locks = t.locks /\ u.at = "lockLog"
    BY <1>1, <1>7, <1>8, DoneFields
  <2>2. Becomes(s, u)
    BY <1>9, <1>11
  <2> HIDE DEF u
  <2> QED
    BY <1>3, <1>4, <1>6, <2>1, <2>2 DEF u
<1> QED
  BY <1>10, <1>11

LEMMA SweepInv == ASSUME Inv, NEW s \in Slots, Sweep(s) PROVE Inv'
<1> DEFINE t == tx[s]
           swept == {[run |-> r, change |-> "timeout", to |-> "CANCELLED"] : r \in Running}
           u == [Done(t) EXCEPT !.rows = swept]
<1>1. /\ t \in OpenTx /\ t.at = "sweep" /\ Ok(t) /\ t.op \in Ops /\ t.run \in Runs
      /\ \A q \in Slots : ~WaitsFor(s, q)
  BY Executing DEF Sweep
<1>2. t.op = "reap" /\ ~t.stale
  BY <1>1, WhoIsAt DEF Ok, Placed, Guarded
<1>3. Done(t) \in OpenTx
  BY <1>1, <1>2, DoneIsOpen DEF Ok, Emission4, Emitting
<1>4. t.log = {} /\ t.wrote = NoRun /\ t.old = NoRun /\ t.point = NoRun
  BY <1>1, <1>2 DEF Ok, Wrote, ReapWrote
<1>5. Wants(t) = {<<RunRow(r), "noKey">> : r \in Running}
  BY <1>1 DEF Wants
<1>6. NextPlace(t) = "end"
  BY <1>1, <1>2, NextPlaces
<1>7. swept \subseteq Changes
  BY DEF Running, Changes, States
<1>8. Becomes(s, u)
  BY DEF Sweep
<1>9. u \in OpenTx
  BY <1>3, <1>7 DEF OpenTx
<1>10. /\ u.op = t.op /\ u.run = t.run /\ u.old = t.old /\ u.stale = t.stale
       /\ u.rows = swept /\ u.log = t.log /\ u.point = t.point /\ u.wrote = t.wrote
       /\ u.locks = t.locks \cup Wants(t) /\ u.at = "end"
  BY <1>1, <1>3, <1>6, DoneFields DEF OpenTx
<1>11. \A w \in swept : w.change = "timeout" /\ w.to = "CANCELLED" /\ w.run \in Running
  OBVIOUS
<1> HIDE DEF u, swept
<1>12. Placed(u)
  BY <1>2, <1>10, PlacesAre DEF Placed
<1>13. Locked(u)
  BY <1>2, <1>4, <1>5, <1>10, <1>11 DEF Locked, Guarded, Transitions, Ends, EndOf, Emitting
<1>14. \A l \in Wants(t) : \E r \in Running : l = <<RunRow(r), "noKey">>
  BY <1>5
<1>15. HoldsOnly(u)
  BY <1>1, <1>2, <1>10, <1>14, LockKinds
     DEF Ok, HoldsOnly, Guarded, Transitions, Milestones, Ends, EndOf, Emitting
<1>16. Sees(u)
  BY <1>1, <1>2, <1>10 DEF Ok, Sees, Guarded, Transitions, Milestones, Ends, EndOf
<1>17. ReapWrote(u)
  BY <1>4, <1>10, <1>11 DEF ReapWrote
<1>18. Wrote(u)
  BY <1>2, <1>4, <1>10, <1>17 DEF Wrote, Transitions, Milestones, Ends, EndOf
<1> QED
  BY <1>1, <1>8, <1>9, <1>10, <1>12, <1>13, <1>15, <1>16, <1>18, Moves DEF Ok

LEMMA NewRowsOfTheSame ==
  ASSUME NEW t, NEW u, u.op = t.op, u.run = t.run, u.old = t.old, u.stale = t.stale
  PROVE  NewRows(u) = NewRows(t) /\ Subject(u) = Subject(t) /\ Transitioned(u) = Transitioned(t)
<1>1. Emitted(u) = Emitted(t)
  BY DEF Emitted
<1>2. Subject(u) = Subject(t)
  BY DEF Subject
<1> QED
  BY <1>1, <1>2 DEF NewRows, Transitioned

LEMMA EmittingSubject ==
  ASSUME NEW t \in OpenTx, Ok(t), t.at \in Emission4
  PROVE  /\ Subject(t) \in Runs /\ t.op # "reap"
         /\ t.op = "allocateRun" => t.old \in Active /\ t.old \in Runs
<1>1. t.op = "allocateRun" => t.old \in Active
  BY DEF Ok, Wrote, AllocateWrote, Emission4, Emitting
<1>2. t.op # "reap"
  BY WhoIsAt DEF Ok, OpenTx
<1> QED
  BY <1>1, <1>2 DEF OpenTx, Subject, Active

\* The greatest number is the number of events.
LEMMA MaxSequenceIs ==
  ASSUME NEW r \in Runs, NEW n \in Nat, Numbers(EventsOf(r), n)
  PROVE  MaxSequence(r) = n
<1> DEFINE S == {e.seq : e \in EventsOf(r)} \cup {0}
<1>1. S = 0..n
  BY DEF Numbers
<1>2. MaxSequence(r) = Max(S)
  BY DEF MaxSequence, EventsOf
<1>3. n \in 0..n /\ \A y \in 0..n : n >= y
  OBVIOUS
<1>4. \A x \in 0..n : (\A y \in 0..n : x >= y) => x = n
  <2> TAKE x \in 0..n
  <2> HAVE \A y \in 0..n : x >= y
  <2> QED
    BY <1>3
<1>5. Max(0..n) = n
  BY <1>3, <1>4 DEF Max
<1> QED
  BY <1>1, <1>2, <1>5

LEMMA MaxSequenceType == ASSUME TablesInv, NEW r \in Runs PROVE MaxSequence(r) \in Nat
<1>1. PICK n \in Nat : Numbers(EventsOf(r), n)
  BY DEF TablesInv
<1> QED
  BY <1>1, MaxSequenceIs

LEMMA EmittedAre ==
  ASSUME NEW t, t.op \in Ops \ {"reap"}
  PROVE  /\ DOMAIN Emitted(t) = IF t.op = "dispatchRow" /\ ~t.stale THEN 1..2 ELSE 1..1
         /\ \A i \in DOMAIN Emitted(t) : /\ Emitted(t)[i][1] \in EventTypes
                                         /\ Emitted(t)[i][2] \in States \cup {"none"}
<1>1. CASE t.stale
  BY <1>1 DEF Emitted, EventTypes
<1>2. CASE ~t.stale /\ t.op = "allocateRun"
  BY <1>2 DEF Emitted, EventTypes, Ends, EndOf
<1>3. CASE ~t.stale /\ t.op = "dispatchRow"
  BY <1>3 DEF Emitted, EventTypes, States, Ends, EndOf
<1>4. CASE ~t.stale /\ t.op \in Ends
  <2>1. t.op # "allocateRun" /\ t.op # "dispatchRow"
    BY <1>4 DEF Ends, EndOf
  <2>2. Emitted(t) = << <<"lifecycle_transition", EndOf[t.op]>> >>
    BY <1>4, <2>1 DEF Emitted, Ends, EndOf
  <2>3. EndOf[t.op] \in States
    BY <1>4 DEF Ends, EndOf, States
  <2> QED
    BY <1>4, <2>1, <2>2, <2>3 DEF EventTypes
<1>5. CASE ~t.stale /\ t.op \in Milestones
  <2>1. t.op \notin Ends /\ t.op # "allocateRun" /\ t.op # "dispatchRow"
    BY <1>5 DEF Milestones, Ends, EndOf
  <2>2. Emitted(t) \in {<< <<"FINDINGS_PERSISTED", "none">> >>, << <<"ANALYZED", "none">> >>}
    BY <1>5, <2>1 DEF Emitted
  <2> QED
    BY <1>5, <2>1, <2>2 DEF EventTypes
<1> QED
  BY <1>1, <1>2, <1>3, <1>4, <1>5, OpsAreDistinct DEF Transitions

LEMMA NewRowsType ==
  ASSUME TablesInv, NEW t \in OpenTx, Ok(t), t.at \in Emission4
  PROVE  NewRows(t) \subseteq EventRows /\ \A e \in NewRows(t) : e.run = Subject(t)
<1>1. Subject(t) \in Runs /\ t.op \in Ops \ {"reap"}
  BY EmittingSubject DEF OpenTx
<1>2. MaxSequence(Subject(t)) \in Nat
  BY <1>1, MaxSequenceType
<1>3. DOMAIN Emitted(t) \subseteq Nat
  BY <1>1, EmittedAre
<1> QED
  BY <1>1, <1>2, <1>3, EmittedAre DEF NewRows, EventRows, EventRow

LEMMA LockLogInv == ASSUME Inv, NEW s \in Slots, LockLog(s) PROVE Inv'
<1> DEFINE t == tx[s]
           u == Done(tx[s])
<1>1. /\ t \in OpenTx /\ t.at = "lockLog" /\ Ok(t) /\ t.op \in Ops /\ t.run \in Runs
      /\ \A q \in Slots : ~WaitsFor(s, q)
      /\ Becomes(s, u)
  BY Executing DEF LockLog
<1>2. Subject(t) \in Runs /\ t.op # "reap" /\ (t.op = "allocateRun" => t.old \in Runs)
  BY <1>1, EmittingSubject DEF Emission4
<1>3. u \in OpenTx
  BY <1>1, <1>2, DoneIsOpen DEF Ok
<1>4. Wants(t) = {<<LogLock(Subject(t)), "update">>}
  BY <1>1 DEF Wants
<1>5. /\ u.op = t.op /\ u.run = t.run /\ u.old = t.old /\ u.stale = t.stale /\ u.rows = t.rows
      /\ u.log = t.log /\ u.point = t.point /\ u.wrote = t.wrote
      /\ u.locks = t.locks \cup Wants(t) /\ u.at = "append"
  BY <1>1, <1>2, DoneFields, NextPlaces
<1> HIDE DEF t, u
<1>6. Placed(u)
  BY <1>1, <1>2, <1>5, PlacesAre, OpsAreDistinct
     DEF Ok, Placed, Transitions, Milestones, Emission4, Emitting
<1>7. Subject(u) = Subject(t)
  BY <1>5, NewRowsOfTheSame
<1>8. Locked(u)
  BY <1>1, <1>4, <1>5, <1>7 DEF Ok, Locked
<1>9. HoldsOnly(u)
  BY <1>1, <1>2, <1>4, <1>5, LockKinds DEF Ok, HoldsOnly, Emitting
<1>10. Sees(u)
  BY <1>1, <1>5 DEF Ok, Sees, Emission4, Emitting
<1>11. Transitioned(u) = Transitioned(t)
  BY <1>5, NewRowsOfTheSame
<1>12. Wrote(u)
  <2>1. t.op = "allocateRun" => AllocateWrote(u)
    BY <1>1, <1>5 DEF Ok, Wrote, AllocateWrote, Emission4, Emitting
  <2>2. t.op \in Transitions => TransitionWrote(u)
    BY <1>1, <1>5, <1>11 DEF Ok, Wrote, TransitionWrote, Emission4, Emitting
  <2>3. t.op \in Milestones => MilestoneWrote(u)
    BY <1>1, <1>5 DEF Ok, Wrote, MilestoneWrote
  <2> QED
    BY <1>1, <1>2, <1>5, <2>1, <2>2, <2>3 DEF Ok, Wrote
<1> QED
  BY <1>1, <1>3, <1>5, <1>6, <1>8, <1>9, <1>10, <1>12, Moves DEF Ok, t, u

LEMMA AppendEventInv == ASSUME Inv, NEW s \in Slots, AppendEvent(s) PROVE Inv'
<1> DEFINE t == tx[s]
           u == [Done(t) EXCEPT !.log = t.log \cup NewRows(t)]
<1>1. /\ t \in OpenTx /\ t.at = "append" /\ Ok(t) /\ t.op \in Ops /\ t.run \in Runs
      /\ \A q \in Slots : ~WaitsFor(s, q)
  BY Executing DEF AppendEvent
<1>2. Subject(t) \in Runs /\ t.op # "reap" /\ (t.op = "allocateRun" => t.old \in Runs)
  BY <1>1, EmittingSubject DEF Emission4, Emitting
<1>3. Done(t) \in OpenTx
  BY <1>1, <1>2, DoneIsOpen DEF Ok
<1>4. Wants(t) = {}
  BY <1>1 DEF Wants
<1>5. NextPlace(t) = "checkReview"
  BY <1>1, <1>2, NextPlaces
<1>6. NewRows(t) \subseteq EventRows /\ \A e \in NewRows(t) : e.run = Subject(t)
  BY <1>1, NewRowsType DEF Inv, Emission4, Emitting
<1>7. Done(t).log = t.log
  BY <1>1, DoneFields
<1>8. Becomes(s, u)
  BY <1>7 DEF AppendEvent, NewRows
<1>9. u \in OpenTx
  BY <1>1, <1>3, <1>6 DEF OpenTx
<1>10. t.locks \cup Wants(t) = t.locks
  BY <1>4
<1>11. /\ u.op = t.op /\ u.run = t.run /\ u.old = t.old /\ u.stale = t.stale /\ u.rows = t.rows
       /\ u.log = t.log \cup NewRows(t) /\ u.point = t.point /\ u.wrote = t.wrote
       /\ u.locks = t.locks /\ u.at = "checkReview"
  BY <1>1, <1>3, <1>5, <1>10, DoneFields DEF OpenTx
<1> HIDE DEF t, u
<1>12. t.log = {}
  BY <1>1 DEF Ok, Wrote, AllocateWrote
<1>13. Placed(u)
  BY <1>1, <1>2, <1>11, PlacesAre, OpsAreDistinct
     DEF Ok, Placed, Transitions, Milestones, Emission4, Emitting
<1>14. NewRows(u) = NewRows(t) /\ Subject(u) = Subject(t) /\ Transitioned(u) = Transitioned(t)
  BY <1>11, NewRowsOfTheSame
<1>15. Locked(u)
  BY <1>1, <1>6, <1>11, <1>12, <1>14 DEF Ok, Locked, Emitting
<1>16. HoldsOnly(u)
  BY <1>1, <1>11 DEF Ok, HoldsOnly, Emitting
<1>17. Sees(u)
  BY <1>1, <1>11 DEF Ok, Sees, Emission4, Emitting
<1>18. Wrote(u)
  <2>1. t.op = "allocateRun" => AllocateWrote(u)
    BY <1>1, <1>11, <1>12, <1>14 DEF Ok, Wrote, AllocateWrote, Emission4, Emitting
  <2>2. t.op \in Transitions => TransitionWrote(u)
    BY <1>1, <1>11, <1>14 DEF Ok, Wrote, TransitionWrote, Emission4, Emitting
  <2>3. t.op \in Milestones => MilestoneWrote(u)
    BY <1>1, <1>11 DEF Ok, Wrote, MilestoneWrote
  <2> QED
    BY <1>1, <1>2, <1>11, <1>12, <1>14, <2>1, <2>2, <2>3 DEF Ok, Wrote
<1> QED
  BY <1>1, <1>4, <1>8, <1>9, <1>11, <1>13, <1>15, <1>16, <1>17, <1>18, Moves DEF Ok, t, u

LEMMA CheckReviewInv == ASSUME Inv, NEW s \in Slots, CheckReview(s) PROVE Inv'
<1> DEFINE t == tx[s]
           u == Done(tx[s])
<1>1. /\ t \in OpenTx /\ t.at = "checkReview" /\ Ok(t) /\ t.op \in Ops /\ t.run \in Runs
      /\ \A q \in Slots : ~WaitsFor(s, q)
      /\ Becomes(s, u)
  BY Executing DEF CheckReview
<1>2. Subject(t) \in Runs /\ t.op # "reap" /\ (t.op = "allocateRun" => t.old \in Runs)
  BY <1>1, EmittingSubject DEF Emission4, Emitting
<1>3. u \in OpenTx
  BY <1>1, <1>2, DoneIsOpen DEF Ok
<1>4. Wants(t) = {<<ReviewRow, "key">>}
  BY <1>1 DEF Wants
<1>5. /\ u.op = t.op /\ u.run = t.run /\ u.old = t.old /\ u.stale = t.stale /\ u.rows = t.rows
      /\ u.log = t.log /\ u.point = t.point /\ u.wrote = t.wrote
      /\ u.locks = t.locks \cup Wants(t) /\ u.at = "checkRun"
  BY <1>1, <1>2, DoneFields, NextPlaces
<1> HIDE DEF t, u
<1>6. Placed(u)
  BY <1>1, <1>2, <1>5, PlacesAre, OpsAreDistinct
     DEF Ok, Placed, Transitions, Milestones, Emission4, Emitting
<1>7. NewRows(u) = NewRows(t) /\ Subject(u) = Subject(t) /\ Transitioned(u) = Transitioned(t)
  BY <1>5, NewRowsOfTheSame
<1>8. Locked(u)
  BY <1>1, <1>5, <1>7 DEF Ok, Locked, Emitting
<1>9. HoldsOnly(u)
  BY <1>1, <1>2, <1>4, <1>5, LockKinds DEF Ok, HoldsOnly, Emitting
<1>10. Sees(u)
  BY <1>1, <1>5 DEF Ok, Sees, Emission4, Emitting
<1>11. Wrote(u)
  <2>1. t.op = "allocateRun" => AllocateWrote(u)
    BY <1>1, <1>5, <1>7 DEF Ok, Wrote, AllocateWrote, Emission4, Emitting
  <2>2. t.op \in Transitions => TransitionWrote(u)
    BY <1>1, <1>5, <1>7 DEF Ok, Wrote, TransitionWrote, Emission4, Emitting
  <2>3. t.op \in Milestones => MilestoneWrote(u)
    BY <1>1, <1>5 DEF Ok, Wrote, MilestoneWrote
  <2> QED
    BY <1>1, <1>2, <1>5, <1>7, <2>1, <2>2, <2>3 DEF Ok, Wrote
<1> QED
  BY <1>1, <1>3, <1>5, <1>6, <1>8, <1>9, <1>10, <1>11, Moves DEF Ok, t, u

LEMMA CheckRunInv == ASSUME Inv, NEW s \in Slots, CheckRun(s) PROVE Inv'
<1> DEFINE t == tx[s]
           u == Done(tx[s])
<1>1. /\ t \in OpenTx /\ t.at = "checkRun" /\ Ok(t) /\ t.op \in Ops /\ t.run \in Runs
      /\ \A q \in Slots : ~WaitsFor(s, q)
      /\ Becomes(s, IF t.stale THEN Idle ELSE u)
  BY Executing DEF CheckRun
<1>2. CASE t.stale
  BY <1>1, <1>2, RollsBack
<1>3. CASE ~t.stale
  <2>1. /\ Subject(t) \in Runs /\ t.op # "reap"
        /\ t.op = "allocateRun" => t.old \in Active /\ t.old \in Runs
    BY <1>1, EmittingSubject DEF Emission4, Emitting
  <2>2. u \in OpenTx
    BY <1>1, <2>1, DoneIsOpen DEF Ok
  <2>3. Wants(t) = {<<RunRow(Subject(t)), "key">>}
    BY <1>1 DEF Wants
  <2>4. /\ u.op = t.op /\ u.run = t.run /\ u.old = t.old /\ u.stale = t.stale
        /\ u.rows = t.rows /\ u.log = t.log /\ u.point = t.point /\ u.wrote = t.wrote
        /\ u.locks = t.locks \cup Wants(t)
        /\ u.at = IF t.op = "allocateRun" THEN "insertRun" ELSE "end"
    BY <1>1, <2>1, DoneFields, NextPlaces
  <2>5. Becomes(s, u)
    BY <1>1, <1>3
  <2> HIDE DEF t, u
  <2>6. Placed(u)
    BY <1>1, <1>3, <2>1, <2>4, PlacesAre, OpsAreDistinct DEF Placed, Transitions, Milestones
  <2>7. NewRows(u) = NewRows(t) /\ Subject(u) = Subject(t) /\ Transitioned(u) = Transitioned(t)
    BY <2>4, NewRowsOfTheSame
  <2>8. Locked(u)
    BY <1>1, <2>4 DEF Ok, Locked, Emitting
  <2>9. t.op # "allocateRun" => Subject(t) = t.run
    BY DEF Subject
  <2>10. HoldsOnly(u)
    BY <1>1, <1>3, <2>1, <2>3, <2>4, <2>9, LockKinds, OpsAreDistinct
       DEF Ok, HoldsOnly, Emitting, Guarded
  <2>11. Sees(u)
    BY <1>1, <2>4 DEF Ok, Sees, Emission4, Emitting
  <2>12. Wrote(u)
    <3>1. t.op = "allocateRun" => AllocateWrote(u)
      <4>1. NoRun \notin Runs
        BY NullsAssumption
      <4> QED
        BY <1>1, <2>1, <2>4, <2>7, <4>1 DEF Ok, Wrote, AllocateWrote, Emission4, Emitting
    <3>2. t.op \in Transitions => TransitionWrote(u)
      <4>1. ASSUME t.op \in Transitions
            PROVE  t.rows = {Transitioned(t)} /\ t.log = NewRows(t)
                   /\ row[t.run].state = From(t.op) /\ t.wrote = NoRun
                   /\ t.op # "allocateRun"
        BY <1>1, <1>3, <4>1
           DEF Ok, Wrote, TransitionWrote, Sees, Emission4, Emitting, Transitions, Ends, EndOf
      <4> QED
        BY <2>4, <2>7, <4>1 DEF TransitionWrote, Emission4, Emitting
    <3>3. t.op \in Milestones => MilestoneWrote(u)
      <4>1. ASSUME t.op \in Milestones
            PROVE  t.log = NewRows(t) /\ t.op # "allocateRun"
        BY <1>1, <4>1 DEF Ok, Wrote, Milestones
      <4> QED
        BY <1>1, <2>4, <2>7, <4>1 DEF Ok, Wrote, MilestoneWrote
    <3> QED
      BY <1>1, <2>1, <2>4, <3>1, <3>2, <3>3 DEF Ok, Wrote
  <2> QED
    BY <1>1, <2>2, <2>4, <2>5, <2>6, <2>8, <2>10, <2>11, <2>12, Moves DEF Ok, t, u
<1> QED
  BY <1>2, <1>3

LEMMA AbortInv == ASSUME Inv, NEW s \in Slots, Abort(s) PROVE Inv'
BY RollsBack DEF Abort

-----------------------------------------------------------------------------
(* A commit *)

\* What a commit does to the tables, by the kind of the transaction.
Published(t) ==
  /\ stream' = stream \cup t.log
  /\ writer' = IF t.wrote = NoRun THEN writer ELSE t.wrote
  /\ row' = [r \in Runs |-> row'[r]]

AllocateCommits(t) ==
  /\ t.op = "allocateRun"
  /\ pointer' = t.run /\ minted' = Append(minted, t.run)
  /\ t.old \in {NoRun, pointer} /\ IF Active = {} THEN t.old = NoRun ELSE t.old \in Active
  /\ t.log = {Received(t)} \cup IF t.old = NoRun THEN {} ELSE NewRows(t)
  /\ row'[t.run] = [Unborn EXCEPT !.state = "PENDING", !.supersedes = t.old]
  /\ \A r \in Active : row'[r] = [row[r] EXCEPT !.state = "CANCELLED", !.supersededBy = t.run,
                                                !.cancelReason = "superseded"]
  /\ \A r \in Runs \ (Active \cup {t.run}) : row'[r] = row[r]

TransitionCommits(t) ==
  /\ t.op \in Transitions
  /\ UNCHANGED <<pointer, minted>>
  /\ t.log = NewRows(t) /\ row[t.run].state = From(t.op)
  /\ row'[t.run] = [row[t.run] EXCEPT !.state = To(t.op)]
  /\ \A r \in Runs \ {t.run} : row'[r] = row[r]

MilestoneCommits(t) ==
  /\ t.op \in Milestones
  /\ UNCHANGED <<row, pointer, minted>>
  /\ t.log = NewRows(t)

ReapCommits(t) ==
  /\ t.op = "reap"
  /\ UNCHANGED <<pointer, minted>>
  /\ t.log = {}
  /\ \A r \in {w.run : w \in t.rows} : r \in Running /\
       row'[r] = [row[r] EXCEPT !.state = "CANCELLED", !.cancelReason = "timeout"]
  /\ \A r \in Runs \ {w.run : w \in t.rows} : row'[r] = row[r]

NothingCommits(t) ==
  /\ t.op \in Transitions \cup Milestones
  /\ UNCHANGED <<row, pointer, minted>>
  /\ t.log = {}

LEMMA ChangedIs ==
  ASSUME NEW t, NEW w
  PROVE  /\ w.change = "inserted" =>
              Changed(t, w) = [Unborn EXCEPT !.state = w.to, !.supersedes = t.old]
         /\ w.change = "superseded" =>
              Changed(t, w) = [row[w.run] EXCEPT !.state = w.to, !.supersededBy = t.run,
                                                 !.cancelReason = "superseded"]
         /\ w.change = "timeout" =>
              Changed(t, w) = [row[w.run] EXCEPT !.state = w.to, !.cancelReason = "timeout"]
         /\ w.change = "transition" => Changed(t, w) = [row[w.run] EXCEPT !.state = w.to]
BY DEF Changed

LEMMA CommitKinds ==
  ASSUME Inv, NEW s \in Slots, Commit(s)
  PROVE  /\ tx[s] \in OpenTx /\ tx[s].at = "end" /\ Ok(tx[s]) /\ ~tx[s].stale
         /\ tx[s].op \in Ops /\ tx[s].run \in Runs
         /\ tx' = [tx EXCEPT ![s] = Idle]
         /\ Published(tx[s])
         /\ \/ AllocateCommits(tx[s]) \/ TransitionCommits(tx[s]) \/ MilestoneCommits(tx[s])
            \/ ReapCommits(tx[s]) \/ NothingCommits(tx[s])
<1> DEFINE t == tx[s]
           Hit(r) == \E w \in t.rows : w.run = r
           Of(r) == CHOOSE w \in t.rows : w.run = r
<1>1. /\ t \in OpenTx /\ t.at = "end" /\ Ok(t) /\ t.op \in Ops /\ t.run \in Runs
  BY Executing DEF Commit
<1>2. ~t.stale
  BY <1>1 DEF Ok, Placed, Emission4, Emitting
<1>3. /\ row' = [r \in Runs |-> IF Hit(r) THEN Changed(t, Of(r)) ELSE row[r]]
      /\ pointer' = IF t.point = NoRun THEN pointer ELSE t.point
      /\ minted' = IF t.point = NoRun THEN minted ELSE Append(minted, t.run)
      /\ writer' = IF t.wrote = NoRun THEN writer ELSE t.wrote
      /\ stream' = stream \cup t.log
      /\ tx' = [tx EXCEPT ![s] = Idle]
  BY DEF Commit
<1>4. Published(t)
  BY <1>3 DEF Published
<1>5. \A r \in Runs : ~Hit(r) => row'[r] = row[r]
  BY <1>3
<1>6. \A r \in Runs : Hit(r) => Of(r) \in t.rows /\ Of(r).run = r /\ row'[r] = Changed(t, Of(r))
  BY <1>3
<1>7. row \in [Runs -> RunRows]
  BY DEF Inv, TypeInv
<1> HIDE DEF t, Hit, Of
<1>8. CASE t.op = "allocateRun"
  <2>1. /\ t.point = t.run /\ t.old \in {NoRun, pointer}
        /\ IF Active = {} THEN t.old = NoRun ELSE t.old \in Active
        /\ t.log = {Received(t)} \cup IF t.old = NoRun THEN {} ELSE NewRows(t)
        /\ t.rows = Superseded \cup {Inserted(t)}
    BY <1>1, <1>8 DEF Ok, Wrote, AllocateWrote
  <2>2. t.run # NoRun
    BY <1>1, NullsAssumption
  <2>3. t.run \notin Active /\ Active \subseteq Runs
    BY <1>1, <1>8 DEF Ok, Sees, Active
  <2>4. Inserted(t).run = t.run /\ Inserted(t).change = "inserted" /\ Inserted(t).to = "PENDING"
    BY DEF Inserted
  <2>5. \A w \in Superseded : w.run \in Active /\ w.change = "superseded" /\ w.to = "CANCELLED"
    BY DEF Superseded
  <2>6. Hit(t.run) /\ Of(t.run) = Inserted(t)
    BY <1>1, <1>6, <2>1, <2>3, <2>4, <2>5 DEF Hit
  <2>7. row'[t.run] = [Unborn EXCEPT !.state = "PENDING", !.supersedes = t.old]
    <3>1. row'[t.run] = Changed(t, Of(t.run))
      BY <1>1, <1>6, <2>6
    <3> DEFINE w == Of(t.run)
    <3>2. w.change = "inserted" /\ w.to = "PENDING"
      BY <2>4, <2>6
    <3> HIDE DEF w
    <3>3. Changed(t, w) = [Unborn EXCEPT !.state = w.to, !.supersedes = t.old]
      BY <3>2, ChangedIs
    <3> QED
      BY <3>1, <3>2, <3>3 DEF w
  <2>8. ASSUME NEW r \in Active
        PROVE  row'[r] = [row[r] EXCEPT !.state = "CANCELLED", !.supersededBy = t.run,
                                        !.cancelReason = "superseded"]
    <3>1. Hit(r)
      <4> DEFINE w == [run |-> r, change |-> "superseded", to |-> "CANCELLED"]
      <4>1. w \in Superseded /\ w.run = r
        BY DEF Superseded
      <4> QED
        BY <2>1, <4>1 DEF Hit
    <3>2. Of(r) \in t.rows /\ Of(r).run = r
      BY <1>6, <2>3, <3>1
    <3>3. Of(r).change = "superseded" /\ Of(r).to = "CANCELLED"
      BY <2>1, <2>3, <2>4, <2>5, <3>2
    <3>4. row'[r] = Changed(t, Of(r))
      BY <1>6, <2>3, <3>1
    <3> QED
      BY <3>2, <3>3, <3>4 DEF Changed
  <2>9. \A r \in Runs \ (Active \cup {t.run}) : row'[r] = row[r]
    BY <1>5, <2>1, <2>4, <2>5 DEF Hit
  <2> QED
    BY <1>1, <1>2, <1>3, <1>4, <1>8, <2>1, <2>2, <2>7, <2>8, <2>9 DEF AllocateCommits, t
<1>9. CASE t.op # "allocateRun"
  <2>1. t.point = NoRun
    BY <1>1, <1>9 DEF Ok, Wrote
  <2>2. UNCHANGED <<pointer, minted>>
    BY <1>3, <2>1
  <2>3. ASSUME t.rows = {} PROVE UNCHANGED row
    BY <1>3, <1>7, <2>3 DEF Hit
  <2>4. CASE t.op \in Transitions
    <3>1. \/ t.rows = {} /\ t.log = {}
          \/ /\ t.rows = {Transitioned(t)} /\ t.log = NewRows(t)
             /\ row[t.run].state = From(t.op)
      BY <1>1, <2>4 DEF Ok, Wrote, TransitionWrote
    <3>2. CASE t.rows = {} /\ t.log = {}
      BY <1>1, <1>2, <1>3, <1>4, <2>2, <2>3, <2>4, <3>2 DEF NothingCommits, t
    <3>3. CASE /\ t.rows = {Transitioned(t)} /\ t.log = NewRows(t)
               /\ row[t.run].state = From(t.op)
      <4>1. /\ Transitioned(t).run = t.run /\ Transitioned(t).change = "transition"
            /\ Transitioned(t).to = To(t.op)
        BY DEF Transitioned
      <4>2. Hit(t.run)
        BY <3>3, <4>1 DEF Hit
      <4>3. Of(t.run) = Transitioned(t) /\ row'[t.run] = Changed(t, Of(t.run))
        BY <1>1, <1>6, <3>3, <4>2
      <4>4. row'[t.run] = [row[t.run] EXCEPT !.state = To(t.op)]
        BY <4>1, <4>3 DEF Changed
      <4>5. \A r \in Runs \ {t.run} : row'[r] = row[r]
        BY <1>5, <3>3, <4>1 DEF Hit
      <4> QED
        BY <1>1, <1>2, <1>3, <1>4, <2>2, <2>4, <3>3, <4>4, <4>5 DEF TransitionCommits, t
    <3> QED
      BY <3>1, <3>2, <3>3
  <2>5. CASE t.op \in Milestones
    <3>1. t.rows = {} /\ (t.log = {} \/ t.log = NewRows(t))
      BY <1>1, <2>5 DEF Ok, Wrote, MilestoneWrote
    <3> QED
      BY <1>1, <1>2, <1>3, <1>4, <2>2, <2>3, <2>5, <3>1 DEF NothingCommits, MilestoneCommits, t
  <2>6. CASE t.op = "reap"
    <3>1. t.log = {} /\ \A w \in t.rows : w.change = "timeout" /\ w.to = "CANCELLED"
                                          /\ w.run \in Running
      BY <1>1, <2>6 DEF Ok, Wrote, ReapWrote
    <3>2. \A r \in {w.run : w \in t.rows} : r \in Running /\
            row'[r] = [row[r] EXCEPT !.state = "CANCELLED", !.cancelReason = "timeout"]
      <4> TAKE r \in {w.run : w \in t.rows}
      <4>1. Hit(r) /\ r \in Running /\ r \in Runs
        BY <3>1 DEF Hit, Running
      <4>2. Of(r) \in t.rows /\ Of(r).run = r /\ row'[r] = Changed(t, Of(r))
        BY <1>6, <4>1
      <4>3. Of(r).change = "timeout" /\ Of(r).to = "CANCELLED"
        BY <3>1, <4>2
      <4> QED
        BY <4>1, <4>2, <4>3 DEF Changed
    <3>3. \A r \in Runs \ {w.run : w \in t.rows} : row'[r] = row[r]
      BY <1>5 DEF Hit
    <3> QED
      BY <1>1, <1>2, <1>3, <1>4, <2>2, <2>6, <3>1, <3>2, <3>3 DEF ReapCommits, t
  <2> QED
    BY <1>1, <1>9, <2>4, <2>5, <2>6, OpsAreDistinct
<1> QED
  BY <1>8, <1>9

\* A run whose row a commit changes was locked, or is the new one; and it stays born.
LEMMA CommitTouches ==
  ASSUME Inv, NEW s \in Slots, Commit(s)
  PROVE  /\ \A r \in Runs : row'[r] # row[r] =>
              \/ <<RunRow(r), "noKey">> \in tx[s].locks
              \/ tx[s].op = "allocateRun" /\ r = tx[s].run
         /\ \A r \in Runs : row[r].state # "UNBORN" => row'[r].state # "UNBORN"
         /\ pointer' # pointer => tx[s].op = "allocateRun"
         /\ tx[s].op = "allocateRun" => <<ReviewRow, "update">> \in tx[s].locks
<1> DEFINE t == tx[s]
<1>1. /\ t.at = "end" /\ Ok(t) /\ ~t.stale /\ t.run \in Runs
      /\ \/ AllocateCommits(t) \/ TransitionCommits(t) \/ MilestoneCommits(t)
         \/ ReapCommits(t) \/ NothingCommits(t)
  BY CommitKinds
<1>2. row \in [Runs -> RunRows]
  BY DEF Inv, TypeInv
<1> HIDE DEF t
<1>3. t.op = "allocateRun" => <<ReviewRow, "update">> \in t.locks
  BY <1>1 DEF Ok, Locked
<1>4. CASE AllocateCommits(t)
  <2>1. \A r \in Active : <<RunRow(r), "noKey">> \in t.locks
    BY <1>1, <1>4 DEF AllocateCommits, Ok, Locked
  <2>2. \A r \in Runs : row'[r] # row[r] => r \in Active \cup {t.run}
    BY <1>4 DEF AllocateCommits
  <2>3. t.op = "allocateRun" /\ row'[t.run].state = "PENDING"
    BY <1>4 DEF AllocateCommits, Unborn
  <2>4. \A r \in Active : row'[r].state = "CANCELLED"
    <3> TAKE r \in Active
    <3>1. row[r] \in RunRows
      BY <1>2 DEF Active
    <3>2. row'[r] = [row[r] EXCEPT !.state = "CANCELLED", !.supersededBy = t.run,
                                   !.cancelReason = "superseded"]
      BY <1>4 DEF AllocateCommits
    <3> QED
      BY <3>1, <3>2 DEF RunRows
  <2> QED
    BY <1>3, <2>1, <2>2, <2>3, <2>4 DEF t
<1>5. CASE TransitionCommits(t)
  <2>1. \A r \in Runs : row'[r] # row[r] => r = t.run
    BY <1>5 DEF TransitionCommits
  <2>2. t.rows = {} => t.log = {}
    BY <1>1, <1>5 DEF TransitionCommits, Ok, Wrote, TransitionWrote
  <2>3. t.log # {}
    <3>1. 1 \in DOMAIN Emitted(t)
      <4>1. t.op \in Ops \ {"reap"}
        BY <1>5 DEF TransitionCommits, Transitions, Ops, Ends, EndOf
      <4> QED
        BY <4>1, EmittedAre
    <3> QED
      BY <1>5, <3>1 DEF TransitionCommits, NewRows
  <2>4. t.rows = {Transitioned(t)} /\ Transitioned(t).run = t.run
    BY <1>1, <1>5, <2>3 DEF TransitionCommits, Ok, Wrote, TransitionWrote, Transitioned
  <2>5. t.op # "allocateRun"
    BY <1>5 DEF TransitionCommits, Transitions, Ends, EndOf
  <2>6. <<RunRow(t.run), "noKey">> \in t.locks
    BY <1>1, <2>4, <2>5 DEF Ok, Locked
  <2>7. To(t.op) # "UNBORN" /\ row'[t.run].state = To(t.op)
    BY <1>1, <1>2, <1>5 DEF TransitionCommits, To, Transitions, Ends, EndOf, RunRows
  <2>8. pointer' = pointer
    BY <1>5 DEF TransitionCommits
  <2> QED
    BY <2>1, <2>5, <2>6, <2>7, <2>8 DEF t
<1>6. CASE MilestoneCommits(t) \/ NothingCommits(t)
  BY <1>3, <1>6 DEF MilestoneCommits, NothingCommits, t
<1>7. CASE ReapCommits(t)
  <2>1. t.op # "allocateRun" /\ pointer' = pointer
    BY <1>7 DEF ReapCommits
  <2>2. \A w \in t.rows : <<RunRow(w.run), "noKey">> \in t.locks
    BY <1>1, <2>1 DEF Ok, Locked
  <2>3. \A r \in {w.run : w \in t.rows} : row'[r].state = "CANCELLED"
    <3> TAKE r \in {w.run : w \in t.rows}
    <3>1. /\ r \in Running
          /\ row'[r] = [row[r] EXCEPT !.state = "CANCELLED", !.cancelReason = "timeout"]
      BY <1>7 DEF ReapCommits
    <3>2. row[r] \in RunRows
      BY <1>2, <3>1 DEF Running
    <3> QED
      BY <3>1, <3>2 DEF RunRows
  <2>4. \A r \in Runs : row'[r] # row[r] => r \in {w.run : w \in t.rows}
    BY <1>7 DEF ReapCommits
  <2> QED
    BY <2>1, <2>2, <2>3, <2>4 DEF t
<1> QED
  BY <1>1, <1>4, <1>5, <1>6, <1>7

\* The events that a commit adds are of runs whose log it has locked, or the new run's.
LEMMA CommitAppends ==
  ASSUME Inv, NEW s \in Slots, Commit(s)
  PROVE  /\ stream' = stream \cup tx[s].log
         /\ \A r, type : Logged(r, type) => Logged(r, type)'
         /\ \A e \in tx[s].log : \/ <<LogLock(e.run), "update">> \in tx[s].locks
                                 \/ tx[s].op = "allocateRun" /\ e.run = tx[s].run
<1>1. stream' = stream \cup tx[s].log /\ Ok(tx[s])
  BY CommitKinds DEF Published
<1>2. \A r, type : Logged(r, type) => Logged(r, type)'
  BY <1>1 DEF Logged
<1> QED
  BY <1>1, <1>2 DEF Ok, Locked

\* What another transaction has locked, a commit does not change.
LEMMA CommitSpares ==
  ASSUME Inv, NEW s \in Slots, Commit(s), NEW q \in Slots, q # s, tx[q] # Idle
  PROVE  /\ \A r \in Runs : /\ row[r].state # "UNBORN"
                            /\ \/ <<RunRow(r), "update">> \in tx[q].locks
                               \/ <<RunRow(r), "noKey">> \in tx[q].locks
                            => row'[r] = row[r]
         /\ \/ <<ReviewRow, "update">> \in tx[q].locks
            \/ <<ReviewRow, "share">> \in tx[q].locks
            => pointer' = pointer /\ tx[s].op # "allocateRun"
         /\ \A r \in Runs : row[r].state # "UNBORN" /\ <<LogLock(r), "update">> \in tx[q].locks
            => EventsOf(r)' = EventsOf(r) /\ MaxSequence(r)' = MaxSequence(r)
         /\ tx[q].op = "allocateRun" => row'[tx[q].run] = row[tx[q].run]
<1> DEFINE t == tx[s]
           u == tx[q]
<1>1. \A l \in t.locks, m \in u.locks : l[1] = m[1] => ~Conflict(l[2], m[2])
  BY DEF Inv, Apart
<1>2. t.op = "allocateRun" => row[t.run].state = "UNBORN"
  BY CommitKinds DEF Ok, Sees
<1>3. ASSUME NEW r \in Runs, row[r].state # "UNBORN",
             <<RunRow(r), "update">> \in u.locks \/ <<RunRow(r), "noKey">> \in u.locks
      PROVE  row'[r] = row[r]
  <2>1. <<RunRow(r), "noKey">> \notin t.locks
    BY <1>1, <1>3 DEF Conflict
  <2> QED
    BY <1>2, <1>3, <2>1, CommitTouches
<1>4. ASSUME <<ReviewRow, "update">> \in u.locks \/ <<ReviewRow, "share">> \in u.locks
      PROVE  pointer' = pointer /\ t.op # "allocateRun"
  <2>1. <<ReviewRow, "update">> \notin t.locks
    BY <1>1, <1>4 DEF Conflict
  <2> QED
    BY <2>1, CommitTouches
<1>5. ASSUME NEW r \in Runs, row[r].state # "UNBORN", <<LogLock(r), "update">> \in u.locks
      PROVE  EventsOf(r)' = EventsOf(r) /\ MaxSequence(r)' = MaxSequence(r)
  <2>1. <<LogLock(r), "update">> \notin t.locks
    BY <1>1, <1>5 DEF Conflict
  <2>2. \A e \in t.log : e.run # r
    BY <1>2, <1>5, <2>1, CommitAppends
  <2>3. EventsOf(r)' = EventsOf(r)
    BY <2>2, CommitAppends DEF EventsOf
  <2> QED
    BY <2>3 DEF MaxSequence, EventsOf
<1>6. ASSUME u.op = "allocateRun" PROVE row'[u.run] = row[u.run]
  <2>1. u \in OpenTx /\ row[u.run].state = "UNBORN" /\ u.run \in Runs
    BY <1>6 DEF Inv, TypeInv, Ok, Sees, OpenTx
  <2>2. t.op = "allocateRun" => u.run # t.run
    BY <1>6 DEF Inv, Apart
  <2>3. ASSUME <<RunRow(u.run), "noKey">> \in t.locks, row'[u.run] # row[u.run] PROVE FALSE
    <3>1. /\ Ok(t)
          /\ \/ AllocateCommits(t) \/ TransitionCommits(t) \/ MilestoneCommits(t)
             \/ ReapCommits(t) \/ NothingCommits(t)
      BY CommitKinds
    <3>2. u.run \notin Active /\ u.run \notin Running
      BY <2>1 DEF Active, Running
    <3>3. ~AllocateCommits(t)
      BY <2>1, <2>2, <2>3, <3>2 DEF AllocateCommits
    <3>4. ~TransitionCommits(t)
      BY <2>1, <2>3
         DEF TransitionCommits, From
    <3>5. ~ReapCommits(t)
      BY <2>1, <2>3, <3>2 DEF ReapCommits
    <3> QED
      BY <2>3, <3>1, <3>3, <3>4, <3>5 DEF MilestoneCommits, NothingCommits
  <2> QED
    BY <2>1, <2>2, <2>3, CommitTouches
<1> QED
  BY <1>3, <1>4, <1>5, <1>6

\* Only active runs change, and the one that is inserted.
LEMMA CommitChangesActive ==
  ASSUME Inv, NEW s \in Slots, Commit(s), NEW r \in Runs, row'[r] # row[r]
  PROVE  r \in Active \/ (tx[s].op = "allocateRun" /\ r = tx[s].run)
<1> DEFINE t == tx[s]
<1>1. \/ AllocateCommits(t) \/ TransitionCommits(t) \/ MilestoneCommits(t)
      \/ ReapCommits(t) \/ NothingCommits(t)
  BY CommitKinds
<1>2. CASE AllocateCommits(t)
  BY <1>2 DEF AllocateCommits
<1>3. CASE TransitionCommits(t)
  BY <1>3 DEF TransitionCommits, From, Active
<1>4. CASE MilestoneCommits(t) \/ NothingCommits(t)
  BY <1>4 DEF MilestoneCommits, NothingCommits
<1>5. CASE ReapCommits(t)
  BY <1>5 DEF ReapCommits, Running, Active
<1> QED
  BY <1>1, <1>2, <1>3, <1>4, <1>5

\* The log of the run that a transaction has written an event of is locked.
LEMMA NewRowsAreLocked ==
  ASSUME Inv, NEW u \in OpenTx, Ok(u), u.op # "reap", NewRows(u) \subseteq u.log,
         u.op = "allocateRun" => u.old \in Active
  PROVE  /\ Subject(u) \in Runs /\ row[Subject(u)].state # "UNBORN"
         /\ <<LogLock(Subject(u)), "update">> \in u.locks
<1>1. Subject(u) \in Runs /\ row[Subject(u)].state # "UNBORN"
  BY DEF Subject, OpenTx, Ok, Sees, Active
<1>2. u.op \in Ops \ {"reap"}
  BY DEF OpenTx
<1>3. 1 \in DOMAIN Emitted(u)
  BY <1>2, EmittedAre
<1> DEFINE e == EventRow(Subject(u), MaxSequence(Subject(u)) + 1, Emitted(u)[1][1], Emitted(u)[1][2])
<1>4. e \in NewRows(u)
  BY <1>3 DEF NewRows
<1>5. e.run = Subject(u)
  BY DEF EventRow
<1>6. u.op = "allocateRun" => Subject(u) # u.run
  BY <1>1 DEF Ok, Sees
<1> HIDE DEF e
<1> QED
  BY <1>1, <1>4, <1>5, <1>6 DEF Ok, Locked

LEMMA OkSurvives ==
  ASSUME Inv, NEW s \in Slots, Commit(s), NEW q \in Slots, q # s,
         NEW CONSTANT u, u = tx[q], u # Idle
  PROVE  Ok(u)'
<1>1. u \in OpenTx /\ Ok(u) /\ u.run \in Runs /\ u.op \in Ops
  BY DEF Inv, TypeInv, OpenTx
<1>2. /\ \A r \in Runs : row[r].state # "UNBORN" => row'[r].state # "UNBORN"
      /\ \A r, type : Logged(r, type) => Logged(r, type)'
  BY CommitTouches, CommitAppends
<1>3. /\ \A r \in Runs : /\ row[r].state # "UNBORN"
                         /\ \/ <<RunRow(r), "update">> \in u.locks
                            \/ <<RunRow(r), "noKey">> \in u.locks
                         => row'[r] = row[r]
      /\ \/ <<ReviewRow, "update">> \in u.locks
         \/ <<ReviewRow, "share">> \in u.locks
         => pointer' = pointer /\ tx[s].op # "allocateRun"
      /\ \A r \in Runs : row[r].state # "UNBORN" /\ <<LogLock(r), "update">> \in u.locks
         => MaxSequence(r)' = MaxSequence(r)
      /\ u.op = "allocateRun" => row'[u.run] = row[u.run]
  BY CommitSpares
<1>4. Placed(u)' /\ HoldsOnly(u)'
  BY <1>1 DEF Ok, Placed, HoldsOnly
<1>5. ASSUME u.op = "allocateRun", u.at \notin {"lockReview", "supersede"}
      PROVE  Active' = Active /\ pointer' = pointer
  <2>1. pointer' = pointer /\ tx[s].op # "allocateRun"
    BY <1>1, <1>3, <1>5 DEF Ok, Locked
  <2>2. \A r \in Active : row'[r] = row[r]
    BY <1>1, <1>3, <1>5 DEF Ok, Locked, Active
  <2>3. \A r \in Runs : row'[r] = row[r]
    BY <2>1, <2>2, CommitChangesActive
  <2> QED
    BY <2>1, <2>3 DEF Active
<1>6. ASSUME u.op # "reap", NewRows(u) \subseteq u.log, u.op = "allocateRun" => u.old \in Active
      PROVE  NewRows(u)' = NewRows(u)
  <2>1. MaxSequence(Subject(u))' = MaxSequence(Subject(u))
    BY <1>1, <1>3, <1>6, NewRowsAreLocked DEF Subject
  <2> QED
    BY <2>1 DEF NewRows, EventRow, Subject, Emitted
<1>7. Locked(u)'
  BY <1>1, <1>5 DEF Ok, Locked, Subject
<1>8. u.op # "allocateRun" => row[u.run].state # "UNBORN"
  BY <1>1 DEF Ok, Sees
<1>9. ASSUME u.op \in Transitions, u.at \notin {"assertCurrentRun", "readRun"}, ~u.stale
      PROVE  row'[u.run] = row[u.run]
  <2>1. u.op # "allocateRun" /\ <<RunRow(u.run), "update">> \in u.locks
    BY <1>1, <1>9 DEF Ok, Locked, Transitions, Ends, EndOf
  <2> QED
    BY <1>1, <1>3, <1>8, <2>1
<1>10. Sees(u)'
  <2>1. u.op \in Guarded /\ u.at # "assertCurrentRun" => (u.stale <=> pointer' # u.run)
    BY <1>1, <1>3 DEF Ok, Sees, Locked
  <2>2. u.op = "allocateRun" <=> row'[u.run].state = "UNBORN"
    BY <1>1, <1>2, <1>3, <1>8 DEF Ok, Sees
  <2>3. u.op \in Ends \cup Milestones => Logged(u.run, "INGESTED")'
    BY <1>1, <1>2 DEF Ok, Sees
  <2>4. u.op \in Transitions /\ u.at \in {"updateRun"} \cup Emission4 /\ ~u.stale =>
          row'[u.run].state = From(u.op)
    BY <1>1, <1>9 DEF Ok, Sees, Emission4, Emitting
  <2> QED
    BY <2>1, <2>2, <2>3, <2>4 DEF Sees, Logged
<1>11. Wrote(u)'
  <2>1. u.op = "allocateRun" => AllocateWrote(u)'
    <3> SUFFICES ASSUME u.op = "allocateRun" PROVE AllocateWrote(u)'
      OBVIOUS
    <3>1. AllocateWrote(u)
      BY <1>1 DEF Ok, Wrote
    <3>2. CASE u.at \in {"lockReview", "supersede"}
      BY <3>1, <3>2 DEF AllocateWrote, Emission4, Emitting
    <3>3. CASE u.at \notin {"lockReview", "supersede"}
      <4>1. Active' = Active /\ pointer' = pointer /\ Superseded' = Superseded
        BY <1>5, <3>3 DEF Superseded
      <4>2. u.at \notin {"lockLog", "append"} /\ u.old # NoRun => NewRows(u)' = NewRows(u)
        <5>1. u.old # NoRun => u.old \in Active
          BY <3>1, <3>3 DEF AllocateWrote
        <5>2. u.at \notin {"lockLog", "append"} /\ u.old # NoRun => NewRows(u) \subseteq u.log
          <6>1. u.at \in {"insertRun", "end", "checkReview", "checkRun", "lockLog", "append"}
            BY <1>1, <3>3, PlacesAre DEF Ok, Placed, Emission4, Emitting
          <6> QED
            BY <3>1, <6>1 DEF AllocateWrote
        <5> QED
          BY <1>6, <5>1, <5>2
      <4>3. u.at \in {"checkReview", "checkRun"} => u.old # NoRun
        <5>1. NoRun \notin Active
          BY NullsAssumption DEF Active
        <5> QED
          BY <3>1, <5>1 DEF AllocateWrote, Emission4, Emitting
      <4>4. Received(u)' = Received(u) /\ Inserted(u)' = Inserted(u)
        BY DEF Received, Inserted, EventRow
      <4> QED
        BY <3>1, <4>1, <4>2, <4>3, <4>4 DEF AllocateWrote
    <3> QED
      BY <3>2, <3>3
  <2>2. u.op \in Transitions => TransitionWrote(u)'
    <3> SUFFICES ASSUME u.op \in Transitions PROVE TransitionWrote(u)'
      OBVIOUS
    <3>1. TransitionWrote(u) /\ u.op # "reap" /\ u.op # "allocateRun"
      BY <1>1 DEF Ok, Wrote, Transitions, Ends, EndOf
    <3>2. u.at = "end" => ~u.stale
      BY <1>1 DEF Ok, Placed, Emission4, Emitting
    <3>3. Transitioned(u)' = Transitioned(u)
      BY DEF Transitioned, To
    <3> QED
      BY <1>6, <1>9, <3>1, <3>2, <3>3 DEF TransitionWrote
  <2>3. u.op \in Milestones => MilestoneWrote(u)'
    <3> SUFFICES ASSUME u.op \in Milestones PROVE MilestoneWrote(u)'
      OBVIOUS
    <3>1. MilestoneWrote(u) /\ u.op # "reap" /\ u.op # "allocateRun"
      BY <1>1 DEF Ok, Wrote, Milestones
    <3> QED
      BY <1>2, <1>6, <3>1 DEF MilestoneWrote, MilestoneOf
  <2>4. u.op = "reap" => ReapWrote(u)'
    <3> SUFFICES ASSUME u.op = "reap" PROVE ReapWrote(u)'
      OBVIOUS
    <3>1. ReapWrote(u)
      BY <1>1 DEF Ok, Wrote
    <3>2. ASSUME NEW w \in u.rows PROVE w.run \in Running'
      <4>1. <<RunRow(w.run), "noKey">> \in u.locks /\ w.run \in Running
        BY <1>1, <3>1, <3>2 DEF Ok, Locked, ReapWrote
      <4>2. row'[w.run] = row[w.run]
        BY <1>3, <4>1 DEF Running
      <4> QED
        BY <4>1, <4>2 DEF Running
    <3> QED
      BY <3>1, <3>2 DEF ReapWrote
  <2>5. u.op # "allocateRun" /\ u.op # "reap" /\ u.at \in {"checkReview", "checkRun"}
        => NewRows(u)' = NewRows(u)
    BY <1>1, <1>6 DEF Ok, Wrote
  <2>6. u.op = "reap" => u.at \notin {"checkReview", "checkRun"}
    BY <1>1, PlacesAre DEF Ok, Placed
  <2> QED
    BY <1>1, <2>1, <2>2, <2>3, <2>4, <2>5, <2>6 DEF Ok, Wrote
<1> QED
  BY <1>4, <1>7, <1>10, <1>11 DEF Ok

LEMMA CommitType == ASSUME Inv, NEW s \in Slots, Commit(s) PROVE TypeInv'
<1> DEFINE t == tx[s]
<1>1. /\ t \in OpenTx /\ t.run \in Runs /\ tx' = [tx EXCEPT ![s] = Idle] /\ Published(t)
      /\ \/ AllocateCommits(t) \/ TransitionCommits(t) \/ MilestoneCommits(t)
         \/ ReapCommits(t) \/ NothingCommits(t)
  BY CommitKinds
<1>2. TypeInv
  BY DEF Inv
<1>3. t.log \subseteq EventRows /\ t.wrote \in RunOrNone /\ t.old \in RunOrNone
  BY <1>1 DEF OpenTx
<1> HIDE DEF t
<1>4. stream' \subseteq EventRows /\ writer' \in RunOrNone
  BY <1>1, <1>2, <1>3 DEF Published, TypeInv
<1>5. tx' \in [Slots -> {Idle} \cup OpenTx]
  BY <1>1, <1>2 DEF TypeInv
<1>6. pointer' \in RunOrNone /\ minted' \in Seq(Runs)
  <2>1. \/ pointer' = t.run /\ minted' = Append(minted, t.run)
        \/ pointer' = pointer /\ minted' = minted
    BY <1>1 DEF AllocateCommits, TransitionCommits, MilestoneCommits, ReapCommits, NothingCommits
  <2>2. Append(minted, t.run) \in Seq(Runs)
    BY <1>1, <1>2 DEF TypeInv
  <2> QED
    BY <1>1, <1>2, <2>1, <2>2 DEF TypeInv, RunOrNone
<1>7. \A r \in Runs : row[r] \in RunRows
  BY <1>2 DEF TypeInv
<1>8. ASSUME NEW r \in Runs PROVE row'[r] \in RunRows
  <2>1. CASE AllocateCommits(t)
    <3>1. [Unborn EXCEPT !.state = "PENDING", !.supersedes = t.old] \in RunRows
      BY <1>3 DEF Unborn, RunRows, States, RunOrNone
    <3>2. [row[r] EXCEPT !.state = "CANCELLED", !.supersededBy = t.run,
                         !.cancelReason = "superseded"] \in RunRows
      BY <1>1, <1>7 DEF RunRows, States, RunOrNone
    <3> QED
      BY <1>7, <2>1, <3>1, <3>2 DEF AllocateCommits
  <2>2. CASE TransitionCommits(t)
    <3>1. To(t.op) \in States
      BY <2>2 DEF TransitionCommits, To, Transitions, Ends, EndOf, States
    <3>2. [row[r] EXCEPT !.state = To(t.op)] \in RunRows
      BY <1>7, <3>1 DEF RunRows
    <3> QED
      BY <1>7, <2>2, <3>2 DEF TransitionCommits
  <2>3. CASE MilestoneCommits(t) \/ NothingCommits(t)
    BY <1>7, <2>3 DEF MilestoneCommits, NothingCommits
  <2>4. CASE ReapCommits(t)
    <3>1. [row[r] EXCEPT !.state = "CANCELLED", !.cancelReason = "timeout"] \in RunRows
      BY <1>7 DEF RunRows, States
    <3> QED
      BY <1>7, <2>4, <3>1 DEF ReapCommits
  <2> QED
    BY <1>1, <2>1, <2>2, <2>3, <2>4
<1>9. row' \in [Runs -> RunRows]
  BY <1>1, <1>8 DEF Published
<1> QED
  BY <1>4, <1>5, <1>6, <1>9 DEF TypeInv

\* Numbering goes on: k more events with the next numbers.
LEMMA NumbersGoOn ==
  ASSUME NEW E, NEW n \in Nat, Numbers(E, n), NEW F, NEW k \in Nat,
         NEW f, F = {f[i] : i \in 1..k}, \A i \in 1..k : f[i].seq = n + i
  PROVE  Numbers(E \cup F, n + k)
<1>1. {e.seq : e \in F} = (n + 1)..(n + k)
  <2>1. ASSUME NEW x \in (n + 1)..(n + k) PROVE x \in {e.seq : e \in F}
    <3>1. x - n \in 1..k /\ n + (x - n) = x
      OBVIOUS
    <3>2. f[x - n] \in F /\ f[x - n].seq = x
      BY <3>1
    <3> QED
      BY ONLY <3>2
  <2>2. ASSUME NEW e \in F PROVE e.seq \in (n + 1)..(n + k)
    <3>1. PICK i \in 1..k : e = f[i]
      OBVIOUS
    <3>2. e.seq = n + i
      BY <3>1
    <3> QED
      BY <3>2
  <2> QED
    BY <2>1, <2>2
<1>2. \A d \in E : d.seq \in 1..n
  BY DEF Numbers
<1>3. \A d \in F : d.seq \in (n + 1)..(n + k)
  BY <1>1
<1>4. {e.seq : e \in E \cup F} = 1..(n + k)
  <2>1. {e.seq : e \in E \cup F} = {e.seq : e \in E} \cup {e.seq : e \in F}
    OBVIOUS
  <2>2. {e.seq : e \in E} = 1..n
    BY DEF Numbers
  <2> QED
    BY <1>1, <2>1, <2>2
<1>5. \A d, e \in F : d.seq = e.seq => d = e
  <2> SUFFICES ASSUME NEW i \in 1..k, NEW j \in 1..k, f[i].seq = f[j].seq PROVE f[i] = f[j]
    OBVIOUS
  <2>1. n + i = n + j
    OBVIOUS
  <2> QED
    BY <2>1
<1>6. \A d, e \in E \cup F : d.seq = e.seq => d = e
  <2> TAKE d, e \in E \cup F
  <2>1. d \in E /\ e \in E => (d.seq = e.seq => d = e)
    BY DEF Numbers
  <2>2. (d \in E /\ e \in F) \/ (d \in F /\ e \in E) => d.seq # e.seq
    BY <1>2, <1>3
  <2> QED
    BY <1>5, <2>1, <2>2
<1> QED
  BY <1>4, <1>6 DEF Numbers

LEMMA CommitNumbers ==
  ASSUME Inv, NEW s \in Slots, Commit(s), NEW r \in Runs
  PROVE  \E n \in Nat : Numbers(EventsOf(r)', n)
<1> DEFINE t == tx[s]
<1>1. /\ t \in OpenTx /\ Ok(t) /\ t.at = "end" /\ ~t.stale /\ t.run \in Runs /\ t.op \in Ops
      /\ stream' = stream \cup t.log
      /\ \/ AllocateCommits(t) \/ TransitionCommits(t) \/ MilestoneCommits(t)
         \/ ReapCommits(t) \/ NothingCommits(t)
  BY CommitKinds DEF Published
<1>2. PICK n \in Nat : Numbers(EventsOf(r), n)
  BY DEF Inv, TablesInv
<1>3. EventsOf(r)' = EventsOf(r) \cup {e \in t.log : e.run = r}
  BY <1>1 DEF EventsOf
<1> HIDE DEF t
<1>4. CASE {e \in t.log : e.run = r} = {}
  BY <1>2, <1>3, <1>4
<1>5. ASSUME {e \in t.log : e.run = r} = NewRows(t), r = Subject(t), t.op # "reap"
      PROVE  \E m \in Nat : Numbers(EventsOf(r)', m)
  <2>1. MaxSequence(r) = n
    BY <1>2, MaxSequenceIs
  <2>2. PICK k \in Nat : DOMAIN Emitted(t) = 1..k
    BY <1>1, <1>5, EmittedAre
  <2> DEFINE f == [i \in 1..k |-> EventRow(r, n + i, Emitted(t)[i][1], Emitted(t)[i][2])]
  <2>3. NewRows(t) = {f[i] : i \in 1..k}
    BY <1>5, <2>1, <2>2 DEF NewRows
  <2>4. \A i \in 1..k : f[i].seq = n + i
    BY DEF EventRow
  <2> HIDE DEF f
  <2>5. Numbers(EventsOf(r) \cup NewRows(t), n + k)
    BY <1>2, <2>3, <2>4, NumbersGoOn
  <2>6. EventsOf(r)' = EventsOf(r) \cup NewRows(t)
    BY <1>3, <1>5
  <2>7. n + k \in Nat
    OBVIOUS
  <2> QED
    BY <2>5, <2>6, <2>7
<1>6. ASSUME NEW e \in NewRows(t) PROVE e.run = Subject(t)
  BY <1>6 DEF NewRows, EventRow
<1>7. CASE AllocateCommits(t)
  <2>1. row[t.run].state = "UNBORN" /\ (t.old # NoRun => t.old \in Active)
    BY <1>1, <1>7 DEF AllocateCommits, Ok, Sees
  <2>2. t.op = "allocateRun" /\ Subject(t) = t.old
    BY <1>7 DEF AllocateCommits, Subject
  <2>3. t.old # NoRun => t.old # t.run
    BY <2>1 DEF Active
  <2>4. t.log = {Received(t)} \cup IF t.old = NoRun THEN {} ELSE NewRows(t)
    BY <1>7 DEF AllocateCommits
  <2>5. Received(t).run = t.run /\ Received(t).seq = 1
    BY DEF Received, EventRow
  <2>6. CASE r = t.run
    <3>1. {e \in t.log : e.run = r} = {Received(t)}
      BY <1>6, <2>2, <2>3, <2>4, <2>5, <2>6
    <3>2. EventsOf(r) = {}
      BY <2>1, <2>6 DEF EventsOf, Inv, TablesInv
    <3>3. Numbers({Received(t)}, 1)
      BY <2>5 DEF Numbers
    <3> QED
      BY <1>3, <3>1, <3>2, <3>3
  <2>7. CASE r # t.run /\ t.old = NoRun
    BY <1>4, <2>4, <2>5, <2>7
  <2>8. CASE r # t.run /\ t.old # NoRun /\ r = t.old
    <3>1. {e \in t.log : e.run = r} = NewRows(t)
      BY <1>6, <2>2, <2>4, <2>5, <2>8
    <3> QED
      BY <1>5, <2>2, <2>8, <3>1
  <2>9. CASE r # t.run /\ t.old # NoRun /\ r # t.old
    <3>1. {e \in t.log : e.run = r} = {}
      BY <1>6, <2>2, <2>4, <2>5, <2>9
    <3> QED
      BY <1>4, <3>1
  <2> QED
    BY <2>6, <2>7, <2>8, <2>9
<1>8. CASE TransitionCommits(t) \/ MilestoneCommits(t)
  <2>1. t.log = NewRows(t) /\ t.op # "reap"
    BY <1>8 DEF TransitionCommits, MilestoneCommits, Transitions, Milestones, Ends, EndOf
  <2>2. CASE r = Subject(t)
    <3>1. {e \in t.log : e.run = r} = NewRows(t)
      BY <1>6, <2>1, <2>2
    <3> QED
      BY <1>5, <2>1, <2>2, <3>1
  <2>3. CASE r # Subject(t)
    <3>1. {e \in t.log : e.run = r} = {}
      BY <1>6, <2>1, <2>3
    <3> QED
      BY <1>4, <3>1
  <2> QED
    BY <2>2, <2>3
<1>9. CASE ReapCommits(t) \/ NothingCommits(t)
  BY <1>4, <1>9 DEF ReapCommits, NothingCommits
<1> QED
  BY <1>1, <1>7, <1>8, <1>9

LEMMA CommitTables == ASSUME Inv, NEW s \in Slots, Commit(s) PROVE TablesInv'
<1> DEFINE t == tx[s]
<1>1. /\ t \in OpenTx /\ Ok(t) /\ t.at = "end" /\ ~t.stale /\ t.run \in Runs /\ t.op \in Ops
      /\ stream' = stream \cup t.log
      /\ \/ AllocateCommits(t) \/ TransitionCommits(t) \/ MilestoneCommits(t)
         \/ ReapCommits(t) \/ NothingCommits(t)
  BY CommitKinds DEF Published
<1>2. /\ \A r \in Runs : row[r] \in RunRows
      /\ \A r \in Runs : row'[r] # row[r] =>
           r \in Active \/ (t.op = "allocateRun" /\ r = t.run)
      /\ \A r \in Runs : row[r].state # "UNBORN" => row'[r].state # "UNBORN"
  BY CommitTouches, CommitChangesActive DEF Inv, TypeInv
<1>3. TablesInv /\ stream \subseteq EventRows
  BY DEF Inv, TypeInv
<1>4. \A r \in Runs : \E n \in Nat : Numbers(EventsOf(r)', n)
  BY CommitNumbers
<1> HIDE DEF t
<1>5. t.op # "allocateRun" => row[t.run].state # "UNBORN"
  BY <1>1 DEF Ok, Sees
<1>6. ASSUME AllocateCommits(t)
      PROVE  t.op = "allocateRun" /\ row'[t.run].state = "PENDING"
             /\ (t.old = NoRun \/ t.old \in Active)
             /\ \A r \in Active : row'[r].state = "CANCELLED"
  <2>1. \A r \in Active : row'[r].state = "CANCELLED"
    <3> TAKE r \in Active
    <3>1. row[r] \in RunRows
      BY <1>2 DEF Active
    <3>2. row'[r] = [row[r] EXCEPT !.state = "CANCELLED", !.supersededBy = t.run,
                                   !.cancelReason = "superseded"]
      BY <1>6 DEF AllocateCommits
    <3> QED
      BY <3>1, <3>2 DEF RunRows
  <2> QED
    BY <1>6, <2>1 DEF AllocateCommits, Unborn
<1>7. ASSUME TransitionCommits(t)
      PROVE  row'[t.run].state = To(t.op) /\ t.run \in Active /\ t.op # "allocateRun"
             /\ To(t.op) \notin {"UNBORN", "PENDING"}
             /\ (To(t.op) = "RUNNING" => t.op = "dispatchRow")
  <2>1. row'[t.run].state = To(t.op)
    BY <1>1, <1>2, <1>7 DEF TransitionCommits, RunRows
  <2>2. t.run \in Active
    BY <1>1, <1>7 DEF TransitionCommits, From, Active
  <2>3. To(t.op) \notin {"UNBORN", "PENDING"} /\ (To(t.op) = "RUNNING" => t.op = "dispatchRow")
    BY <1>7 DEF TransitionCommits, To, Transitions, Ends, EndOf
  <2> QED
    BY <1>7, <2>1, <2>2, <2>3 DEF TransitionCommits, Transitions, Ends, EndOf
<1>8. ASSUME ReapCommits(t)
      PROVE  \A r \in {w.run : w \in t.rows} : r \in Running /\ row'[r].state = "CANCELLED"
  <2> TAKE r \in {w.run : w \in t.rows}
  <2>1. r \in Running
        /\ row'[r] = [row[r] EXCEPT !.state = "CANCELLED", !.cancelReason = "timeout"]
    BY <1>8 DEF ReapCommits
  <2>2. row[r] \in RunRows
    BY <1>2, <2>1 DEF Running
  <2> QED
    BY <2>1, <2>2 DEF RunRows
<1>9. ASSUME NEW r \in Runs, row'[r].state = "PENDING"
      PROVE  row'[r] = row[r] \/ (AllocateCommits(t) /\ r = t.run)
  <2>1. AllocateCommits(t) => row'[r] = row[r] \/ r = t.run
    BY <1>6, <1>9 DEF AllocateCommits
  <2>2. TransitionCommits(t) => row'[r] = row[r]
    BY <1>7, <1>9 DEF TransitionCommits
  <2>3. ReapCommits(t) => row'[r] = row[r]
    BY <1>8, <1>9 DEF ReapCommits
  <2> QED
    BY <1>1, <2>1, <2>2, <2>3 DEF MilestoneCommits, NothingCommits
<1>10. ASSUME NEW e \in t.log
       PROVE  /\ e.run \in Runs /\ row'[e.run].state # "UNBORN"
              /\ e.type = "INGESTED" => TransitionCommits(t) /\ e.run = t.run
  <2>1. \A d \in NewRows(t) : d.run = Subject(t)
    BY DEF NewRows, EventRow
  <2>2. CASE AllocateCommits(t)
    <3>1. e = Received(t) \/ (t.old # NoRun /\ e \in NewRows(t))
      BY <1>10, <2>2 DEF AllocateCommits
    <3>2. Received(t).run = t.run /\ Received(t).type = "WEBHOOK_RECEIVED"
      BY DEF Received, EventRow
    <3>3. Subject(t) = t.old
      BY <1>6, <2>2 DEF Subject
    <3>4. t.old # NoRun => t.old \in Active
      BY <1>6, <2>2
    <3>5. \A d \in NewRows(t) : d.type = "RUN_SUPERSEDED"
      <4>1. Emitted(t) = << <<"RUN_SUPERSEDED", "none">> >>
        BY <1>1, <1>6, <2>2 DEF Emitted, Ends, EndOf
      <4> QED
        BY <4>1 DEF NewRows, EventRow
    <3> QED
      BY <1>1, <1>2, <1>6, <2>1, <2>2, <3>1, <3>2, <3>3, <3>4, <3>5 DEF Active
  <2>3. CASE TransitionCommits(t)
    <3>1. e.run = t.run
      BY <1>7, <1>10, <2>1, <2>3 DEF TransitionCommits, Subject
    <3> QED
      BY <1>1, <1>7, <2>3, <3>1
  <2>4. CASE MilestoneCommits(t)
    <3>1. e \in NewRows(t) /\ t.op \in Milestones /\ t.op # "allocateRun"
      BY <1>10, <2>4 DEF MilestoneCommits, Milestones
    <3>2. e.run = t.run
      BY <2>1, <3>1 DEF Subject
    <3>3. \A i \in DOMAIN Emitted(t) : Emitted(t)[i][1] # "INGESTED"
      <4>1. Emitted(t) \in {<< <<"FINDINGS_PERSISTED", "none">> >>, << <<"ANALYZED", "none">> >>}
        BY <1>1, <3>1 DEF Emitted, Milestones, Ends, EndOf
      <4> QED
        BY <4>1
    <3>4. e.type # "INGESTED"
      BY <3>1, <3>3 DEF NewRows, EventRow
    <3> QED
      BY <1>1, <1>2, <1>5, <3>1, <3>2, <3>4
  <2> QED
    BY <1>1, <1>10, <2>2, <2>3, <2>4 DEF ReapCommits, NothingCommits
<1>11. \A e \in stream' : row'[e.run].state # "UNBORN"
  <2>1. \A e \in stream : e.run \in Runs /\ row[e.run].state # "UNBORN"
    BY <1>3 DEF TablesInv, EventRows
  <2> QED
    BY <1>1, <1>2, <1>10, <2>1
<1>12. ASSUME NEW r \in Runs, NEW e \in stream', e.run = r, e.type = "INGESTED"
       PROVE  row'[r].state \notin {"UNBORN", "PENDING"}
  <2>1. CASE e \in t.log
    BY <1>7, <1>10, <1>12, <2>1
  <2>2. CASE e \in stream
    <3>1. row[r].state \notin {"UNBORN", "PENDING"}
      BY <1>3, <1>12, <2>2 DEF TablesInv, Logged
    <3>2. AllocateCommits(t) => r # t.run
      BY <1>1, <1>6, <3>1 DEF Ok, Sees
    <3> QED
      BY <1>2, <1>9, <1>12, <3>1, <3>2
  <2> QED
    BY <1>1, <1>12, <2>1, <2>2
<1>13. \A r \in Runs : row'[r].state \in {"PENDING", "RUNNING"} => r = pointer'
  <2> SUFFICES ASSUME NEW r \in Runs, row'[r].state \in {"PENDING", "RUNNING"}
               PROVE  r = pointer'
    OBVIOUS
  <2>1. CASE AllocateCommits(t)
    <3>1. r \notin Active
      BY <1>6, <2>1
    <3>2. row'[r] = row[r] => r \in Active
      BY DEF Active
    <3> QED
      BY <1>2, <2>1, <3>1, <3>2 DEF AllocateCommits
  <2>2. CASE ~AllocateCommits(t)
    <3>1. pointer' = pointer /\ t.op # "allocateRun"
      BY <1>1, <1>7, <2>2
         DEF TransitionCommits, MilestoneCommits, ReapCommits, NothingCommits, Transitions,
             Milestones, Ends, EndOf
    <3>2. r \in Active
      BY <1>2, <3>1 DEF Active
    <3> QED
      BY <1>3, <3>1, <3>2 DEF TablesInv
  <2> QED
    BY <2>1, <2>2
<1>14. pointer' # NoRun => row'[pointer'].state # "UNBORN"
  <2>1. CASE AllocateCommits(t)
    BY <1>6, <2>1 DEF AllocateCommits
  <2>2. CASE ~AllocateCommits(t)
    <3>1. pointer' = pointer
      BY <1>1, <2>2 DEF TransitionCommits, MilestoneCommits, ReapCommits, NothingCommits
    <3>2. pointer # NoRun => pointer \in Runs
      BY DEF Inv, TypeInv, RunOrNone
    <3> QED
      BY <1>2, <1>3, <3>1, <3>2 DEF TablesInv
  <2> QED
    BY <2>1, <2>2
<1> QED
  BY <1>4, <1>11, <1>12, <1>13, <1>14 DEF TablesInv, Logged, Active, EventsOf

LEMMA CommitInv == ASSUME Inv, NEW s \in Slots, Commit(s) PROVE Inv'
<1>1. TypeInv' /\ TablesInv'
  BY CommitType, CommitTables
<1>2. tx' = [tx EXCEPT ![s] = Idle]
  BY CommitKinds
<1>3. \A q \in Slots : tx'[q] = IF q = s THEN Idle ELSE tx[q]
  BY <1>2 DEF Inv, TypeInv
<1>4. ASSUME NEW q \in Slots, tx'[q] # Idle PROVE Ok(tx[q])'
  <2> DEFINE u == tx'[q]
  <2>1. q # s /\ u = tx[q]
    BY <1>3, <1>4
  <2> SUFFICES Ok(tx[q])'
    OBVIOUS
  <2>2. PICK v : v = tx[q]
    OBVIOUS
  <2>3. Ok(v)'
    BY <1>4, <2>1, <2>2, OkSurvives
  <2>4. tx'[q] = v
    BY <2>1, <2>2
  <2> QED
    BY <2>3, <2>4
<1>5. \A t : Apart(Idle, t) /\ Apart(t, Idle)
  <2>1. Idle.op # "allocateRun" /\ Idle.locks = {}
    BY IdleIsNotOpen, NullsAssumption DEF Ops
  <2> QED
    BY <2>1 DEF Apart
<1>6. \A p, q \in Slots : p # q => Apart(tx'[p], tx'[q])
  BY <1>3, <1>5 DEF Inv
<1> QED
  BY <1>1, <1>4, <1>6 DEF Inv, Apart

-----------------------------------------------------------------------------
(* Every reachable state *)

LEMMA InitInv == Init => Inv
<1> SUFFICES ASSUME Init PROVE Inv
  OBVIOUS
<1>1. TypeInv
  BY DEF Init, TypeInv, RunRows, Unborn, States, RunOrNone
<1>2. \A r \in Runs : row[r].state = "UNBORN"
  BY DEF Init, Unborn
<1>3. \A r \in Runs : EventsOf(r) = {}
  BY DEF Init, EventsOf
<1>4. Numbers({}, 0)
  BY DEF Numbers
<1>5. TablesInv
  BY <1>2, <1>3, <1>4 DEF Init, TablesInv, Logged, Active
<1>6. \A s \in Slots : tx[s] = Idle
  BY DEF Init
<1>7. Apart(Idle, Idle)
  <2>1. Idle.op # "allocateRun" /\ Idle.locks = {}
    BY IdleIsNotOpen, NullsAssumption DEF Ops
  <2> QED
    BY <2>1 DEF Apart
<1> QED
  BY <1>1, <1>5, <1>6, <1>7 DEF Inv

LEMMA NextInv == Inv /\ [Next]_vars => Inv'
<1> SUFFICES ASSUME Inv, [Next]_vars PROVE Inv'
  OBVIOUS
<1>1. ASSUME NEW s \in Slots, NEW op \in Ops, NEW r \in Runs, Open(s, op, r) PROVE Inv'
  BY <1>1, OpenInv
<1>2. ASSUME NEW s \in Slots,
             \/ LockReview(s) \/ SupersedeRun(s) \/ InsertRun(s) \/ AssertCurrentRun(s)
             \/ ReadRun(s) \/ UpdateRun(s) \/ SelectEvent(s) \/ Sweep(s)
             \/ LockLog(s) \/ AppendEvent(s) \/ CheckReview(s) \/ CheckRun(s)
             \/ Commit(s) \/ Abort(s)
      PROVE  Inv'
  BY <1>2, LockReviewInv, SupersedeRunInv, InsertRunInv, AssertCurrentRunInv, ReadRunInv,
     UpdateRunInv, SelectEventInv, SweepInv, LockLogInv, AppendEventInv, CheckReviewInv,
     CheckRunInv, CommitInv, AbortInv
<1>3. CASE UNCHANGED vars
  <2>1. UNCHANGED <<row, pointer, stream>> /\ UNCHANGED tx
    BY <1>3 DEF vars
  <2>2. TypeInv'
    BY <1>3 DEF vars, Inv, TypeInv
  <2>3. TablesInv'
    BY <2>1, TablesStay DEF Inv
  <2>4. ASSUME NEW s \in Slots, tx'[s] # Idle PROVE Ok(tx[s])'
    <3>1. PICK v : v = tx[s]
      OBVIOUS
    <3>2. Ok(v)'
      BY <2>1, <2>4, <3>1, OkStays DEF Inv
    <3>3. tx'[s] = v
      BY <2>1, <3>1
    <3> QED
      BY <3>2, <3>3
  <2>5. \A s, q \in Slots : s # q => Apart(tx'[s], tx'[q])
    BY <2>1 DEF Inv
  <2> QED
    BY <2>2, <2>3, <2>4, <2>5 DEF Inv, Apart
<1> QED
  BY <1>1, <1>2, <1>3 DEF Next

LEMMA TransactionsInv == Spec => []Inv
BY InitInv, NextInv, PTL DEF Spec

\* Rows with the numbers 1 .. n are n rows.
LEMMA NumbersCount ==
  ASSUME NEW E, NEW n \in Nat, Numbers(E, n)
  PROVE  Cardinality(E) = n
<1> DEFINE f == [e \in E |-> e.seq]
<1>1. f \in Bijection(E, 1..n)
  <2>1. f \in [E -> 1..n]
    BY DEF Numbers
  <2>2. \A d, e \in E : f[d] = f[e] => d = e
    BY DEF Numbers
  <2>3. \A i \in 1..n : \E e \in E : f[e] = i
    BY DEF Numbers
  <2> HIDE DEF f
  <2> QED
    BY <2>1, <2>2, <2>3 DEF Bijection, Injection, IsInjective, Surjection
<1>2. ExistsBijection(1..n, E)
  BY <1>1, Fun_ExistsBijSymmetric DEF ExistsBijection
<1> QED
  BY <1>2, FS_CountingElements

\* However transactions overlap, the events of a run are numbered 1, 2, 3, ... once
\* each: emitWorkflowEvent's advisory lock serialises MAX + 1 with the commit.
THEOREM SequenceIsGaplessHolds == Spec => []SequenceIsGapless
<1>1. ASSUME Inv PROVE SequenceIsGapless
  <2> SUFFICES ASSUME NEW r \in Runs
               PROVE  {e.seq : e \in EventsOf(r)} = 1..Cardinality(EventsOf(r))
    BY DEF SequenceIsGapless, EventsOf
  <2>1. PICK n \in Nat : Numbers(EventsOf(r), n)
    BY <1>1 DEF Inv, TablesInv
  <2>2. Cardinality(EventsOf(r)) = n
    BY <2>1, NumbersCount
  <2> QED
    BY <2>1, <2>2 DEF Numbers
<1> QED
  BY <1>1, TransactionsInv, PTL

-----------------------------------------------------------------------------
(* Circles of waiting transactions *)

Orderly == {"allocateRun", "dispatchRow", "persistAggregated", "reap"}

\* How far an orderly transaction has come with its locks.
Rank(at) ==
  CASE at \in {"lockReview", "assertCurrentRun", "sweep"} -> 0
    [] at \in {"supersede", "readRun"} -> 1
    [] at = "lockLog" -> 2
    [] at = "checkRun" -> 3
    [] at \in {"append", "insertRun", "selectEvent", "checkReview", "updateRun", "end"} -> 4

LEMMA RankType == \A at \in Places : Rank(at) \in 0..4
BY DEF Rank, Places

LEMMA RankIs ==
  /\ \A at \in {"lockReview", "assertCurrentRun", "sweep"} : Rank(at) = 0
  /\ \A at \in {"supersede", "readRun"} : Rank(at) = 1
  /\ Rank("lockLog") = 2 /\ Rank("checkRun") = 3
  /\ \A at \in {"append", "insertRun", "selectEvent", "checkReview", "updateRun", "end"} :
       Rank(at) = 4
BY DEF Rank

\* Whoever an orderly transaction waits for among its kind has come farther.
LEMMA WaitsUpwards ==
  ASSUME Inv, NEW s \in Slots, NEW q \in Slots, tx[s].op \in Orderly, tx[q].op \in Orderly,
         WaitsFor(s, q)
  PROVE  Rank(tx[s].at) < Rank(tx[q].at)
<1> DEFINE t == tx[s]
           u == tx[q]
<1>1. PICK w \in Wants(t), l \in u.locks : w[1] = l[1] /\ Conflict(w[2], l[2])
  BY DEF WaitsFor
<1>2. Apart(t, u) /\ Apart(u, t)
  BY DEF WaitsFor, Inv
<1>3. t \in OpenTx /\ u \in OpenTx /\ Ok(t) /\ Ok(u)
  <2>1. NoOp \notin Orderly
    BY NullsAssumption DEF Orderly, Ops
  <2>2. t # Idle /\ u # Idle
    BY <2>1, IdleIsNotOpen
  <2> QED
    BY <2>2 DEF Inv, TypeInv
<1>4. t.op \in Orderly /\ u.op \in Orderly
  OBVIOUS
<1> HIDE DEF t, u
<1>5. t.at \in Places /\ u.at \in Places /\ t.run \in Runs /\ u.run \in Runs
  BY <1>3 DEF OpenTx
<1>6. HoldsOnly(u)
  BY <1>3 DEF Ok
\* An allocation that has the review's row shares it with nobody.
<1>7. ASSUME t.op = "allocateRun" /\ t.at # "lockReview"
      PROVE  /\ \A m \in u.locks : m[1] # ReviewRow \/ ~Conflict("update", m[2])
             /\ u.op = "allocateRun" => u.at = "lockReview"
             /\ u.op \in Guarded => u.at = "assertCurrentRun"
  <2>1. <<ReviewRow, "update">> \in t.locks
    BY <1>3, <1>7 DEF Ok, Locked
  <2>2. \A m \in u.locks : m[1] # ReviewRow \/ ~Conflict("update", m[2])
    BY <1>2, <2>1 DEF Apart
  <2>3. <<ReviewRow, "update">> \notin u.locks /\ <<ReviewRow, "share">> \notin u.locks
    BY <2>2 DEF Conflict
  <2> QED
    BY <1>3, <2>2, <2>3 DEF Ok, Locked
<1>8. ASSUME t.op \in Guarded /\ t.at # "assertCurrentRun"
      PROVE  u.op = "allocateRun" => u.at = "lockReview"
  <2>1. <<ReviewRow, "share">> \in t.locks
    BY <1>3, <1>8 DEF Ok, Locked
  <2>2. <<ReviewRow, "update">> \notin u.locks
    BY <1>2, <2>1 DEF Apart, Conflict
  <2> QED
    BY <1>3, <2>2 DEF Ok, Locked
<1>9. CASE t.at = "lockReview" \/ t.at = "assertCurrentRun"
  <2>1. l[1] = ReviewRow
    BY <1>1, <1>9 DEF Wants
  <2>2. u.at \notin {"lockReview", "assertCurrentRun", "sweep"}
    <3>1. u.op # "reap"
      BY <1>6, <2>1 DEF HoldsOnly
    <3>2. u.op = "allocateRun" \/ u.op \in Guarded
      BY <1>4, <3>1 DEF Orderly, Guarded
    <3>3. u.op = "allocateRun" => u.at \notin {"lockReview", "assertCurrentRun", "sweep"}
      BY <1>3, <1>6, <2>1, WhoIsAt DEF HoldsOnly, Ok, OpenTx, Guarded
    <3>4. u.op \in Guarded => u.at \notin {"lockReview", "assertCurrentRun", "sweep"}
      BY <1>3, <1>6, <2>1, WhoIsAt DEF HoldsOnly, Ok, OpenTx, Guarded
    <3> QED
      BY <3>2, <3>3, <3>4
  <2>3. Rank(u.at) > 0
    BY <1>5, <2>2 DEF Rank, Places
  <2> QED
    BY <1>9, <2>3, RankIs DEF t, u
<1>10. ASSUME NEW r \in Runs, l[1] = RunRow(r)
       PROVE  /\ u.op = "allocateRun" => u.at \notin {"lockReview", "supersede"}
              /\ u.op = "dispatchRow" => /\ r = u.run /\ ~u.stale
                                         /\ u.at \notin {"assertCurrentRun", "readRun"}
              /\ u.op \in {"persistAggregated", "reap"} => u.at = "end"
              /\ u.op = "persistAggregated" => l[2] = "key"
  BY <1>6, <1>10, LockKinds DEF HoldsOnly
<1>11. CASE t.at = "sweep"
  <2>1. PICK r \in Runs : l[1] = RunRow(r)
    BY <1>1, <1>11 DEF Wants, Running
  <2>2. u.at \notin {"lockReview", "assertCurrentRun", "sweep"}
    BY <1>3, <1>4, <1>10, <2>1, WhoIsAt DEF Orderly, Ok, OpenTx, Guarded
  <2>3. Rank(u.at) > 0
    BY <1>5, <2>2 DEF Rank, Places
  <2> QED
    BY <1>11, <2>3, RankIs DEF t, u
<1>12. CASE t.at = "supersede"
  <2>1. PICK r \in Runs : l[1] = RunRow(r)
    BY <1>1, <1>12 DEF Wants, Active
  <2>2. t.op = "allocateRun"
    BY <1>3, <1>12, WhoIsAt DEF Ok, OpenTx
  <2>3. u.at = "end"
    BY <1>4, <1>7, <1>10, <1>12, <2>1, <2>2 DEF Orderly, Guarded
  <2> QED
    BY <1>12, <2>3, RankIs DEF t, u
<1>13. CASE t.at = "readRun"
  <2>1. l[1] = RunRow(t.run)
    BY <1>1, <1>13 DEF Wants
  <2>2. t.op = "dispatchRow"
    BY <1>3, <1>4, <1>13, WhoIsAt DEF Ok, OpenTx, Orderly, Transitions, Ends, EndOf
  <2>3. u.op # "allocateRun"
    BY <1>5, <1>8, <1>10, <1>13, <2>1, <2>2 DEF Guarded
  <2>4. u.at = "end" \/ (u.op = "dispatchRow" /\ u.at \notin {"assertCurrentRun", "readRun"})
    BY <1>4, <1>5, <1>10, <2>1, <2>3 DEF Orderly
  <2>5. u.at \notin {"lockReview", "assertCurrentRun", "sweep", "supersede", "readRun"}
    BY <1>3, <2>4, WhoIsAt DEF Ok, OpenTx
  <2>6. Rank(u.at) > 1
    BY <1>5, <2>5 DEF Rank, Places
  <2> QED
    BY <1>13, <2>6, RankIs DEF t, u
<1>14. CASE t.at = "updateRun"
  <2>1. l[1] = RunRow(t.run) /\ w[2] = "noKey"
    BY <1>1, <1>14 DEF Wants
  <2>2. <<RunRow(t.run), "update">> \in t.locks
    BY <1>3, <1>14, WhoIsAt DEF Ok, OpenTx, Locked, Placed, Emission4, Emitting
  <2>3. ~Conflict("update", l[2])
    BY <1>2, <2>1, <2>2 DEF Apart
  <2> QED
    BY <1>1, <2>1, <2>3 DEF Conflict
<1>15. CASE t.at = "lockLog"
  <2>1. l[1] = LogLock(Subject(t)) /\ Subject(t) \in Runs
    BY <1>1, <1>3, <1>15, EmittingSubject DEF Wants, Emission4
  <2>2. u.at \in Emitting \cup {"insertRun", "end"}
    BY <1>6, <2>1 DEF HoldsOnly
  <2>3. Rank(u.at) > 2
    BY <2>2, RankIs DEF Emitting
  <2> QED
    BY <1>15, <2>3, RankIs DEF t, u
<1>16. CASE t.at = "checkReview"
  <2>1. l[1] = ReviewRow /\ l[2] = "update"
    BY <1>1, <1>16 DEF Wants, Conflict
  <2>2. u.op = "allocateRun" /\ u.at # "lockReview"
    BY <1>4, <1>6, <2>1 DEF HoldsOnly, Orderly, Guarded
  <2>3. t.op # "reap"
    BY <1>3, <1>16, EmittingSubject DEF Emission4, Emitting
  <2> QED
    BY <1>4, <1>7, <1>8, <1>16, <2>2, <2>3 DEF Orderly, Guarded
<1>17. CASE t.at = "checkRun"
  <2>1. l[1] = RunRow(Subject(t)) /\ l[2] = "update" /\ Subject(t) \in Runs /\ t.op # "reap"
    <3>1. Subject(t) \in Runs /\ t.op # "reap"
      BY <1>3, <1>17, EmittingSubject DEF Emission4, Emitting
    <3> QED
      BY <1>1, <1>17, <3>1 DEF Wants, Conflict
  <2>2. u.op # "allocateRun"
    BY <1>4, <1>7, <1>8, <1>10, <1>17, <2>1 DEF Orderly, Guarded
  <2>3. u.op # "persistAggregated"
    BY <1>10, <2>1
  <2>4. CASE u.op = "reap"
    BY <1>10, <1>17, <2>1, <2>4, RankIs DEF t, u
  <2>5. CASE u.op = "dispatchRow"
    <3>1. Subject(t) = u.run /\ ~u.stale /\ u.at \notin {"assertCurrentRun", "readRun"}
      BY <1>10, <2>1, <2>5
    <3>2. t.op # "allocateRun"
      BY <1>7, <1>17, <2>5, <3>1 DEF Guarded
    <3>3. t.run = u.run
      BY <3>1, <3>2 DEF Subject
    <3>4. pointer = u.run
      BY <1>3, <2>5, <3>1 DEF Ok, Sees, Guarded
    <3>5. CASE t.op = "dispatchRow"
      <4>1. ~t.stale
        BY <1>3, <1>17, <3>3, <3>4, <3>5 DEF Ok, Sees, Guarded
      <4>2. <<RunRow(t.run), "update">> \in t.locks
        BY <1>3, <1>17, <3>5, <4>1 DEF Ok, Locked, Transitions
      <4> QED
        BY <1>2, <2>1, <3>2, <4>2 DEF Apart, Conflict, Subject
    <3>6. CASE t.op = "persistAggregated"
      <4>1. row[u.run].state # "PENDING"
        BY <1>3, <1>5, <3>3, <3>6 DEF Ok, Sees, Milestones, Inv, TablesInv
      <4>2. u.at \notin {"updateRun"} \cup Emission4
        BY <1>3, <2>5, <3>1, <4>1 DEF Ok, Sees, Transitions, From
      <4>3. u.at = "end"
        BY <1>3, <2>5, <3>1, <4>2, PlacesAre DEF Ok, Placed
      <4> QED
        BY <1>17, <4>3, RankIs DEF t, u
    <3> QED
      BY <1>4, <2>1, <3>2, <3>5, <3>6 DEF Orderly
  <2> QED
    BY <1>4, <2>2, <2>3, <2>4, <2>5 DEF Orderly
<1>18. t.at \notin {"append", "insertRun", "selectEvent", "end"}
  BY <1>1 DEF Wants
<1> QED
  BY <1>5, <1>9, <1>11, <1>12, <1>13, <1>14, <1>15, <1>16, <1>17, <1>18 DEF Places

LEMMA NoEndlessClimb ==
  ASSUME NEW C, NEW f, \A s \in C : f[s] \in 0..4, \A s \in C : \E q \in C : f[s] < f[q]
  PROVE  C = {}
<1>1. \A s \in C : f[s] < 4
  OBVIOUS
<1>2. \A s \in C : f[s] < 3
  BY <1>1
<1>3. \A s \in C : f[s] < 2
  BY <1>2
<1>4. \A s \in C : f[s] < 1
  BY <1>3
<1> QED
  BY <1>4

\* Pushes, dispatches, guarded writes and sweeps never wait for one another in a
\* circle, since each waits only for one that has come farther: the order in which
\* allocateRun, dispatchRow and persistAggregated take the review's row, the run's row
\* and the run's log is safe, and a deadlock needs one of the others.
THEOREM DeadlockNeedsLateLockerHolds == Spec => []DeadlockNeedsLateLocker
<1>1. ASSUME Inv PROVE DeadlockNeedsLateLocker
  <2> DEFINE orderly == {s \in Slots : tx[s].op \in {"allocateRun", "dispatchRow",
                                                      "persistAggregated", "reap"}}
             Free(circle) == \E s \in circle : \A q \in circle : ~WaitsFor(s, q)
  <2>1. ASSUME NEW circle \in SUBSET orderly, circle # {},
               \A s \in circle : \E q \in circle : WaitsFor(s, q)
        PROVE  FALSE
    <3> DEFINE f == [s \in circle |-> Rank(tx[s].at)]
    <3>1. \A s \in circle : tx[s] \in OpenTx
      <4>1. NoOp \notin Orderly
        BY NullsAssumption DEF Orderly, Ops
      <4>2. \A s \in circle : s \in Slots /\ tx[s].op \in Orderly
        BY <2>1 DEF Orderly
      <4> QED
        BY <1>1, <4>1, <4>2, IdleIsNotOpen DEF Inv, TypeInv
    <3>2. \A s \in circle : f[s] \in 0..4
      BY <3>1, RankType DEF OpenTx
    <3>3. ASSUME NEW s \in circle PROVE \E q \in circle : f[s] < f[q]
      <4>1. PICK q \in circle : WaitsFor(s, q)
        BY <2>1
      <4> QED
        BY <1>1, <2>1, <4>1, WaitsUpwards DEF Orderly
    <3> HIDE DEF f
    <3> QED
      BY <2>1, <3>2, <3>3, NoEndlessClimb
  <2>2. ASSUME NEW circle \in (SUBSET orderly) \ {{}} PROVE Free(circle)
    <3>1. circle \in SUBSET orderly /\ circle # {}
      <4> HIDE DEF orderly, Free
      <4> QED
        BY <2>2
    <3>2. ~\A s \in circle : \E q \in circle : WaitsFor(s, q)
      BY <2>1, <3>1
    <3> QED
      BY <3>2
  <2> QED
    BY <2>2 DEF DeadlockNeedsLateLocker
<1> QED
  BY <1>1, TransactionsInv, PTL
-----------------------------------------------------------------------------
(* Every commit is a step of ReviewRuns *)

\* The numbers of the rows of one type in the log of a run.
Posted(r, type) == {e.seq : e \in {e \in stream : e.run = r /\ e.type = type}}

\* A transaction that will commit a milestone, since its SELECT has not found one.
WillEmit(t, r, type) ==
  /\ t.op \in Milestones /\ MilestoneOf(t.op) = type
  /\ t.run = r /\ ~t.stale
  /\ t.at \in Emission4 \/ (t.at = "end" /\ t.log # {})

Emitters(r, type) == {s \in Slots : WillEmit(tx[s], r, type)}

MilestoneTypes == {"FINDINGS_PERSISTED", "ANALYZED"}

\* A milestone is there at most once for each connection.
FewAttempts ==
  \A r \in Runs, type \in MilestoneTypes :
    Cardinality(Posted(r, type)) + Cardinality(Emitters(r, type)) <= Cardinality(Slots)

MintedOnce ==
  /\ \A i, j \in 1..Len(minted) : minted[i] = minted[j] => i = j
  /\ \A r \in Runs : row[r].state # "UNBORN" <=> \E i \in 1..Len(minted) : minted[i] = r

AtomicInv ==
  /\ MintedOnce /\ FewAttempts
  /\ \A r \in Runs : row[r].state = "UNBORN" => row[r] = Unborn
  /\ \A e \in stream : e.type # "lifecycle_transition" => e.to = "none"

LogEntries == [type : EventTypes, to : States \cup {"none"}]
EntryOf(e) == [type |-> e.type, to |-> e.to]

LEMMA NumbersRow ==
  ASSUME NEW E, NEW n \in Nat, Numbers(E, n), NEW e \in E
  PROVE  e.seq \in 1..n /\ (CHOOSE d \in E : d.seq = e.seq) = e
BY DEF Numbers

LEMMA NumbersHave ==
  ASSUME NEW E, NEW n \in Nat, Numbers(E, n), NEW i \in 1..n
  PROVE  \E e \in E : e.seq = i /\ (CHOOSE d \in E : d.seq = i) = e
BY DEF Numbers

\* Rows in the order of their numbers.
LogFrom(E) ==
  [i \in 1..Cardinality(E) |->
     LET e == CHOOSE e \in E : e.seq = i IN [type |-> e.type, to |-> e.to]]

LEMMA LogFromIs ==
  ASSUME NEW E \in SUBSET EventRows, NEW n \in Nat, Numbers(E, n)
  PROVE  /\ LogFrom(E) \in Seq(LogEntries) /\ Len(LogFrom(E)) = n
         /\ \A e \in E : e.seq \in 1..n /\ LogFrom(E)[e.seq] = EntryOf(e)
         /\ \A i \in 1..n : \E e \in E : e.seq = i /\ LogFrom(E)[i] = EntryOf(e)
<1> DEFINE Entry(i) == LET e == CHOOSE e \in E : e.seq = i IN [type |-> e.type, to |-> e.to]
<1>1. Cardinality(E) = n
  BY NumbersCount
<1>2. LogFrom(E) = [i \in 1..n |-> Entry(i)]
  BY <1>1 DEF LogFrom
<1>3. \A i \in 1..n : \E e \in E : e.seq = i /\ Entry(i) = EntryOf(e)
  BY NumbersHave DEF EntryOf
<1>4. \A e \in E : e.seq \in 1..n /\ Entry(e.seq) = EntryOf(e)
  BY NumbersRow DEF EntryOf
<1>5. \A e \in E : EntryOf(e) \in LogEntries
  BY DEF EntryOf, LogEntries, EventRows
<1> HIDE DEF Entry
<1>6. \A i \in 1..n : Entry(i) \in LogEntries
  BY <1>3, <1>5
<1>7. LogFrom(E) \in Seq(LogEntries) /\ Len(LogFrom(E)) = n
  BY <1>2, <1>6
<1>8. \A i \in 1..n : LogFrom(E)[i] = Entry(i)
  BY <1>2
<1> QED
  BY <1>3, <1>4, <1>7, <1>8

LEMMA LogOfIs ==
  /\ \A r : LogOf(r) = LogFrom(EventsOf(r))
  /\ \A r : LogOf(r)' = LogFrom(EventsOf(r)')
BY DEF LogOf, LogFrom, EventsOf

\* The rows F carry on the numbers after n, with the entries new.
CarryOn(F, n, new) ==
  /\ \A e \in F : e.seq \in (n + 1)..(n + Len(new))
  /\ \A i \in 1..Len(new) : \E e \in F : e.seq = n + i /\ EntryOf(e) = new[i]

LEMMA LogsExtend ==
  ASSUME NEW E \in SUBSET EventRows, NEW n \in Nat, Numbers(E, n),
         NEW new \in Seq(LogEntries), NEW F \in SUBSET EventRows,
         NEW m \in Nat, Numbers(E \cup F, m), CarryOn(F, n, new)
  PROVE  LogFrom(E \cup F) = LogFrom(E) \o new
<1> DEFINE k == Len(new)
           s == LogFrom(E)
           t == LogFrom(E \cup F)
<1>1. k \in Nat
  OBVIOUS
<1>2. /\ s \in Seq(LogEntries) /\ Len(s) = n
      /\ \A e \in E : e.seq \in 1..n /\ s[e.seq] = EntryOf(e)
      /\ \A i \in 1..n : \E e \in E : e.seq = i /\ s[i] = EntryOf(e)
  BY LogFromIs
<1>3. /\ t \in Seq(LogEntries) /\ Len(t) = m
      /\ \A e \in E \cup F : t[e.seq] = EntryOf(e)
  BY LogFromIs
<1> HIDE DEF s, t
<1>4. {e.seq : e \in E \cup F} = 1..(n + k)
  <2>1. ASSUME NEW e \in E \cup F PROVE e.seq \in 1..(n + k)
    BY <1>1, <1>2 DEF CarryOn
  <2>2. ASSUME NEW i \in 1..(n + k) PROVE \E e \in E \cup F : e.seq = i
    <3>1. CASE i \in 1..n
      BY <1>2, <3>1
    <3>2. CASE i \notin 1..n
      <4>1. i - n \in 1..k /\ i = n + (i - n)
        BY <1>1, <3>2
      <4> QED
        BY <4>1 DEF CarryOn
    <3> QED
      BY <3>1, <3>2
  <2> QED
    BY <2>1, <2>2
<1>5. m = n + k
  <2>1. 1..m = 1..(n + k)
    BY <1>4 DEF Numbers
  <2> QED
    BY <1>1, <2>1
<1>6. s \o new \in Seq(LogEntries) /\ Len(s \o new) = n + k
  BY <1>2, ConcatProperties
<1>7. \A i \in 1..(n + k) : (s \o new)[i] = IF i <= n THEN s[i] ELSE new[i - n]
  BY <1>2, ConcatProperties
<1>8. ASSUME NEW i \in 1..(n + k) PROVE t[i] = (s \o new)[i]
  <2>1. CASE i <= n
    <3>1. PICK e \in E : e.seq = i /\ s[i] = EntryOf(e)
      BY <1>2, <2>1
    <3> QED
      BY <1>3, <1>7, <2>1, <3>1
  <2>2. CASE ~(i <= n)
    <3>1. i - n \in 1..k /\ n + (i - n) = i
      BY <1>1, <2>2
    <3>2. PICK e \in F : e.seq = i /\ EntryOf(e) = new[i - n]
      BY <3>1 DEF CarryOn
    <3> QED
      BY <1>3, <1>7, <2>2, <3>2
  <2> QED
    BY <2>1, <2>2
<1> HIDE DEF k
<1> QED
  BY <1>3, <1>5, <1>6, <1>8, SeqEqual DEF s, t

\* Rows that carry on the numbers carry on the log.
LEMMA LogGrows ==
  ASSUME Inv, Inv', NEW r \in Runs, NEW n \in Nat, Numbers(EventsOf(r), n),
         NEW new \in Seq(LogEntries), NEW F, EventsOf(r)' = EventsOf(r) \cup F,
         CarryOn(F, n, new)
  PROVE  LogOf(r)' = LogOf(r) \o new
<1>1. EventsOf(r) \subseteq EventRows /\ EventsOf(r)' \subseteq EventRows
  BY DEF Inv, TypeInv, EventsOf
<1>2. PICK m \in Nat : Numbers(EventsOf(r)', m)
  BY DEF Inv, TablesInv
<1>3. EventsOf(r) \in SUBSET EventRows /\ F \in SUBSET EventRows
      /\ Numbers(EventsOf(r) \cup F, m)
  BY <1>1, <1>2
<1> DEFINE E == EventsOf(r)
<1>4. E \in SUBSET EventRows /\ Numbers(E, n) /\ Numbers(E \cup F, m)
  BY <1>3
<1> HIDE DEF E
<1>6. \A G \in SUBSET EventRows : Numbers(E \cup G, m) /\ CarryOn(G, n, new)
                                => LogFrom(E \cup G) = LogFrom(E) \o new
  BY ONLY <1>4, n \in Nat, m \in Nat, new \in Seq(LogEntries), LogsExtend
<1>5. LogFrom(EventsOf(r) \cup F) = LogFrom(EventsOf(r)) \o new
  <2>1. LogFrom(E \cup F) = LogFrom(E) \o new
    BY ONLY <1>3, <1>4, <1>6, CarryOn(F, n, new)
  <2> QED
    BY ONLY <2>1 DEF E
<1> QED
  BY <1>5, LogOfIs

LEMMA LogStays ==
  ASSUME NEW r, EventsOf(r)' = EventsOf(r)
  PROVE  LogOf(r)' = LogOf(r)
BY LogOfIs

\* What a transaction emits, as ReviewRuns writes it.
LEMMA LogAppended ==
  ASSUME Inv, Inv', NEW t, t.op \in Ops \ {"reap"}, NEW r \in Runs, r = Subject(t),
         EventsOf(r)' = EventsOf(r) \cup NewRows(t),
         NEW new \in Seq(LogEntries), DOMAIN Emitted(t) = 1..Len(new),
         \A i \in 1..Len(new) : new[i] = [type |-> Emitted(t)[i][1], to |-> Emitted(t)[i][2]]
  PROVE  LogOf(r)' = LogOf(r) \o new
<1>1. PICK n \in Nat : Numbers(EventsOf(r), n)
  BY DEF Inv, TablesInv
<1>2. MaxSequence(r) = n
  BY <1>1, MaxSequenceIs
<1> DEFINE f == [i \in 1..Len(new) |-> EventRow(r, n + i, Emitted(t)[i][1], Emitted(t)[i][2])]
<1>3. NewRows(t) = {f[i] : i \in 1..Len(new)}
  BY <1>2 DEF NewRows
<1>4. \A i \in 1..Len(new) : f[i].seq = n + i /\ EntryOf(f[i]) = new[i]
  BY DEF EventRow, EntryOf
<1> HIDE DEF f
<1>5. CarryOn(NewRows(t), n, new)
  <2>1. \A e \in NewRows(t) : e.seq \in (n + 1)..(n + Len(new))
    BY <1>3, <1>4
  <2>2. \A i \in 1..Len(new) : \E e \in NewRows(t) : e.seq = n + i /\ EntryOf(e) = new[i]
    BY <1>3, <1>4
  <2> QED
    BY <2>1, <2>2 DEF CarryOn
<1> QED
  BY <1>1, <1>5, LogGrows

LEMMA MaxOfOne == \A k \in Nat : Max({k} \cup {0}) = k /\ Max({} \cup {0}) = 0
<1> SUFFICES ASSUME NEW k \in Nat PROVE Max({k} \cup {0}) = k /\ Max({} \cup {0}) = 0
  OBVIOUS
<1>1. \E x \in {k} \cup {0} : \A y \in {k} \cup {0} : x >= y
  OBVIOUS
<1> QED
  BY <1>1 DEF Max

PositionsIn(m, r) == {i \in DOMAIN m : m[i] = r}

LEMMA PositionsAre ==
  /\ \A r : Positions(r) = PositionsIn(minted, r)
  /\ \A r : Positions(r)' = PositionsIn(minted', r)
BY DEF Positions, PositionsIn

\* The place of a run in the order of allocation.
LEMMA BornIs ==
  ASSUME NEW m \in Seq(Runs), \A i, j \in 1..Len(m) : m[i] = m[j] => i = j, NEW r
  PROVE  /\ \A i \in 1..Len(m) : m[i] = r => Max(PositionsIn(m, r) \cup {0}) = i
         /\ (\A i \in 1..Len(m) : m[i] # r) => Max(PositionsIn(m, r) \cup {0}) = 0
         /\ Max(PositionsIn(m, r) \cup {0}) \in 0..Len(m)
<1>1. DOMAIN m = 1..Len(m) /\ Len(m) \in Nat
  OBVIOUS
<1>2. ASSUME NEW i \in 1..Len(m), m[i] = r PROVE Max(PositionsIn(m, r) \cup {0}) = i
  <2>1. PositionsIn(m, r) = {i}
    BY <1>1, <1>2 DEF PositionsIn
  <2> QED
    BY <1>1, <2>1, MaxOfOne
<1>3. ASSUME \A i \in 1..Len(m) : m[i] # r PROVE Max(PositionsIn(m, r) \cup {0}) = 0
  <2>1. PositionsIn(m, r) = {}
    BY <1>1, <1>3 DEF PositionsIn
  <2> QED
    BY <2>1, MaxOfOne
<1>4. Max(PositionsIn(m, r) \cup {0}) \in 0..Len(m)
  <2>1. CASE \E i \in 1..Len(m) : m[i] = r
    <3>1. PICK i \in 1..Len(m) : m[i] = r
      BY <2>1
    <3>2. Max(PositionsIn(m, r) \cup {0}) = i
      BY <1>2, <3>1
    <3>3. i \in 0..Len(m)
      BY <1>1, <3>1
    <3> QED
      BY <3>2, <3>3
  <2>2. CASE \A i \in 1..Len(m) : m[i] # r
    BY <1>1, <1>3, <2>2
  <2> QED
    BY <2>1, <2>2
<1> QED
  BY <1>2, <1>3, <1>4

LEMMA BornNext ==
  ASSUME NEW m \in Seq(Runs), NEW new \in Runs, \A i \in 1..Len(m) : m[i] # new
  PROVE  /\ PositionsIn(Append(m, new), new) = {Len(m) + 1}
         /\ \A r : r # new => PositionsIn(Append(m, new), r) = PositionsIn(m, r)
<1>1. /\ DOMAIN m = 1..Len(m) /\ Len(m) \in Nat
      /\ DOMAIN Append(m, new) = 1..(Len(m) + 1)
      /\ \A i \in 1..Len(m) : Append(m, new)[i] = m[i]
      /\ Append(m, new)[Len(m) + 1] = new
  OBVIOUS
<1>2. PositionsIn(Append(m, new), new) = {Len(m) + 1}
  BY <1>1 DEF PositionsIn
<1>3. \A r : r # new => PositionsIn(Append(m, new), r) = PositionsIn(m, r)
  BY <1>1 DEF PositionsIn
<1> QED
  BY <1>2, <1>3

-----------------------------------------------------------------------------
(* What else holds of the tables and of who will add a milestone *)

LEMMA AtomicInit == Init => AtomicInv
<1> SUFFICES ASSUME Init PROVE AtomicInv
  OBVIOUS
<1>1. MintedOnce
  BY DEF Init, MintedOnce, Unborn
<1>2. FewAttempts
  <2> SUFFICES ASSUME NEW r \in Runs, NEW type \in MilestoneTypes
               PROVE  Cardinality(Posted(r, type)) + Cardinality(Emitters(r, type))
                        <= Cardinality(Slots)
    BY DEF FewAttempts
  <2>1. Posted(r, type) = {}
    BY DEF Init, Posted
  <2>2. Emitters(r, type) = {}
    BY IdleIsNotOpen, NullsAssumption DEF Init, Emitters, WillEmit, Milestones, Ops
  <2>3. Cardinality(Slots) \in Nat
    BY SlotsAssumption, FS_CardinalityType
  <2> QED
    BY <2>1, <2>2, <2>3, FS_EmptySet
<1>3. /\ \A r \in Runs : row[r].state = "UNBORN" => row[r] = Unborn
      /\ \A e \in stream : e.type # "lifecycle_transition" => e.to = "none"
  BY DEF Init
<1> QED
  BY <1>1, <1>2, <1>3 DEF AtomicInv

LEMMA PostedIsFinite ==
  ASSUME Inv, NEW r \in Runs, NEW type
  PROVE  IsFiniteSet(Posted(r, type))
<1>1. PICK n \in Nat : Numbers(EventsOf(r), n)
  BY DEF Inv, TablesInv
<1>2. Posted(r, type) \in SUBSET (1..n)
  BY <1>1 DEF Posted, Numbers, EventsOf
<1>3. IsFiniteSet(1..n)
  BY FS_Interval
<1> QED
  BY <1>2, <1>3, FS_Subset

\* A statement lets a transaction join those who will emit only if its SELECT has seen nothing.
LEMMA EmittersStay ==
  ASSUME FewAttempts, NEW r \in Runs, NEW type \in MilestoneTypes,
         Posted(r, type)' = Posted(r, type), IsFiniteSet(Posted(r, type)),
         Posted(r, type) = {} \/ Emitters(r, type)' \subseteq Emitters(r, type)
  PROVE  Cardinality(Posted(r, type)') + Cardinality(Emitters(r, type)') <= Cardinality(Slots)
<1>1. Emitters(r, type) \in SUBSET Slots /\ Emitters(r, type)' \in SUBSET Slots
  BY DEF Emitters
<1>2. /\ IsFiniteSet(Emitters(r, type)) /\ IsFiniteSet(Emitters(r, type)')
      /\ Cardinality(Emitters(r, type)') <= Cardinality(Slots)
  BY <1>1, SlotsAssumption, FS_Subset
<1>3. /\ Cardinality(Emitters(r, type)) \in Nat /\ Cardinality(Emitters(r, type)') \in Nat
      /\ Cardinality(Slots) \in Nat /\ Cardinality(Posted(r, type)) \in Nat
  BY <1>2, SlotsAssumption, FS_CardinalityType
<1>4. Cardinality(Posted(r, type)) + Cardinality(Emitters(r, type)) <= Cardinality(Slots)
  BY DEF FewAttempts
<1>5. CASE Posted(r, type) = {}
  BY <1>2, <1>3, <1>5, FS_EmptySet
<1>6. CASE Emitters(r, type)' \subseteq Emitters(r, type)
  <2>1. Cardinality(Emitters(r, type)') <= Cardinality(Emitters(r, type))
    BY <1>2, <1>6, FS_Subset
  <2> QED
    BY <1>3, <1>4, <2>1
<1> QED
  BY <1>5, <1>6


\* The statements of a transaction, with what they make of it.
Statement(s) ==
  \/ LockReview(s) \/ SupersedeRun(s) \/ InsertRun(s) \/ AssertCurrentRun(s)
  \/ ReadRun(s) \/ UpdateRun(s) \/ SelectEvent(s) \/ Sweep(s)
  \/ LockLog(s) \/ AppendEvent(s) \/ CheckReview(s) \/ CheckRun(s)
  \/ Abort(s)

LEMMA WillEmitIdle == \A r, type : ~WillEmit(Idle, r, type)
BY IdleIsNotOpen, NullsAssumption DEF WillEmit, Milestones, Ops

LEMMA LoggedIsPosted == \A r, type : Logged(r, type) <=> Posted(r, type) # {}
BY DEF Logged, Posted

LEMMA StatementEmits ==
  ASSUME Inv, NEW s \in Slots, Statement(s)
  PROVE  \E u : /\ Becomes(s, u)
                /\ \A r, type : WillEmit(u, r, type) =>
                     WillEmit(tx[s], r, type) \/ Posted(r, type) = {}
<1> DEFINE t == tx[s]
           Goal(u) == /\ Becomes(s, u)
                      /\ \A r, type : WillEmit(u, r, type) =>
                           WillEmit(t, r, type) \/ Posted(r, type) = {}
<1>1. ASSUME NEW at, Executes(s, at)
      PROVE  /\ t \in OpenTx /\ t.at = at /\ Ok(t) /\ t.op \in Ops /\ t.run \in Runs
             /\ Done(t).op = t.op /\ Done(t).run = t.run /\ Done(t).stale = t.stale
             /\ Done(t).at = NextPlace(t)
  BY <1>1, Executing, DoneFields
<1>2. ASSUME Becomes(s, Idle) PROVE \E u : Goal(u)
  BY <1>2, WillEmitIdle
<1>3. ASSUME NEW u, Becomes(s, u), u.op \notin Milestones PROVE \E v : Goal(v)
  BY <1>3 DEF WillEmit
<1>4. ASSUME NEW u, Becomes(s, u), u.op = t.op, u.run = t.run, u.stale = t.stale,
             t.at \in Emission4
      PROVE  \E v : Goal(v)
  BY <1>4 DEF WillEmit
<1>5. \A op \in {"allocateRun", "reap"} \cup Transitions : op \notin Milestones
  BY DEF Transitions, Milestones, Ends, EndOf
<1>6. \A at : Executes(s, at) =>
        /\ at \in {"lockReview", "supersede", "insertRun", "readRun", "updateRun", "sweep"} =>
             t.op \notin Milestones
        /\ at = "assertCurrentRun" => t.op \in Guarded
        /\ at = "selectEvent" => t.op \in Milestones
  BY <1>1, <1>5, WhoIsAt DEF Ok
<1> HIDE DEF Goal
<1>7. \A at : Executes(s, at) /\ at # "end" => Done(t) \in OpenTx
  BY <1>1, EmittingSubject, DoneIsOpen DEF Ok
<1> HIDE DEF Goal, t
<1>8. CASE LockReview(s)
  <2>1. Becomes(s, Done(t)) /\ Done(t).op \notin Milestones
    BY <1>1, <1>6, <1>8 DEF LockReview, t
  <2> QED
    BY <1>3, <2>1 DEF Goal, t
<1>9. CASE SupersedeRun(s)
  <2>1. Done(t) \in OpenTx /\ Done(t).op \notin Milestones
    BY <1>1, <1>6, <1>7, <1>9 DEF SupersedeRun
  <2>2. CASE Active = {}
    <3>1. Becomes(s, [Done(t) EXCEPT !.at = "insertRun"])
      BY <1>9, <2>2 DEF SupersedeRun, t
    <3>2. [Done(t) EXCEPT !.at = "insertRun"].op \notin Milestones
      BY <2>1 DEF OpenTx
    <3> QED
      BY <1>3, <3>1, <3>2 DEF Goal, t
  <2>3. CASE Active # {}
    <3>1. PICK old \in Active : Becomes(s, [Done(t) EXCEPT !.old = old, !.rows = Superseded])
      BY <1>9, <2>3 DEF SupersedeRun, Superseded, t
    <3>2. [Done(t) EXCEPT !.old = old, !.rows = Superseded].op \notin Milestones
      BY <2>1 DEF OpenTx
    <3> QED
      BY <1>3, <3>1, <3>2 DEF Goal, t
  <2> QED
    BY <2>2, <2>3
<1>10. CASE InsertRun(s)
  <2>1. Done(t) \in OpenTx /\ Done(t).op \notin Milestones
    BY <1>1, <1>6, <1>7, <1>10 DEF InsertRun
  <2> DEFINE u == [Done(t) EXCEPT
                    !.point = t.run,
                    !.rows = @ \cup {[run |-> t.run, change |-> "inserted", to |-> "PENDING"]},
                    !.log = @ \cup {EventRow(t.run, 1, "WEBHOOK_RECEIVED", "none")}]
  <2>2. Becomes(s, Idle) \/ Becomes(s, u)
    BY <1>10 DEF InsertRun, t
  <2>3. u.op \notin Milestones
    BY <2>1 DEF OpenTx
  <2> HIDE DEF u
  <2> QED
    BY <1>2, <1>3, <2>2, <2>3 DEF Goal, t
<1>11. CASE AssertCurrentRun(s)
  <2>1. /\ Done(t) \in OpenTx /\ t \in OpenTx /\ Ok(t) /\ t.at = "assertCurrentRun"
        /\ t.op \in Guarded /\ Done(t).at = NextPlace(t) /\ t.op \in Ops
    BY <1>1, <1>6, <1>7, <1>11 DEF AssertCurrentRun
  <2>2. NextPlace(t) \in {"readRun", "selectEvent"}
    BY <2>1, NextPlaces DEF Guarded
  <2>3. CASE pointer = t.run
    <3> DEFINE u == [Done(t) EXCEPT !.wrote = IF t.op = "persistAggregated" THEN t.run ELSE NoRun]
    <3>1. Becomes(s, u)
      BY <1>11, <2>3 DEF AssertCurrentRun, t
    <3>2. u.at \in {"readRun", "selectEvent"}
      BY <2>1, <2>2 DEF OpenTx
    <3>3. \A r, type : ~WillEmit(u, r, type)
      BY <3>2 DEF WillEmit, Emission4, Emitting
    <3> HIDE DEF u
    <3> QED
      BY <3>1, <3>3 DEF Goal, t
  <2>4. CASE pointer # t.run
    <3> DEFINE u == [Done(t) EXCEPT !.stale = TRUE, !.at = "lockLog"]
    <3>1. Becomes(s, u)
      BY <1>11, <2>4 DEF AssertCurrentRun, t
    <3>2. u.stale
      BY <2>1 DEF OpenTx
    <3>3. \A r, type : ~WillEmit(u, r, type)
      BY <3>2 DEF WillEmit
    <3> HIDE DEF u
    <3> QED
      BY <3>1, <3>3 DEF Goal, t
  <2> QED
    BY <2>3, <2>4
<1>12. CASE ReadRun(s)
  <2>1. Done(t) \in OpenTx /\ Done(t).op \notin Milestones
    BY <1>1, <1>6, <1>7, <1>12 DEF ReadRun
  <2>2. Becomes(s, Idle) \/ Becomes(s, Done(t)) \/ Becomes(s, Skip(t))
    BY <1>12 DEF ReadRun, t
  <2>3. Skip(t).op \notin Milestones
    BY <2>1 DEF Skip, OpenTx
  <2> QED
    BY <1>2, <1>3, <2>1, <2>2, <2>3 DEF Goal, t
<1>13. CASE UpdateRun(s)
  <2>1. Done(t) \in OpenTx /\ Done(t).op \notin Milestones
    BY <1>1, <1>6, <1>7, <1>13 DEF UpdateRun
  <2> DEFINE u == [Done(t) EXCEPT
                    !.rows = {[run |-> t.run, change |-> "transition", to |-> To(t.op)]}]
  <2>2. Becomes(s, u)
    BY <1>13 DEF UpdateRun, t
  <2>3. u.op \notin Milestones
    BY <2>1 DEF OpenTx
  <2> HIDE DEF u
  <2> QED
    BY <1>3, <2>2, <2>3 DEF Goal, t
<1>14. CASE SelectEvent(s)
  <2>1. /\ Done(t) \in OpenTx /\ t \in OpenTx /\ Ok(t) /\ t.at = "selectEvent"
        /\ t.op \in Milestones /\ Done(t).op = t.op /\ Done(t).run = t.run
    BY <1>1, <1>6, <1>7, <1>14 DEF SelectEvent
  <2>2. Becomes(s, IF Logged(t.run, MilestoneOf(t.op)) THEN Skip(t) ELSE Done(t))
    BY <1>14 DEF SelectEvent, MilestoneOf, t
  <2>3. CASE Logged(t.run, MilestoneOf(t.op))
    <3>1. Skip(t).at = "end" /\ Skip(t).log = {}
      <4>1. t.log = {}
        BY <2>1 DEF Ok, Wrote, Milestones
      <4> QED
        BY <2>1, <4>1, DoneFields DEF Skip, OpenTx
    <3>2. \A r, type : ~WillEmit(Skip(t), r, type)
      BY <3>1 DEF WillEmit, Emission4, Emitting
    <3> QED
      BY <2>2, <2>3, <3>2 DEF Goal, t
  <2>4. CASE ~Logged(t.run, MilestoneOf(t.op))
    <3>1. \A r, type : WillEmit(Done(t), r, type) => Posted(r, type) = {}
      BY <2>1, <2>4, LoggedIsPosted DEF WillEmit
    <3> QED
      BY <2>2, <2>4, <3>1 DEF Goal, t
  <2> QED
    BY <2>3, <2>4
<1>15. CASE Sweep(s)
  <2>1. Done(t) \in OpenTx /\ Done(t).op \notin Milestones
    BY <1>1, <1>6, <1>7, <1>15 DEF Sweep
  <2> DEFINE swept == {[run |-> r, change |-> "timeout", to |-> "CANCELLED"] : r \in Running}
             u == [Done(t) EXCEPT !.rows = swept]
  <2>2. Becomes(s, u)
    BY <1>15 DEF Sweep, t
  <2> HIDE DEF swept
  <2>3. u.op \notin Milestones
    BY <2>1 DEF OpenTx
  <2> HIDE DEF u
  <2> QED
    BY <1>3, <2>2, <2>3 DEF Goal, t
<1>16. CASE LockLog(s) \/ CheckReview(s) \/ CheckRun(s)
  <2>1. Becomes(s, Idle) \/ Becomes(s, Done(t))
    BY <1>16 DEF LockLog, CheckReview, CheckRun, t
  <2>2. t.at \in Emission4 /\ Done(t).op = t.op /\ Done(t).run = t.run /\ Done(t).stale = t.stale
    BY <1>1, <1>16 DEF LockLog, CheckReview, CheckRun, Emission4, Emitting
  <2> QED
    BY <1>2, <1>4, <2>1, <2>2 DEF Goal, t
<1>17. CASE AppendEvent(s)
  <2>1. Done(t) \in OpenTx /\ t.at \in Emission4 /\ t \in OpenTx
    BY <1>1, <1>7, <1>17 DEF AppendEvent, Emission4, Emitting
  <2> DEFINE u == [Done(t) EXCEPT !.log = @ \cup NewRows(t)]
  <2>2. Becomes(s, u)
    BY <1>17 DEF AppendEvent, NewRows, t
  <2>3. u.op = t.op /\ u.run = t.run /\ u.stale = t.stale
    BY <2>1, DoneFields DEF OpenTx
  <2> HIDE DEF u
  <2> QED
    BY <1>4, <2>1, <2>2, <2>3 DEF Goal, t
<1>18. CASE Abort(s)
  BY <1>2, <1>18 DEF Abort, Goal, t
<1> QED
  BY <1>8, <1>9, <1>10, <1>11, <1>12, <1>13, <1>14, <1>15, <1>16, <1>17, <1>18
     DEF Statement, Goal, t

LEMMA BecomesAtomic ==
  ASSUME Inv, AtomicInv, NEW s \in Slots, NEW u, Becomes(s, u),
         \A r, type : WillEmit(u, r, type) => WillEmit(tx[s], r, type) \/ Posted(r, type) = {}
  PROVE  AtomicInv'
<1>1. UNCHANGED <<row, pointer, stream, minted, writer>> /\ tx' = [tx EXCEPT ![s] = u]
  BY DEF Becomes
<1>2. \A q \in Slots : tx'[q] = IF q = s THEN u ELSE tx[q]
  BY <1>1 DEF Inv, TypeInv
<1>3. MintedOnce'
  BY <1>1 DEF AtomicInv, MintedOnce
<1>4. ASSUME NEW r \in Runs, NEW type \in MilestoneTypes
      PROVE  Cardinality(Posted(r, type)') + Cardinality(Emitters(r, type)') <= Cardinality(Slots)
  <2>1. Posted(r, type)' = Posted(r, type)
    BY <1>1 DEF Posted
  <2>2. Posted(r, type) = {} \/ Emitters(r, type)' \subseteq Emitters(r, type)
    BY <1>2 DEF Emitters, WillEmit
  <2> QED
    BY <2>1, <2>2, PostedIsFinite, EmittersStay DEF AtomicInv
<1>5. FewAttempts'
  BY <1>4 DEF FewAttempts
<1> QED
  BY <1>1, <1>3, <1>5 DEF AtomicInv

LEMMA OpenAtomic ==
  ASSUME Inv, AtomicInv, NEW s \in Slots, NEW op \in Ops, NEW r \in Runs, Open(s, op, r)
  PROVE  AtomicInv'
<1> DEFINE u == [Idle EXCEPT !.op = op, !.run = r, !.at = Path(op)[1]]
<1>1. Becomes(s, u)
  BY DEF Open
<1>2. u.at = Path(op)[1] /\ u.op = op
  BY DEF Idle
<1>3. Path(op)[1] \notin {"end"} \cup Emission4
  BY FirstPlaces, OpsAreDistinct DEF Transitions, Milestones, Guarded, Emission4, Emitting
<1>4. \A q, type : ~WillEmit(u, q, type)
  BY <1>2, <1>3 DEF WillEmit
<1> HIDE DEF u
<1> QED
  BY <1>1, <1>4, BecomesAtomic

\* Commits leave unborn runs unborn, but for the one that is allocated.
LEMMA CommitBears ==
  ASSUME Inv, NEW s \in Slots, Commit(s), NEW r \in Runs
  PROVE  row'[r].state = "UNBORN" <=>
           /\ row[r].state = "UNBORN"
           /\ ~(AllocateCommits(tx[s]) /\ r = tx[s].run)
<1> DEFINE t == tx[s]
<1>1. /\ Ok(t) /\ t.run \in Runs
      /\ \/ AllocateCommits(t) \/ TransitionCommits(t) \/ MilestoneCommits(t)
         \/ ReapCommits(t) \/ NothingCommits(t)
  BY CommitKinds
<1>2. row[r].state # "UNBORN" => row'[r].state # "UNBORN"
  BY CommitTouches
<1>3. row'[r] # row[r] => r \in Active \/ (t.op = "allocateRun" /\ r = t.run)
  BY CommitChangesActive
<1>4. r \in Active => row[r].state # "UNBORN"
  BY DEF Active
<1>5. t.op = "allocateRun" => AllocateCommits(t)
  BY <1>1 DEF TransitionCommits, MilestoneCommits, ReapCommits, NothingCommits, Transitions,
     Milestones, Ends, EndOf
<1>6. AllocateCommits(t) => row'[t.run].state = "PENDING"
  BY DEF AllocateCommits, Unborn
<1> HIDE DEF t
<1> QED
  BY <1>2, <1>3, <1>4, <1>5, <1>6 DEF t

\* The rows that a transaction inserts are of the kind that its operation calls for.
LEMMA EmittedTypes ==
  ASSUME NEW t, t.op \in Ops \ {"reap"}, ~t.stale
  PROVE  /\ \A e \in NewRows(t) : e.type # "lifecycle_transition" => e.to = "none"
         /\ t.op \notin Milestones => \A e \in NewRows(t) : e.type \notin MilestoneTypes
         /\ t.op \in Milestones =>
              NewRows(t) = {EventRow(t.run, MaxSequence(t.run) + 1, MilestoneOf(t.op), "none")}
<1>1. CASE t.op = "allocateRun"
  <2>1. Emitted(t) = << <<"RUN_SUPERSEDED", "none">> >>
    BY <1>1 DEF Emitted, Ends, EndOf
  <2> QED
    BY <1>1, <2>1 DEF NewRows, EventRow, Milestones, MilestoneTypes
<1>2. CASE t.op = "dispatchRow"
  <2>1. Emitted(t) = << <<"lifecycle_transition", "RUNNING">>, <<"INGESTED", "none">> >>
    BY <1>2 DEF Emitted, Ends, EndOf
  <2> QED
    BY <1>2, <2>1 DEF NewRows, EventRow, Milestones, MilestoneTypes
<1>3. CASE t.op \in Ends
  <2>1. Emitted(t) = << <<"lifecycle_transition", EndOf[t.op]>> >>
    BY <1>3 DEF Emitted, Ends, EndOf
  <2> QED
    BY <1>3, <2>1 DEF NewRows, EventRow, Milestones, MilestoneTypes, Ends, EndOf
<1>4. CASE t.op = "persistAggregated"
  <2>1. Emitted(t) = << <<"FINDINGS_PERSISTED", "none">> >> /\ Subject(t) = t.run
    BY <1>4 DEF Emitted, Ends, EndOf, Subject
  <2> QED
    BY <1>4, <2>1 DEF NewRows, EventRow, Milestones, MilestoneOf
<1>5. CASE t.op = "recordReviewLifecycleEvent"
  <2>1. Emitted(t) = << <<"ANALYZED", "none">> >> /\ Subject(t) = t.run
    BY <1>5 DEF Emitted, Ends, EndOf, Subject
  <2> QED
    BY <1>5, <2>1 DEF NewRows, EventRow, Milestones, MilestoneOf
<1> QED
  BY <1>1, <1>2, <1>3, <1>4, <1>5 DEF Ops

LEMMA CommitMintedOnce ==
  ASSUME Inv, MintedOnce, NEW s \in Slots, Commit(s)
  PROVE  MintedOnce'
<1> DEFINE t == tx[s]
<1>1. /\ Ok(t) /\ t.run \in Runs
      /\ \/ AllocateCommits(t) \/ TransitionCommits(t) \/ MilestoneCommits(t)
         \/ ReapCommits(t) \/ NothingCommits(t)
  BY CommitKinds
<1>2. minted \in Seq(Runs)
  BY DEF Inv, TypeInv
<1>3. \A r \in Runs : row'[r].state = "UNBORN" <=>
        row[r].state = "UNBORN" /\ ~(AllocateCommits(t) /\ r = t.run)
  BY CommitBears
<1> HIDE DEF t
<1>4. CASE AllocateCommits(t)
  <2>1. minted' = Append(minted, t.run) /\ row[t.run].state = "UNBORN"
    BY <1>1, <1>4 DEF AllocateCommits, Ok, Sees
  <2>2. /\ Len(minted) \in Nat /\ Len(minted') = Len(minted) + 1
        /\ \A i \in 1..Len(minted) : minted'[i] = minted[i]
        /\ minted'[Len(minted) + 1] = t.run
    BY <1>1, <1>2, <2>1
  <2>3. \A i \in 1..Len(minted) : minted[i] # t.run
    BY <1>1, <2>1 DEF MintedOnce
  <2>4. \A i, j \in 1..Len(minted') : minted'[i] = minted'[j] => i = j
    <3> SUFFICES ASSUME NEW i \in 1..Len(minted'), NEW j \in 1..Len(minted'),
                        minted'[i] = minted'[j]
                 PROVE  i = j
      OBVIOUS
    <3>1. \A k \in 1..Len(minted') : k \in 1..Len(minted) \/ k = Len(minted) + 1
      BY <2>2
    <3> QED
      BY <2>2, <2>3, <3>1 DEF MintedOnce
  <2>5. \A r \in Runs : row'[r].state # "UNBORN" <=> \E i \in 1..Len(minted') : minted'[i] = r
    <3> SUFFICES ASSUME NEW r \in Runs
                 PROVE  row'[r].state # "UNBORN" <=> \E i \in 1..Len(minted') : minted'[i] = r
      OBVIOUS
    <3>1. (\E i \in 1..Len(minted') : minted'[i] = r) <=>
            (\E i \in 1..Len(minted) : minted[i] = r) \/ r = t.run
      BY <2>2
    <3>2. row[r].state # "UNBORN" <=> \E i \in 1..Len(minted) : minted[i] = r
      BY DEF MintedOnce
    <3>3. row'[r].state # "UNBORN" <=> row[r].state # "UNBORN" \/ r = t.run
      BY <1>3, <1>4
    <3> QED
      BY <3>1, <3>2, <3>3
  <2> QED
    BY <2>4, <2>5 DEF MintedOnce
<1>5. CASE ~AllocateCommits(t)
  <2>1. minted' = minted
    BY <1>1, <1>5 DEF TransitionCommits, MilestoneCommits, ReapCommits, NothingCommits
  <2>2. \A r \in Runs : row'[r].state # "UNBORN" <=> row[r].state # "UNBORN"
    BY <1>3, <1>5
  <2> QED
    BY <2>1, <2>2 DEF MintedOnce
<1> QED
  BY <1>4, <1>5

LEMMA CommitFewAttempts ==
  ASSUME Inv, FewAttempts, NEW s \in Slots, Commit(s), NEW r \in Runs, NEW type \in MilestoneTypes
  PROVE  Cardinality(Posted(r, type)') + Cardinality(Emitters(r, type)') <= Cardinality(Slots)
<1> DEFINE t == tx[s]
<1>1. /\ t \in OpenTx /\ Ok(t) /\ t.run \in Runs /\ t.op \in Ops /\ t.at = "end" /\ ~t.stale
      /\ stream' = stream \cup t.log
      /\ \/ AllocateCommits(t) \/ TransitionCommits(t) \/ MilestoneCommits(t)
         \/ ReapCommits(t) \/ NothingCommits(t)
  BY CommitKinds DEF Published
<1>2. \A q \in Slots : tx'[q] = IF q = s THEN Idle ELSE tx[q]
  BY CommitKinds DEF Inv, TypeInv
<1>3. Emitters(r, type)' = Emitters(r, type) \ {s}
  BY <1>2, WillEmitIdle DEF Emitters, WillEmit
<1>4. s \in Emitters(r, type) <=> WillEmit(t, r, type)
  BY DEF Emitters
<1>5. Posted(r, type)' = Posted(r, type) \cup {e.seq : e \in {e \in t.log : e.run = r /\ e.type = type}}
  BY <1>1 DEF Posted
<1> HIDE DEF t
<1>6. IsFiniteSet(Posted(r, type))
  BY PostedIsFinite
<1>7. ASSUME \A e \in t.log : ~(e.run = r /\ e.type = type)
      PROVE  Cardinality(Posted(r, type)') + Cardinality(Emitters(r, type)') <= Cardinality(Slots)
  <2>1. Posted(r, type)' = Posted(r, type)
    BY <1>5, <1>7
  <2>2. Emitters(r, type)' \subseteq Emitters(r, type)
    BY <1>3
  <2> QED
    BY <1>6, <2>1, <2>2, EmittersStay
<1>8. CASE AllocateCommits(t)
  <2>1. t.log = {Received(t)} \cup IF t.old = NoRun THEN {} ELSE NewRows(t)
    BY <1>8 DEF AllocateCommits
  <2>2. \A e \in NewRows(t) : e.type \notin MilestoneTypes
    BY <1>1, <1>8, EmittedTypes DEF AllocateCommits, Milestones
  <2>3. Received(t).type \notin MilestoneTypes
    BY DEF Received, EventRow, MilestoneTypes
  <2> QED
    BY <1>7, <2>1, <2>2, <2>3
<1>9. CASE TransitionCommits(t)
  <2>1. t.op \notin Milestones /\ t.op # "reap" /\ t.log = NewRows(t)
    BY <1>9 DEF TransitionCommits, Transitions, Milestones, Ends, EndOf
  <2>2. \A e \in NewRows(t) : e.type \notin MilestoneTypes
    BY <1>1, <2>1, EmittedTypes
  <2> QED
    BY <1>7, <2>1, <2>2
<1>10. CASE MilestoneCommits(t)
  <2>1. t.op \in Milestones /\ t.op # "reap" /\ t.log = NewRows(t)
    BY <1>10 DEF MilestoneCommits, Milestones
  <2> DEFINE new == EventRow(t.run, MaxSequence(t.run) + 1, MilestoneOf(t.op), "none")
  <2>2. t.log = {new}
    BY <1>1, <2>1, EmittedTypes
  <2>3. new.run = t.run /\ new.type = MilestoneOf(t.op)
    BY DEF EventRow
  <2> HIDE DEF new
  <2>4. CASE ~(t.run = r /\ MilestoneOf(t.op) = type)
    BY <1>7, <2>2, <2>3, <2>4
  <2>5. CASE t.run = r /\ MilestoneOf(t.op) = type
    <3>1. s \in Emitters(r, type)
      BY <1>1, <1>4, <2>1, <2>2, <2>5 DEF WillEmit
    <3>2. Posted(r, type)' = Posted(r, type) \cup {new.seq}
      BY <1>5, <2>2, <2>3, <2>5
    <3>3. IsFiniteSet(Emitters(r, type))
      BY SlotsAssumption, FS_Subset DEF Emitters
    <3>4. Cardinality(Emitters(r, type)') = Cardinality(Emitters(r, type)) - 1
      BY <1>3, <3>1, <3>3, FS_RemoveElement
    <3>5. Cardinality(Posted(r, type)') <= Cardinality(Posted(r, type)) + 1
      <4>1. \A P, x : IsFiniteSet(P) => Cardinality(P \cup {x}) <= Cardinality(P) + 1
        <5> TAKE P, x
        <5> HAVE IsFiniteSet(P)
        <5>1. Cardinality(P) \in Nat
          BY FS_CardinalityType
        <5>2. CASE x \in P
          <6>1. Cardinality(P \cup {x}) = Cardinality(P)
            BY ONLY <5>2, IsFiniteSet(P), FS_AddElement
          <6> QED
            BY ONLY <5>1, <6>1
        <5>3. CASE x \notin P
          <6>1. Cardinality(P \cup {x}) = Cardinality(P) + 1
            BY ONLY <5>3, IsFiniteSet(P), FS_AddElement
          <6> QED
            BY ONLY <5>1, <6>1
        <5> QED
          BY ONLY <5>2, <5>3
      <4> QED
        BY <1>6, <3>2, <4>1
    <3>6. /\ Cardinality(Posted(r, type)) \in Nat /\ Cardinality(Emitters(r, type)) \in Nat
          /\ Cardinality(Slots) \in Nat
      BY <1>6, <3>3, SlotsAssumption, FS_CardinalityType
    <3>7. Cardinality(Posted(r, type)') \in Nat
      BY <1>6, <3>2, FS_AddElement, FS_CardinalityType
    <3>8. Cardinality(Posted(r, type)) + Cardinality(Emitters(r, type)) <= Cardinality(Slots)
      BY DEF FewAttempts
    <3> QED
      BY <3>4, <3>5, <3>6, <3>7, <3>8
  <2> QED
    BY <2>4, <2>5
<1>11. CASE ReapCommits(t) \/ NothingCommits(t)
  BY <1>7, <1>11 DEF ReapCommits, NothingCommits
<1> QED
  BY <1>1, <1>8, <1>9, <1>10, <1>11

LEMMA CommitAtomic ==
  ASSUME Inv, AtomicInv, NEW s \in Slots, Commit(s)
  PROVE  AtomicInv'
<1> DEFINE t == tx[s]
<1>1. /\ t \in OpenTx /\ Ok(t) /\ t.run \in Runs /\ t.op \in Ops /\ t.at = "end" /\ ~t.stale
      /\ stream' = stream \cup t.log
      /\ \/ AllocateCommits(t) \/ TransitionCommits(t) \/ MilestoneCommits(t)
         \/ ReapCommits(t) \/ NothingCommits(t)
  BY CommitKinds DEF Published
<1>2. MintedOnce'
  BY CommitMintedOnce DEF AtomicInv
<1>3. FewAttempts'
  BY CommitFewAttempts DEF AtomicInv, FewAttempts
<1>4. ASSUME NEW r \in Runs, row'[r].state = "UNBORN" PROVE row'[r] = Unborn
  <2>1. row[r].state = "UNBORN"
    BY <1>4, CommitBears
  <2>2. row'[r] = row[r]
    <3>1. r \notin Active
      BY <2>1 DEF Active
    <3>2. t.op = "allocateRun" /\ r = t.run => AllocateCommits(t)
      BY <1>1 DEF TransitionCommits, MilestoneCommits, ReapCommits, NothingCommits, Transitions,
         Milestones, Ends, EndOf
    <3> QED
      BY <1>4, <3>1, <3>2, CommitBears, CommitChangesActive
  <2> QED
    BY <2>1, <2>2 DEF AtomicInv
<1> HIDE DEF t
<1>5. ASSUME NEW e \in t.log, e.type # "lifecycle_transition" PROVE e.to = "none"
  <2>1. (e \in NewRows(t) /\ t.op # "reap") \/ e = Received(t)
    BY <1>1, <1>5 DEF AllocateCommits, TransitionCommits, MilestoneCommits, ReapCommits,
       NothingCommits, Transitions, Milestones, Ends, EndOf
  <2>2. Received(t).to = "none"
    BY DEF Received, EventRow
  <2> QED
    BY <1>1, <1>5, <2>1, <2>2, EmittedTypes
<1>6. \A e \in stream' : e.type # "lifecycle_transition" => e.to = "none"
  BY <1>1, <1>5 DEF AtomicInv
<1> QED
  BY <1>2, <1>3, <1>4, <1>6 DEF AtomicInv

LEMMA NextAtomic == Inv /\ AtomicInv /\ [Next]_vars => AtomicInv'
<1> SUFFICES ASSUME Inv, AtomicInv, [Next]_vars PROVE AtomicInv'
  OBVIOUS
<1>1. ASSUME NEW s \in Slots, NEW op \in Ops, NEW r \in Runs, Open(s, op, r) PROVE AtomicInv'
  BY <1>1, OpenAtomic
<1>2. ASSUME NEW s \in Slots, Statement(s) PROVE AtomicInv'
  <2>1. PICK u : /\ Becomes(s, u)
                 /\ \A r, type : WillEmit(u, r, type) =>
                      WillEmit(tx[s], r, type) \/ Posted(r, type) = {}
    BY <1>2, StatementEmits
  <2> QED
    BY <2>1, BecomesAtomic
<1>3. ASSUME NEW s \in Slots, Commit(s) PROVE AtomicInv'
  BY <1>3, CommitAtomic
<1>4. CASE UNCHANGED vars
  BY <1>4 DEF vars, AtomicInv, MintedOnce, FewAttempts, Posted, Emitters, WillEmit
<1> QED
  BY <1>1, <1>2, <1>3, <1>4 DEF Next, Statement

LEMMA AtomicAlways == Spec => [](Inv /\ AtomicInv)
<1>1. Init => Inv /\ AtomicInv
  BY InitInv, AtomicInit
<1>2. (Inv /\ AtomicInv) /\ [Next]_vars => (Inv /\ AtomicInv)'
  BY NextInv, NextAtomic
<1> QED
  BY <1>1, <1>2, PTL DEF Spec

-----------------------------------------------------------------------------
(* The refinement *)

LEMMA EmptyLog == \A r : EventsOf(r) = {} => LogOf(r) = <<>>
<1>1. Numbers({}, 0) /\ {} \in SUBSET EventRows
  BY DEF Numbers
<1>2. LogFrom({}) \in Seq(LogEntries) /\ Len(LogFrom({})) = 0
  BY <1>1, LogFromIs
<1>3. LogFrom({}) = <<>>
  BY <1>2, EmptySeq
<1> QED
  BY <1>3, LogOfIs

LEMMA TablesInit == Init => Tables!Init
<1> SUFFICES ASSUME Init PROVE Tables!Init
  OBVIOUS
<1>1. \A r : LogOf(r) = <<>>
  BY EmptyLog DEF Init, EventsOf
<1>2. \A r : Max(Positions(r) \cup {0}) = 0
  BY MaxOfOne DEF Init, Positions
<1> QED
  BY <1>1, <1>2 DEF Init, Unborn, Tables!Init

LEMMA TablesStutter ==
  ASSUME UNCHANGED <<row, pointer, stream, minted, writer>>
  PROVE  UNCHANGED Tables!vars
<1>1. \A r : LogOf(r)' = LogOf(r)
  BY LogStays DEF EventsOf
<1>2. \A r : Positions(r)' = Positions(r)
  BY DEF Positions
<1>3. \A r : (Max(Positions(r) \cup {0}))' = Max(Positions(r) \cup {0})
  BY <1>2
<1> QED
  BY <1>1, <1>3 DEF Tables!vars

\* The columns of ReviewRuns, as the tables give them.
LEMMA ActiveAre == ASSUME Inv PROVE Tables!ActiveRunsOf(Review) = Active
<1>1. row \in [Runs -> RunRows]
  BY DEF Inv, TypeInv
<1> QED
  BY <1>1, NullsAssumption DEF Tables!ActiveRunsOf, Tables!ActiveStates, Active, RunRows, States

LEMMA GuardIs ==
  ASSUME NEW r \in Runs, row[r].state # "UNBORN", pointer = r
  PROVE  Tables!AssertCurrentRun(r)
BY DEF Tables!AssertCurrentRun

\* What a reader finds in the log of a run.
LEMMA LoggedIs ==
  ASSUME Inv, AtomicInv, NEW r \in Runs, NEW type, type # "lifecycle_transition", Logged(r, type)
  PROVE  Tables!Logged(r, Tables!Milestone(type))
<1>1. PICK e \in EventsOf(r) : e.type = type
  BY DEF Logged, EventsOf
<1>2. EntryOf(e) = [type |-> type, to |-> "none"]
  BY <1>1 DEF AtomicInv, EntryOf, EventsOf
<1>3. PICK n \in Nat : Numbers(EventsOf(r), n)
  BY DEF Inv, TablesInv
<1>4. EventsOf(r) \in SUBSET EventRows
  BY DEF Inv, TypeInv, EventsOf
<1>5. Len(LogOf(r)) = n /\ e.seq \in 1..n /\ LogOf(r)[e.seq] = EntryOf(e)
  BY <1>1, <1>3, <1>4, LogFromIs, LogOfIs
<1> QED
  BY <1>2, <1>5 DEF Tables!Logged, Tables!Milestone, Tables!Event

LEMMA TablesCount == \A S : Tables!Cardinality(S) = Cardinality(S)
BY DEF Tables!Cardinality, Cardinality

LEMMA TimesIs ==
  ASSUME Inv, AtomicInv, NEW r \in Runs, NEW type, type # "lifecycle_transition"
  PROVE  Tables!Times(r, Tables!Milestone(type)) = Cardinality(Posted(r, type))
<1> DEFINE entry == [type |-> type, to |-> "none"]
<1>1. PICK n \in Nat : Numbers(EventsOf(r), n)
  BY DEF Inv, TablesInv
<1>2. EventsOf(r) \in SUBSET EventRows
  BY DEF Inv, TypeInv, EventsOf
<1>3. /\ Len(LogOf(r)) = n
      /\ \A e \in EventsOf(r) : e.seq \in 1..n /\ LogOf(r)[e.seq] = EntryOf(e)
      /\ \A i \in 1..n : \E e \in EventsOf(r) : e.seq = i /\ LogOf(r)[i] = EntryOf(e)
  BY <1>1, <1>2, LogFromIs, LogOfIs
<1>4. \A e \in EventsOf(r) : EntryOf(e) = entry <=> e.type = type
  BY DEF AtomicInv, EntryOf, EventsOf
<1>5. Posted(r, type) = {e.seq : e \in {e \in EventsOf(r) : e.type = type}}
  BY DEF Posted, EventsOf
<1> HIDE DEF entry
<1>6. {i \in 1..Len(LogOf(r)) : LogOf(r)[i] = entry} = Posted(r, type)
  <2>1. ASSUME NEW i \in 1..n, LogOf(r)[i] = entry PROVE i \in Posted(r, type)
    BY <1>3, <1>4, <1>5, <2>1
  <2>2. ASSUME NEW i \in Posted(r, type) PROVE i \in 1..n /\ LogOf(r)[i] = entry
    BY <1>3, <1>4, <1>5, <2>2
  <2> QED
    BY <1>3, <2>1, <2>2
<1>7. Tables!Milestone(type) = entry
  BY DEF Tables!Milestone, Tables!Event, entry
<1> DEFINE log == [q \in Runs |-> LogOf(q)]
<1>8. Tables!Times(r, entry) = Cardinality({i \in 1..Len(log[r]) : log[r][i] = entry})
  BY TablesCount DEF Tables!Times
<1>9. log[r] = LogOf(r)
  OBVIOUS
<1> HIDE DEF log
<1> QED
  BY <1>6, <1>7, <1>8, <1>9

LEMMA CommitLogs ==
  ASSUME Inv, NEW s \in Slots, Commit(s)
  PROVE  \A r \in Runs : EventsOf(r)' = EventsOf(r) \cup {e \in tx[s].log : e.run = r}
BY CommitAppends DEF EventsOf

\* An allocation appends to two logs.
LEMMA AllocateLogs ==
  ASSUME Inv, Inv', NEW s \in Slots, Commit(s), AllocateCommits(tx[s])
  PROVE  \A r \in Runs :
           LogOf(r)' = IF r = tx[s].run THEN <<Tables!Milestone("WEBHOOK_RECEIVED")>>
                       ELSE IF r = tx[s].old THEN Append(LogOf(r), Tables!Milestone("RUN_SUPERSEDED"))
                       ELSE LogOf(r)
<1>0. PICK t : t = tx[s]
  OBVIOUS
<1> DEFINE received == [type |-> "WEBHOOK_RECEIVED", to |-> "none"]
           superseded == [type |-> "RUN_SUPERSEDED", to |-> "none"]
<1>1. /\ t \in OpenTx /\ Ok(t) /\ t.run \in Runs /\ t.op \in Ops /\ t.at = "end" /\ ~t.stale
  BY <1>0, CommitKinds
<1>2. /\ t.op = "allocateRun" /\ row[t.run].state = "UNBORN"
      /\ t.old = NoRun \/ t.old \in Active
      /\ t.log = {Received(t)} \cup IF t.old = NoRun THEN {} ELSE NewRows(t)
  BY <1>0, <1>1 DEF AllocateCommits, Ok, Sees
<1>3. \A r \in Runs : EventsOf(r)' = EventsOf(r) \cup {e \in t.log : e.run = r}
  BY <1>0, CommitLogs
<1>4. /\ Tables!Milestone("WEBHOOK_RECEIVED") = received
      /\ Tables!Milestone("RUN_SUPERSEDED") = superseded
  BY DEF Tables!Milestone, Tables!Event
<1>5. received \in LogEntries /\ superseded \in LogEntries
  BY DEF LogEntries, EventTypes
<1> HIDE DEF received, superseded
<1>6. t.run \notin Active /\ Active \subseteq Runs /\ NoRun \notin Runs
  BY <1>2, NullsAssumption DEF Active
<1>7. Received(t).run = t.run /\ Received(t).seq = 1 /\ EntryOf(Received(t)) = received
  BY DEF Received, EventRow, EntryOf, received
<1>8. \A e \in NewRows(t) : e.run = t.old
  BY <1>2 DEF NewRows, EventRow, Subject
<1>9. LogOf(t.run)' = <<received>>
  <2>1. EventsOf(t.run) = {}
    BY <1>1, <1>2 DEF EventsOf, Inv, TablesInv
  <2>2. {e \in t.log : e.run = t.run} = {Received(t)}
    BY <1>1, <1>2, <1>6, <1>7, <1>8
  <2>3. EventsOf(t.run)' = EventsOf(t.run) \cup {Received(t)}
    BY <1>1, <1>3, <2>2
  <2>4. Numbers(EventsOf(t.run), 0)
    BY <2>1 DEF Numbers
  <2>5. CarryOn({Received(t)}, 0, <<received>>)
    BY <1>7 DEF CarryOn
  <2>6. <<received>> \in Seq(LogEntries)
    BY <1>5
  <2>7. LogOf(t.run)' = LogOf(t.run) \o <<received>>
    BY <1>1, <2>3, <2>4, <2>5, <2>6, LogGrows
  <2>8. LogOf(t.run) = <<>>
    BY <2>1, EmptyLog
  <2> QED
    BY <2>6, <2>7, <2>8, ConcatEmptySeq
<1>10. ASSUME t.old # NoRun PROVE LogOf(t.old)' = Append(LogOf(t.old), superseded)
  <2>1. t.old \in Runs /\ t.old # t.run /\ Subject(t) = t.old
    BY <1>2, <1>6, <1>10 DEF Subject
  <2>2. {e \in t.log : e.run = t.old} = NewRows(t)
    BY <1>2, <1>7, <1>8, <1>10, <2>1
  <2>3. EventsOf(t.old)' = EventsOf(t.old) \cup NewRows(t)
    BY <1>3, <2>1, <2>2
  <2>4. Emitted(t) = << <<"RUN_SUPERSEDED", "none">> >>
    BY <1>1, <1>2 DEF Emitted, Ends, EndOf
  <2>5. LogOf(t.old)' = LogOf(t.old) \o <<superseded>>
    <3> DEFINE new == <<superseded>>
    <3>1. new \in Seq(LogEntries) /\ DOMAIN Emitted(t) = 1..Len(new)
      BY <1>5, <2>4
    <3>2. \A i \in 1..Len(new) : new[i] = [type |-> Emitted(t)[i][1], to |-> Emitted(t)[i][2]]
      BY <2>4 DEF superseded
    <3>3. t.op \in Ops \ {"reap"}
      BY <1>1, <1>2
    <3> HIDE DEF new
    <3>4. LogOf(t.old)' = LogOf(t.old) \o new
      BY <2>1, <2>3, <3>1, <3>2, <3>3, LogAppended
    <3> QED
      BY <3>4 DEF new
  <2>6. LogOf(t.old) \in Seq(LogEntries)
    <3>1. PICK n \in Nat : Numbers(EventsOf(t.old), n)
      BY <2>1 DEF Inv, TablesInv
    <3>2. EventsOf(t.old) \in SUBSET EventRows
      BY DEF Inv, TypeInv, EventsOf
    <3> QED
      BY <3>1, <3>2, LogFromIs, LogOfIs
  <2> QED
    BY <1>5, <2>5, <2>6, AppendIsConcat
<1>11. ASSUME NEW r \in Runs, r # t.run, r # t.old PROVE LogOf(r)' = LogOf(r)
  <2>1. {e \in t.log : e.run = r} = {}
    BY <1>2, <1>7, <1>8, <1>11
  <2> QED
    BY <1>3, <2>1, LogStays
<1> QED
  BY <1>0, <1>4, <1>6, <1>9, <1>10, <1>11

Born(m, r) == Max(PositionsIn(m, r) \cup {0})

LEMMA BornAre ==
  /\ \A r : Max(Positions(r) \cup {0}) = Born(minted, r)
  /\ \A r : Max(Positions(r)' \cup {0}) = Born(minted', r)
BY PositionsAre DEF Born

LEMMA AllocateStep ==
  ASSUME Inv, Inv', AtomicInv, NEW s \in Slots, Commit(s), AllocateCommits(tx[s])
  PROVE  \E r \in Runs : Tables!AllocateRun(Review, r)
<1>0. PICK t : t = tx[s]
  OBVIOUS
<1>1. /\ t \in OpenTx /\ Ok(t) /\ t.run \in Runs /\ t.op \in Ops /\ t.at = "end" /\ ~t.stale
      /\ writer' = IF t.wrote = NoRun THEN writer ELSE t.wrote
  BY <1>0, CommitKinds DEF Published
<1>2. /\ t.op = "allocateRun" /\ row[t.run].state = "UNBORN"
      /\ IF Active = {} THEN t.old = NoRun ELSE t.old \in Active
      /\ t.old \in {NoRun, pointer} /\ t.wrote = NoRun
      /\ pointer' = t.run /\ minted' = Append(minted, t.run)
  BY <1>0, <1>1 DEF AllocateCommits, Ok, Sees, Wrote, AllocateWrote
<1>3. /\ row \in [Runs -> RunRows] /\ row' \in [Runs -> RunRows] /\ minted \in Seq(Runs)
  BY DEF Inv, TypeInv
<1>4. t.run \notin Active /\ Active \subseteq Runs /\ NoRun \notin Runs /\ NoReview # Review
  BY <1>2, NullsAssumption DEF Active
<1>5. row[t.run] = Unborn
  BY <1>1, <1>2 DEF AtomicInv
<1>6. row'[t.run] = [Unborn EXCEPT !.state = "PENDING", !.supersedes = t.old]
  BY <1>0 DEF AllocateCommits
<1>7. \A r \in Active : row'[r] = [row[r] EXCEPT !.state = "CANCELLED", !.supersededBy = t.run,
                                                 !.cancelReason = "superseded"]
  BY <1>0 DEF AllocateCommits
<1>8. \A r \in Runs \ (Active \cup {t.run}) : row'[r] = row[r]
  BY <1>0 DEF AllocateCommits
<1>9. ASSUME NEW r \in Runs
      PROVE  /\ row'[r].state = IF r = t.run THEN "PENDING"
                                ELSE IF r \in Active THEN "CANCELLED" ELSE row[r].state
             /\ row'[r].supersedes = IF r = t.run THEN t.old ELSE row[r].supersedes
             /\ row'[r].supersededBy = IF r \in Active THEN t.run ELSE row[r].supersededBy
             /\ row'[r].cancelReason = IF r \in Active THEN "superseded" ELSE row[r].cancelReason
  <2>1. CASE r = t.run
    BY <1>4, <1>5, <1>6, <2>1 DEF Unborn
  <2>2. CASE r \in Active
    <3>1. row[r] \in RunRows /\ r # t.run
      BY ONLY <1>3, <1>4, <2>2
    <3>2. row'[r] = [row[r] EXCEPT !.state = "CANCELLED", !.supersededBy = t.run,
                                   !.cancelReason = "superseded"]
      BY ONLY <1>7, <2>2
    <3> QED
      BY ONLY <2>2, <3>1, <3>2 DEF RunRows
  <2>3. CASE r \notin Active \cup {t.run}
    BY <1>8, <2>3
  <2> QED
    BY <2>1, <2>2, <2>3
<1>10. \A r \in Runs :
         LogOf(r)' = IF r = t.run THEN <<Tables!Milestone("WEBHOOK_RECEIVED")>>
                     ELSE IF r = t.old THEN Append(LogOf(r), Tables!Milestone("RUN_SUPERSEDED"))
                     ELSE LogOf(r)
  BY <1>0, AllocateLogs
<1>11. Len(minted') = Len(minted) + 1
  BY <1>2, <1>3
<1>12. \A r \in Runs : Born(minted', r) = IF r = t.run THEN Len(minted) + 1 ELSE Born(minted, r)
  <2>1. \A i \in 1..Len(minted) : minted[i] # t.run
    BY <1>1, <1>2 DEF AtomicInv, MintedOnce
  <2>2. /\ PositionsIn(minted', t.run) = {Len(minted) + 1}
        /\ \A r : r # t.run => PositionsIn(minted', r) = PositionsIn(minted, r)
    BY <1>1, <1>2, <1>3, <2>1, BornNext
  <2>3. Len(minted) + 1 \in Nat
    BY <1>3
  <2> QED
    BY <2>2, <2>3, MaxOfOne DEF Born
<1>13. Tables!ActiveRunsOf(Review) = Active
  BY ActiveAre
<1>14. t.old \in Tables!SupersededRun(Review) /\ t.old \in Runs \cup {NoRun}
  BY <1>2, <1>4, <1>13 DEF Tables!SupersededRun
<1>15. Tables!SupersedeRun(Review, t.run, t.old)
  BY <1>9, <1>10, <1>13, <1>14 DEF Tables!SupersedeRun
<1>16. Tables!FlipCurrentRun(Review, t.run, t.old)
  BY <1>2 DEF Tables!FlipCurrentRun
<1>17. [r \in Runs |-> Max(Positions(r) \cup {0})]' =
         [[r \in Runs |-> Max(Positions(r) \cup {0})] EXCEPT ![t.run] = Len(minted) + 1]
  BY <1>1, <1>12, BornAre
<1>18. [r \in Runs |-> IF row[r].state = "UNBORN" THEN NoReview ELSE Review]' =
         [[r \in Runs |-> IF row[r].state = "UNBORN" THEN NoReview ELSE Review]
            EXCEPT ![t.run] = Review]
  <2>1. \A r \in Runs : row'[r].state = "UNBORN" <=> row[r].state = "UNBORN" /\ r # t.run
    BY <1>9, <1>2 DEF Active
  <2> QED
    BY <1>1, <2>1
<1>19. [r \in Runs |-> row[r].supersedes]' =
         [[r \in Runs |-> row[r].supersedes] EXCEPT ![t.run] = t.old]
  BY <1>1, <1>9
<1>20. [v \in {Review} |-> writer]' = [v \in {Review} |-> writer]
  BY <1>1, <1>2
<1>21. Tables!AllocateRun(Review, t.run)
  BY <1>1, <1>2, <1>11, <1>14, <1>15, <1>16, <1>17, <1>18, <1>19, <1>20 DEF Tables!AllocateRun
<1> QED
  BY <1>1, <1>21

\* A transition appends its event, and for a dispatch the milestone INGESTED.
LEMMA TransitionLogs ==
  ASSUME Inv, Inv', NEW s \in Slots, Commit(s), NEW t, t = tx[s], TransitionCommits(t)
  PROVE  /\ LogOf(t.run)' = LogOf(t.run) \o (<<Tables!Transition(To(t.op))>> \o
                              IF t.op = "dispatchRow" THEN <<Tables!Milestone("INGESTED")>> ELSE <<>>)
         /\ \A r \in Runs \ {t.run} : LogOf(r)' = LogOf(r)
<1>1. /\ t \in OpenTx /\ Ok(t) /\ t.run \in Runs /\ t.op \in Ops /\ t.at = "end" /\ ~t.stale
      /\ t.op \in Transitions /\ t.log = NewRows(t)
  BY CommitKinds DEF TransitionCommits
<1>2. t.op \in Ops \ {"reap", "allocateRun"} /\ Subject(t) = t.run
  BY <1>1 DEF Transitions, Ends, EndOf, Subject
<1>3. \A e \in NewRows(t) : e.run = t.run
  BY <1>2 DEF NewRows, EventRow
<1>4. \A r \in Runs : EventsOf(r)' = EventsOf(r) \cup {e \in t.log : e.run = r}
  BY CommitLogs
<1>5. EventsOf(t.run)' = EventsOf(t.run) \cup NewRows(t)
  <2>1. {e \in t.log : e.run = t.run} = NewRows(t)
    BY <1>1, <1>3
  <2> QED
    BY <1>1, <1>4, <2>1
<1>6. ASSUME NEW r \in Runs \ {t.run} PROVE LogOf(r)' = LogOf(r)
  <2>1. {e \in t.log : e.run = r} = {}
    BY <1>1, <1>3, <1>6
  <2> QED
    BY <1>4, <2>1, LogStays
<1> DEFINE moved == [type |-> "lifecycle_transition", to |-> To(t.op)]
           ingested == [type |-> "INGESTED", to |-> "none"]
<1>7. /\ Tables!Transition(To(t.op)) = moved /\ Tables!Milestone("INGESTED") = ingested
      /\ moved \in LogEntries /\ ingested \in LogEntries
  BY <1>1 DEF Tables!Transition, Tables!Milestone, Tables!Event, LogEntries, EventTypes, States,
     To, Transitions, Ends, EndOf
<1>8. CASE t.op = "dispatchRow"
  <2>1. Emitted(t) = << <<"lifecycle_transition", "RUNNING">>, <<"INGESTED", "none">> >>
    BY <1>1, <1>8 DEF Emitted, Ends, EndOf
  <2>2. To(t.op) = "RUNNING"
    BY <1>8 DEF To
  <2> DEFINE new == <<moved, ingested>>
  <2>3. new \in Seq(LogEntries) /\ Len(new) = 2 /\ new[1] = moved /\ new[2] = ingested
    BY <1>7
  <2>4. DOMAIN Emitted(t) = 1..Len(new)
    BY <2>1, <2>3
  <2>5. \A i \in 1..Len(new) : new[i] = [type |-> Emitted(t)[i][1], to |-> Emitted(t)[i][2]]
    BY <2>1, <2>2, <2>3
  <2>6. new = <<moved>> \o <<ingested>>
    OBVIOUS
  <2> HIDE DEF new
  <2>7. LogOf(t.run)' = LogOf(t.run) \o new
    <3>1. new \in Seq(LogEntries)
      BY <2>3
    <3> QED
      BY <1>1, <1>2, <1>5, <2>4, <2>5, <3>1, LogAppended
  <2> QED
    BY <1>6, <1>7, <1>8, <2>6, <2>7
<1>9. CASE t.op \in Ends
  <2>1. Emitted(t) = << <<"lifecycle_transition", To(t.op)>> >>
    BY <1>1, <1>9 DEF Emitted, Ends, EndOf, To
  <2> DEFINE new == <<moved>>
  <2>2. new \in Seq(LogEntries) /\ Len(new) = 1 /\ new[1] = moved
    BY <1>7
  <2>3. DOMAIN Emitted(t) = 1..Len(new)
    BY <2>1, <2>2
  <2>4. \A i \in 1..Len(new) : new[i] = [type |-> Emitted(t)[i][1], to |-> Emitted(t)[i][2]]
    BY <2>1, <2>2
  <2>5. t.op # "dispatchRow"
    BY <1>9 DEF Ends, EndOf
  <2> HIDE DEF new
  <2>6. LogOf(t.run)' = LogOf(t.run) \o new
    BY <1>1, <1>2, <1>5, <2>2, <2>3, <2>4, LogAppended
  <2>7. new \o <<>> = new
    BY <2>2, ConcatEmptySeq
  <2> QED
    BY <1>6, <1>7, <2>5, <2>6, <2>7 DEF new
<1> QED
  BY <1>1, <1>8, <1>9 DEF Transitions

LEMMA TransitionStep ==
  ASSUME Inv, Inv', NEW s \in Slots, Commit(s), TransitionCommits(tx[s])
  PROVE  Tables!Next
<1>0. PICK t : t = tx[s]
  OBVIOUS
<1>1. /\ t \in OpenTx /\ Ok(t) /\ t.run \in Runs /\ t.op \in Ops /\ t.at = "end" /\ ~t.stale
      /\ writer' = IF t.wrote = NoRun THEN writer ELSE t.wrote
  BY <1>0, CommitKinds DEF Published
<1>2. /\ t.op \in Transitions /\ UNCHANGED <<pointer, minted>> /\ row[t.run].state = From(t.op)
      /\ t.log = NewRows(t)
      /\ row'[t.run] = [row[t.run] EXCEPT !.state = To(t.op)]
      /\ \A r \in Runs \ {t.run} : row'[r] = row[r]
  BY <1>0 DEF TransitionCommits
<1>3. t.wrote = NoRun
  BY <1>1, <1>2 DEF Ok, Wrote, TransitionWrote
<1>4. row \in [Runs -> RunRows] /\ row' \in [Runs -> RunRows]
  BY DEF Inv, TypeInv
<1>5. ASSUME NEW r \in Runs
      PROVE  /\ row'[r].state = IF r = t.run THEN To(t.op) ELSE row[r].state
             /\ row'[r].supersedes = row[r].supersedes
             /\ row'[r].supersededBy = row[r].supersededBy
             /\ row'[r].cancelReason = row[r].cancelReason
             /\ row'[r].state = "UNBORN" <=> row[r].state = "UNBORN"
  <2>1. From(t.op) # "UNBORN" /\ To(t.op) # "UNBORN"
    BY <1>2 DEF From, To, Transitions, Ends, EndOf
  <2>2. CASE r = t.run
    BY <1>2, <1>4, <2>1, <2>2 DEF RunRows
  <2>3. CASE r # t.run
    BY <1>2, <2>3
  <2> QED
    BY <2>2, <2>3
<1> DEFINE milestones == IF t.op = "dispatchRow" THEN <<Tables!Milestone("INGESTED")>> ELSE <<>>
           new == <<Tables!Transition(To(t.op))>> \o milestones
<1>6. /\ LogOf(t.run)' = LogOf(t.run) \o new
      /\ \A r \in Runs \ {t.run} : LogOf(r)' = LogOf(r)
  BY <1>0, TransitionLogs
<1>7. \A r \in Runs : Born(minted', r) = Born(minted, r)
  BY <1>2
<1> HIDE DEF milestones
<1>8. Tables!TransitionRun(t.run, From(t.op), To(t.op), milestones)
  <2>1. [r \in Runs |-> LogOf(r)]' = [[r \in Runs |-> LogOf(r)] EXCEPT ![t.run] = @ \o new]
    BY <1>1, <1>6
  <2>2. [r \in Runs |-> row[r].state]' = [[r \in Runs |-> row[r].state] EXCEPT ![t.run] = To(t.op)]
    BY <1>1, <1>5
  <2>3. [r \in Runs |-> Max(Positions(r) \cup {0})]' = [r \in Runs |-> Max(Positions(r) \cup {0})]
    BY <1>7, BornAre
  <2>4. [r \in Runs |-> IF row[r].state = "UNBORN" THEN NoReview ELSE Review]' =
          [r \in Runs |-> IF row[r].state = "UNBORN" THEN NoReview ELSE Review]
    BY <1>5
  <2>5. /\ [r \in Runs |-> row[r].supersedes]' = [r \in Runs |-> row[r].supersedes]
        /\ [r \in Runs |-> row[r].supersededBy]' = [r \in Runs |-> row[r].supersededBy]
        /\ [r \in Runs |-> row[r].cancelReason]' = [r \in Runs |-> row[r].cancelReason]
        /\ [v \in {Review} |-> pointer]' = [v \in {Review} |-> pointer]
        /\ [v \in {Review} |-> writer]' = [v \in {Review} |-> writer]
        /\ Len(minted)' = Len(minted)
    BY <1>1, <1>2, <1>3, <1>5
  <2> QED
    BY <1>1, <1>2, <2>1, <2>2, <2>3, <2>4, <2>5 DEF Tables!TransitionRun, Tables!Emit
<1>9. CASE t.op = "dispatchRow"
  <2>1. From(t.op) = "PENDING" /\ To(t.op) = "RUNNING"
        /\ milestones = <<Tables!Milestone("INGESTED")>>
    BY <1>9 DEF From, To, milestones
  <2>2. pointer = t.run
    BY <1>1, <1>9 DEF Ok, Sees, Guarded
  <2>3. Tables!AssertCurrentRun(t.run)
    BY <1>1, <1>2, <2>1, <2>2, GuardIs
  <2>4. Tables!DispatchRow(t.run)
    BY <1>8, <2>1, <2>3 DEF Tables!DispatchRow
  <2> QED
    BY <1>1, <2>4 DEF Tables!Next
<1>10. CASE t.op \in Ends
  <2>1. From(t.op) = "RUNNING" /\ To(t.op) = EndOf[t.op] /\ milestones = <<>>
    BY <1>10 DEF From, To, Ends, EndOf, milestones
  <2>2. \/ Tables!FinalizeReviewRun(t.run) \/ Tables!RecordRunFailed(t.run)
        \/ Tables!RecordRunCancelled(t.run)
    BY <1>8, <1>10, <2>1
       DEF Tables!FinalizeReviewRun, Tables!RecordRunFailed, Tables!RecordRunCancelled, Ends, EndOf
  <2> QED
    BY <1>1, <2>2 DEF Tables!Next
<1> QED
  BY <1>2, <1>9, <1>10 DEF Transitions

\* A milestone is emitted, unless the SELECT has found it.
LEMMA MilestoneEmits ==
  ASSUME Inv, Inv', AtomicInv, NEW s \in Slots, Commit(s), NEW t, t = tx[s], t.op \in Milestones
  PROVE  Tables!EmitOnce(t.run, MilestoneOf(t.op), Cardinality(Slots))
<1> DEFINE type == MilestoneOf(t.op)
           new == [type |-> type, to |-> "none"]
           logs == [r \in Runs |-> LogOf(r)]
<1>1. /\ t \in OpenTx /\ Ok(t) /\ t.run \in Runs /\ t.op \in Ops /\ t.at = "end" /\ ~t.stale
      /\ \/ AllocateCommits(t) \/ TransitionCommits(t) \/ MilestoneCommits(t)
         \/ ReapCommits(t) \/ NothingCommits(t)
  BY CommitKinds
<1>2. (t.log = {} /\ Logged(t.run, type)) \/ t.log = NewRows(t)
  BY <1>1 DEF Ok, Wrote, MilestoneWrote
<1>3. type \in MilestoneTypes /\ type # "lifecycle_transition" /\ new \in LogEntries
      /\ Tables!Milestone(type) = new
  BY DEF MilestoneOf, MilestoneTypes, LogEntries, EventTypes, Tables!Milestone, Tables!Event
<1>4. \A r \in Runs : EventsOf(r)' = EventsOf(r) \cup {e \in t.log : e.run = r}
  BY CommitLogs
<1>5. Tables!EmitOnce(t.run, type, Cardinality(Slots)) <=>
        \/ Tables!Logged(t.run, new) /\ logs' = logs
        \/ /\ Tables!Times(t.run, new) < Cardinality(Slots)
           /\ logs' = [logs EXCEPT ![t.run] = @ \o <<new>>]
  BY <1>3 DEF Tables!EmitOnce, Tables!Emit
<1>6. CASE t.log = {} /\ Logged(t.run, type)
  <2>1. Tables!Logged(t.run, new)
    BY <1>1, <1>3, <1>6, LoggedIs
  <2>2. \A r \in Runs : LogOf(r)' = LogOf(r)
    <3> TAKE r \in Runs
    <3>1. EventsOf(r)' = EventsOf(r)
      BY <1>4, <1>6
    <3> QED
      BY <3>1, LogStays
  <2> QED
    BY <1>5, <2>1, <2>2
<1>7. CASE t.log = NewRows(t)
  <2> DEFINE e == EventRow(t.run, MaxSequence(t.run) + 1, type, "none")
  <2>0. t.op \in Ops \ {"reap"}
    BY <1>1 DEF Milestones
  <2>1. NewRows(t) = {e}
    BY <1>1, <2>0, EmittedTypes
  <2>2. e.run = t.run
    BY DEF EventRow
  <2>3. EventsOf(t.run)' = EventsOf(t.run) \cup NewRows(t)
    <3>1. {d \in t.log : d.run = t.run} = NewRows(t)
      BY <1>7, <2>1, <2>2
    <3> QED
      BY <1>1, <1>4, <3>1
  <2>4. \A r \in Runs \ {t.run} : LogOf(r)' = LogOf(r)
    <3> TAKE r \in Runs \ {t.run}
    <3>1. {d \in t.log : d.run = r} = {}
      BY <1>7, <2>1, <2>2
    <3> QED
      BY <1>4, <3>1, LogStays
  <2>5. Emitted(t) = << <<type, "none">> >> /\ Subject(t) = t.run
    BY <1>1 DEF Emitted, Ends, EndOf, Milestones, MilestoneOf, Subject
  <2>6. LogOf(t.run)' = LogOf(t.run) \o <<new>>
    <3> DEFINE news == <<new>>
    <3>1. news \in Seq(LogEntries) /\ DOMAIN Emitted(t) = 1..Len(news)
      BY <1>3, <2>5
    <3>2. \A i \in 1..Len(news) : news[i] = [type |-> Emitted(t)[i][1], to |-> Emitted(t)[i][2]]
      BY <2>5
    <3> HIDE DEF news
    <3>3. LogOf(t.run)' = LogOf(t.run) \o news
      BY <1>1, <2>0, <2>3, <2>5, <3>1, <3>2, LogAppended
    <3> QED
      BY <3>3 DEF news
  <2>7. Cardinality(Posted(t.run, type)) < Cardinality(Slots)
    <3>1. s \in Emitters(t.run, type)
      BY <1>1, <1>7, <2>1 DEF Emitters, WillEmit
    <3>2. IsFiniteSet(Emitters(t.run, type))
      BY SlotsAssumption, FS_Subset DEF Emitters
    <3>3. Cardinality(Emitters(t.run, type)) \in Nat /\ Cardinality(Emitters(t.run, type)) # 0
      BY <3>1, <3>2, FS_CardinalityType, FS_EmptySet
    <3>4. IsFiniteSet(Posted(t.run, type))
      BY <1>1, PostedIsFinite
    <3>5. Cardinality(Posted(t.run, type)) \in Nat /\ Cardinality(Slots) \in Nat
      BY <3>4, SlotsAssumption, FS_CardinalityType
    <3>6. Cardinality(Posted(t.run, type)) + Cardinality(Emitters(t.run, type)) <= Cardinality(Slots)
      BY <1>1, <1>3 DEF AtomicInv, FewAttempts
    <3> QED
      BY <3>3, <3>5, <3>6
  <2>8. Tables!Times(t.run, new) = Cardinality(Posted(t.run, type))
    BY <1>1, <1>3, TimesIs
  <2>9. logs' = [logs EXCEPT ![t.run] = @ \o <<new>>]
    BY <1>1, <2>4, <2>6
  <2> QED
    BY <1>5, <2>7, <2>8, <2>9
<1> QED
  BY <1>2, <1>6, <1>7

LEMMA MilestoneStep ==
  ASSUME Inv, Inv', AtomicInv, NEW s \in Slots, Commit(s), tx[s].op \in Milestones
  PROVE  Tables!Next
<1>0. PICK t : t = tx[s]
  OBVIOUS
<1>1. /\ t \in OpenTx /\ Ok(t) /\ t.run \in Runs /\ t.op \in Ops /\ t.at = "end" /\ ~t.stale
      /\ writer' = IF t.wrote = NoRun THEN writer ELSE t.wrote
      /\ t.op \in Milestones
      /\ \/ AllocateCommits(t) \/ TransitionCommits(t) \/ MilestoneCommits(t)
         \/ ReapCommits(t) \/ NothingCommits(t)
  BY <1>0, CommitKinds DEF Published
<1>2. UNCHANGED <<row, pointer, minted>>
  BY <1>1 DEF AllocateCommits, TransitionCommits, MilestoneCommits, ReapCommits, NothingCommits,
     Milestones, Transitions, Ends, EndOf
<1>3. Logged(t.run, "INGESTED")
  BY <1>1 DEF Ok, Sees
<1>4. Tables!Logged(t.run, Tables!Milestone("INGESTED"))
  BY <1>1, <1>3, LoggedIs
<1>5. Tables!EmitOnce(t.run, MilestoneOf(t.op), Cardinality(Slots))
  BY <1>0, <1>1, MilestoneEmits
<1>6. \A r \in Runs : Born(minted', r) = Born(minted, r)
  BY <1>2
<1>7. [r \in Runs |-> Max(Positions(r) \cup {0})]' = [r \in Runs |-> Max(Positions(r) \cup {0})]
  BY <1>6, BornAre
<1>8. CASE t.op = "persistAggregated"
  <2>1. pointer = t.run /\ t.wrote = t.run
    BY <1>1, <1>8 DEF Ok, Sees, Guarded, Wrote, MilestoneWrote
  <2>2. row[t.run].state # "UNBORN" /\ t.run # NoRun
    BY <1>1, <1>3, NullsAssumption DEF Inv, TablesInv
  <2>3. Tables!AssertCurrentRun(t.run)
    BY <1>1, <2>1, <2>2, GuardIs
  <2>4. MilestoneOf(t.op) = "FINDINGS_PERSISTED"
    BY <1>8 DEF MilestoneOf
  <2>5. [v \in {Review} |-> writer]' =
          [[v \in {Review} |-> writer]
             EXCEPT ![[r \in Runs |-> IF row[r].state = "UNBORN" THEN NoReview ELSE Review][t.run]]
                      = t.run]
    BY <1>1, <2>1, <2>2
  <2>6. Tables!PersistFindings(t.run)
    BY <1>2, <1>4, <1>5, <1>7, <2>3, <2>4, <2>5 DEF Tables!PersistFindings
  <2> QED
    BY <1>1, <2>6 DEF Tables!Next
<1>9. CASE t.op = "recordReviewLifecycleEvent"
  <2>1. t.wrote = NoRun
    BY <1>1, <1>9 DEF Ok, Wrote, MilestoneWrote
  <2>2. MilestoneOf(t.op) = "ANALYZED"
    BY <1>9 DEF MilestoneOf
  <2>3. Tables!RecordReviewLifecycleEvent(t.run)
    BY <1>1, <1>2, <1>4, <1>5, <1>7, <2>1, <2>2 DEF Tables!RecordReviewLifecycleEvent
  <2> QED
    BY <1>1, <2>3 DEF Tables!Next
<1> QED
  BY <1>1, <1>8, <1>9 DEF Milestones

LEMMA ReapStep ==
  ASSUME Inv, AtomicInv, NEW s \in Slots, Commit(s), ReapCommits(tx[s])
  PROVE  Tables!Next \/ UNCHANGED Tables!vars
<1>0. PICK t : t = tx[s]
  OBVIOUS
<1> DEFINE hit == {w.run : w \in t.rows}
<1>1. /\ Ok(t) /\ stream' = stream \cup t.log
      /\ writer' = IF t.wrote = NoRun THEN writer ELSE t.wrote
      /\ row' = [r \in Runs |-> row'[r]]
  BY <1>0, CommitKinds DEF Published
<1>2. /\ t.op = "reap" /\ UNCHANGED <<pointer, minted>> /\ t.log = {}
      /\ \A r \in hit : r \in Running /\
           row'[r] = [row[r] EXCEPT !.state = "CANCELLED", !.cancelReason = "timeout"]
      /\ \A r \in Runs \ hit : row'[r] = row[r]
  BY <1>0 DEF ReapCommits
<1>3. UNCHANGED <<stream, writer>>
  BY <1>1, <1>2 DEF Ok, Wrote, ReapWrote
<1>4. row \in [Runs -> RunRows] /\ minted \in Seq(Runs)
  BY DEF Inv, TypeInv
<1> HIDE DEF hit
<1>5. CASE hit = {}
  <2>1. row' = row
    BY <1>1, <1>2, <1>4, <1>5
  <2> QED
    BY <1>2, <1>3, <2>1, TablesStutter
<1>6. CASE hit # {}
  <2>1. Running \subseteq Active /\ Active \subseteq {pointer} /\ Running \subseteq Runs
    BY DEF Running, Active, Inv, TablesInv
  <2>2. hit = Running
    <3>1. hit \subseteq Running
      BY <1>2
    <3> QED
      BY <1>6, <2>1, <3>1
  <2>3. ASSUME NEW r \in Runs
        PROVE  /\ row'[r].state = IF r \in Running THEN "CANCELLED" ELSE row[r].state
               /\ row'[r].cancelReason = IF r \in Running THEN "timeout" ELSE row[r].cancelReason
               /\ row'[r].supersedes = row[r].supersedes
               /\ row'[r].supersededBy = row[r].supersededBy
               /\ row'[r].state = "UNBORN" <=> row[r].state = "UNBORN"
    <3>1. CASE r \in Running
      <4>1. row'[r] = [row[r] EXCEPT !.state = "CANCELLED", !.cancelReason = "timeout"]
        BY <1>2, <2>2, <3>1
      <4>2. row[r] \in RunRows /\ row[r].state = "RUNNING"
        BY <1>4, <3>1 DEF Running
      <4> QED
        BY <3>1, <4>1, <4>2 DEF RunRows
    <3>2. CASE r \notin Running
      BY <1>2, <2>2, <3>2
    <3> QED
      BY <3>1, <3>2
  <2>4. Len(minted) \in 1..Len(minted)
    <3>1. PICK r \in Running : TRUE
      BY <1>6, <2>2
    <3>2. \E i \in 1..Len(minted) : minted[i] = r
      BY <2>1, <3>1 DEF AtomicInv, MintedOnce, Running
    <3> QED
      BY <1>4, <3>2
  <2>5. \A r \in Runs : Born(minted, r) <= Len(minted)
    <3>1. \A r : Born(minted, r) \in 0..Len(minted)
      <4>1. \A i, j \in 1..Len(minted) : minted[i] = minted[j] => i = j
        BY DEF AtomicInv, MintedOnce
      <4> QED
        BY <1>4, <4>1, BornIs DEF Born
    <3>2. Len(minted) \in Nat
      BY <1>4
    <3> QED
      BY <3>1, <3>2
  <2> PICK cutoff : cutoff = Len(minted)
    OBVIOUS
  <2>6. Tables!StaleRuns(cutoff) = Running
    BY <2>1, <2>5, BornAre DEF Tables!StaleRuns, Running
  <2>7. \A r \in Runs : Born(minted', r) = Born(minted, r) /\ LogOf(r)' = LogOf(r)
    BY <1>2, <1>3, LogStays DEF EventsOf
  <2>8. [r \in Runs |-> Max(Positions(r) \cup {0})]' = [r \in Runs |-> Max(Positions(r) \cup {0})]
    BY <2>7, BornAre
  <2>9. Tables!ReapStaleRuns(cutoff)
    <3>1. Running # {}
      BY <1>6, <2>2
    <3>2. [r \in Runs |-> IF row[r].state = "UNBORN" THEN NoReview ELSE Review]' =
            [r \in Runs |-> IF row[r].state = "UNBORN" THEN NoReview ELSE Review]
      BY <2>3
    <3>3. /\ [r \in Runs |-> row[r].supersedes]' = [r \in Runs |-> row[r].supersedes]
          /\ [r \in Runs |-> row[r].supersededBy]' = [r \in Runs |-> row[r].supersededBy]
          /\ [r \in Runs |-> LogOf(r)]' = [r \in Runs |-> LogOf(r)]
          /\ [v \in {Review} |-> pointer]' = [v \in {Review} |-> pointer]
          /\ [v \in {Review} |-> writer]' = [v \in {Review} |-> writer]
          /\ Len(minted)' = Len(minted)
      BY <1>2, <1>3, <2>3, <2>7
    <3>4. /\ [r \in Runs |-> row[r].state]' =
               [r \in Runs |-> IF r \in Running THEN "CANCELLED" ELSE [q \in Runs |-> row[q].state][r]]
          /\ [r \in Runs |-> row[r].cancelReason]' =
               [r \in Runs |-> IF r \in Running THEN "timeout" ELSE [q \in Runs |-> row[q].cancelReason][r]]
      BY <2>3
    <3> QED
      BY <2>6, <2>8, <3>1, <3>2, <3>3, <3>4 DEF Tables!ReapStaleRuns
  <2> QED
    BY <2>4, <2>9 DEF Tables!Next
<1> QED
  BY <1>5, <1>6

LEMMA CommitStep ==
  ASSUME Inv, Inv', AtomicInv, NEW s \in Slots, Commit(s)
  PROVE  Tables!Next \/ UNCHANGED Tables!vars
<1>1. CASE AllocateCommits(tx[s])
  <2>1. PICK r \in Runs : Tables!AllocateRun(Review, r)
    BY <1>1, AllocateStep
  <2> QED
    BY <2>1 DEF Tables!Next
<1>2. CASE TransitionCommits(tx[s])
  BY <1>2, TransitionStep
<1>3. CASE tx[s].op \in Milestones
  BY <1>3, MilestoneStep
<1>4. CASE ReapCommits(tx[s])
  BY <1>4, ReapStep
<1>5. CASE NothingCommits(tx[s]) /\ tx[s].op \in Transitions
  <2>1. PICK t : t = tx[s]
    OBVIOUS
  <2>2. /\ Ok(t) /\ stream' = stream \cup t.log
        /\ writer' = IF t.wrote = NoRun THEN writer ELSE t.wrote
    BY <2>1, CommitKinds DEF Published
  <2>3. UNCHANGED <<row, pointer, minted>> /\ t.log = {} /\ t.op \in Transitions
    BY <1>5, <2>1 DEF NothingCommits
  <2>4. UNCHANGED <<stream, writer>>
    BY <2>2, <2>3 DEF Ok, Wrote, TransitionWrote
  <2> QED
    BY <2>3, <2>4, TablesStutter
<1> QED
  BY <1>1, <1>2, <1>3, <1>4, <1>5, CommitKinds DEF MilestoneCommits, NothingCommits

LEMMA NextStep == Inv /\ Inv' /\ AtomicInv /\ [Next]_vars => [Tables!Next]_Tables!vars
<1> SUFFICES ASSUME Inv, Inv', AtomicInv, [Next]_vars PROVE Tables!Next \/ UNCHANGED Tables!vars
  OBVIOUS
<1>1. ASSUME NEW s \in Slots, NEW u, Becomes(s, u) PROVE UNCHANGED Tables!vars
  BY <1>1, TablesStutter DEF Becomes
<1>2. ASSUME NEW s \in Slots, NEW op \in Ops, NEW r \in Runs, Open(s, op, r)
      PROVE  UNCHANGED Tables!vars
  BY <1>1, <1>2 DEF Open
<1>3. ASSUME NEW s \in Slots, Statement(s) PROVE UNCHANGED Tables!vars
  <2>1. PICK u : Becomes(s, u)
    BY <1>3, StatementEmits
  <2> QED
    BY <1>1, <2>1
<1>4. ASSUME NEW s \in Slots, Commit(s) PROVE Tables!Next \/ UNCHANGED Tables!vars
  BY <1>4, CommitStep
<1>5. CASE UNCHANGED vars
  BY <1>5, TablesStutter DEF vars
<1> QED
  BY <1>2, <1>3, <1>4, <1>5 DEF Next, Statement

\* However the transactions of ReviewRuns' operations overlap, wait and abort, every
\* commit does what the operation does as a single step in the state it meets, and
\* no other statement shows: the row locks and the advisory lock make the
\* read-modify-write sequences of allocateRun, dispatchRow, the terminal activities
\* and the reaper atomic.  A milestone is emitted no more often than there are
\* connections, which is all that recordReviewLifecycleEvent's SELECT ensures.
THEOREM TransactionsAreAtomicHolds == Spec => TransactionsAreAtomic
<1>1. Init => Tables!Init
  BY TablesInit
<1>2. (Inv /\ AtomicInv) /\ (Inv /\ AtomicInv)' /\ [Next]_vars => [Tables!Next]_Tables!vars
  BY NextStep
<1> QED
  BY <1>1, <1>2, AtomicAlways, PTL DEF Spec, Tables!Spec, TransactionsAreAtomic
=============
