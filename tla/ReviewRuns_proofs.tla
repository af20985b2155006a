-------------------------- MODULE ReviewRuns_proofs --------------------------
(***************************************************************************)
(* Theorems about ReviewRuns for any number of reviews and runs.  The      *)
(* inductive invariant Inv adds to the properties what the allocator       *)
(* maintains silently: a run id is allocated once, the review row points   *)
(* at the youngest run of its review, and the lineage columns of a run     *)
(* that does not exist yet are NULL.  The tables implement the slot of     *)
(* RunSlot: for that the invariant also needs one fact about the event     *)
(* streams, that a run whose INGESTED milestone is there has left PENDING, *)
(* so that whoever passes the guard with it writes from a slot that has    *)
(* been started.                                                           *)
(***************************************************************************)
EXTENDS ReviewRuns, TLAPS

\* Allocation order: born numbers the inserted runs, each with its own number.
BirthOrder ==
  /\ \A r \in Runs : state[r] = "UNBORN" <=> born[r] = 0
  /\ \A r \in Runs : state[r] = "UNBORN" <=> review[r] = NoReview
  /\ \A r \in Runs : born[r] <= allocations
  /\ \A r, s \in Runs : born[r] = born[s] /\ born[r] # 0 => r = s

\* current_run_id names the youngest run of the review.
PointerIsYoungest ==
  /\ \A v \in Reviews : current[v] # NoRun => review[current[v]] = v
  /\ \A r \in Runs : review[r] \in Reviews =>
       current[review[r]] # NoRun /\ born[r] <= born[current[review[r]]]

\* The last writer of a review's findings is one of the review's runs.
WriterBelongs == \A v \in Reviews : lastWriter[v] # NoRun => review[lastWriter[v]] = v

\* Rows that do not exist yet have no lineage.
UnbornHasNoLineage ==
  \A r \in Runs : state[r] = "UNBORN" => supersedes[r] = NoRun /\ supersededBy[r] = NoRun

Inv ==
  /\ TypeOK
  /\ BirthOrder
  /\ PointerIsYoungest
  /\ WriterBelongs
  /\ ActiveRunIsCurrent
  /\ UnbornHasNoLineage
  /\ LineageConsistent

-----------------------------------------------------------------------------
\* The set of rows that may be in a run's event stream.
EventRows == [type : EventTypes, to : LifecycleStates \cup {"none"}]

\* Every row the transactions write is a legal row of the event stream.
LEMMA EventRowsWritten ==
  /\ \A to \in LifecycleStates : Transition(to) \in EventRows
  /\ \A type \in EventTypes : Milestone(type) \in EventRows
BY DEF Transition, Milestone, Event, EventRows, EventTypes

\* Appending legal rows to a run's stream keeps every stream legal.
LEMMA EmitType ==
  ASSUME events \in [Runs -> Seq(EventRows)], NEW r \in Runs,
         NEW new \in Seq(EventRows)
  PROVE  Emit(events, r, new) \in [Runs -> Seq(EventRows)]
BY DEF Emit

\* The initial tables satisfy the inductive invariant.
LEMMA InitInv == Init => Inv
<1> SUFFICES ASSUME Init PROVE Inv
  OBVIOUS
<1> USE NullAssumption DEF Init
<1>1. TypeOK
  BY DEF TypeOK, LifecycleStates, ActiveStates, TerminalStates
<1>2. BirthOrder
  BY DEF BirthOrder
<1>3. PointerIsYoungest /\ WriterBelongs
  BY DEF PointerIsYoungest, WriterBelongs
<1>4. ActiveRunIsCurrent
  BY DEF ActiveRunIsCurrent, ActiveStates
<1>5. UnbornHasNoLineage /\ LineageConsistent
  BY DEF UnbornHasNoLineage, LineageConsistent
<1> QED
  BY <1>1, <1>2, <1>3, <1>4, <1>5 DEF Inv

\* Under the invariant a review has at most one active run, the current one,
\* so supersedeRun cancels exactly the run it reports.
LEMMA SupersedesTheOnlyActive ==
  ASSUME Inv, NEW v \in Reviews, NEW old \in SupersededRun(v)
  PROVE  /\ old \in Runs \cup {NoRun}
         /\ \A r \in Runs : r \in ActiveRunsOf(v) <=> r = old
<1>1. \A r \in ActiveRunsOf(v) : r \in Runs /\ r = current[v]
  BY DEF Inv, ActiveRunIsCurrent, ActiveRunsOf
<1>2. CASE ActiveRunsOf(v) = {}
  BY <1>2, NullAssumption DEF SupersededRun
<1>3. CASE ActiveRunsOf(v) # {}
  <2>1. old \in ActiveRunsOf(v)
    BY <1>3 DEF SupersededRun
  <2> QED
    BY <2>1, <1>1
<1> QED
  BY <1>2, <1>3

\* The webhook's allocation preserves the invariant.
LEMMA AllocateInv ==
  ASSUME Inv, NEW v \in Reviews, NEW new \in Runs, AllocateRun(v, new)
  PROVE  Inv'
<1> PICK old \in Runs \cup {NoRun} :
      /\ SupersedeRun(v, new, old)
      /\ supersedes' = [supersedes EXCEPT ![new] = old]
      /\ FlipCurrentRun(v, new, old)
  BY DEF AllocateRun
<1>0. /\ state[new] = "UNBORN"
      /\ allocations' = allocations + 1
      /\ born' = [born EXCEPT ![new] = allocations + 1]
      /\ review' = [review EXCEPT ![new] = v]
      /\ UNCHANGED lastWriter
  BY DEF AllocateRun
<1>a. old \in SupersededRun(v)
  BY DEF SupersedeRun
<1>b. \A r \in Runs : r \in ActiveRunsOf(v) <=> r = old
  BY <1>a, SupersedesTheOnlyActive
<1>c. new # old /\ new \notin ActiveRunsOf(v)
  BY <1>0, <1>b, NullAssumption DEF ActiveRunsOf, ActiveStates
<1>d. old \in Runs => review[old] = v /\ state[old] \in ActiveStates /\ old = current[v]
  BY <1>b DEF ActiveRunsOf, Inv, ActiveRunIsCurrent
<1>e. /\ state' = [r \in Runs |-> IF r = new THEN "PENDING"
                                  ELSE IF r = old THEN "CANCELLED" ELSE state[r]]
      /\ cancelReason' = [r \in Runs |-> IF r = old THEN "superseded" ELSE cancelReason[r]]
      /\ supersededBy' = [r \in Runs |-> IF r = old THEN new ELSE supersededBy[r]]
  BY <1>b DEF SupersedeRun
<1>f. current' = [current EXCEPT ![v] = new]
  BY DEF FlipCurrentRun
<1>1. TypeOK'
  <2>1. events' \in [Runs -> Seq(EventRows)]
    <3>1. /\ Milestone("WEBHOOK_RECEIVED") \in EventRows
          /\ Milestone("RUN_SUPERSEDED") \in EventRows
      BY EventRowsWritten DEF EventTypes
    <3>2. events \in [Runs -> Seq(EventRows)]
      BY DEF Inv, TypeOK, EventRows
    <3> QED
      BY <3>1, <3>2 DEF SupersedeRun
  <2>2. state' \in [Runs -> LifecycleStates \cup {"UNBORN"}]
    BY <1>e DEF Inv, TypeOK, LifecycleStates, ActiveStates, TerminalStates
  <2>3. /\ cancelReason' \in [Runs -> {"none", "superseded", "timeout"}]
        /\ supersededBy' \in [Runs -> Runs \cup {NoRun}]
    BY <1>e DEF Inv, TypeOK
  <2>4. /\ supersedes' \in [Runs -> Runs \cup {NoRun}]
        /\ current' \in [Reviews -> Runs \cup {NoRun}]
    BY <1>f DEF Inv, TypeOK
  <2>5. /\ review' \in [Runs -> Reviews \cup {NoReview}]
        /\ born' \in [Runs -> Nat]
        /\ allocations' \in Nat
        /\ lastWriter' \in [Reviews -> Runs \cup {NoRun}]
    BY <1>0 DEF Inv, TypeOK
  <2> QED
    BY <2>1, <2>2, <2>3, <2>4, <2>5 DEF TypeOK, EventRows
<1>2. BirthOrder'
  BY <1>0, <1>e, <1>d, NullAssumption
  DEF Inv, TypeOK, BirthOrder, ActiveStates
<1>3. PointerIsYoungest'
  BY <1>0, <1>f, NullAssumption DEF Inv, TypeOK, BirthOrder, PointerIsYoungest
<1>4. WriterBelongs'
  BY <1>0, NullAssumption DEF Inv, TypeOK, BirthOrder, WriterBelongs
<1>5. ActiveRunIsCurrent'
  <2> SUFFICES ASSUME NEW r \in Runs, state'[r] \in ActiveStates
               PROVE  review'[r] \in Reviews /\ current'[review'[r]] = r
    BY DEF ActiveRunIsCurrent
  <2>1. CASE r = new
    BY <2>1, <1>0, <1>f DEF Inv, TypeOK
  <2>2. CASE r # new
    <3>1. r # old /\ state[r] \in ActiveStates
      BY <2>2, <1>e DEF ActiveStates
    <3>2. review[r] \in Reviews /\ current[review[r]] = r
      BY <3>1 DEF Inv, ActiveRunIsCurrent
    <3>3. review[r] # v
      BY <3>1, <1>b DEF ActiveRunsOf
    <3> QED
      BY <2>2, <3>2, <3>3, <1>0, <1>f DEF Inv, TypeOK
  <2> QED
    BY <2>1, <2>2
<1>6. UnbornHasNoLineage'
  BY <1>0, <1>c, <1>e DEF Inv, TypeOK, UnbornHasNoLineage
<1>7. LineageConsistent'
  <2>0. \A r \in Runs : supersededBy[r] # new /\ supersedes[new] = NoRun
    BY <1>0, NullAssumption DEF Inv, UnbornHasNoLineage, LineageConsistent
  <2>1. ASSUME NEW r \in Runs, NEW n \in Runs
        PROVE  supersededBy'[r] = n <=> supersedes'[n] = r
    <3>1. CASE n = new
      BY <3>1, <2>0, <1>e DEF Inv, TypeOK
    <3>2. CASE n # new
      <4>1. supersedes'[n] = supersedes[n]
        BY <3>2 DEF Inv, TypeOK
      <4>2. old \in Runs => supersededBy[old] = NoRun
        BY <1>d DEF Inv, TypeOK, LineageConsistent, ActiveStates
      <4> QED
        BY <3>2, <4>1, <4>2, <1>e, NullAssumption DEF Inv, LineageConsistent
    <3> QED
      BY <3>1, <3>2
  <2>2. ASSUME NEW r \in Runs, supersededBy'[r] # NoRun
        PROVE  /\ state'[r] = "CANCELLED"
               /\ cancelReason'[r] = "superseded"
               /\ review'[supersededBy'[r]] = review'[r]
               /\ born'[r] < born'[supersededBy'[r]]
    <3>1. CASE r = old
      BY <3>1, <1>0, <1>c, <1>d, <1>e, NullAssumption DEF Inv, TypeOK, BirthOrder
    <3>2. CASE r # old
      <4>1. supersededBy'[r] = supersededBy[r] /\ supersededBy[r] \in Runs
        BY <3>2, <2>2, <1>e DEF Inv, TypeOK
      <4>2. /\ state[r] = "CANCELLED"
            /\ cancelReason[r] = "superseded"
            /\ review[supersededBy[r]] = review[r]
            /\ born[r] < born[supersededBy[r]]
        BY <4>1, NullAssumption DEF Inv, LineageConsistent
      <4>3. r # new /\ supersededBy[r] # new
        BY <4>2, <1>0, <2>0
      <4> QED
        BY <3>2, <4>1, <4>2, <4>3, <1>0, <1>e DEF Inv, TypeOK
    <3> QED
      BY <3>1, <3>2
  <2> QED
    BY <2>1, <2>2 DEF LineageConsistent
<1> QED
  BY <1>1, <1>2, <1>3, <1>4, <1>5, <1>6, <1>7 DEF Inv

\* A lifecycle transition of a run that is active preserves the invariant,
\* provided its target is not active again unless the run is current.
LEMMA TransitionInv ==
  ASSUME Inv, NEW r \in Runs, NEW from \in ActiveStates, NEW to \in LifecycleStates,
         NEW milestones \in Seq(EventRows), TransitionRun(r, from, to, milestones)
  PROVE  Inv'
<1> USE DEF TransitionRun
<1>0. state[r] \in ActiveStates
  OBVIOUS
<1>1. TypeOK'
  <2>1. events \in [Runs -> Seq(EventRows)]
    BY DEF Inv, TypeOK, EventRows
  <2>2. <<Transition(to)>> \o milestones \in Seq(EventRows)
    BY EventRowsWritten
  <2>3. events' \in [Runs -> Seq(EventRows)]
    BY <2>1, <2>2, EmitType
  <2> QED
    BY <2>3 DEF Inv, TypeOK, EventRows
<1>2. BirthOrder'
  BY <1>0 DEF Inv, TypeOK, BirthOrder, ActiveStates, LifecycleStates, TerminalStates
<1>3. PointerIsYoungest' /\ WriterBelongs'
  BY DEF Inv, PointerIsYoungest, WriterBelongs
<1>4. ActiveRunIsCurrent'
  BY <1>0 DEF Inv, TypeOK, ActiveRunIsCurrent
<1>5. UnbornHasNoLineage'
  BY DEF Inv, TypeOK, UnbornHasNoLineage, LifecycleStates, ActiveStates, TerminalStates
<1>6. LineageConsistent'
  <2>1. supersededBy[r] = NoRun
    BY <1>0 DEF Inv, LineageConsistent, ActiveStates
  <2> QED
    BY <2>1 DEF Inv, TypeOK, LineageConsistent
<1> QED
  BY <1>1, <1>2, <1>3, <1>4, <1>5, <1>6 DEF Inv

\* The reaper's sweep preserves the invariant.
LEMMA ReapInv ==
  ASSUME Inv, NEW cutoff \in 1..allocations, ReapStaleRuns(cutoff)
  PROVE  Inv'
<1> USE DEF ReapStaleRuns
<1>0. \A r \in Runs : r \in StaleRuns(cutoff) => state[r] = "RUNNING"
  BY DEF StaleRuns
<1>1. TypeOK'
  BY DEF Inv, TypeOK, LifecycleStates, TerminalStates
<1>2. BirthOrder'
  BY <1>0 DEF Inv, BirthOrder
<1>3. PointerIsYoungest' /\ WriterBelongs'
  BY DEF Inv, PointerIsYoungest, WriterBelongs
<1>4. ActiveRunIsCurrent'
  BY DEF Inv, ActiveRunIsCurrent, ActiveStates
<1>5. UnbornHasNoLineage'
  BY <1>0 DEF Inv, UnbornHasNoLineage
<1>6. LineageConsistent'
  <2>1. \A r \in Runs : supersededBy[r] # NoRun => r \notin StaleRuns(cutoff)
    BY <1>0 DEF Inv, LineageConsistent
  <2> QED
    BY <2>1 DEF Inv, LineageConsistent
<1> QED
  BY <1>1, <1>2, <1>3, <1>4, <1>5, <1>6 DEF Inv

\* A milestone is a legal row, whether or not it is written.
LEMMA EmitOnceType ==
  ASSUME events \in [Runs -> Seq(EventRows)], NEW r \in Runs, NEW type \in EventTypes,
         NEW attempts, EmitOnce(r, type, attempts)
  PROVE  events' \in [Runs -> Seq(EventRows)]
<1>1. <<Milestone(type)>> \in Seq(EventRows)
  BY EventRowsWritten
<1> QED
  BY <1>1, EmitType DEF EmitOnce

\* A milestone of a stage preserves the invariant: it only appends to a stream.
LEMMA RecordInv ==
  ASSUME Inv, NEW r \in Runs, RecordReviewLifecycleEvent(r)
  PROVE  Inv'
<1> USE DEF RecordReviewLifecycleEvent
<1>1. TypeOK'
  <2>1. events' \in [Runs -> Seq(EventRows)]
    BY EmitOnceType DEF Inv, TypeOK, EventRows, EventTypes
  <2> QED
    BY <2>1 DEF Inv, TypeOK, EventRows
<1>2. BirthOrder' /\ PointerIsYoungest' /\ WriterBelongs' /\ ActiveRunIsCurrent'
  BY DEF Inv, BirthOrder, PointerIsYoungest, WriterBelongs, ActiveRunIsCurrent
<1>3. UnbornHasNoLineage' /\ LineageConsistent'
  BY DEF Inv, UnbornHasNoLineage, LineageConsistent
<1> QED
  BY <1>1, <1>2, <1>3 DEF Inv

\* A guarded findings write preserves the invariant.
LEMMA PersistInv ==
  ASSUME Inv, NEW r \in Runs, PersistFindings(r)
  PROVE  Inv'
<1> USE DEF PersistFindings, AssertCurrentRun
<1>1. TypeOK'
  <2>3. events' \in [Runs -> Seq(EventRows)]
    BY EmitOnceType DEF Inv, TypeOK, EventRows, EventTypes
  <2> QED
    BY <2>3 DEF Inv, TypeOK, EventRows
<1>2. WriterBelongs'
  BY DEF Inv, TypeOK, WriterBelongs
<1>3. BirthOrder' /\ PointerIsYoungest' /\ ActiveRunIsCurrent'
  BY DEF Inv, BirthOrder, PointerIsYoungest, ActiveRunIsCurrent
<1>4. UnbornHasNoLineage' /\ LineageConsistent'
  BY DEF Inv, UnbornHasNoLineage, LineageConsistent
<1> QED
  BY <1>1, <1>2, <1>3, <1>4 DEF Inv

\* Every step preserves the invariant: one step per transaction.
LEMMA NextInv == Inv /\ [Next]_vars => Inv'
<1> SUFFICES ASSUME Inv, [Next]_vars PROVE Inv'
  OBVIOUS
<1>0. /\ {"PENDING", "RUNNING"} \subseteq ActiveStates
      /\ {"RUNNING", "COMPLETED", "FAILED", "CANCELLED"} \subseteq LifecycleStates
      /\ <<>> \in Seq(EventRows)
      /\ <<Milestone("INGESTED")>> \in Seq(EventRows)
  BY EventRowsWritten DEF LifecycleStates, ActiveStates, TerminalStates, EventTypes
<1>1. ASSUME NEW v \in Reviews, NEW new \in Runs, AllocateRun(v, new) PROVE Inv'
  BY <1>1, AllocateInv
<1>2. ASSUME NEW r \in Runs, DispatchRow(r) PROVE Inv'
  BY <1>2, <1>0, TransitionInv DEF DispatchRow
<1>3. ASSUME NEW r \in Runs,
             FinalizeReviewRun(r) \/ RecordRunFailed(r) \/ RecordRunCancelled(r)
      PROVE  Inv'
  <2>1. CASE FinalizeReviewRun(r)
    BY <2>1, <1>0, TransitionInv DEF FinalizeReviewRun
  <2>2. CASE RecordRunFailed(r)
    BY <2>2, <1>0, TransitionInv DEF RecordRunFailed
  <2>3. CASE RecordRunCancelled(r)
    BY <2>3, <1>0, TransitionInv DEF RecordRunCancelled
  <2> QED
    BY <1>3, <2>1, <2>2, <2>3
<1>4. ASSUME NEW r \in Runs, PersistFindings(r) PROVE Inv'
  BY <1>4, PersistInv
<1>5. ASSUME NEW cutoff \in 1..allocations, ReapStaleRuns(cutoff) PROVE Inv'
  BY <1>5, ReapInv
<1>7. ASSUME NEW r \in Runs, RecordReviewLifecycleEvent(r) PROVE Inv'
  BY <1>7, RecordInv
<1>6. CASE UNCHANGED vars
  <2> USE <1>6 DEF vars, Inv
  <2>1. TypeOK' /\ BirthOrder'
    BY DEF TypeOK, BirthOrder
  <2>2. PointerIsYoungest' /\ WriterBelongs' /\ ActiveRunIsCurrent'
    BY DEF PointerIsYoungest, WriterBelongs, ActiveRunIsCurrent
  <2>3. UnbornHasNoLineage' /\ LineageConsistent'
    BY DEF UnbornHasNoLineage, LineageConsistent
  <2> QED
    BY <2>1, <2>2, <2>3
<1> QED
  BY <1>1, <1>2, <1>3, <1>4, <1>5, <1>6, <1>7 DEF Next

-----------------------------------------------------------------------------
\* The inductive invariant holds in every reachable state of the tables.
THEOREM Invariance == Spec => []Inv
<1>1. Init => Inv
  BY InitInv
<1>2. Inv /\ [Next]_vars => Inv'
  BY NextInv
<1> QED
  BY <1>1, <1>2, PTL DEF Spec

\* Every column of the three tables keeps a legal value, whichever transactions
\* interleave.
THEOREM TypeCorrect == Spec => []TypeOK
<1>1. Inv => TypeOK
  BY DEF Inv
<1> QED
  BY <1>1, Invariance, PTL

\* For any number of pull requests and pushes: an active run is the one its
\* review points at, so at most one run of a review is active and
\* CurrentRunMismatch is never thrown at a webhook.
THEOREM OneActiveRun == Spec => []ActiveRunIsCurrent
<1>1. Inv => ActiveRunIsCurrent
  BY DEF Inv
<1> QED
  BY <1>1, Invariance, PTL

\* The lineage columns are mutually inverse and point to a younger run of the
\* same review.
THEOREM Lineage == Spec => []LineageConsistent
<1>1. Inv => LineageConsistent
  BY DEF Inv
<1> QED
  BY <1>1, Invariance, PTL

\* No transaction moves a finished run or rewrites why it ended.
THEOREM TerminalFinality == Spec => TerminalIsFinal
<1>1. ASSUME Inv, [Next]_vars, NEW r \in Runs, state[r] \in TerminalStates
      PROVE  /\ state'[r] = state[r]
             /\ cancelReason'[r] = cancelReason[r]
             /\ supersededBy'[r] = supersededBy[r]
  <2>0. state[r] \notin ActiveStates /\ state[r] # "UNBORN"
    BY <1>1 DEF TerminalStates, ActiveStates
  <2>1. ASSUME NEW v \in Reviews, NEW new \in Runs, AllocateRun(v, new)
        PROVE  UNCHANGED <<state[r], cancelReason[r], supersededBy[r]>>
    <3>1. r # new /\ r \notin ActiveRunsOf(v)
      BY <2>1, <2>0 DEF AllocateRun, ActiveRunsOf
    <3> QED
      BY <2>1, <3>1 DEF AllocateRun, SupersedeRun
  <2>2. ASSUME NEW s \in Runs, NEW from \in ActiveStates, NEW to, NEW milestones,
               TransitionRun(s, from, to, milestones)
        PROVE  UNCHANGED <<state[r], cancelReason[r], supersededBy[r]>>
    BY <2>2, <2>0, <1>1 DEF TransitionRun, Inv, TypeOK
  <2>3. ASSUME NEW s \in Runs,
               DispatchRow(s) \/ FinalizeReviewRun(s) \/ RecordRunFailed(s)
                 \/ RecordRunCancelled(s)
        PROVE  UNCHANGED <<state[r], cancelReason[r], supersededBy[r]>>
    BY <2>2, <2>3 DEF DispatchRow, FinalizeReviewRun, RecordRunFailed,
                      RecordRunCancelled, ActiveStates
  <2>4. ASSUME NEW cutoff \in 1..allocations, ReapStaleRuns(cutoff)
        PROVE  UNCHANGED <<state[r], cancelReason[r], supersededBy[r]>>
    BY <2>4, <2>0 DEF ReapStaleRuns, StaleRuns, ActiveStates
  <2>5. ASSUME NEW s \in Runs, PersistFindings(s)
        PROVE  UNCHANGED <<state[r], cancelReason[r], supersededBy[r]>>
    BY <2>5 DEF PersistFindings
  <2>6. ASSUME NEW s \in Runs, RecordReviewLifecycleEvent(s)
        PROVE  UNCHANGED <<state[r], cancelReason[r], supersededBy[r]>>
    BY <2>6 DEF RecordReviewLifecycleEvent
  <2> QED
    BY <1>1, <2>1, <2>3, <2>4, <2>5, <2>6 DEF Next, vars
<1>2. Inv /\ [Next]_vars =>
        [\A r \in Runs : state[r] \in TerminalStates =>
           /\ state'[r] = state[r]
           /\ cancelReason'[r] = cancelReason[r]
           /\ supersededBy'[r] = supersededBy[r]]_vars
  BY <1>1
<1> QED
  BY <1>2, Invariance, PTL DEF Spec, TerminalIsFinal

\* The findings of a review are written by ever younger runs: a workflow whose
\* run was overtaken cannot overwrite what its successor wrote.
THEOREM WritesForward == Spec => WritesMoveForward
<1>1. ASSUME Inv, [Next]_vars, NEW v \in Reviews,
             lastWriter[v] # NoRun, lastWriter'[v] # lastWriter[v]
      PROVE  born[lastWriter[v]] < born[lastWriter'[v]]
  <2>1. PICK r \in Runs : PersistFindings(r)
    BY <1>1 DEF Next, vars, AllocateRun, DispatchRow, FinalizeReviewRun, RecordRunFailed,
                RecordRunCancelled, TransitionRun, ReapStaleRuns, RecordReviewLifecycleEvent
  <2>2. v = review[r] /\ lastWriter'[v] = r /\ current[v] = r
    BY <1>1, <2>1 DEF PersistFindings, AssertCurrentRun, Inv, TypeOK
  <2>3. lastWriter[v] \in Runs /\ review[lastWriter[v]] = v /\ lastWriter[v] # r
    BY <1>1, <2>2 DEF Inv, TypeOK, WriterBelongs
  <2>4. born[lastWriter[v]] <= born[r]
    BY <1>1, <2>2, <2>3 DEF Inv, PointerIsYoungest
  <2>5. born[lastWriter[v]] # 0
    BY <1>1, <2>3, NullAssumption DEF Inv, BirthOrder
  <2>6. born[lastWriter[v]] # born[r]
    BY <1>1, <2>3, <2>5 DEF Inv, BirthOrder
  <2>7. born[lastWriter[v]] \in Nat /\ born[r] \in Nat
    BY <1>1, <2>3 DEF Inv, TypeOK
  <2> QED
    BY <2>2, <2>4, <2>6, <2>7
<1>2. Inv /\ [Next]_vars =>
        [\A v \in Reviews :
           (lastWriter[v] # NoRun /\ lastWriter'[v] # lastWriter[v]) =>
             born[lastWriter[v]] < born[lastWriter'[v]]]_vars
  BY <1>1
<1> QED
  BY <1>2, Invariance, PTL DEF Spec, WritesMoveForward

-----------------------------------------------------------------------------
(* The event streams. *)

\* What a stream says of its run, what it holds, and that nothing is there twice.
Says(log, st) ==
  \E i \in 1..Len(log) :
    /\ OfLifecycle(log[i]) /\ \A j \in i+1..Len(log) : ~OfLifecycle(log[j])
    /\ StateOfEvent(log[i]) = st
Has(log, e) == \E i \in 1..Len(log) : log[i] = e
Once(log) == \A i, j \in 1..Len(log) : log[i] = log[j] => i = j \/ log[i] \in Repeatable

\* The state that a run's stream should say.
Readable(r) == IF cancelReason[r] = "timeout" THEN "RUNNING" ELSE state[r]

\* What the stream of a run cannot hold yet, by the state of the run.
NotYetLogged(r) ==
  /\ state[r] = "UNBORN" => events[r] = <<>> /\ cancelReason[r] = "none"
  /\ state[r] = "PENDING" => ~Has(events[r], Transition("RUNNING"))
                             /\ ~Has(events[r], Milestone("INGESTED"))
  /\ state[r] \in ActiveStates =>
       /\ cancelReason[r] = "none"
       /\ ~Has(events[r], Milestone("RUN_SUPERSEDED"))
       /\ \A to \in TerminalStates : ~Has(events[r], Transition(to))

StreamOK(r) ==
  /\ NotYetLogged(r)
  /\ state[r] # "UNBORN" => Says(events[r], Readable(r)) /\ Once(events[r])

StreamInv == Inv /\ \A r \in Runs : StreamOK(r)

\* Two events differ when their types or their targets do.
LEMMA DistinctEvents ==
  /\ \A a, b : Milestone(a) = Milestone(b) <=> a = b
  /\ \A a, b : Transition(a) = Transition(b) <=> a = b
  /\ \A a, b : Transition(a) = Milestone(b) => b = "lifecycle_transition"
BY DEF Milestone, Transition, Event

\* The state said by the events that the transactions write.
LEMMA EventsSay ==
  /\ \A to : OfLifecycle(Transition(to)) /\ StateOfEvent(Transition(to)) = to
  /\ OfLifecycle(Milestone("WEBHOOK_RECEIVED"))
  /\ StateOfEvent(Milestone("WEBHOOK_RECEIVED")) = "PENDING"
  /\ OfLifecycle(Milestone("RUN_SUPERSEDED"))
  /\ StateOfEvent(Milestone("RUN_SUPERSEDED")) = "CANCELLED"
  /\ \A type \in {"INGESTED", "FINDINGS_PERSISTED", "ANALYZED"} : ~OfLifecycle(Milestone(type))
BY DEF OfLifecycle, StateOfEvent, Transition, Milestone, Event

\* What an extended stream holds.
LEMMA HasAppend ==
  ASSUME NEW log \in Seq(EventRows), NEW e \in EventRows, NEW x
  PROVE  Has(Append(log, e), x) <=> Has(log, x) \/ x = e
<1>1. /\ Append(log, e) \in Seq(EventRows) /\ Len(Append(log, e)) = Len(log) + 1
      /\ \A i \in 1..Len(log) : Append(log, e)[i] = log[i]
      /\ Append(log, e)[Len(log) + 1] = e
      /\ Len(log) \in Nat
  OBVIOUS
<1>2. \A i \in 1..Len(log) + 1 : i \in 1..Len(log) \/ i = Len(log) + 1
  BY <1>1
<1>3. 1..Len(log) \subseteq 1..Len(log) + 1 /\ Len(log) + 1 \in 1..Len(log) + 1
  BY <1>1
<1> QED
  BY <1>1, <1>2, <1>3 DEF Has

\* A milestone leaves what the stream says; a lifecycle event is what it says.
LEMMA SaysAppend ==
  ASSUME NEW log \in Seq(EventRows), NEW e \in EventRows
  PROVE  /\ OfLifecycle(e) => Says(Append(log, e), StateOfEvent(e))
         /\ ~OfLifecycle(e) => \A st : Says(log, st) => Says(Append(log, e), st)
<1>1. /\ Len(Append(log, e)) = Len(log) + 1 /\ Len(log) \in Nat
      /\ \A i \in 1..Len(log) : Append(log, e)[i] = log[i]
      /\ Append(log, e)[Len(log) + 1] = e
  OBVIOUS
<1>2. ASSUME OfLifecycle(e) PROVE Says(Append(log, e), StateOfEvent(e))
  <2>1. \A j \in (Len(log) + 1) + 1..Len(log) + 1 : FALSE
    BY <1>1
  <2>2. Len(log) + 1 \in 1..Len(log) + 1
    BY <1>1
  <2> QED
    BY <1>1, <1>2, <2>1, <2>2 DEF Says
<1>3. ASSUME ~OfLifecycle(e), NEW st, Says(log, st) PROVE Says(Append(log, e), st)
  <2>1. PICK i \in 1..Len(log) :
          /\ OfLifecycle(log[i]) /\ \A j \in i+1..Len(log) : ~OfLifecycle(log[j])
          /\ StateOfEvent(log[i]) = st
    BY <1>3 DEF Says
  <2>2. i \in 1..Len(log) + 1
    BY <1>1
  <2>3. \A j \in i+1..Len(log) + 1 :
        (j \in i+1..Len(log) /\ j \in 1..Len(log)) \/ j = Len(log) + 1
    BY <1>1
  <2>4. \A j \in i+1..Len(log) + 1 : ~OfLifecycle(Append(log, e)[j])
    BY <1>1, <1>3, <2>1, <2>3
  <2> QED
    BY <1>1, <2>1, <2>2, <2>4 DEF Says
<1> QED
  BY <1>2, <1>3

\* What a stream says when a lifecycle event of a given state is its last.
LEMMA SaysLast ==
  ASSUME NEW log \in Seq(EventRows), NEW e \in EventRows, NEW st,
         OfLifecycle(e), StateOfEvent(e) = st
  PROVE  Says(Append(log, e), st)
<1>1. Says(Append(log, e), StateOfEvent(e))
  BY SaysAppend
<1> QED
  BY <1>1

\* And when what follows is no lifecycle event.
LEMMA SaysStill ==
  ASSUME NEW log \in Seq(EventRows), NEW e \in EventRows, NEW st,
         ~OfLifecycle(e), Says(log, st)
  PROVE  Says(Append(log, e), st)
<1>1. \A x : Says(log, x) => Says(Append(log, e), x)
  BY SaysAppend
<1> QED
  BY <1>1

\* A new event, or a milestone that may be repeated, leaves nothing there twice.
LEMMA OnceAppend ==
  ASSUME NEW log \in Seq(EventRows), NEW e \in EventRows, Once(log),
         ~Has(log, e) \/ e \in Repeatable
  PROVE  Once(Append(log, e))
<1>1. /\ Len(Append(log, e)) = Len(log) + 1 /\ Len(log) \in Nat
      /\ \A i \in 1..Len(log) : Append(log, e)[i] = log[i]
      /\ Append(log, e)[Len(log) + 1] = e
  OBVIOUS
<1>2. \A i \in 1..Len(log) + 1 : i \in 1..Len(log) \/ i = Len(log) + 1
  BY <1>1
<1> QED
  BY <1>1, <1>2 DEF Once, Has

\* emitWorkflowEvent once and twice.
LEMMA EmitIsAppend ==
  ASSUME events \in [Runs -> Seq(EventRows)], NEW r \in Runs, NEW e \in EventRows
  PROVE  /\ Emit(events, r, <<e>>) = [events EXCEPT ![r] = Append(events[r], e)]
         /\ Emit(events, r, <<e>> \o <<>>) = [events EXCEPT ![r] = Append(events[r], e)]
         /\ \A f \in EventRows : Emit(events, r, <<e>> \o <<f>>)
              = [events EXCEPT ![r] = Append(Append(events[r], e), f)]
<1>1. events[r] \in Seq(EventRows)
  OBVIOUS
<1>2. events[r] \o <<e>> = Append(events[r], e) /\ <<e>> \o <<>> = <<e>>
  BY <1>1
<1>3. \A f \in EventRows : events[r] \o (<<e>> \o <<f>>) = Append(Append(events[r], e), f)
  BY <1>1
<1> QED
  BY <1>2, <1>3 DEF Emit

\* The webhook begins the stream of its run and closes that of the run it supersedes.
LEMMA AllocateStream ==
  ASSUME StreamInv, NEW v \in Reviews, NEW new \in Runs, AllocateRun(v, new), NEW r \in Runs
  PROVE  StreamOK(r)'
<1> PICK old \in Runs \cup {NoRun} : SupersedeRun(v, new, old)
  BY DEF AllocateRun
<1>0. /\ Inv /\ StreamOK(r) /\ events \in [Runs -> Seq(EventRows)]
      /\ state[new] = "UNBORN"
      /\ cancelReason \in [Runs -> {"none", "superseded", "timeout"}]
  BY DEF StreamInv, Inv, TypeOK, EventRows, AllocateRun
<1>1. \A x \in Runs : x \in ActiveRunsOf(v) <=> x = old
  BY <1>0, SupersedesTheOnlyActive DEF SupersedeRun
<1>2. CASE r = new
  <2>1. /\ state'[r] = "PENDING" /\ events'[r] = <<Milestone("WEBHOOK_RECEIVED")>>
        /\ cancelReason'[r] = "none"
    <3>1. r \notin ActiveRunsOf(v)
      BY <1>0, <1>2 DEF ActiveRunsOf, ActiveStates
    <3>2. cancelReason[r] = "none"
      BY <1>0, <1>2 DEF StreamOK, NotYetLogged
    <3> QED
      BY <1>2, <3>1, <3>2 DEF SupersedeRun
  <2>2. <<Milestone("WEBHOOK_RECEIVED")>> = Append(<<>>, Milestone("WEBHOOK_RECEIVED"))
    OBVIOUS
  <2>3. Milestone("WEBHOOK_RECEIVED") \in EventRows /\ <<>> \in Seq(EventRows)
    BY EventRowsWritten DEF EventTypes
  <2>4. Says(events'[r], "PENDING")
    <3>1. Says(Append(<<>>, Milestone("WEBHOOK_RECEIVED")), "PENDING")
      BY ONLY <2>3, SaysLast, EventsSay
    <3> QED
      BY ONLY <2>1, <2>2, <3>1
  <2>5. \A x : Has(events'[r], x) <=> x = Milestone("WEBHOOK_RECEIVED")
    <3>1. \A x : ~Has(<<>>, x)
      <4>1. Len(<<>>) = 0
        OBVIOUS
      <4>2. \A i \in 1..0 : FALSE
        OBVIOUS
      <4> QED
        BY <4>1, <4>2 DEF Has
    <3>2. \A x : Has(Append(<<>>, Milestone("WEBHOOK_RECEIVED")), x)
                   <=> Has(<<>>, x) \/ x = Milestone("WEBHOOK_RECEIVED")
      BY <2>3, HasAppend
    <3> QED
      BY <2>1, <2>2, <3>1, <3>2
  <2>6. Once(events'[r])
    BY <2>1 DEF Once
  <2>7. NotYetLogged(r)'
    BY <2>1, <2>5, DistinctEvents DEF NotYetLogged
  <2> QED
    BY <2>1, <2>4, <2>6, <2>7 DEF StreamOK, Readable
<1>3. CASE r = old /\ r # new
  <2>1. r \in ActiveRunsOf(v) /\ state[r] \in ActiveStates
    BY <1>1, <1>3 DEF ActiveRunsOf
  <2>2. /\ state'[r] = "CANCELLED" /\ cancelReason'[r] = "superseded"
        /\ events'[r] = Append(events[r], Milestone("RUN_SUPERSEDED"))
    BY <1>3, <2>1 DEF SupersedeRun
  <2>3. Milestone("RUN_SUPERSEDED") \in EventRows /\ events[r] \in Seq(EventRows)
    BY <1>0, EventRowsWritten DEF EventTypes
  <2>4. Says(events'[r], "CANCELLED")
    <3>1. Says(Append(events[r], Milestone("RUN_SUPERSEDED")), "CANCELLED")
      BY ONLY <2>3, SaysLast, EventsSay
    <3> QED
      BY ONLY <2>2, <3>1
  <2>5. Once(events[r]) /\ ~Has(events[r], Milestone("RUN_SUPERSEDED"))
    BY <1>0, <2>1 DEF StreamOK, NotYetLogged, ActiveStates
  <2>6. Once(events'[r])
    BY <2>2, <2>3, <2>5, OnceAppend
  <2> QED
    BY <2>2, <2>4, <2>6 DEF StreamOK, NotYetLogged, Readable, ActiveStates
<1>4. CASE r # old /\ r # new
  <2>1. UNCHANGED <<state[r], events[r], cancelReason[r]>>
    BY <1>1, <1>4 DEF SupersedeRun
  <2> QED
    BY <1>0, <2>1 DEF StreamOK, NotYetLogged, Readable
<1> QED
  BY <1>2, <1>3, <1>4

\* A milestone is news to nobody who replays the stream.
LEMMA MilestoneStream ==
  ASSUME StreamInv, NEW s \in Runs, NEW type \in {"FINDINGS_PERSISTED", "ANALYZED"},
         NEW attempts, EmitOnce(s, type, attempts), Logged(s, Milestone("INGESTED")),
         UNCHANGED <<state, cancelReason>>, NEW r \in Runs
  PROVE  StreamOK(r)'
<1>0. StreamOK(r) /\ StreamOK(s) /\ events \in [Runs -> Seq(EventRows)]
  BY DEF StreamInv, Inv, TypeOK, EventRows
<1>1. CASE UNCHANGED events[r]
  BY <1>0, <1>1 DEF StreamOK, NotYetLogged, Readable
<1>2. CASE events'[r] # events[r]
  <2>1. Milestone(type) \in EventRows /\ events[r] \in Seq(EventRows)
    BY <1>0, EventRowsWritten DEF EventTypes
  <2>2. r = s /\ events'[r] = Append(events[r], Milestone(type))
    <3>1. events' = Emit(events, s, <<Milestone(type)>>)
      BY <1>2 DEF EmitOnce
    <3>2. events' = [events EXCEPT ![s] = Append(events[s], Milestone(type))]
      BY <1>0, <2>1, <3>1, EmitIsAppend
    <3> QED
      BY <1>0, <1>2, <3>2
  <2>3. state[r] \notin {"UNBORN", "PENDING"}
    BY <1>0, <2>2 DEF StreamOK, NotYetLogged, Logged, Has
  <2>4. Says(events'[r], Readable(r)) /\ Once(events'[r])
    <3>1. ~OfLifecycle(Milestone(type)) /\ Milestone(type) \in Repeatable
      BY EventsSay DEF Repeatable
    <3>2. Says(events[r], Readable(r)) /\ Once(events[r])
      BY <1>0, <2>3 DEF StreamOK
    <3>3. Says(Append(events[r], Milestone(type)), Readable(r))
      BY <2>1, <2>2, <3>1, <3>2, SaysStill
    <3>4. Once(Append(events[r], Milestone(type)))
      BY <2>1, <2>2, <3>1, <3>2, OnceAppend
    <3> QED
      BY <2>2, <3>3, <3>4
  <2>5. \A x : Has(events'[r], x) <=> Has(events[r], x) \/ x = Milestone(type)
    BY <2>1, <2>2, HasAppend
  <2>6. NotYetLogged(r)'
    BY <1>0, <2>3, <2>5, DistinctEvents DEF StreamOK, NotYetLogged
  <2> QED
    BY <2>4, <2>6 DEF StreamOK, Readable
<1> QED
  BY <1>1, <1>2

\* The dispatcher writes that the run is RUNNING, and that it was ingested.
LEMMA DispatchStream ==
  ASSUME StreamInv, NEW s \in Runs, DispatchRow(s), NEW r \in Runs
  PROVE  StreamOK(r)'
<1> DEFINE t == Transition("RUNNING")
           m == Milestone("INGESTED")
<1>0. /\ StreamOK(r) /\ events \in [Runs -> Seq(EventRows)]
      /\ state \in [Runs -> LifecycleStates \cup {"UNBORN"}]
      /\ t \in EventRows /\ m \in EventRows
  BY EventRowsWritten
  DEF StreamInv, Inv, TypeOK, EventRows, EventTypes, LifecycleStates, ActiveStates
<1>1. /\ state[s] = "PENDING" /\ state' = [state EXCEPT ![s] = "RUNNING"]
      /\ events' = [events EXCEPT ![s] = Append(Append(events[s], t), m)]
      /\ UNCHANGED cancelReason
  <2>1. /\ state[s] = "PENDING" /\ state' = [state EXCEPT ![s] = "RUNNING"]
        /\ events' = Emit(events, s, <<t>> \o <<m>>)
        /\ UNCHANGED cancelReason
    BY DEF DispatchRow, TransitionRun
  <2> HIDE DEF t, m
  <2>2. events' = [events EXCEPT ![s] = Append(Append(events[s], t), m)]
    <3>1. \A f \in EventRows : Emit(events, s, <<t>> \o <<f>>)
                             = [events EXCEPT ![s] = Append(Append(events[s], t), f)]
      BY <1>0, EmitIsAppend
    <3> QED
      BY ONLY <1>0, <2>1, <3>1
  <2> QED
    BY <2>1, <2>2
<1>2. CASE r # s
  <2>1. UNCHANGED <<state[r], events[r], cancelReason[r]>>
    BY <1>0, <1>1, <1>2
  <2> QED
    BY <1>0, <2>1 DEF StreamOK, NotYetLogged, Readable
<1>3. CASE r = s
  <2>1. /\ state'[r] = "RUNNING" /\ cancelReason'[r] = "none"
        /\ events'[r] = Append(Append(events[r], t), m)
        /\ events[r] \in Seq(EventRows) /\ Append(events[r], t) \in Seq(EventRows)
    BY <1>0, <1>1, <1>3 DEF StreamOK, NotYetLogged, ActiveStates
  <2>2. Once(events[r]) /\ ~Has(events[r], t) /\ ~Has(events[r], m)
    BY <1>0, <1>1, <1>3 DEF StreamOK, NotYetLogged
  <2>3. t # m
    BY DistinctEvents
  <2>4. Once(Append(events[r], t)) /\ ~Has(Append(events[r], t), m)
    BY <1>0, <2>1, <2>2, <2>3, OnceAppend, HasAppend
  <2>5. Once(events'[r])
    BY <1>0, <2>1, <2>4, OnceAppend
  <2>s. OfLifecycle(t) /\ StateOfEvent(t) = "RUNNING" /\ ~OfLifecycle(m)
    BY EventsSay
  <2>6. Says(Append(events[r], t), "RUNNING")
    <3> HIDE DEF t, m
    <3> QED BY <1>0, <2>1, <2>s, SaysLast
  <2>7. Says(events'[r], "RUNNING")
    <3> HIDE DEF t, m
    <3>1. Says(Append(Append(events[r], t), m), "RUNNING")
      BY ONLY <1>0, <2>1, <2>s, <2>6, SaysStill
    <3> QED BY ONLY <2>1, <3>1
  <2>8. \A x : Has(events'[r], x) <=> Has(events[r], x) \/ x = t \/ x = m
    <3> HIDE DEF t, m
    <3>1. \A x : Has(Append(events[r], t), x) <=> Has(events[r], x) \/ x = t
      BY <1>0, <2>1, HasAppend
    <3>2. \A x : Has(Append(Append(events[r], t), m), x) <=> Has(Append(events[r], t), x) \/ x = m
      BY <1>0, <2>1, HasAppend
    <3> QED
      BY <2>1, <3>1, <3>2
  <2>9. NotYetLogged(r)'
    <3>1. /\ ~Has(events[r], Milestone("RUN_SUPERSEDED"))
          /\ \A to \in TerminalStates : ~Has(events[r], Transition(to))
      BY <1>0, <1>1, <1>3 DEF StreamOK, NotYetLogged, ActiveStates
    <3> QED
      BY <2>1, <2>8, <3>1, DistinctEvents DEF NotYetLogged, TerminalStates
  <2> QED
    BY <2>1, <2>5, <2>7, <2>9 DEF StreamOK, Readable
<1> QED
  BY <1>2, <1>3

\* A terminal activity writes the state that its run ends in.
LEMMA TerminalStream ==
  ASSUME StreamInv, NEW s \in Runs, NEW to \in TerminalStates,
         TransitionRun(s, "RUNNING", to, <<>>), NEW r \in Runs
  PROVE  StreamOK(r)'
<1> DEFINE t == Transition(to)
<1>0. /\ StreamOK(r) /\ events \in [Runs -> Seq(EventRows)]
      /\ state \in [Runs -> LifecycleStates \cup {"UNBORN"}]
      /\ t \in EventRows /\ to \notin ActiveStates /\ to # "UNBORN"
  BY EventRowsWritten
  DEF StreamInv, Inv, TypeOK, EventRows, EventTypes, LifecycleStates, TerminalStates, ActiveStates
<1>1. /\ state[s] = "RUNNING" /\ state' = [state EXCEPT ![s] = to]
      /\ events' = [events EXCEPT ![s] = Append(events[s], t)]
      /\ UNCHANGED cancelReason
  <2>1. /\ state[s] = "RUNNING" /\ state' = [state EXCEPT ![s] = to]
        /\ events' = Emit(events, s, <<t>> \o <<>>)
        /\ UNCHANGED cancelReason
    BY DEF TransitionRun
  <2> HIDE DEF t
  <2>2. events' = [events EXCEPT ![s] = Append(events[s], t)]
    BY <1>0, <2>1, EmitIsAppend
  <2> QED
    BY <2>1, <2>2
<1>2. CASE r # s
  <2>1. UNCHANGED <<state[r], events[r], cancelReason[r]>>
    BY <1>0, <1>1, <1>2
  <2> QED
    BY <1>0, <2>1 DEF StreamOK, NotYetLogged, Readable
<1>3. CASE r = s
  <2>1. /\ state'[r] = to /\ cancelReason'[r] = "none"
        /\ events'[r] = Append(events[r], t) /\ events[r] \in Seq(EventRows)
    BY <1>0, <1>1, <1>3 DEF StreamOK, NotYetLogged, ActiveStates
  <2>2. Once(events[r]) /\ ~Has(events[r], t)
    BY <1>0, <1>1, <1>3 DEF StreamOK, NotYetLogged, ActiveStates
  <2>3. Once(events'[r]) /\ Says(events'[r], to)
    BY <1>0, <2>1, <2>2, OnceAppend, SaysAppend, EventsSay
  <2>4. NotYetLogged(r)' /\ Readable(r)' = to
    BY <1>0, <2>1 DEF NotYetLogged, Readable, ActiveStates
  <2> QED
    BY <2>3, <2>4 DEF StreamOK
<1> QED
  BY <1>2, <1>3

\* The reaper writes no event: the stream goes on to say RUNNING, and so does a
\* reader who knows of the reason.
LEMMA ReapStream ==
  ASSUME StreamInv, NEW cutoff \in 1..allocations, ReapStaleRuns(cutoff), NEW r \in Runs
  PROVE  StreamOK(r)'
<1>0. StreamOK(r) /\ UNCHANGED events
  BY DEF StreamInv, ReapStaleRuns
<1>1. CASE r \in StaleRuns(cutoff)
  <2>1. /\ state[r] = "RUNNING" /\ cancelReason[r] = "none"
        /\ state'[r] = "CANCELLED" /\ cancelReason'[r] = "timeout"
    BY <1>0, <1>1 DEF ReapStaleRuns, StaleRuns, StreamOK, NotYetLogged, ActiveStates
  <2> QED
    BY <1>0, <2>1 DEF StreamOK, NotYetLogged, Readable, ActiveStates
<1>2. CASE r \notin StaleRuns(cutoff)
  <2>1. UNCHANGED <<state[r], cancelReason[r]>>
    BY <1>2 DEF ReapStaleRuns
  <2> QED
    BY <1>0, <2>1 DEF StreamOK, NotYetLogged, Readable
<1> QED
  BY <1>1, <1>2

\* Replaying the events of a run gives its state, but for the reaper's cancellation,
\* for any number of runs, retries and redeliveries.
THEOREM EventStreamExplainsStateHolds == Spec => []EventStreamExplainsState
<1>1. Init => StreamInv
  <2> SUFFICES ASSUME Init, NEW r \in Runs PROVE StreamOK(r)
    BY InitInv DEF StreamInv
  <2> QED
    BY DEF Init, StreamOK, NotYetLogged, ActiveStates
<1>2. StreamInv /\ [Next]_vars => StreamInv'
  <2> SUFFICES ASSUME StreamInv, [Next]_vars, NEW r \in Runs PROVE StreamOK(r)'
    BY NextInv DEF StreamInv
  <2>1. ASSUME NEW s \in Runs, PersistFindings(s) \/ RecordReviewLifecycleEvent(s)
        PROVE  StreamOK(r)'
    <3>1. PICK type \in {"FINDINGS_PERSISTED", "ANALYZED"} : \E attempts : EmitOnce(s, type, attempts)
      BY <2>1 DEF PersistFindings, RecordReviewLifecycleEvent
    <3>2. Logged(s, Milestone("INGESTED")) /\ UNCHANGED <<state, cancelReason>>
      BY <2>1 DEF PersistFindings, RecordReviewLifecycleEvent
    <3> QED
      BY <3>1, <3>2, MilestoneStream
  <2>2. ASSUME NEW s \in Runs,
               FinalizeReviewRun(s) \/ RecordRunFailed(s) \/ RecordRunCancelled(s)
        PROVE  StreamOK(r)'
    <3>1. PICK to \in TerminalStates : TransitionRun(s, "RUNNING", to, <<>>)
      BY <2>2 DEF FinalizeReviewRun, RecordRunFailed, RecordRunCancelled, TerminalStates
    <3> QED
      BY <3>1, TerminalStream
  <2>3. CASE UNCHANGED vars
    BY <2>3 DEF vars, StreamInv, StreamOK, NotYetLogged, Readable
  <2> QED
    BY <2>1, <2>2, <2>3, AllocateStream, DispatchStream, ReapStream DEF Next
<1>3. StreamInv => EventStreamExplainsState
  BY DEF StreamInv, StreamOK, Says, Once, Readable, EventStreamExplainsState
<1> QED
  BY <1>1, <1>2, <1>3, PTL DEF Spec

-----------------------------------------------------------------------------
(* The refinement of RunSlot. *)

\* The milestone of the dispatcher stands for a run that was started.
IngestedRan ==
  \A r \in Runs : Logged(r, Milestone("INGESTED")) => state[r] \notin {"UNBORN", "PENDING"}

SlotInv == Inv /\ IngestedRan

\* What is found in an extended stream is the new row or was there before.
LEMMA FoundInAppend ==
  ASSUME NEW S, NEW log \in Seq(S), NEW e \in S, NEW x,
         NEW i \in 1..Len(Append(log, e)), Append(log, e)[i] = x
  PROVE  x = e \/ \E j \in 1..Len(log) : log[j] = x
OBVIOUS

\* Every step keeps the fact about ingested runs.
LEMMA IngestedRanStep ==
  ASSUME Inv, IngestedRan, [Next]_vars
  PROVE  IngestedRan'
<1> SUFFICES ASSUME NEW r \in Runs, Logged(r, Milestone("INGESTED"))'
             PROVE  state'[r] \notin {"UNBORN", "PENDING"}
  BY DEF IngestedRan
<1>0. events \in [Runs -> Seq(EventRows)] /\ state \in [Runs -> LifecycleStates \cup {"UNBORN"}]
  BY DEF Inv, TypeOK, EventRows
<1>k. UNCHANGED <<events[r], state[r]>> => state'[r] \notin {"UNBORN", "PENDING"}
  BY DEF IngestedRan, Logged
<1>1. ASSUME NEW v \in Reviews, NEW new \in Runs, AllocateRun(v, new)
      PROVE  state'[r] \notin {"UNBORN", "PENDING"}
  <2> PICK old \in Runs \cup {NoRun} : SupersedeRun(v, new, old)
    BY <1>1 DEF AllocateRun
  <2>1. r # new
    <3>1. Milestone("WEBHOOK_RECEIVED") # Milestone("INGESTED")
      BY DEF Milestone, Event
    <3> QED
      BY <3>1 DEF SupersedeRun, Logged
  <2>2. Logged(r, Milestone("INGESTED"))
    <3>1. CASE r = old
      <4>1. events'[r] = Append(events[r], Milestone("RUN_SUPERSEDED"))
        BY <2>1, <3>1 DEF SupersedeRun
      <4>2. Milestone("RUN_SUPERSEDED") # Milestone("INGESTED")
        BY DEF Milestone, Event
      <4>3. Milestone("RUN_SUPERSEDED") \in EventRows
        BY EventRowsWritten DEF EventTypes
      <4>4. PICK i \in 1..Len(events'[r]) : events'[r][i] = Milestone("INGESTED")
        BY DEF Logged
      <4> QED
        BY <1>0, <4>1, <4>2, <4>3, <4>4, FoundInAppend DEF Logged
    <3>2. CASE r # old
      BY <2>1, <3>2 DEF SupersedeRun, Logged
    <3> QED
      BY <3>1, <3>2
  <2> QED
    BY <2>1, <2>2 DEF SupersedeRun, IngestedRan
<1>2. ASSUME NEW s \in Runs, NEW from, NEW to \in LifecycleStates \ {"PENDING"},
             NEW milestones, TransitionRun(s, from, to, milestones)
      PROVE  state'[r] \notin {"UNBORN", "PENDING"}
  <2>1. CASE r = s
    BY <1>2, <2>1, <1>0 DEF TransitionRun, LifecycleStates, ActiveStates, TerminalStates
  <2>2. CASE r # s
    <3>1. UNCHANGED <<events[r], state[r]>>
      BY <1>2, <2>2, <1>0 DEF TransitionRun, Emit
    <3> QED
      BY <3>1, <1>k
  <2> QED
    BY <2>1, <2>2
<1>3. ASSUME NEW s \in Runs,
             DispatchRow(s) \/ FinalizeReviewRun(s) \/ RecordRunFailed(s)
               \/ RecordRunCancelled(s)
      PROVE  state'[r] \notin {"UNBORN", "PENDING"}
  <2>1. {"RUNNING", "COMPLETED", "FAILED", "CANCELLED"} \subseteq LifecycleStates \ {"PENDING"}
    BY DEF LifecycleStates, ActiveStates, TerminalStates
  <2> QED
    BY <1>2, <1>3, <2>1 DEF DispatchRow, FinalizeReviewRun, RecordRunFailed,
                            RecordRunCancelled
<1>4. ASSUME NEW cutoff \in 1..allocations, ReapStaleRuns(cutoff)
      PROVE  state'[r] \notin {"UNBORN", "PENDING"}
  BY <1>4 DEF ReapStaleRuns, IngestedRan, Logged
<1>5. ASSUME NEW s \in Runs, NEW type, NEW attempts, Logged(s, Milestone("INGESTED")),
             EmitOnce(s, type, attempts), UNCHANGED state
      PROVE  state'[r] \notin {"UNBORN", "PENDING"}
  <2>1. CASE UNCHANGED events[r]
    BY <1>5, <2>1, <1>k
  <2>2. CASE events'[r] # events[r]
    <3>1. r = s
      BY <1>5, <2>2, <1>0 DEF EmitOnce, Emit
    <3> QED
      BY <1>5, <3>1 DEF IngestedRan
  <2> QED
    BY <2>1, <2>2
<1>6. ASSUME NEW s \in Runs, PersistFindings(s) \/ RecordReviewLifecycleEvent(s)
      PROVE  state'[r] \notin {"UNBORN", "PENDING"}
  BY <1>5, <1>6 DEF PersistFindings, RecordReviewLifecycleEvent
<1> QED
  BY <1>1, <1>3, <1>4, <1>6, <1>k DEF Next, vars

-----------------------------------------------------------------------------
\* Empty tables are an empty slot.
LEMMA InitSlot == Init => Slot!Init
BY DEF Init, Slot!Init, SlotPhase

\* The run a review points at exists and is its own.
LEMMA CurrentIsOwn ==
  ASSUME Inv, NEW v \in Reviews, current[v] # NoRun
  PROVE  current[v] \in Runs /\ review[current[v]] = v /\ state[current[v]] # "UNBORN"
BY NullAssumption DEF Inv, TypeOK, PointerIsYoungest, BirthOrder

\* A webhook takes the slot of its review and leaves the others as they are.
LEMMA AllocateTakesSlot ==
  ASSUME Inv, NEW v \in Reviews, NEW new \in Runs, AllocateRun(v, new)
  PROVE  Slot!Push(v, new)
<1> PICK old \in Runs \cup {NoRun} : SupersedeRun(v, new, old) /\ FlipCurrentRun(v, new, old)
  BY DEF AllocateRun
<1>0. state[new] = "UNBORN" /\ lastWriter' = lastWriter
  BY DEF AllocateRun
<1>1. current' = [current EXCEPT ![v] = new]
  BY DEF FlipCurrentRun
<1>2. state' = [r \in Runs |-> IF r = new THEN "PENDING"
                               ELSE IF r \in ActiveRunsOf(v) THEN "CANCELLED"
                               ELSE state[r]]
  BY DEF SupersedeRun
<1>3. {r \in Runs : state'[r] # "UNBORN"} = {r \in Runs : state[r] # "UNBORN"} \cup {new}
  BY <1>2 DEF ActiveRunsOf, ActiveStates
<1>4. [u \in Reviews |-> SlotPhase(u)]' = [[u \in Reviews |-> SlotPhase(u)] EXCEPT ![v] = "queued"]
  <2>1. SlotPhase(v)' = "queued"
    BY <1>1, <1>2, NullAssumption DEF SlotPhase, Inv, TypeOK
  <2>2. ASSUME NEW u \in Reviews, u # v PROVE SlotPhase(u)' = SlotPhase(u)
    <3>1. current'[u] = current[u]
      BY <1>1, <2>2 DEF Inv, TypeOK
    <3>2. current[u] # NoRun => state'[current[u]] = state[current[u]]
      BY <1>0, <1>2, <2>2, CurrentIsOwn DEF ActiveRunsOf
    <3> QED
      BY <3>1, <3>2 DEF SlotPhase
  <2> QED
    BY <2>1, <2>2
<1> QED
  BY <1>0, <1>1, <1>3, <1>4 DEF Slot!Push

\* A transition of a run that is current and active moves only its own slot.
LEMMA TransitionMovesSlot ==
  ASSUME Inv, NEW r \in Runs, NEW from \in ActiveStates, NEW to \in LifecycleStates,
         NEW milestones, TransitionRun(r, from, to, milestones)
  PROVE  /\ review[r] \in Reviews /\ current[review[r]] = r
         /\ UNCHANGED <<current, lastWriter, {s \in Runs : state[s] # "UNBORN"}>>
         /\ state'[r] = to
         /\ \A u \in Reviews : u # review[r] => SlotPhase(u)' = SlotPhase(u)
<1> USE DEF TransitionRun
<1>1. review[r] \in Reviews /\ current[review[r]] = r
  BY DEF Inv, ActiveRunIsCurrent
<1>2. UNCHANGED <<current, lastWriter>> /\ state'[r] = to
  BY DEF Inv, TypeOK
<1>3. UNCHANGED {s \in Runs : state[s] # "UNBORN"}
  BY DEF ActiveStates, LifecycleStates, TerminalStates, Inv, TypeOK
<1>4. ASSUME NEW u \in Reviews, u # review[r] PROVE SlotPhase(u)' = SlotPhase(u)
  <2>1. current[u] # NoRun => state'[current[u]] = state[current[u]]
    BY <1>4, CurrentIsOwn DEF Inv, TypeOK
  <2> QED
    BY <1>2, <2>1 DEF SlotPhase
<1> QED
  BY <1>1, <1>2, <1>3, <1>4

\* The dispatcher's guard transaction starts the holder of the slot.
LEMMA DispatchBegins ==
  ASSUME Inv, NEW r \in Runs, DispatchRow(r)
  PROVE  Slot!Begin(review[r]) /\ review[r] \in Reviews
<1>0. "PENDING" \in ActiveStates /\ "RUNNING" \in LifecycleStates
  BY DEF ActiveStates, LifecycleStates
<1>1. TransitionRun(r, "PENDING", "RUNNING", <<Milestone("INGESTED")>>)
  BY DEF DispatchRow
<1>a. review[r] \in Reviews
  BY <1>0, <1>1, TransitionMovesSlot
<1> PICK v \in Reviews : v = review[r]
  BY <1>a
<1>2. /\ current[v] = r
      /\ UNCHANGED <<current, lastWriter, {s \in Runs : state[s] # "UNBORN"}>>
      /\ state'[r] = "RUNNING"
      /\ \A u \in Reviews : u # v => SlotPhase(u)' = SlotPhase(u)
  BY <1>0, <1>1, TransitionMovesSlot
<1>3. SlotPhase(v) = "queued" /\ SlotPhase(v)' = "running"
  BY <1>1, <1>2, NullAssumption DEF SlotPhase, TransitionRun
<1>4. [u \in Reviews |-> SlotPhase(u)]' = [[u \in Reviews |-> SlotPhase(u)] EXCEPT ![v] = "running"]
  BY <1>2, <1>3
<1> QED
  BY <1>2, <1>3, <1>4 DEF Slot!Begin

\* A terminal activity ends the holder of the slot.
LEMMA TerminalFinishes ==
  ASSUME Inv, NEW r \in Runs, NEW to \in TerminalStates,
         TransitionRun(r, "RUNNING", to, <<>>)
  PROVE  Slot!Finish({review[r]}) /\ {review[r]} \in SUBSET Reviews
<1>0. /\ "RUNNING" \in ActiveStates
      /\ to \in LifecycleStates /\ to # "PENDING" /\ to # "RUNNING"
  BY DEF ActiveStates, LifecycleStates, TerminalStates
<1>a. review[r] \in Reviews
  BY <1>0, TransitionMovesSlot
<1> PICK v \in Reviews : v = review[r]
  BY <1>a
<1>2. /\ current[v] = r
      /\ UNCHANGED <<current, lastWriter, {s \in Runs : state[s] # "UNBORN"}>>
      /\ state'[r] = to
      /\ \A u \in Reviews : u # v => SlotPhase(u)' = SlotPhase(u)
  BY <1>0, TransitionMovesSlot
<1>3. SlotPhase(v) = "running" /\ SlotPhase(v)' = "over"
  BY <1>0, <1>2, NullAssumption DEF SlotPhase, TransitionRun
<1>4. [u \in Reviews |-> SlotPhase(u)]'
        = [u \in Reviews |-> IF u \in {v} THEN "over" ELSE SlotPhase(u)]
  BY <1>2, <1>3
<1> QED
  BY <1>2, <1>3, <1>4 DEF Slot!Finish

\* The reaper ends every slot whose holder it cancels, and nothing else.
LEMMA ReapFinishes ==
  ASSUME Inv, NEW cutoff \in 1..allocations, ReapStaleRuns(cutoff)
  PROVE  Slot!Finish({v \in Reviews : current[v] \in StaleRuns(cutoff)})
<1> DEFINE ended == {v \in Reviews : current[v] \in StaleRuns(cutoff)}
<1> USE DEF ReapStaleRuns
<1>1. \A r \in StaleRuns(cutoff) : r \in Runs /\ state[r] = "RUNNING"
  BY DEF StaleRuns
<1>2. UNCHANGED <<current, lastWriter>>
  OBVIOUS
<1>3. UNCHANGED {r \in Runs : state[r] # "UNBORN"}
  BY <1>1
<1>4. \A v \in ended : SlotPhase(v) = "running" /\ SlotPhase(v)' = "over"
  BY <1>1, <1>2, NullAssumption DEF SlotPhase
<1>5. \A v \in Reviews \ ended : SlotPhase(v)' = SlotPhase(v)
  BY <1>1, <1>2 DEF SlotPhase, Inv, TypeOK
<1>6. [v \in Reviews |-> SlotPhase(v)]'
        = [v \in Reviews |-> IF v \in ended THEN "over" ELSE SlotPhase(v)]
  BY <1>4, <1>5
<1> QED
  BY <1>2, <1>3, <1>4, <1>6 DEF Slot!Finish

\* A guarded write is a write of the holder, after it was started.
LEMMA PersistWrites ==
  ASSUME SlotInv, NEW r \in Runs, PersistFindings(r)
  PROVE  Slot!Write(review[r]) /\ review[r] \in Reviews
<1> DEFINE v == review[r]
<1>1. v \in Reviews /\ current[v] = r /\ state[r] \notin {"UNBORN", "PENDING"}
  BY DEF PersistFindings, AssertCurrentRun, SlotInv, IngestedRan
<1>2. SlotPhase(v) \in {"running", "over"}
  BY <1>1, NullAssumption DEF SlotPhase
<1>3. /\ UNCHANGED <<current, [u \in Reviews |-> SlotPhase(u)],
                     {s \in Runs : state[s] # "UNBORN"}>>
      /\ lastWriter' = [lastWriter EXCEPT ![v] = r]
  BY DEF PersistFindings, SlotPhase
<1> QED
  BY <1>1, <1>2, <1>3 DEF Slot!Write

\* Every step of the tables is a step of the slots, or leaves them alone.
LEMMA StepSlot == SlotInv /\ [Next]_vars => [Slot!Next]_(Slot!vars)
<1> SUFFICES ASSUME SlotInv, [Next]_vars PROVE Slot!Next \/ UNCHANGED Slot!vars
  OBVIOUS
<1>0. Inv
  BY DEF SlotInv
<1>1. ASSUME NEW v \in Reviews, NEW new \in Runs, AllocateRun(v, new) PROVE Slot!Next
  BY <1>0, <1>1, AllocateTakesSlot DEF Slot!Next
<1>2. ASSUME NEW r \in Runs, DispatchRow(r) PROVE Slot!Next
  BY <1>0, <1>2, DispatchBegins DEF Slot!Next
<1>3. ASSUME NEW r \in Runs,
             FinalizeReviewRun(r) \/ RecordRunFailed(r) \/ RecordRunCancelled(r)
      PROVE  Slot!Next
  <2>1. PICK to \in TerminalStates : TransitionRun(r, "RUNNING", to, <<>>)
    BY <1>3 DEF FinalizeReviewRun, RecordRunFailed, RecordRunCancelled, TerminalStates
  <2> QED
    BY <1>0, <2>1, TerminalFinishes DEF Slot!Next
<1>4. ASSUME NEW cutoff \in 1..allocations, ReapStaleRuns(cutoff) PROVE Slot!Next
  <2>1. {v \in Reviews : current[v] \in StaleRuns(cutoff)} \in SUBSET Reviews
    OBVIOUS
  <2> QED
    BY <1>0, <1>4, <2>1, ReapFinishes DEF Slot!Next
<1>5. ASSUME NEW r \in Runs, PersistFindings(r) PROVE Slot!Next
  BY <1>5, PersistWrites DEF Slot!Next
<1>6. ASSUME NEW r \in Runs, RecordReviewLifecycleEvent(r) PROVE UNCHANGED Slot!vars
  BY <1>6 DEF RecordReviewLifecycleEvent, Slot!vars, SlotPhase
<1>7. CASE UNCHANGED vars
  BY <1>7 DEF vars, Slot!vars, SlotPhase
<1> QED
  BY <1>1, <1>2, <1>3, <1>4, <1>5, <1>6, <1>7 DEF Next

\* The lifecycle tables implement one slot per review: nothing that an
\* overtaken run's workflow, retry or outbox row does is visible in it.
THEOREM RunsImplementSlot == Spec => RunsHoldOneSlot
<1>1. Init => SlotInv
  BY InitInv DEF Init, SlotInv, IngestedRan, Logged
<1>2. SlotInv /\ [Next]_vars => SlotInv'
  BY NextInv, IngestedRanStep DEF SlotInv
<1>3. SlotInv /\ [Next]_vars => [Slot!Next]_(Slot!vars)
  BY StepSlot
<1>4. Init => Slot!Init
  BY InitSlot
<1> QED
  BY <1>1, <1>2, <1>3, <1>4, PTL DEF Spec, RunsHoldOneSlot, Slot!Spec
=============================================================================
