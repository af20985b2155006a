-------------------------- MODULE ReviewFlow_proofs --------------------------
(***************************************************************************)
(* The composition implements both of its components, for any number of    *)
(* pull requests, runs, executions and mutexes: every step of ReviewFlow   *)
(* is a step of ReviewRuns or leaves its tables alone, and likewise for    *)
(* PrMutex.  So the theorems of ReviewRuns_proofs and PrMutex_proofs hold  *)
(* of the composed system.  The second part is about what only the         *)
(* composition can say: a newer review is only replaced by an execution    *)
(* whose claim on the mutex was no longer confirmed.                       *)
(***************************************************************************)
EXTENDS ReviewFlow, TLAPS

\* An open execution has been given a run.
OpenHasRun ==
  /\ running \in [Reviews -> Executions \cup {NoExecution}]
  /\ runOf \in [Executions -> Runs \cup {NoRun}]
  /\ \A e \in Executions : Open(e) => runOf[e] \in Runs

LEMMA InitOpenHasRun == Init => OpenHasRun
BY IdsAssumption, PrOfAssumption DEF Init, OpenHasRun, Open

\* Only the start of a workflow and the end of an execution touch the id.
LEMMA OpenHasRunStep == OpenHasRun /\ [Next]_vars => OpenHasRun'
<1> SUFFICES ASSUME OpenHasRun, [Next]_vars PROVE OpenHasRun'
  OBVIOUS
<1> USE IdsAssumption, PrOfAssumption
<1>1. ASSUME NEW r \in Runs, StartWorkflow(r) PROVE OpenHasRun'
  <2>1. CASE UNCHANGED <<running, runOf>>
    BY <2>1 DEF OpenHasRun, Open
  <2>2. CASE ~ UNCHANGED <<running, runOf>>
    <3>1. PICK e \in NextExecution(review[r]) :
            /\ running' = [running EXCEPT ![review[r]] = e]
            /\ runOf' = [runOf EXCEPT ![e] = r]
      BY <1>1, <2>2 DEF StartWorkflow
    <3>2. e \in Executions /\ PrOf[e] = review[r]
      BY DEF NextExecution, Lowest
    <3> QED
      BY <3>1, <3>2 DEF OpenHasRun, Open
  <2> QED
    BY <2>1, <2>2
<1>2. ASSUME NEW e \in Executions, Return(e) \/ Terminate(e) PROVE OpenHasRun'
  BY <1>2 DEF Return, Terminate, OpenHasRun, Open
<1>3. CASE UNCHANGED <<running, runOf>>
  BY <1>3 DEF OpenHasRun, Open
<1>4. \/ UNCHANGED <<running, runOf>>
      \/ \E r \in Runs : StartWorkflow(r)
      \/ \E e \in Executions : Return(e) \/ Terminate(e)
  BY DEF Next, vars, deliveryVars, PersistWebhook, DispatchRow, DispatchRowFails, Gate,
         ClaimCheck, PostClaim, PostReview, FinalizeReviewRun, Cleanup, RecordRunFailed,
         ReapStaleRuns, MutexUpkeep
<1> QED
  BY <1>1, <1>2, <1>3, <1>4

-----------------------------------------------------------------------------
\* A step of the composition is one transaction of the lifecycle, or none.
LEMMA RunsStep == OpenHasRun /\ [Next]_vars => [R!Next]_(R!vars)
<1> SUFFICES ASSUME OpenHasRun, [Next]_vars PROVE R!Next \/ UNCHANGED R!vars
  OBVIOUS
<1>0. UNCHANGED runVars => UNCHANGED R!vars
  BY DEF runVars, R!vars
<1>1. ASSUME NEW v \in Reviews, NEW r \in Runs, PersistWebhook(v, r) PROVE R!Next
  BY <1>1 DEF PersistWebhook, R!Next
<1>2. ASSUME NEW r \in Runs, DispatchRow(r) PROVE R!Next \/ UNCHANGED runVars
  BY <1>2 DEF DispatchRow, R!Next
<1>3. ASSUME NEW e \in Executions, FinalizeReviewRun(e) \/ RecordRunFailed(e) PROVE R!Next
  <2>1. runOf[e] \in Runs
    BY <1>3 DEF FinalizeReviewRun, RecordRunFailed, OpenHasRun
  <2> QED
    BY <1>3, <2>1 DEF FinalizeReviewRun, RecordRunFailed, R!Next
<1>4. ASSUME ReapStaleRuns PROVE R!Next
  BY <1>4 DEF ReapStaleRuns, R!Next
<1>5. \/ UNCHANGED runVars
      \/ \E v \in Reviews, r \in Runs : PersistWebhook(v, r)
      \/ \E r \in Runs : DispatchRow(r)
      \/ \E e \in Executions : FinalizeReviewRun(e) \/ RecordRunFailed(e)
      \/ ReapStaleRuns
  BY DEF Next, vars, runVars, R!vars, StartWorkflow, DispatchRowFails, Gate, ClaimCheck,
         PostClaim, PostReview, Cleanup, Return, Terminate, MutexUpkeep
<1> QED
  BY <1>0, <1>1, <1>2, <1>3, <1>4, <1>5

\* A step of the composition is one step of the mutex and its users, or none.
LEMMA MutexStep == [Next]_vars => [M!Next]_(M!vars)
<1> SUFFICES ASSUME [Next]_vars PROVE M!Next \/ UNCHANGED M!vars
  OBVIOUS
<1>0. UNCHANGED mutexVars => UNCHANGED M!vars
  BY DEF mutexVars, M!vars
<1>1. ASSUME NEW e \in Executions, Gate(e) PROVE M!Next
  <2>1. FreshMutex \subseteq Mutexes
    BY DEF FreshMutex, Lowest
  <2> QED
    BY <1>1, <2>1 DEF Gate, M!Next
<1>2. ASSUME NEW e \in Executions, ClaimCheck(e) \/ Cleanup(e) \/ Terminate(e) PROVE M!Next
  BY <1>2 DEF ClaimCheck, Cleanup, Terminate, M!Next
<1>3. ASSUME MutexUpkeep PROVE M!Next
  BY <1>3 DEF MutexUpkeep, M!Next
<1>4. \/ UNCHANGED mutexVars
      \/ \E e \in Executions : Gate(e) \/ ClaimCheck(e) \/ Cleanup(e) \/ Terminate(e)
      \/ MutexUpkeep
  BY DEF Next, vars, mutexVars, M!vars, PersistWebhook, DispatchRow, StartWorkflow,
         DispatchRowFails, PostClaim, PostReview, FinalizeReviewRun, RecordRunFailed, Return,
         ReapStaleRuns
<1> QED
  BY <1>0, <1>1, <1>2, <1>3, <1>4

-----------------------------------------------------------------------------
\* The webhook, the dispatcher, the executions and the reaper together do to
\* the lifecycle's tables nothing but what ReviewRuns allows.
THEOREM FlowImplementsRuns == Spec => RunsRefinement
<1>1. Init => OpenHasRun
  BY InitOpenHasRun
<1>2. OpenHasRun /\ [Next]_vars => OpenHasRun'
  BY OpenHasRunStep
<1>3. OpenHasRun /\ [Next]_vars => [R!Next]_(R!vars)
  BY RunsStep
<1>4. Init => R!Init
  BY DEF Init
<1> QED
  BY <1>1, <1>2, <1>3, <1>4, PTL DEF Spec, RunsRefinement, R!Spec

\* Opening executions one at a time under a pull request's workflow id, and
\* reusing the id, takes them through nothing but what PrMutex allows.
THEOREM FlowImplementsMutex == Spec => MutexRefinement
<1>1. [Next]_vars => [M!Next]_(M!vars)
  BY MutexStep
<1>2. Init => M!Init
  BY DEF Init
<1> QED
  BY <1>1, <1>2, PTL DEF Spec, MutexRefinement, M!Spec

-----------------------------------------------------------------------------
\* The theorems of the components, of the composed system's tables and mutex.
RP == INSTANCE ReviewRuns_proofs WITH PersistAttempts <- 3, RecordAttempts <- 3
MP == INSTANCE PrMutex_proofs WITH Workflows <- Executions, Prs <- Reviews,
                                   NoPr <- NoReview, Nobody <- NoExecution

\* What the components assume of their constants.
LEMMA ComponentAssumptions ==
  /\ RP!NullAssumption /\ RP!AttemptsAssumption
  /\ MP!PrOfAssumption /\ MP!TTLAssumption /\ MP!NullsAssumption
BY IdsAssumption, PrOfAssumption, NullsAssumption, TTLAssumption
   DEF RP!NullAssumption, RP!AttemptsAssumption, MP!PrOfAssumption, MP!TTLAssumption,
       MP!NullsAssumption

\* The two instances of a component have the same initial states and steps.
LEMMA SameRuns ==
  /\ R!Init <=> RP!Init
  /\ [R!Next]_(R!vars) => [RP!Next]_(RP!vars)
<1>1. R!Init <=> RP!Init
  BY DEF R!Init, RP!Init
<1>2. ASSUME NEW v \in Reviews, NEW r \in Runs PROVE R!AllocateRun(v, r) <=> RP!AllocateRun(v, r)
  BY DEF R!AllocateRun, RP!AllocateRun, R!SupersedeRun, RP!SupersedeRun, R!FlipCurrentRun,
         RP!FlipCurrentRun, R!SupersededRun, RP!SupersededRun, R!ActiveRunsOf, RP!ActiveRunsOf,
         R!ActiveStates, RP!ActiveStates, R!Milestone, RP!Milestone, R!Event, RP!Event
<1>3. ASSUME NEW r \in Runs PROVE /\ R!DispatchRow(r) <=> RP!DispatchRow(r)
                                  /\ R!FinalizeReviewRun(r) <=> RP!FinalizeReviewRun(r)
                                  /\ R!RecordRunFailed(r) <=> RP!RecordRunFailed(r)
                                  /\ R!RecordRunCancelled(r) <=> RP!RecordRunCancelled(r)
  BY DEF R!DispatchRow, RP!DispatchRow, R!FinalizeReviewRun, RP!FinalizeReviewRun,
         R!RecordRunFailed, RP!RecordRunFailed, R!RecordRunCancelled, RP!RecordRunCancelled,
         R!TransitionRun, RP!TransitionRun, R!AssertCurrentRun, RP!AssertCurrentRun,
         R!Emit, RP!Emit, R!Transition, RP!Transition,
         R!Milestone, RP!Milestone, R!Event, RP!Event
<1>4. ASSUME NEW r \in Runs PROVE /\ R!PersistFindings(r) <=> RP!PersistFindings(r)
                                  /\ R!RecordReviewLifecycleEvent(r)
                                       <=> RP!RecordReviewLifecycleEvent(r)
  <2>1. R!Milestone("INGESTED") = RP!Milestone("INGESTED")
    BY DEF R!Milestone, RP!Milestone, R!Event, RP!Event
  <2>2. ASSUME NEW type, NEW n PROVE R!EmitOnce(r, type, n) <=> RP!EmitOnce(r, type, n)
    <3>1. R!Milestone(type) = RP!Milestone(type)
      BY DEF R!Milestone, RP!Milestone, R!Event, RP!Event
    <3>2. ASSUME NEW x PROVE R!Times(r, x) = RP!Times(r, x) /\ (R!Logged(r, x) <=> RP!Logged(r, x))
      BY Zenon DEF R!Times, RP!Times, R!Logged, RP!Logged, R!Cardinality, RP!Cardinality
    <3> QED
      BY <3>1, <3>2 DEF R!EmitOnce, RP!EmitOnce, R!Emit, RP!Emit
  <2> QED
    BY <2>1, <2>2 DEF R!PersistFindings, RP!PersistFindings, R!RecordReviewLifecycleEvent,
       RP!RecordReviewLifecycleEvent, R!Logged, RP!Logged, R!AssertCurrentRun,
       RP!AssertCurrentRun
<1>5. ASSUME NEW c \in 1..allocations PROVE R!ReapStaleRuns(c) <=> RP!ReapStaleRuns(c)
  BY DEF R!ReapStaleRuns, RP!ReapStaleRuns, R!StaleRuns, RP!StaleRuns
<1>6. R!Next <=> RP!Next
  BY <1>2, <1>3, <1>4, <1>5 DEF R!Next, RP!Next
<1> QED
  BY <1>1, <1>6 DEF R!vars, RP!vars

LEMMA SameMutex ==
  /\ M!Init <=> MP!Init
  /\ [M!Next]_(M!vars) => [MP!Next]_(MP!vars)
<1>1. M!Init <=> MP!Init
  BY DEF M!Init, MP!Init
<1>2. ASSUME NEW w \in Executions, NEW m \in Mutexes
      PROVE /\ M!GateAccepted(w, m) <=> MP!GateAccepted(w, m)
            /\ M!GateAckLost(w, m) <=> MP!GateAckLost(w, m)
  BY DEF M!GateAccepted, MP!GateAccepted, M!GateAckLost, MP!GateAckLost, M!ReclaimAndInsert,
         MP!ReclaimAndInsert, M!LiveRows, MP!LiveRows
<1>3. ASSUME NEW w \in Executions PROVE M!GateBusy(w) <=> MP!GateBusy(w)
  BY DEF M!GateBusy, MP!GateBusy, M!LiveRows, MP!LiveRows, M!rows, MP!rows
<1>4. ASSUME NEW w \in Executions
      PROVE /\ M!ClaimConfirmed(w) <=> MP!ClaimConfirmed(w)
            /\ M!ClaimFailsOpen(w) <=> MP!ClaimFailsOpen(w)
            /\ M!ClaimLost(w) <=> MP!ClaimLost(w)
  BY DEF M!ClaimConfirmed, MP!ClaimConfirmed, M!ClaimFailsOpen, MP!ClaimFailsOpen, M!ClaimLost,
         MP!ClaimLost, M!RenewLease, MP!RenewLease, M!rows, MP!rows
<1>5. ASSUME NEW w \in Executions
      PROVE /\ M!StagesEnd(w) <=> MP!StagesEnd(w)
            /\ M!Terminate(w) <=> MP!Terminate(w)
            /\ M!ZombieEnds(w) <=> MP!ZombieEnds(w)
            /\ M!Release(w) <=> MP!Release(w)
  BY DEF M!StagesEnd, MP!StagesEnd, M!Terminate, MP!Terminate, M!ZombieEnds, MP!ZombieEnds,
         M!Release, MP!Release, M!rows, MP!rows
<1>6. M!JanitorSweep <=> MP!JanitorSweep
  BY DEF M!JanitorSweep, MP!JanitorSweep, M!ExpiredRows, MP!ExpiredRows
<1>7. M!Tick <=> MP!Tick
  BY DEF M!Tick, MP!Tick, M!Elapse, MP!Elapse
<1>8. M!Next <=> MP!Next
  BY <1>2, <1>3, <1>4, <1>5, <1>6, <1>7 DEF M!Next, MP!Next
<1> QED
  BY <1>1, <1>8 DEF M!vars, MP!vars

\* What is used of the tables: columns, and that a review points at its youngest run.
LEMMA LifecycleFacts ==
  ASSUME RP!Inv
  PROVE  /\ born \in [Runs -> Nat] /\ review \in [Runs -> Reviews \cup {NoReview}]
         /\ current \in [Reviews -> Runs \cup {NoRun}]
         /\ \A r \in Runs : state[r] = "UNBORN" => review[r] = NoReview
         /\ \A r \in Runs : review[r] \in Reviews => born[r] <= born[current[review[r]]]
BY DEF RP!Inv, RP!TypeOK, RP!BirthOrder, RP!PointerIsYoungest

\* What is used of the mutex: a confirmed claim keeps a valid lease on a live row.
LEMMA MutexFacts ==
  ASSUME MP!Inv
  PROVE  /\ pc \in [Executions -> M!Places] /\ granted \in [Executions -> Int]
         /\ handle \in [Executions -> Mutexes \cup {NoMutex}]
         /\ \A e \in Executions : M!Confirmed(e) =>
              \E m \in M!LiveRows(PrOf[e]) : lease[m] > 0
<1> USE ComponentAssumptions DEF MP!Inv
<1>1. /\ pc \in [Executions -> M!Places] /\ granted \in [Executions -> -1..TTL]
      /\ handle \in [Executions -> Mutexes \cup {NoMutex}] /\ lease \in [Mutexes -> -1..TTL]
  BY DEF MP!TypeOK, MP!Places, M!Places
<1>2. ASSUME NEW e \in Executions, M!Confirmed(e)
      PROVE  \E m \in M!LiveRows(PrOf[e]) : lease[m] > 0
  <2>1. MP!Confirmed(e)
    BY <1>2 DEF M!Confirmed, MP!Confirmed
  <2>2. ~released[handle[e]] /\ granted[e] <= lease[handle[e]]
    BY <2>1 DEF MP!Covered
  <2>3. handle[e] \in Mutexes /\ rowPr[handle[e]] = PrOf[e]
    BY <1>1, <2>1 DEF MP!Handles, MP!Confirmed
  <2>4. lease[handle[e]] > 0
    BY <1>1, <2>1, <2>2, <2>3, TTLAssumption DEF MP!Confirmed
  <2> QED
    BY <2>2, <2>3, <2>4 DEF M!LiveRows
<1> QED
  BY <1>1, <1>2, TTLAssumption

-----------------------------------------------------------------------------
\* The run of an execution and the run whose review is shown belong to the pull
\* request; only an execution that has passed its gate has claimed the posting.
Known ==
  /\ posting \in [Executions -> {"no", "claimed", "returned"}]
  /\ shown \in [Reviews -> Runs \cup {NoRun}]
  /\ \A e \in Executions : runOf[e] = NoRun => pc[e] = "gate" /\ posting[e] = "no"
  /\ \A e \in Executions : runOf[e] # NoRun => review[runOf[e]] = PrOf[e]
  /\ \A v \in Reviews : shown[v] # NoRun => review[shown[v]] = v
  /\ \A e \in Executions :
       posting[e] # "no" => pc[e] \in {"posting", "zombie", "cleanup", "done"}

\* While an execution that has claimed the posting relies on a confirmed claim,
\* the execution of a younger run has not got through the gate, and GitHub shows
\* nothing younger.
ConfirmedIsNewest ==
  \A e \in Executions : M!Confirmed(e) /\ posting[e] # "no" =>
    /\ \A f \in Executions :
         PrOf[f] = PrOf[e] /\ runOf[f] # NoRun /\ born[runOf[e]] < born[runOf[f]] =>
           pc[f] \in {"gate", "skipped", "done"} /\ posting[f] = "no"
    /\ shown[PrOf[e]] # NoRun => born[shown[PrOf[e]]] <= born[runOf[e]]

FlowInv == OpenHasRun /\ RP!Inv /\ MP!Inv /\ Known /\ ConfirmedIsNewest

\* The moves of an execution through the mutex.  Nobody gets past the gate of a
\* pull request on which somebody's claim is confirmed, and after the last claim
\* check a claim is never confirmed again.
LEMMA MutexMoves ==
  ASSUME MP!Inv, [Next]_vars
  PROVE  /\ \A f \in Executions : pc[f] \in {"posting", "zombie", "cleanup", "done"} =>
              pc'[f] \in {"posting", "zombie", "cleanup", "done"}
         /\ \A f, e \in Executions :
              /\ pc[f] \in {"gate", "skipped", "done"}
              /\ PrOf[e] = PrOf[f] /\ M!Confirmed(e)
              => pc'[f] \in {"gate", "skipped", "done"}
         /\ \A e \in Executions :
              pc[e] \notin {"gate", "held"} /\ M!Confirmed(e)' => M!Confirmed(e)
<1> DEFINE Past == {"posting", "zombie", "cleanup", "done"}
           Shut == {"gate", "skipped", "done"}
           Goal == /\ \A f \in Executions : pc[f] \in Past => pc'[f] \in Past
                   /\ \A f, e \in Executions :
                        pc[f] \in Shut /\ PrOf[e] = PrOf[f] /\ M!Confirmed(e) => pc'[f] \in Shut
                   /\ \A e \in Executions :
                        pc[e] \notin {"gate", "held"} /\ M!Confirmed(e)' => M!Confirmed(e)
<1>0. pc \in [Executions -> M!Places] /\ granted \in [Executions -> Int]
  BY MutexFacts
<1>1. ASSUME NEW w \in Executions, NEW m \in Mutexes, M!GateAccepted(w, m) PROVE Goal
  <2>1. \A e \in Executions : PrOf[e] = PrOf[w] => ~M!Confirmed(e)
    <3> SUFFICES ASSUME NEW e \in Executions, PrOf[e] = PrOf[w], M!Confirmed(e) PROVE FALSE
      OBVIOUS
    <3>1. PICK n \in M!LiveRows(PrOf[w]) : lease[n] > 0
      BY MutexFacts
    <3>2. lease[n] <= 0
      BY <1>1, <3>1 DEF M!GateAccepted, M!ReclaimAndInsert
    <3>3. lease[n] \in Int
      BY <3>1 DEF M!LiveRows, MP!Inv, MP!TypeOK
    <3> QED
      BY <3>1, <3>2, <3>3
  <2>2. pc[w] = "gate" /\ pc' = [pc EXCEPT ![w] = "held"] /\ granted' = [granted EXCEPT ![w] = TTL]
    BY <1>1 DEF M!GateAccepted
  <2> QED
    BY <1>0, <2>1, <2>2 DEF M!Confirmed
<1>2. ASSUME NEW w \in Executions, M!GateBusy(w) PROVE Goal
  BY <1>0, <1>2 DEF M!GateBusy, M!Confirmed
<1>3. ASSUME NEW w \in Executions, M!ClaimConfirmed(w) PROVE Goal
  BY <1>0, <1>3 DEF M!ClaimConfirmed, M!Confirmed
<1>4. ASSUME NEW w \in Executions, M!ClaimFailsOpen(w) \/ M!ClaimLost(w) PROVE Goal
  BY <1>0, <1>4 DEF M!ClaimFailsOpen, M!ClaimLost, M!Confirmed
<1>5. ASSUME NEW w \in Executions,
             M!StagesEnd(w) \/ M!Terminate(w) \/ M!ZombieEnds(w) \/ M!Release(w)
      PROVE  Goal
  BY <1>0, <1>5 DEF M!StagesEnd, M!Terminate, M!ZombieEnds, M!Release, M!Confirmed
<1>6. ASSUME M!Tick PROVE Goal
  BY <1>0, <1>6 DEF M!Tick, M!Elapse, M!Confirmed
<1>7. CASE UNCHANGED <<pc, granted>>
  BY <1>7 DEF M!Confirmed
<1>8. M!Next \/ UNCHANGED M!vars
  BY MutexStep
<1> HIDE DEF Goal
<1> QED
  BY <1>1, <1>2, <1>3, <1>4, <1>5, <1>6, <1>7, <1>8
     DEF Goal, M!Next, M!vars, M!GateAckLost, M!JanitorSweep

\* The columns of a run that exists are not rewritten.
LEMMA RunColumnsStay ==
  ASSUME RP!Inv, [Next]_vars, NEW s \in Runs, review[s] \in Reviews
  PROVE  born'[s] = born[s] /\ review'[s] = review[s]
<1>1. ASSUME NEW v \in Reviews, NEW r \in Runs, PersistWebhook(v, r)
      PROVE  born'[s] = born[s] /\ review'[s] = review[s]
  <2>1. state[r] = "UNBORN" /\ born' = [born EXCEPT ![r] = allocations + 1]
        /\ review' = [review EXCEPT ![r] = v]
    BY <1>1 DEF PersistWebhook, R!AllocateRun
  <2>2. s # r
    BY <2>1, LifecycleFacts, NullsAssumption
  <2> QED
    BY <2>1, <2>2, LifecycleFacts
<1>2. CASE UNCHANGED <<born, review>>
  BY <1>2
<1>3. \/ UNCHANGED <<born, review>>
      \/ \E v \in Reviews, r \in Runs : PersistWebhook(v, r)
  BY DEF Next, vars, runVars, DispatchRow, R!DispatchRow, R!TransitionRun, StartWorkflow,
         DispatchRowFails, Gate, ClaimCheck, PostClaim, PostReview, FinalizeReviewRun,
         R!FinalizeReviewRun, Cleanup, RecordRunFailed, R!RecordRunFailed, Return, Terminate,
         ReapStaleRuns, R!ReapStaleRuns, MutexUpkeep
<1> QED
  BY <1>1, <1>2, <1>3

\* An execution moves only while it is open, and then it has a run.
LEMMA OnlyOpenMoves ==
  ASSUME OpenHasRun, Known, MP!Inv, [Next]_vars, NEW e \in Executions, runOf[e] = NoRun
  PROVE  pc'[e] = pc[e]
<1>1. ASSUME NEW f \in Executions, Gate(f) \/ ClaimCheck(f) \/ Cleanup(f) \/ Terminate(f)
      PROVE  f # e /\ \E place : pc' = [pc EXCEPT ![f] = place]
  <2>1. f # e
    BY <1>1, NullsAssumption DEF Gate, ClaimCheck, Cleanup, Terminate, OpenHasRun
  <2>2. pc \in [Executions -> M!Places]
    BY MutexFacts
  <2>3. CASE UNCHANGED pc
    <3>1. pc' = [pc EXCEPT ![f] = pc[f]]
      BY <2>2, <2>3
    <3> QED
      BY <2>1, <3>1
  <2>4. CASE ~ UNCHANGED pc
    BY <1>1, <2>1, <2>4 DEF Gate, M!GateAccepted, M!GateAckLost, M!GateBusy, ClaimCheck,
       M!ClaimConfirmed, M!ClaimFailsOpen, M!ClaimLost, Cleanup, M!StagesEnd, M!Release,
       Terminate, M!Terminate
  <2> QED
    BY <2>3, <2>4
<1>2. \/ UNCHANGED pc
      \/ \E f \in Executions : Gate(f) \/ ClaimCheck(f) \/ Cleanup(f) \/ Terminate(f)
  BY DEF Next, vars, mutexVars, PersistWebhook, DispatchRow, StartWorkflow, DispatchRowFails,
         PostClaim, PostReview, FinalizeReviewRun, RecordRunFailed, Return, ReapStaleRuns,
         MutexUpkeep, M!JanitorSweep, M!Tick
<1>3. pc \in [Executions -> M!Places]
  BY MutexFacts
<1> QED
  BY <1>1, <1>2, <1>3

LEMMA KnownStep ==
  ASSUME OpenHasRun, RP!Inv, MP!Inv, Known, [Next]_vars
  PROVE  Known'
<1> USE NullsAssumption, PrOfAssumption
<1>0. \A s \in Runs : review[s] \in Reviews => review'[s] = review[s]
  BY RunColumnsStay
<1>1. \A e \in Executions : runOf[e] = NoRun => pc'[e] = pc[e]
  BY OnlyOpenMoves
<1>2. \A f \in Executions : pc[f] \in {"posting", "zombie", "cleanup", "done"} =>
        pc'[f] \in {"posting", "zombie", "cleanup", "done"}
  BY MutexMoves
<1>3. ASSUME NEW r \in Runs, StartWorkflow(r) PROVE Known'
  <2>1. UNCHANGED <<review, pc, posting, shown>>
    BY <1>3 DEF StartWorkflow, runVars, mutexVars, postVars
  <2>2. CASE UNCHANGED runOf
    BY <2>1, <2>2 DEF Known
  <2>3. CASE ~ UNCHANGED runOf
    <3>1. PICK e \in NextExecution(review[r]) : runOf' = [runOf EXCEPT ![e] = r]
      BY <1>3, <2>3 DEF StartWorkflow
    <3>2. e \in Executions /\ PrOf[e] = review[r] /\ runOf[e] = NoRun
      BY DEF NextExecution, Lowest
    <3> QED
      BY <2>1, <3>1, <3>2 DEF Known, OpenHasRun
  <2> QED
    BY <2>2, <2>3
<1>4. ASSUME NEW e \in Executions, PostClaim(e) PROVE Known'
  BY <1>4 DEF PostClaim, Known, runVars, mutexVars, deliveryVars
<1>5. ASSUME NEW e \in Executions, PostReview(e) PROVE Known'
  BY <1>5 DEF PostReview, Known, runVars, mutexVars, deliveryVars, OpenHasRun
<1>6. ASSUME UNCHANGED <<runOf, posting, shown>> PROVE Known'
  BY <1>0, <1>1, <1>2, <1>6 DEF Known, OpenHasRun
<1>7. \/ UNCHANGED <<runOf, posting, shown>>
      \/ \E r \in Runs : StartWorkflow(r)
      \/ \E e \in Executions : PostClaim(e) \/ PostReview(e)
  BY DEF Next, vars, deliveryVars, postVars, PersistWebhook, DispatchRow, DispatchRowFails, Gate,
         ClaimCheck, FinalizeReviewRun, Cleanup, RecordRunFailed, Return, Terminate,
         ReapStaleRuns, MutexUpkeep
<1> QED
  BY <1>3, <1>4, <1>5, <1>6, <1>7

\* Steps that neither post nor open an execution: runs keep their birth, and who
\* is held up at the gate stays there.
LEMMA NewestKept ==
  ASSUME FlowInv, [Next]_vars, UNCHANGED <<runOf, posting, shown>>
  PROVE  ConfirmedIsNewest'
<1> SUFFICES ASSUME NEW e \in Executions, M!Confirmed(e)', posting[e] # "no"
             PROVE  /\ \A f \in Executions :
                         PrOf[f] = PrOf[e] /\ runOf[f] # NoRun
                         /\ born'[runOf[e]] < born'[runOf[f]] =>
                           pc'[f] \in {"gate", "skipped", "done"} /\ posting[f] = "no"
                    /\ shown[PrOf[e]] # NoRun => born'[shown[PrOf[e]]] <= born'[runOf[e]]
  BY DEF ConfirmedIsNewest
<1> USE NullsAssumption, PrOfAssumption DEF FlowInv
<1>1. M!Confirmed(e)
  BY MutexMoves DEF Known
<1>2. runOf[e] \in Runs /\ review[runOf[e]] = PrOf[e] /\ PrOf[e] \in Reviews
  BY DEF Known, OpenHasRun
<1>3. born'[runOf[e]] = born[runOf[e]]
  BY <1>2, RunColumnsStay
<1>4. ASSUME NEW f \in Executions, PrOf[f] = PrOf[e], runOf[f] # NoRun,
             born'[runOf[e]] < born'[runOf[f]]
      PROVE  pc'[f] \in {"gate", "skipped", "done"} /\ posting[f] = "no"
  <2>1. runOf[f] \in Runs /\ review[runOf[f]] \in Reviews
    BY <1>4 DEF Known, OpenHasRun
  <2>2. born'[runOf[f]] = born[runOf[f]]
    BY <2>1, RunColumnsStay
  <2>3. pc[f] \in {"gate", "skipped", "done"} /\ posting[f] = "no"
    BY <1>1, <1>3, <1>4, <2>2 DEF ConfirmedIsNewest
  <2> QED
    BY <1>1, <1>4, <2>3, MutexMoves
<1>5. ASSUME shown[PrOf[e]] # NoRun PROVE born'[shown[PrOf[e]]] <= born'[runOf[e]]
  <2>1. shown[PrOf[e]] \in Runs /\ review[shown[PrOf[e]]] \in Reviews
    BY <1>2, <1>5 DEF Known
  <2>2. born'[shown[PrOf[e]]] = born[shown[PrOf[e]]]
    BY <2>1, RunColumnsStay
  <2> QED
    BY <1>1, <1>3, <1>5, <2>2 DEF ConfirmedIsNewest
<1> QED
  BY <1>4, <1>5

\* The posting claim commits with the guard: at that moment the run is the
\* youngest of its pull request.
LEMMA NewestClaimed ==
  ASSUME FlowInv, NEW c \in Executions, PostClaim(c)
  PROVE  ConfirmedIsNewest'
<1> USE NullsAssumption, PrOfAssumption DEF FlowInv
<1>1. /\ UNCHANGED <<born, pc, granted, runOf, shown>>
      /\ posting' = [posting EXCEPT ![c] = "claimed"]
      /\ pc[c] \in {"posting", "zombie"} /\ R!AssertCurrentRun(runOf[c])
  BY DEF PostClaim, runVars, mutexVars, deliveryVars
<1>2. runOf[c] \in Runs /\ review[runOf[c]] = PrOf[c] /\ current[PrOf[c]] = runOf[c]
  BY <1>1 DEF Known, OpenHasRun, R!AssertCurrentRun
<1>3. \A s \in Runs : review[s] = PrOf[c] => born[s] <= born[runOf[c]]
  BY <1>2, LifecycleFacts
<1>4. \A s \in Runs : born[s] \in Nat
  BY LifecycleFacts
<1>5. ASSUME NEW e \in Executions, M!Confirmed(e)', posting'[e] # "no"
      PROVE  /\ \A f \in Executions :
                  PrOf[f] = PrOf[e] /\ runOf[f] # NoRun /\ born[runOf[e]] < born[runOf[f]] =>
                    pc[f] \in {"gate", "skipped", "done"} /\ posting'[f] = "no"
             /\ shown[PrOf[e]] # NoRun => born[shown[PrOf[e]]] <= born[runOf[e]]
  <2>1. M!Confirmed(e)
    BY <1>1, <1>5 DEF M!Confirmed
  <2>2. CASE e = c
    <3>1. \A f \in Executions : PrOf[f] = PrOf[e] /\ runOf[f] # NoRun =>
            runOf[f] \in Runs /\ born[runOf[f]] <= born[runOf[e]]
      BY <1>3, <2>2 DEF Known, OpenHasRun
    <3>2. shown[PrOf[e]] # NoRun =>
            shown[PrOf[e]] \in Runs /\ born[shown[PrOf[e]]] <= born[runOf[e]]
      BY <1>3, <2>2 DEF Known
    <3> QED
      BY <1>2, <1>4, <2>2, <3>1, <3>2
  <2>3. CASE e # c
    <3>1. posting[e] # "no"
      BY <1>1, <1>5, <2>3 DEF Known
    <3> QED
      BY <1>1, <2>1, <3>1 DEF ConfirmedIsNewest, Known
  <2> QED
    BY <2>2, <2>3
<1> QED
  BY <1>1, <1>5 DEF ConfirmedIsNewest

\* Whoever writes to GitHub had claimed, so it is not younger than a confirmed one.
LEMMA NewestShown ==
  ASSUME FlowInv, NEW p \in Executions, PostReview(p)
  PROVE  ConfirmedIsNewest'
<1> USE NullsAssumption, PrOfAssumption DEF FlowInv
<1>1. /\ UNCHANGED <<born, pc, granted, runOf>>
      /\ posting[p] = "claimed"
      /\ \E outcome \in {"no", "returned"} : posting' = [posting EXCEPT ![p] = outcome]
      /\ \/ shown' = shown
         \/ shown' = [shown EXCEPT ![PrOf[p]] = runOf[p]]
  BY DEF PostReview, runVars, mutexVars, deliveryVars, Known
<1>2. \A s \in Runs : born[s] \in Nat
  BY LifecycleFacts
<1>3. \A e \in Executions : posting[e] # "no" => runOf[e] \in Runs
  BY DEF Known, OpenHasRun
<1>4. ASSUME NEW e \in Executions, M!Confirmed(e)', posting'[e] # "no"
      PROVE  /\ \A f \in Executions :
                  PrOf[f] = PrOf[e] /\ runOf[f] # NoRun /\ born[runOf[e]] < born[runOf[f]] =>
                    pc[f] \in {"gate", "skipped", "done"} /\ posting'[f] = "no"
             /\ shown'[PrOf[e]] # NoRun => born[shown'[PrOf[e]]] <= born[runOf[e]]
  <2>1. M!Confirmed(e) /\ posting[e] # "no"
    BY <1>1, <1>4 DEF M!Confirmed, Known
  <2>2. \A f \in Executions :
          PrOf[f] = PrOf[e] /\ runOf[f] # NoRun /\ born[runOf[e]] < born[runOf[f]] =>
            pc[f] \in {"gate", "skipped", "done"} /\ posting[f] = "no"
    BY <2>1 DEF ConfirmedIsNewest
  <2>3. \A f \in Executions : posting[f] = "no" => posting'[f] = "no"
    BY <1>1 DEF Known
  <2>4. shown[PrOf[e]] # NoRun => born[shown[PrOf[e]]] <= born[runOf[e]]
    BY <2>1 DEF ConfirmedIsNewest
  <2>5. ASSUME PrOf[p] = PrOf[e] PROVE born[runOf[p]] <= born[runOf[e]]
    BY <1>1, <1>2, <1>3, <2>1, <2>2, <2>5
  <2> QED
    BY <1>1, <2>2, <2>3, <2>4, <2>5 DEF Known
<1> QED
  BY <1>1, <1>4 DEF ConfirmedIsNewest

\* The execution that opens has still to pass the gate.
LEMMA NewestOpened ==
  ASSUME FlowInv, NEW r \in Runs, StartWorkflow(r)
  PROVE  ConfirmedIsNewest'
<1> USE NullsAssumption, PrOfAssumption DEF FlowInv
<1>1. UNCHANGED <<born, pc, granted, posting, shown>>
  BY DEF StartWorkflow, runVars, mutexVars, postVars
<1>2. CASE UNCHANGED runOf
  BY <1>1, <1>2 DEF ConfirmedIsNewest, M!Confirmed
<1>3. CASE ~ UNCHANGED runOf
  <2>1. PICK x \in NextExecution(review[r]) : runOf' = [runOf EXCEPT ![x] = r]
    BY <1>3 DEF StartWorkflow
  <2>2. x \in Executions /\ runOf[x] = NoRun
    BY DEF NextExecution, Lowest
  <2>3. pc[x] = "gate" /\ posting[x] = "no"
    BY <2>2 DEF Known
  <2>4. \A f \in Executions : f # x => runOf'[f] = runOf[f]
    BY <2>1 DEF OpenHasRun
  <2> QED
    BY <1>1, <2>2, <2>3, <2>4 DEF ConfirmedIsNewest, M!Confirmed
<1> QED
  BY <1>2, <1>3

LEMMA FlowInvStep == FlowInv /\ [Next]_vars => FlowInv'
<1> SUFFICES ASSUME FlowInv, [Next]_vars PROVE FlowInv'
  OBVIOUS
<1>1. OpenHasRun'
  BY OpenHasRunStep DEF FlowInv
<1>2. RP!Inv'
  <2>1. [RP!Next]_(RP!vars)
    BY RunsStep, SameRuns DEF FlowInv
  <2> QED
    BY <2>1, RP!NextInv, ComponentAssumptions DEF FlowInv
<1>3. MP!Inv'
  <2>1. [MP!Next]_(MP!vars)
    BY MutexStep, SameMutex
  <2> QED
    BY <2>1, MP!NextInv, ComponentAssumptions DEF FlowInv
<1>4. Known'
  BY KnownStep DEF FlowInv
<1>5. ConfirmedIsNewest'
  <2>1. \/ UNCHANGED <<runOf, posting, shown>>
        \/ \E r \in Runs : StartWorkflow(r)
        \/ \E e \in Executions : PostClaim(e) \/ PostReview(e)
    BY DEF Next, vars, deliveryVars, postVars, PersistWebhook, DispatchRow, DispatchRowFails,
           Gate, ClaimCheck, FinalizeReviewRun, Cleanup, RecordRunFailed, Return, Terminate,
           ReapStaleRuns, MutexUpkeep
  <2> QED
    BY <2>1, NewestKept, NewestClaimed, NewestShown, NewestOpened
<1> QED
  BY <1>1, <1>2, <1>3, <1>4, <1>5 DEF FlowInv

LEMMA InitFlowInv == Init => FlowInv
<1> SUFFICES ASSUME Init PROVE FlowInv
  OBVIOUS
<1>1. OpenHasRun
  BY InitOpenHasRun
<1>2. RP!Inv
  BY RP!InitInv, SameRuns, ComponentAssumptions DEF Init
<1>3. MP!Inv
  BY MP!InitInv, SameMutex, ComponentAssumptions DEF Init
<1>4. Known /\ ConfirmedIsNewest
  BY NullsAssumption DEF Init, Known, ConfirmedIsNewest, M!Init
<1> QED
  BY <1>1, <1>2, <1>3, <1>4 DEF FlowInv

\* A review is replaced by an older one only by an execution whose claim on the
\* pull request was no longer confirmed: the guard that commits with the posting
\* claim and the lease together cover the call to GitHub that comes after both.
THEOREM OvertakenPublishHolds == Spec => OvertakenPublishOutlivedItsLease
<1>1. ASSUME FlowInv, [Next]_vars
      PROVE  [\A e \in Executions :
                LET v == PrOf[e] IN
                (/\ posting[e] = "claimed" /\ posting'[e] = "returned"
                 /\ shown[v] # NoRun /\ shown'[v] = runOf[e]
                 /\ born[shown'[v]] < born[shown[v]])
                  => ~M!Confirmed(e)]_vars
  <2> SUFFICES ASSUME NEW e \in Executions, posting[e] = "claimed", M!Confirmed(e),
                      shown[PrOf[e]] # NoRun, shown'[PrOf[e]] = runOf[e],
                      born[shown'[PrOf[e]]] < born[shown[PrOf[e]]]
               PROVE  FALSE
    OBVIOUS
  <2>1. born[shown[PrOf[e]]] <= born[runOf[e]]
    BY <1>1 DEF FlowInv, ConfirmedIsNewest
  <2>2. runOf[e] \in Runs /\ shown[PrOf[e]] \in Runs
    BY <1>1, PrOfAssumption DEF FlowInv, Known, OpenHasRun
  <2>3. born[runOf[e]] \in Nat /\ born[shown[PrOf[e]]] \in Nat
    BY <1>1, <2>2, LifecycleFacts DEF FlowInv
  <2> QED
    BY <2>1, <2>3
<1> QED
  BY <1>1, InitFlowInv, FlowInvStep, PTL DEF Spec, OvertakenPublishOutlivedItsLease

-----------------------------------------------------------------------------
\* The outbox row is in one of its states, and a workflow id resolves to an
\* execution of its own pull request.
Placed ==
  /\ outbox \in [Runs -> {"none", "pending", "guarded", "dispatched"}]
  /\ \A v \in Reviews : running[v] \in Executions => PrOf[running[v]] = v

LEMMA PlacedStep ==
  ASSUME OpenHasRun, Placed, [Next]_vars
  PROVE  Placed'
<1> USE IdsAssumption, PrOfAssumption
<1>1. outbox' \in [Runs -> {"none", "pending", "guarded", "dispatched"}]
  <2>1. ASSUME NEW v \in Reviews, NEW r \in Runs, PersistWebhook(v, r)
        PROVE  outbox' = [outbox EXCEPT ![r] = "pending"]
    BY <2>1 DEF PersistWebhook
  <2>2. ASSUME NEW r \in Runs, DispatchRow(r)
        PROVE  outbox' = [outbox EXCEPT ![r] = "guarded"]
    BY <2>2 DEF DispatchRow
  <2>3. ASSUME NEW r \in Runs, StartWorkflow(r) \/ DispatchRowFails(r)
        PROVE  \E answer \in {"dispatched", "pending"} : outbox' = [outbox EXCEPT ![r] = answer]
    BY <2>3 DEF StartWorkflow, DispatchRowFails
  <2>4. \/ UNCHANGED outbox
        \/ \E v \in Reviews, r \in Runs : PersistWebhook(v, r)
        \/ \E r \in Runs : DispatchRow(r) \/ StartWorkflow(r) \/ DispatchRowFails(r)
    BY DEF Next, vars, deliveryVars, Gate, ClaimCheck, PostClaim, PostReview, FinalizeReviewRun,
           Cleanup, RecordRunFailed, Return, Terminate, ReapStaleRuns, MutexUpkeep
  <2> QED
    BY <2>1, <2>2, <2>3, <2>4 DEF Placed
<1>2. ASSUME NEW v \in Reviews, running'[v] \in Executions PROVE PrOf[running'[v]] = v
  <2>1. ASSUME NEW r \in Runs, StartWorkflow(r), ~ UNCHANGED running
        PROVE  PrOf[running'[v]] = v
    <3>1. PICK e \in NextExecution(review[r]) : running' = [running EXCEPT ![review[r]] = e]
      BY <2>1 DEF StartWorkflow
    <3>2. e \in Executions /\ PrOf[e] = review[r]
      BY DEF NextExecution, Lowest
    <3> QED
      BY <1>2, <3>1, <3>2 DEF Placed, OpenHasRun
  <2>2. ASSUME NEW e \in Executions, Return(e) \/ Terminate(e)
        PROVE  PrOf[running'[v]] = v
    BY <1>2, <2>2 DEF Return, Terminate, Placed, OpenHasRun
  <2>3. CASE UNCHANGED running
    BY <1>2, <2>3 DEF Placed
  <2>4. \/ UNCHANGED running
        \/ \E r \in Runs : StartWorkflow(r)
        \/ \E e \in Executions : Return(e) \/ Terminate(e)
    BY DEF Next, vars, deliveryVars, PersistWebhook, DispatchRow, DispatchRowFails, Gate,
           ClaimCheck, PostClaim, PostReview, FinalizeReviewRun, Cleanup, RecordRunFailed,
           ReapStaleRuns, MutexUpkeep
  <2> QED
    BY <2>1, <2>2, <2>3, <2>4
<1> QED
  BY <1>1, <1>2 DEF Placed

\* The delivery's and the posting's variables keep their types, and the open
\* execution of a pull request works on a run of that pull request, although a
\* start is attached to whichever execution is open.
THEOREM FlowTypeCorrect == Spec => []TypeOK
<1>1. Init => FlowInv /\ Placed
  BY InitFlowInv, IdsAssumption DEF Init, Placed
<1>2. FlowInv /\ Placed /\ [Next]_vars => FlowInv' /\ Placed'
  BY FlowInvStep, PlacedStep DEF FlowInv
<1>3. FlowInv /\ Placed => TypeOK
  <2> SUFFICES ASSUME FlowInv, Placed PROVE TypeOK
    OBVIOUS
  <2>1. ASSUME NEW v \in Reviews, running[v] \in Executions
        PROVE  PrOf[running[v]] = v /\ review[runOf[running[v]]] = v
    <3>1. PrOf[running[v]] = v
      BY <2>1 DEF Placed
    <3>2. runOf[running[v]] \in Runs
      BY <2>1, <3>1 DEF FlowInv, OpenHasRun, Open
    <3> QED
      BY <2>1, <3>1, <3>2, NullsAssumption DEF FlowInv, Known
  <2> QED
    BY <2>1 DEF TypeOK, FlowInv, OpenHasRun, Known, Placed
<1> QED
  BY <1>1, <1>2, <1>3, PTL DEF Spec
=============================================================================
