---------------------------- MODULE Outbox_proofs ----------------------------
(***************************************************************************)
(* The safety of the outbox for any number of rows, batch size, attempt    *)
(* cap, retries and abandoned attempts.  The inductive invariant says what *)
(* the dispatcher, and every attempt it has left behind, knows about the   *)
(* row it is about to write: that its sink was reached, or that a failure  *)
(* was seen which the row may not have counted yet.                        *)
(***************************************************************************)
EXTENDS Outbox, TLAPS

\* What an attempt that the dispatcher has left behind knows about its row: that
\* the sink was reached, or that a failure was seen which is not counted twice.
Earned(call) ==
  /\ call.op = "markDispatched" => delivered[call.row]
  /\ call.op = "markAttemptFailed" =>
       call.expected < MaxAttempts /\ call.expected < failures[call.row]

CallsAreEarned == \A call \in inFlight : Earned(call)

\* The same of the dispatcher's loop, whose snapshots were taken of rows that
\* were not dead, and are never ahead of the row.
LoopIsEarned ==
  /\ pc = "mark" => \A r \in Rows : Current(r) => delivered[r]
  /\ pc = "fail" => \A r \in Rows : Current(r) => expected[r] < failures[r]
  /\ \A r \in batch : expected[r] < MaxAttempts /\ expected[r] <= attempts[r]

Inv ==
  /\ TypeOK
  /\ DispatchedWasDelivered
  /\ DeadIffExhausted
  /\ AttemptsCountFailures
  /\ SignalAtMostOnce
  /\ CallsAreEarned
  /\ LoopIsEarned

\* What a step does to the row: the parts of the invariant about rows only.
RowInv == DispatchedWasDelivered /\ DeadIffExhausted /\ AttemptsCountFailures /\ SignalAtMostOnce

-----------------------------------------------------------------------------
\* The empty outbox and a fresh dispatcher satisfy the invariant.
LEMMA InitInv == Init => Inv
<1> SUFFICES ASSUME Init PROVE Inv
  OBVIOUS
<1> USE BoundsAssumption DEF Init
<1>1. TypeOK
  BY DEF TypeOK, Places
<1>2. RowInv
  BY DEF RowInv, DispatchedWasDelivered, DeadIffExhausted, AttemptsCountFailures,
         SignalAtMostOnce
<1>3. CallsAreEarned /\ LoopIsEarned
  BY DEF CallsAreEarned, LoopIsEarned
<1> QED
  BY <1>1, <1>2, <1>3 DEF Inv, RowInv

\* markDispatched's UPDATE on a delivered row, whenever it comes.
LEMMA SetDispatchedRow ==
  ASSUME Inv, NEW r \in Rows, delivered[r], SetDispatched(r),
         UNCHANGED <<attempts, delivered, signals>>,
         \A s \in Rows : failures[s] <= failures'[s]
  PROVE  /\ state' \in [Rows -> {"absent", "pending", "dispatched", "dead"}]
         /\ leased' \in [Rows -> BOOLEAN]
         /\ DispatchedWasDelivered' /\ DeadIffExhausted' /\ SignalAtMostOnce'
<1> USE DEF SetDispatched, Inv, TypeOK
<1>1. /\ state' \in [Rows -> {"absent", "pending", "dispatched", "dead"}]
      /\ leased' \in [Rows -> BOOLEAN]
  OBVIOUS
<1>2. DispatchedWasDelivered'
  BY DEF DispatchedWasDelivered
<1>3. DeadIffExhausted' /\ SignalAtMostOnce'
  BY DEF DeadIffExhausted, SignalAtMostOnce
<1> QED
  BY <1>1, <1>2, <1>3

\* markAttemptFailed's UPDATE and signal with a snapshot of a row that was not
\* dead and whose failure has been seen, whenever they come.
LEMMA CountAttemptRow ==
  ASSUME Inv, NEW r \in Rows, NEW e \in 0..MaxAttempts, e < MaxAttempts, e < failures[r],
         CountAttempt(r, e), Signal(r, e) \/ UNCHANGED signals,
         UNCHANGED <<delivered, failures>>
  PROVE  /\ state' \in [Rows -> {"absent", "pending", "dispatched", "dead"}]
         /\ leased' \in [Rows -> BOOLEAN]
         /\ attempts' \in [Rows -> 0..MaxAttempts]
         /\ signals' \in [Rows -> 0..2]
         /\ RowInv'
         /\ \A s \in Rows : attempts[s] <= attempts'[s]
<1> USE BoundsAssumption DEF Inv, TypeOK
<1>1. CASE attempts[r] # e
  <2>1. UNCHANGED <<state, attempts, leased, signals>>
    BY <1>1 DEF CountAttempt, Signal
  <2> QED
    BY <2>1 DEF RowInv, DispatchedWasDelivered, DeadIffExhausted, AttemptsCountFailures,
                SignalAtMostOnce
<1>2. CASE attempts[r] = e
  <2>1. /\ attempts' = [attempts EXCEPT ![r] = e + 1]
        /\ leased' = [leased EXCEPT ![r] = FALSE]
        /\ state' = [state EXCEPT ![r] = IF e + 1 >= MaxAttempts THEN "dead" ELSE @]
    BY <1>2 DEF CountAttempt
  <2>2. state[r] # "dead" /\ signals[r] = 0
    BY <1>2 DEF DeadIffExhausted, SignalAtMostOnce
  <2>3. /\ state' \in [Rows -> {"absent", "pending", "dispatched", "dead"}]
        /\ leased' \in [Rows -> BOOLEAN]
        /\ attempts' \in [Rows -> 0..MaxAttempts]
    BY <2>1
  <2>4. \/ UNCHANGED signals
        \/ e + 1 >= MaxAttempts /\ signals' = [signals EXCEPT ![r] = 1]
    BY <2>2 DEF Signal
  <2>5. signals' \in [Rows -> 0..2]
    BY <2>4
  <2>6. DispatchedWasDelivered'
    BY <2>1 DEF DispatchedWasDelivered
  <2>7. DeadIffExhausted'
    BY <2>1, <2>2 DEF DeadIffExhausted
  <2>8. AttemptsCountFailures'
    BY <2>1 DEF AttemptsCountFailures
  <2>9. SignalAtMostOnce'
    BY <2>1, <2>2, <2>4 DEF SignalAtMostOnce
  <2>10. \A s \in Rows : attempts[s] <= attempts'[s]
    BY <1>2, <2>1
  <2>11. RowInv'
    BY <2>6, <2>7, <2>8, <2>9 DEF RowInv
  <2> QED
    BY <2>3, <2>5, <2>10, <2>11
<1> QED
  BY <1>1, <1>2

\* Histories and counters only grow.
Grows ==
  \A r \in Rows : /\ delivered[r] => delivered'[r]
                  /\ failures[r] <= failures'[r]
                  /\ attempts[r] <= attempts'[r]

\* What an abandoned attempt knows stays true.
LEMMA CallsKept ==
  ASSUME Inv, TypeOK', Grows, \A call \in inFlight' : call \in inFlight \/ Earned(call)'
  PROVE  CallsAreEarned'
<1> SUFFICES ASSUME NEW call \in inFlight', call \in inFlight PROVE Earned(call)'
  BY DEF CallsAreEarned
<1>1. Earned(call)
  BY DEF Inv, CallsAreEarned
<1>2. call.row \in Rows /\ call.expected \in 0..MaxAttempts
  BY DEF Inv, TypeOK, Calls
<1>3. failures[call.row] \in 0..MaxAttempts /\ failures'[call.row] \in 0..MaxAttempts
  BY <1>2 DEF Inv, TypeOK
<1> QED
  BY <1>1, <1>2, <1>3, BoundsAssumption DEF Earned, Grows

\* So does what the loop knows, while it stays where it is or goes to a place
\* where it has nothing to know.
LEMMA LoopKept ==
  ASSUME Inv, TypeOK', Grows, batch' \subseteq batch, UNCHANGED expected,
         pc' \in {"mark", "fail"} => UNCHANGED <<pc, batch>>
  PROVE  LoopIsEarned'
<1> USE BoundsAssumption DEF Inv, LoopIsEarned, Grows
<1>0. \A r \in Rows : /\ expected[r] \in 0..MaxAttempts /\ expected'[r] = expected[r]
                      /\ failures[r] \in 0..MaxAttempts /\ failures'[r] \in 0..MaxAttempts
                      /\ attempts[r] \in 0..MaxAttempts /\ attempts'[r] \in 0..MaxAttempts
  BY DEF TypeOK
<1>1. ASSUME pc' = "mark", NEW r \in Rows, Current(r)' PROVE delivered'[r]
  BY <1>1 DEF Current
<1>2. ASSUME pc' = "fail", NEW r \in Rows, Current(r)' PROVE expected'[r] < failures'[r]
  <2>1. expected[r] < failures[r]
    BY <1>2 DEF Current
  <2> QED
    BY <1>0, <2>1
<1>3. ASSUME NEW r \in batch'
      PROVE  expected'[r] < MaxAttempts /\ expected'[r] <= attempts'[r]
  <2>1. r \in Rows /\ expected[r] < MaxAttempts /\ expected[r] <= attempts[r]
    BY DEF TypeOK
  <2> QED
    BY <1>0, <2>1
<1> QED
  BY <1>1, <1>2, <1>3

\* The row at which the loop is, is one row.
LEMMA CurrentIsOne ==
  ASSUME Inv, NEW r \in Rows, NEW s \in Rows, Current(r), Current(s)
  PROVE  r = s
BY BoundsAssumption DEF Current, Inv, TypeOK, Rows

\* A failure that reaches the catch is one more than the row has counted.
LEMMA FailureSeenLoop ==
  ASSUME Inv, NEW r \in Rows, Current(r), FailureSeen(r), UNCHANGED attempts
  PROVE  /\ failures' \in [Rows -> 0..MaxAttempts]
         /\ \A s \in Rows : failures[s] <= failures'[s]
         /\ LoopIsEarned'
<1> USE BoundsAssumption DEF FailureSeen, Goto, Inv, TypeOK
<1>1. /\ failures' \in [Rows -> 0..MaxAttempts]
      /\ \A s \in Rows : failures[s] <= failures'[s]
  OBVIOUS
<1>2. expected[r] < MaxAttempts /\ expected[r] <= attempts[r] /\ attempts[r] <= failures[r]
  BY DEF Current, LoopIsEarned, AttemptsCountFailures
<1>3. expected'[r] < failures'[r]
  BY <1>2
<1>4. \A s \in Rows : Current(s)' => s = r
  BY CurrentIsOne DEF Current
<1>5. pc' = "fail" /\ UNCHANGED <<batch, expected, attempts>>
  OBVIOUS
<1> QED
  BY <1>1, <1>3, <1>4, <1>5 DEF LoopIsEarned

-----------------------------------------------------------------------------
\* A producer's INSERT, a heartbeat, an expiry, a boot, a cancellation and a
\* claim whose answer is lost write no more than the lease and the place.
LEMMA QuietInv ==
  ASSUME Inv,
         \/ \E r \in Rows : Append(r) \/ ExtendLease(r) \/ LeaseExpires(r)
         \/ Cancel \/ Boot \/ ClaimAttemptFails
  PROVE  Inv'
<1> USE BoundsAssumption
<1>0. UNCHANGED <<attempts, expected, inFlight, delivered, failures, signals>>
  BY DEF Append, ExtendLease, LeaseExpires, Cancel, Boot, ClaimAttemptFails, Goto, loop
<1>1. TypeOK'
  <2>1. CASE \E r \in Rows : Append(r)
    BY <2>1 DEF Append, loop, Inv, TypeOK
  <2>2. CASE \E r \in Rows : ExtendLease(r) \/ LeaseExpires(r)
    BY <2>2 DEF ExtendLease, LeaseExpires, loop, Inv, TypeOK
  <2>3. CASE Cancel \/ Boot
    BY <2>3 DEF Cancel, Boot, Goto, Inv, TypeOK, Places
  <2>4. CASE ClaimAttemptFails
    BY <2>4 DEF ClaimAttemptFails, LeaseRows, Inv, TypeOK, Places
  <2> QED
    BY <2>1, <2>2, <2>3, <2>4
<1>2. RowInv'
  <2>1. CASE \E r \in Rows : Append(r)
    BY <2>1, <1>0 DEF Append, RowInv, Inv, TypeOK, DispatchedWasDelivered, DeadIffExhausted,
                      AttemptsCountFailures, SignalAtMostOnce
  <2>2. CASE UNCHANGED state
    BY <2>2, <1>0 DEF RowInv, Inv, DispatchedWasDelivered, DeadIffExhausted,
                      AttemptsCountFailures, SignalAtMostOnce
  <2>3. (\E r \in Rows : Append(r)) \/ UNCHANGED state
    BY DEF ExtendLease, LeaseExpires, Cancel, Boot, ClaimAttemptFails
  <2> QED
    BY <2>1, <2>2, <2>3
<1>3. Grows
  BY <1>0 DEF Grows, Inv, TypeOK
<1>4. CallsAreEarned'
  BY <1>0, <1>1, <1>3, CallsKept
<1>5. batch' \subseteq batch /\ (pc' \in {"mark", "fail"} => UNCHANGED <<pc, batch>>)
  BY DEF Append, ExtendLease, LeaseExpires, Cancel, Boot, ClaimAttemptFails, Goto, loop
<1>6. LoopIsEarned'
  BY <1>0, <1>1, <1>3, <1>5, LoopKept
<1> QED
  BY <1>1, <1>2, <1>4, <1>6 DEF Inv, RowInv

-----------------------------------------------------------------------------
\* A claim that answers takes rows that are pending, hence not dead, and its
\* snapshot is exact.
LEMMA ClaimInv == ASSUME Inv, ClaimPendingRows PROVE Inv'
<1> USE BoundsAssumption DEF ClaimPendingRows
<1>0. /\ OldestEligible \subseteq Rows
      /\ \A r \in OldestEligible : state[r] = "pending"
  BY DEF OldestEligible, Eligible
<1>1. TypeOK'
  <2>1. leased' \in [Rows -> BOOLEAN] /\ batch' \in SUBSET Rows
    BY <1>0 DEF LeaseRows, Inv, TypeOK
  <2>2. expected' \in [Rows -> 0..MaxAttempts] /\ pc' \in Places /\ tries' \in 0..(MaxTries - 1)
    BY DEF Inv, TypeOK, Places
  <2> QED
    BY <2>1, <2>2 DEF Inv, TypeOK
<1>2. RowInv'
  BY DEF RowInv, Inv, DispatchedWasDelivered, DeadIffExhausted, AttemptsCountFailures,
         SignalAtMostOnce
<1>3. CallsAreEarned'
  BY DEF CallsAreEarned, Earned, Inv
<1>4. LoopIsEarned'
  <2>1. pc' \notin {"mark", "fail"}
    OBVIOUS
  <2>2. ASSUME NEW r \in batch'
        PROVE  expected'[r] < MaxAttempts /\ expected'[r] <= attempts'[r]
    <3>1. r \in Rows /\ state[r] = "pending" /\ expected'[r] = attempts[r] /\ attempts'[r] = attempts[r]
      BY <1>0
    <3>2. attempts[r] \in 0..MaxAttempts /\ attempts[r] # MaxAttempts
      BY <3>1 DEF Inv, TypeOK, DeadIffExhausted
    <3> QED
      BY <3>1, <3>2
  <2> QED
    BY <2>1, <2>2 DEF LoopIsEarned
<1> QED
  BY <1>1, <1>2, <1>3, <1>4 DEF Inv, RowInv

\* dispatchRow answers: the row it goes on to mark has reached its sink.
LEMMA DispatchInv ==
  ASSUME Inv, NEW r \in Rows, DispatchRow(r)
  PROVE  Inv'
<1> USE BoundsAssumption DEF DispatchRow, Goto
<1>1. TypeOK'
  BY DEF Inv, TypeOK, Places
<1>2. RowInv'
  BY DEF RowInv, Inv, TypeOK, DispatchedWasDelivered, DeadIffExhausted,
         AttemptsCountFailures, SignalAtMostOnce
<1>3. Grows
  BY DEF Grows, Inv, TypeOK
<1>4. CallsAreEarned'
  BY <1>1, <1>3, CallsKept
<1>5. LoopIsEarned'
  <2>1. \A s \in Rows : Current(s)' => s = r
    BY CurrentIsOne DEF Current
  <2>2. delivered'[r]
    BY DEF Inv, TypeOK
  <2> QED
    BY <2>1, <2>2 DEF LoopIsEarned, Inv
<1> QED
  BY <1>1, <1>2, <1>4, <1>5 DEF Inv, RowInv

\* dispatchRow throws.
LEMMA DispatchFailsInv ==
  ASSUME Inv, NEW r \in Rows, DispatchRowFails(r)
  PROVE  Inv'
<1> USE BoundsAssumption DEF DispatchRowFails
<1>1. /\ failures' \in [Rows -> 0..MaxAttempts]
      /\ \A s \in Rows : failures[s] <= failures'[s]
      /\ LoopIsEarned'
  BY FailureSeenLoop
<1>2. \A call \in inFlight' : call \in inFlight \/ call = Call("dispatchRow", r, 0)
  BY DEF Abandon
<1>3. Call("dispatchRow", r, 0) \in Calls
  BY DEF Call, Calls
<1>4. TypeOK'
  <2>1. delivered' \in [Rows -> BOOLEAN] /\ inFlight' \in SUBSET Calls
    BY <1>2, <1>3 DEF Inv, TypeOK
  <2>2. pc' \in Places /\ UNCHANGED <<batch, expected, tries>>
    BY DEF FailureSeen, Goto, Places
  <2> QED
    BY <1>1, <2>1, <2>2 DEF Inv, TypeOK
<1>5. \A s \in Rows : delivered[s] => delivered'[s]
  BY DEF Inv, TypeOK
<1>6. RowInv'
  <2>1. DispatchedWasDelivered' /\ DeadIffExhausted' /\ SignalAtMostOnce'
    BY <1>5 DEF Inv, DispatchedWasDelivered, DeadIffExhausted, SignalAtMostOnce
  <2>2. AttemptsCountFailures'
    BY <1>1 DEF Inv, TypeOK, AttemptsCountFailures
  <2> QED
    BY <2>1, <2>2 DEF RowInv
<1>7. Grows
  BY <1>1, <1>5 DEF Grows, Inv, TypeOK
<1>8. CallsAreEarned'
  BY <1>2, <1>4, <1>7, CallsKept DEF Earned, Call
<1> QED
  BY <1>1, <1>4, <1>6, <1>8 DEF Inv, RowInv

\* markDispatched answers.
LEMMA MarkInv ==
  ASSUME Inv, NEW r \in Rows, MarkDispatched(r)
  PROVE  Inv'
<1> USE BoundsAssumption DEF MarkDispatched
<1>1. delivered[r]
  BY DEF Inv, LoopIsEarned
<1>2. \A s \in Rows : failures[s] <= failures'[s]
  BY DEF Inv, TypeOK
<1>3. /\ state' \in [Rows -> {"absent", "pending", "dispatched", "dead"}]
      /\ leased' \in [Rows -> BOOLEAN]
      /\ DispatchedWasDelivered' /\ DeadIffExhausted' /\ SignalAtMostOnce'
  BY <1>1, <1>2, SetDispatchedRow
<1>4. /\ batch' \subseteq batch /\ pc' \in {"claim", "dispatch"}
      /\ UNCHANGED <<expected, tries>>
  BY DEF NextRow
<1>5. TypeOK'
  BY <1>3, <1>4 DEF Inv, TypeOK, Places
<1>6. AttemptsCountFailures'
  BY DEF Inv, AttemptsCountFailures
<1>7. Grows
  BY <1>2 DEF Grows, Inv, TypeOK
<1>8. CallsAreEarned' /\ LoopIsEarned'
  BY <1>4, <1>5, <1>7, CallsKept, LoopKept
<1> QED
  BY <1>3, <1>5, <1>6, <1>8 DEF Inv

\* markDispatched fails for the workflow, with or without its UPDATE.
LEMMA MarkFailsInv ==
  ASSUME Inv, NEW r \in Rows, MarkDispatchedFails(r)
  PROVE  Inv'
<1> USE BoundsAssumption DEF MarkDispatchedFails
<1>1. /\ failures' \in [Rows -> 0..MaxAttempts]
      /\ \A s \in Rows : failures[s] <= failures'[s]
      /\ LoopIsEarned'
  BY FailureSeenLoop
<1>2. delivered[r]
  BY DEF Inv, LoopIsEarned
<1>3. /\ state' \in [Rows -> {"absent", "pending", "dispatched", "dead"}]
      /\ leased' \in [Rows -> BOOLEAN]
      /\ DispatchedWasDelivered' /\ DeadIffExhausted' /\ SignalAtMostOnce'
  <2>1. CASE SetDispatched(r)
    BY <1>1, <1>2, <2>1, SetDispatchedRow
  <2>2. CASE UNCHANGED <<state, leased>>
    BY <2>2 DEF Inv, TypeOK, DispatchedWasDelivered, DeadIffExhausted, SignalAtMostOnce
  <2> QED
    BY <2>1, <2>2
<1>4. \A call \in inFlight' : call \in inFlight \/ call = Call("markDispatched", r, 0)
  BY DEF Abandon
<1>5. Call("markDispatched", r, 0) \in Calls
  BY DEF Call, Calls
<1>6. TypeOK'
  <2>1. inFlight' \in SUBSET Calls
    BY <1>4, <1>5 DEF Inv, TypeOK
  <2>2. pc' \in Places /\ UNCHANGED <<batch, expected, tries>>
    BY DEF FailureSeen, Goto, Places
  <2> QED
    BY <1>1, <1>3, <2>1, <2>2 DEF Inv, TypeOK
<1>7. AttemptsCountFailures'
  BY <1>1 DEF Inv, TypeOK, AttemptsCountFailures
<1>8. Grows
  BY <1>1 DEF Grows, Inv, TypeOK
<1>9. CallsAreEarned'
  <2>1. Earned(Call("markDispatched", r, 0))'
    BY <1>2 DEF Earned, Call
  <2> QED
    BY <1>4, <1>6, <1>8, <2>1, CallsKept
<1> QED
  BY <1>1, <1>3, <1>6, <1>7, <1>9 DEF Inv

\* What the catch is about to count was seen, of a row that was not dead.
LEMMA CatchIsEarned ==
  ASSUME Inv, NEW r \in Rows, pc = "fail", Current(r)
  PROVE  /\ expected[r] \in 0..MaxAttempts
         /\ expected[r] < MaxAttempts /\ expected[r] < failures[r]
BY DEF Inv, TypeOK, LoopIsEarned, Current

\* markAttemptFailed answers.
LEMMA CountInv ==
  ASSUME Inv, NEW r \in Rows, MarkAttemptFailed(r)
  PROVE  Inv'
<1> USE BoundsAssumption DEF MarkAttemptFailed
<1>1. /\ state' \in [Rows -> {"absent", "pending", "dispatched", "dead"}]
      /\ leased' \in [Rows -> BOOLEAN]
      /\ attempts' \in [Rows -> 0..MaxAttempts]
      /\ signals' \in [Rows -> 0..2]
      /\ RowInv'
      /\ \A s \in Rows : attempts[s] <= attempts'[s]
  BY CatchIsEarned, CountAttemptRow
<1>2. /\ batch' \subseteq batch /\ pc' \in {"claim", "dispatch"}
      /\ UNCHANGED <<expected, tries>>
  BY DEF NextRow
<1>3. TypeOK'
  BY <1>1, <1>2 DEF Inv, TypeOK, Places
<1>4. Grows
  BY <1>1 DEF Grows, Inv, TypeOK
<1>5. CallsAreEarned' /\ LoopIsEarned'
  BY <1>2, <1>3, <1>4, CallsKept, LoopKept
<1> QED
  BY <1>1, <1>3, <1>5 DEF Inv, RowInv

\* markAttemptFailed exhausts its retries.
LEMMA CountFailsInv ==
  ASSUME Inv, NEW r \in Rows, MarkAttemptFailedFails(r)
  PROVE  Inv'
<1> USE BoundsAssumption DEF MarkAttemptFailedFails
<1>0. /\ expected[r] \in 0..MaxAttempts
      /\ expected[r] < MaxAttempts /\ expected[r] < failures[r]
  BY CatchIsEarned
<1>a. Call("markAttemptFailed", r, expected[r]) \in Calls
  BY <1>0 DEF Call, Calls
<1> PICK call0 \in Calls : call0 = Call("markAttemptFailed", r, expected[r])
  BY <1>a
<1>1. /\ state' \in [Rows -> {"absent", "pending", "dispatched", "dead"}]
      /\ leased' \in [Rows -> BOOLEAN]
      /\ attempts' \in [Rows -> 0..MaxAttempts]
      /\ signals' \in [Rows -> 0..2]
      /\ RowInv'
      /\ \A s \in Rows : attempts[s] <= attempts'[s]
  <2>1. CASE CountAttempt(r, expected[r])
    BY <1>0, <2>1, CountAttemptRow
  <2>2. CASE UNCHANGED <<state, attempts, leased>>
    BY <2>2 DEF Inv, TypeOK, RowInv, DispatchedWasDelivered, DeadIffExhausted,
                AttemptsCountFailures, SignalAtMostOnce
  <2> QED
    BY <2>1, <2>2
<1>2. pc' = "failed" /\ UNCHANGED <<batch, expected, tries>>
  BY DEF Goto
<1>3. \A call \in inFlight' : call \in inFlight \/ call = call0
  BY DEF Abandon
<1>5. TypeOK'
  <2>1. inFlight' \in SUBSET Calls
    BY <1>3 DEF Inv, TypeOK
  <2> QED
    BY <1>1, <1>2, <2>1 DEF Inv, TypeOK, Places
<1>6. Grows
  BY <1>1 DEF Grows, Inv, TypeOK
<1>7. CallsAreEarned'
  <2>1. Earned(call0)'
    BY <1>0, <1>2 DEF Earned, Call
  <2> QED
    BY <1>3, <1>5, <1>6, <2>1, CallsKept
<1>8. LoopIsEarned'
  BY <1>2, <1>5, <1>6, LoopKept
<1> QED
  BY <1>1, <1>5, <1>7, <1>8 DEF Inv, RowInv

\* An abandoned attempt takes effect.
LEMMA LateInv ==
  ASSUME Inv, NEW call \in Calls, LateCall(call)
  PROVE  Inv'
<1> USE BoundsAssumption
<1>0. /\ call \in inFlight /\ inFlight' \subseteq inFlight
      /\ UNCHANGED <<pc, batch, expected, tries, failures>>
  BY DEF LateCall, loop
<1>a. call.row \in Rows /\ call.expected \in 0..MaxAttempts /\ Earned(call)
  BY <1>0 DEF Calls, Inv, CallsAreEarned
<1>1. /\ TypeOK' /\ RowInv' /\ Grows
  <2>1. CASE call.op = "dispatchRow"
    <3>1. /\ delivered' = [delivered EXCEPT ![call.row] = TRUE]
          /\ UNCHANGED <<state, attempts, leased, signals>>
      BY <2>1 DEF LateCall
    <3>2. TypeOK'
      BY <1>0, <3>1 DEF Inv, TypeOK
    <3>3. Grows
      BY <1>0, <3>1 DEF Inv, TypeOK, Grows
    <3>4. RowInv'
      BY <1>0, <3>1 DEF Inv, TypeOK, RowInv, DispatchedWasDelivered, DeadIffExhausted,
                        AttemptsCountFailures, SignalAtMostOnce
    <3> QED
      BY <3>2, <3>3, <3>4
  <2>2. CASE call.op = "markDispatched"
    <3>1. SetDispatched(call.row) /\ UNCHANGED <<attempts, delivered, signals>>
      BY <2>2 DEF LateCall
    <3>2. delivered[call.row] /\ \A s \in Rows : failures[s] <= failures'[s]
      BY <1>0, <1>a, <2>2 DEF Earned, Inv, TypeOK
    <3>3. /\ state' \in [Rows -> {"absent", "pending", "dispatched", "dead"}]
          /\ leased' \in [Rows -> BOOLEAN]
          /\ DispatchedWasDelivered' /\ DeadIffExhausted' /\ SignalAtMostOnce'
      BY <1>a, <3>1, <3>2, SetDispatchedRow
    <3>4. TypeOK' /\ Grows
      BY <1>0, <3>1, <3>3 DEF Inv, TypeOK, Grows
    <3>5. AttemptsCountFailures'
      BY <1>0, <3>1 DEF Inv, AttemptsCountFailures
    <3> QED
      BY <3>3, <3>4, <3>5 DEF RowInv
  <2>3. CASE call.op = "markAttemptFailed"
    <3>1. /\ CountAttempt(call.row, call.expected) /\ Signal(call.row, call.expected)
          /\ UNCHANGED <<delivered, failures>>
      BY <2>3 DEF LateCall
    <3>2. call.expected < MaxAttempts /\ call.expected < failures[call.row]
      BY <1>a, <2>3 DEF Earned
    <3>3. /\ state' \in [Rows -> {"absent", "pending", "dispatched", "dead"}]
          /\ leased' \in [Rows -> BOOLEAN]
          /\ attempts' \in [Rows -> 0..MaxAttempts]
          /\ signals' \in [Rows -> 0..2]
          /\ RowInv'
          /\ \A s \in Rows : attempts[s] <= attempts'[s]
      BY <1>a, <3>1, <3>2, CountAttemptRow
    <3>4. TypeOK' /\ Grows
      BY <1>0, <3>1, <3>3 DEF Inv, TypeOK, Grows
    <3> QED
      BY <3>3, <3>4
  <2> QED
    BY <2>1, <2>2, <2>3 DEF LateCall
<1>2. CallsAreEarned'
  BY <1>0, <1>1, CallsKept
<1>3. LoopIsEarned'
  BY <1>0, <1>1, LoopKept
<1> QED
  BY <1>1, <1>2, <1>3 DEF Inv, RowInv

\* Every step preserves the invariant.
LEMMA NextInv == Inv /\ [Next]_vars => Inv'
<1> SUFFICES ASSUME Inv, [Next]_vars PROVE Inv'
  OBVIOUS
<1>1. CASE WorkflowStep
  BY <1>1, ClaimInv, QuietInv, DispatchInv, DispatchFailsInv, MarkInv, MarkFailsInv,
     CountInv, CountFailsInv DEF WorkflowStep
<1>2. ASSUME NEW r \in Rows, Append(r) \/ ExtendLease(r) \/ LeaseExpires(r) PROVE Inv'
  BY <1>2, QuietInv
<1>3. ASSUME NEW call \in Calls, LateCall(call) PROVE Inv'
  BY <1>3, LateInv
<1>4. CASE Cancel \/ Boot
  BY <1>4, QuietInv
<1>5. CASE UNCHANGED vars
  <2> USE <1>5 DEF vars, loop, Inv
  <2>1. TypeOK'
    BY DEF TypeOK
  <2>2. DispatchedWasDelivered' /\ DeadIffExhausted' /\ AttemptsCountFailures' /\ SignalAtMostOnce'
    BY DEF DispatchedWasDelivered, DeadIffExhausted, AttemptsCountFailures, SignalAtMostOnce
  <2>3. CallsAreEarned' /\ LoopIsEarned'
    BY DEF CallsAreEarned, Earned, LoopIsEarned, Current
  <2> QED
    BY <2>1, <2>2, <2>3
<1> QED
  BY <1>1, <1>2, <1>3, <1>4, <1>5 DEF Next

-----------------------------------------------------------------------------
\* The inductive invariant holds in every reachable state of the outbox.
THEOREM Invariance == Spec => []Inv
<1>1. Init => Inv
  BY InitInv
<1>2. Inv /\ [Next]_vars => Inv'
  BY NextInv
<1> QED
  BY <1>1, <1>2, PTL DEF Spec

\* Every column, and the dispatcher's variables, keep legal values.
THEOREM TypeCorrect == Spec => []TypeOK
<1>1. Inv => TypeOK
  BY DEF Inv
<1> QED
  BY <1>1, Invariance, PTL

\* Whatever fails, is retried, or takes effect late: a row that is marked
\* dispatched was accepted by its sink.
THEOREM NoFalseAcknowledgement == Spec => []DispatchedWasDelivered
<1>1. Inv => DispatchedWasDelivered
  BY DEF Inv
<1> QED
  BY <1>1, Invariance, PTL

\* A row dies exactly with its last attempt.
THEOREM DeadLetterRule == Spec => []DeadIffExhausted
<1>1. Inv => DeadIffExhausted
  BY DEF Inv
<1> QED
  BY <1>1, Invariance, PTL

\* A failure is counted once, however often its markAttemptFailed is sent.
THEOREM FailuresCountedOnce == Spec => []AttemptsCountFailures
<1>1. Inv => AttemptsCountFailures
  BY DEF Inv
<1> QED
  BY <1>1, Invariance, PTL

\* The dead-letter signal is never sent twice for a row, nor for a live one.
THEOREM OneSignal == Spec => []SignalAtMostOnce
<1>1. Inv => SignalAtMostOnce
  BY DEF Inv
<1> QED
  BY <1>1, Invariance, PTL
=============================================================================
