------------------------- MODULE PostReview_proofs -------------------------
(***************************************************************************)
(* Theorems about PostReview for any set of runs and findings and any      *)
(* number of attempts and requests.  The invariant says who may be where:  *)
(* one attempt has won the claim, only that attempt is on the ladder, and  *)
(* only as long as the row names no review; an attempt that is about to    *)
(* write a review's id or text knows a review that exists.                 *)
(***************************************************************************)
EXTENDS PostReview, FiniteSetTheorems, TLAPS

USE BoundsAssumption

\* The places between a won claim and the end of the attempt.
Ladder == {"inline", "comments", "body", "record", "degrade"}

\* An attempt that Temporal has not scheduled is off; the findings of a run and
\* what the workflow captured are settled before and after its attempts.
Unscheduled ==
  /\ \A a \in Attempts : a[2] > attempt[a[1]] => pc[a] = "off" /\ ~won[a]
  /\ \A r \in Runs : stage[r] \in {"unborn", "running"} =>
       attempt[r] = 0 /\ commentsOf[r] = {}

\* At most one attempt wins, and only with the row claimed; an unclaimed row
\* names no review.
OneWinner ==
  /\ \A a, b \in Attempts : won[a] /\ won[b] => a = b
  /\ \A a \in Attempts : won[a] => row.claimed
  /\ row.review # 0 => row.claimed

\* Only the winner climbs the ladder, while the row names no review.
OnLadder(a) == pc[a] \in Ladder => won[a] /\ row.review = 0
LadderIsWinners == \A a \in Attempts : OnLadder(a)

\* The winner posted every review.
WinnerPosted == \A i \in 1..Len(reviews) : won[reviews[i].by]

\* An attempt before phase 2 knows the review it created.
CreatedBy(a) ==
  pc[a] \in {"comments", "record"} =>
    /\ made[a] # 0 /\ out[a] \in Posted
    /\ a[1] \in reviews[made[a]].texts
    /\ out[a] = "inline_posted" => reviews[made[a]].comments = kept[a[1]]
KnowsCreated == \A a \in Attempts : CreatedBy(a)

\* An attempt before its PUT knows the review of the row.
RecordedFor(a) ==
  pc[a] = "update" => row.review # 0 /\ made[a] = row.review /\ out[a] \in Posted
KnowsRecorded == \A a \in Attempts : RecordedFor(a)

\* Captured comment ids are those of all kept findings, in one review.
Paired(r) ==
  commentsOf[r] # {} =>
    /\ commentsOf[r] = kept[r]
    /\ \E i \in 1..Len(reviews) : reviews[i].comments = kept[r]
IdsArePaired == \A r \in Runs : Paired(r)

\* CapturedTextWasShown for one run.
Shown(r) == capture[r] \in Posted => row.review # 0 /\ r \in reviews[row.review].texts

Inv ==
  /\ TypeOK
  /\ Unscheduled /\ OneWinner /\ LadderIsWinners /\ WinnerPosted
  /\ KnowsCreated /\ KnowsRecorded /\ IdsArePaired
  /\ CapturedTextWasShown /\ InlineDeliveredHasComment

-----------------------------------------------------------------------------
\* The initial state satisfies the inductive invariant.
LEMMA InitInv == Init => Inv
<1> SUFFICES ASSUME Init PROVE Inv
  OBVIOUS
<1> USE DEF Init
<1>1. reviews \in Seq(Review) /\ Len(reviews) = 0
  OBVIOUS
<1>2. TypeOK
  BY <1>1 DEF TypeOK, Row, NoRow, Stages, Places, Outcomes, Posted
<1>3. Unscheduled /\ OneWinner /\ LadderIsWinners
  BY DEF Unscheduled, OneWinner, LadderIsWinners, OnLadder, Ladder, NoRow, Attempts
<1>4. WinnerPosted /\ KnowsCreated /\ KnowsRecorded /\ IdsArePaired
  BY <1>1 DEF WinnerPosted, KnowsCreated, CreatedBy, KnowsRecorded, RecordedFor,
     IdsArePaired, Paired
<1>5. CapturedTextWasShown /\ InlineDeliveredHasComment
  BY DEF CapturedTextWasShown, InlineDeliveredHasComment, Posted
<1> QED
  BY <1>2, <1>3, <1>4, <1>5 DEF Inv

\* What a step may do to the bot's reviews: none is lost, none changes its author
\* or its comments, and a text that was shown has been shown.
Kept ==
  /\ reviews' \in Seq(Review)
  /\ Len(reviews) <= Len(reviews')
  /\ \A i \in 1..Len(reviews) :
       /\ reviews'[i].by = reviews[i].by
       /\ reviews'[i].comments = reviews[i].comments
       /\ reviews[i].texts \subseteq reviews'[i].texts

\* A POST that GitHub executes adds one review, of this attempt.
LEMMA CreatedEffect ==
  ASSUME reviews \in Seq(Review), NEW a \in Attempts, NEW sent \in SUBSET Findings,
         Created(a, sent)
  PROVE  /\ Kept
         /\ Len(reviews') = Len(reviews) + 1
         /\ reviews'[Len(reviews) + 1] = [by |-> a, comments |-> sent, texts |-> {a[1]}]
<1> DEFINE new == [by |-> a, comments |-> sent, texts |-> {a[1]}]
<1>1. new \in Review
  BY DEF Review, Attempts
<1>2. reviews' = Append(reviews, new)
  BY DEF Created
<1> HIDE DEF new
<1>3. /\ reviews' \in Seq(Review)
      /\ Len(reviews') = Len(reviews) + 1
      /\ \A i \in 1..Len(reviews) : reviews'[i] = reviews[i]
      /\ reviews'[Len(reviews) + 1] = new
  BY <1>1, <1>2
<1> QED
  BY <1>3 DEF Kept, new

\* A PUT that GitHub executes adds a text to the review it names.
LEMMA TextReplacedEffect ==
  ASSUME reviews \in Seq(Review), NEW a \in Attempts, made[a] \in 1..Len(reviews),
         TextReplaced(a)
  PROVE  /\ Kept
         /\ Len(reviews') = Len(reviews)
         /\ a[1] \in reviews'[made[a]].texts
<1> DEFINE old == reviews[made[a]]
           new == [old EXCEPT !.texts = @ \cup {a[1]}]
<1>1. a[1] \in Runs
  BY DEF Attempts
<1>2. old \in Review
  OBVIOUS
<1>3. /\ new \in Review /\ new.by = old.by /\ new.comments = old.comments
      /\ new.texts = old.texts \cup {a[1]}
  BY <1>1, <1>2 DEF Review
<1>4. reviews' = [reviews EXCEPT ![made[a]] = new]
  BY DEF TextReplaced
<1> HIDE DEF new
<1>5. reviews' \in Seq(Review) /\ Len(reviews') = Len(reviews)
  BY <1>3, <1>4
<1>6. \A i \in 1..Len(reviews) : reviews'[i] = IF i = made[a] THEN new ELSE reviews[i]
  BY <1>4
<1> QED
  BY <1>3, <1>5, <1>6 DEF Kept

-----------------------------------------------------------------------------

LEMMA PushInv ==
  ASSUME Inv, NEW r \in Runs, Push(r)
  PROVE  Inv'
<1> USE DEF Inv, Push, flowVars, attemptVars, findingVars
<1>1. TypeOK'
  BY DEF TypeOK, Attempts, Stages, Places, Ended, Working, Outcomes, Posted
<1>2. Unscheduled'
  BY DEF TypeOK, Unscheduled, Attempts
<1>3. OneWinner' /\ LadderIsWinners' /\ WinnerPosted'
  BY DEF TypeOK, OneWinner, LadderIsWinners, OnLadder, WinnerPosted, Ladder
<1>4. KnowsCreated' /\ KnowsRecorded'
  BY DEF TypeOK, KnowsCreated, CreatedBy, KnowsRecorded, RecordedFor, Unscheduled
<1>5. IdsArePaired' /\ CapturedTextWasShown'
  BY DEF TypeOK, IdsArePaired, Paired, CapturedTextWasShown, Unscheduled
<1>6. InlineDeliveredHasComment'
  BY DEF TypeOK, InlineDeliveredHasComment, IdsArePaired, Paired
<1> QED
  BY <1>1, <1>2, <1>3, <1>4, <1>5, <1>6

LEMMA PersistAggregatedInv ==
  ASSUME Inv, NEW r \in Runs, PersistAggregated(r)
  PROVE  Inv'
<1> USE DEF Inv, PersistAggregated, Present, flowVars, attemptVars, findingVars
<1>1. TypeOK'
  <2>1. stage' \in [Runs -> Stages]
    <3>1. stage' = [stage EXCEPT ![r] = "persisted"] \/ stage' = [stage EXCEPT ![r] = "failed"]
      OBVIOUS
    <3>2. stage \in [Runs -> Stages]
      BY DEF TypeOK
    <3>3. "persisted" \in Stages /\ "failed" \in Stages
      BY ONLY DEF Stages
    <3>4. ASSUME NEW new \in Stages, stage' = [stage EXCEPT ![r] = new]
          PROVE  stage' \in [Runs -> Stages]
      BY ONLY <3>2, <3>4
    <3>5. \E new \in Stages : stage' = [stage EXCEPT ![r] = new]
      BY ONLY <3>1, <3>3, Zenon
    <3> QED
      BY ONLY <3>4, <3>5, Zenon
  <2>2. kept' \in [Runs -> SUBSET Findings] /\ dropped' \in [Runs -> SUBSET Findings]
    <3>1. kept \in [Runs -> SUBSET Findings] /\ dropped \in [Runs -> SUBSET Findings]
      BY DEF TypeOK
    <3>2. \/ UNCHANGED <<kept, dropped>>
          \/ \E k, d \in SUBSET Findings :
               kept' = [kept EXCEPT ![r] = k] /\ dropped' = [dropped EXCEPT ![r] = d]
      OBVIOUS
    <3> QED
      BY ONLY <3>1, <3>2
  <2>3. outcome' \in [Findings -> {"absent", "null", "inline_delivered", "not_applicable",
                                 "body_only_fallback", "failed"}]
    BY DEF TypeOK
  <2>4. UNCHANGED <<current, attempt, capture, commentsOf, attemptVars, row, reviews,
                    suppressed>>
    OBVIOUS
  <2> QED
    BY ONLY <2>1, <2>2, <2>3, <2>4, TypeOK DEF TypeOK, attemptVars
<1>2. Unscheduled'
  BY DEF TypeOK, Unscheduled, Attempts
<1>3. OneWinner' /\ LadderIsWinners' /\ WinnerPosted'
  BY DEF TypeOK, OneWinner, LadderIsWinners, OnLadder, WinnerPosted, Ladder
<1>a. attempt[r] = 0 /\ commentsOf[r] = {}
  BY DEF Unscheduled
<1>b. \A a \in Attempts : a[1] = r => pc[a] = "off"
  BY <1>a DEF Unscheduled, Attempts
<1>c. \A q \in Runs : q # r => kept'[q] = kept[q]
  BY DEF TypeOK
<1>4. KnowsCreated' /\ KnowsRecorded'
  <2>1. KnowsCreated'
    BY <1>b, <1>c DEF KnowsCreated, CreatedBy, Attempts
  <2>2. KnowsRecorded'
    BY DEF KnowsRecorded, RecordedFor
  <2> QED
    BY <2>1, <2>2
<1>5. IdsArePaired' /\ CapturedTextWasShown'
  <2>1. IdsArePaired'
    BY <1>a, <1>c DEF IdsArePaired, Paired
  <2>2. CapturedTextWasShown'
    BY DEF CapturedTextWasShown
  <2> QED
    BY <2>1, <2>2
<1>6. InlineDeliveredHasComment'
  BY DEF TypeOK, InlineDeliveredHasComment, IdsArePaired, Paired
<1> QED
  BY <1>1, <1>2, <1>3, <1>4, <1>5, <1>6

LEMMA ApplyArbitrationInv ==
  ASSUME Inv, NEW r \in Runs, ApplyArbitration(r)
  PROVE  Inv'
<1> USE DEF Inv, ApplyArbitration, flowVars, attemptVars, findingVars
<1>1. TypeOK'
  BY DEF TypeOK, Present, Attempts, Stages, Places, Ended, Working, Outcomes, Posted
<1>2. Unscheduled'
  BY DEF TypeOK, Unscheduled, Attempts
<1>3. OneWinner' /\ LadderIsWinners' /\ WinnerPosted'
  BY DEF TypeOK, OneWinner, LadderIsWinners, OnLadder, WinnerPosted, Ladder
<1>4. KnowsCreated' /\ KnowsRecorded'
  BY DEF TypeOK, KnowsCreated, CreatedBy, KnowsRecorded, RecordedFor, Unscheduled
<1>5. IdsArePaired' /\ CapturedTextWasShown'
  BY DEF TypeOK, IdsArePaired, Paired, CapturedTextWasShown, Unscheduled
<1>6. InlineDeliveredHasComment'
  BY DEF TypeOK, InlineDeliveredHasComment, IdsArePaired, Paired
<1> QED
  BY <1>1, <1>2, <1>3, <1>4, <1>5, <1>6

LEMMA StartAttemptInv ==
  ASSUME Inv, NEW r \in Runs, StartAttempt(r)
  PROVE  Inv'
<1> USE DEF Inv, StartAttempt, flowVars, attemptVars, findingVars
<1>1. TypeOK'
  <2>1. /\ attempt \in [Runs -> 0..MaxAttempts] /\ attempt[r] < MaxAttempts
        /\ attempt' = [attempt EXCEPT ![r] = attempt[r] + 1]
    BY DEF TypeOK
  <2>2. attempt[r] + 1 \in 0..MaxAttempts
    BY <2>1
  <2>3. attempt' \in [Runs -> 0..MaxAttempts]
    BY ONLY <2>1, <2>2, r \in Runs
  <2>4. stage' \in [Runs -> Stages] /\ pc' \in [Attempts -> Places]
    BY DEF TypeOK, Stages, Places, Working, Ended
  <2> QED
    BY <2>3, <2>4 DEF TypeOK, Attempts
<1>2. Unscheduled'
  BY DEF TypeOK, Unscheduled, Attempts
<1>3. OneWinner' /\ LadderIsWinners' /\ WinnerPosted'
  BY DEF TypeOK, OneWinner, LadderIsWinners, OnLadder, WinnerPosted, Ladder
<1>4. KnowsCreated' /\ KnowsRecorded'
  BY DEF TypeOK, KnowsCreated, CreatedBy, KnowsRecorded, RecordedFor, Unscheduled
<1>5. IdsArePaired' /\ CapturedTextWasShown'
  BY DEF TypeOK, IdsArePaired, Paired, CapturedTextWasShown, Unscheduled
<1>6. InlineDeliveredHasComment'
  BY DEF TypeOK, InlineDeliveredHasComment, IdsArePaired, Paired
<1> QED
  BY <1>1, <1>2, <1>3, <1>4, <1>5, <1>6

LEMMA TimeOutInv ==
  ASSUME Inv, NEW r \in Runs, TimeOut(r)
  PROVE  Inv'
<1> USE DEF Inv, TimeOut, AfterFailure, flowVars, attemptVars, findingVars
<1>1. TypeOK'
  BY DEF TypeOK, Attempts, Stages, Places, Ended, Working, Outcomes, Posted
<1>2. Unscheduled'
  BY DEF TypeOK, Unscheduled, Attempts
<1>3. OneWinner' /\ LadderIsWinners' /\ WinnerPosted'
  BY DEF TypeOK, OneWinner, LadderIsWinners, OnLadder, WinnerPosted, Ladder
<1>4. KnowsCreated' /\ KnowsRecorded'
  BY DEF TypeOK, KnowsCreated, CreatedBy, KnowsRecorded, RecordedFor, Unscheduled
<1>5. IdsArePaired' /\ CapturedTextWasShown'
  BY DEF TypeOK, IdsArePaired, Paired, CapturedTextWasShown, Unscheduled
<1>6. InlineDeliveredHasComment'
  BY DEF TypeOK, InlineDeliveredHasComment, IdsArePaired, Paired
<1> QED
  BY <1>1, <1>2, <1>3, <1>4, <1>5, <1>6

LEMMA RecordDeliveryFinalizedInv ==
  ASSUME Inv, NEW r \in Runs, RecordDeliveryFinalized(r)
  PROVE  Inv'
<1> USE DEF Inv, RecordDeliveryFinalized, Bookkeeping, BestEffort, Flip,
           flowVars, attemptVars, findingVars
<1>1. TypeOK'
  BY DEF TypeOK, Attempts, Stages, Places, Ended, Working, Outcomes, Posted
<1>2. Unscheduled'
  BY DEF TypeOK, Unscheduled, Attempts
<1>3. OneWinner' /\ LadderIsWinners' /\ WinnerPosted'
  BY DEF TypeOK, OneWinner, LadderIsWinners, OnLadder, WinnerPosted, Ladder
<1>4. KnowsCreated' /\ KnowsRecorded'
  BY DEF TypeOK, KnowsCreated, CreatedBy, KnowsRecorded, RecordedFor, Unscheduled
<1>5. IdsArePaired' /\ CapturedTextWasShown'
  BY DEF TypeOK, IdsArePaired, Paired, CapturedTextWasShown, Unscheduled
<1>a. ASSUME Cardinality(kept[r]) = Cardinality(commentsOf[r]), NEW f \in kept[r]
      PROVE  \E i \in 1..Len(reviews) : f \in reviews[i].comments
  <2>1. IsFiniteSet(kept[r])
    BY FS_Subset DEF TypeOK
  <2>2. commentsOf[r] # {}
    BY <1>a, <2>1, FS_EmptySet
  <2> QED
    BY <2>2 DEF IdsArePaired, Paired
<1>6. InlineDeliveredHasComment'
  BY <1>a DEF TypeOK, InlineDeliveredHasComment
<1> QED
  BY <1>1, <1>2, <1>3, <1>4, <1>5, <1>6

LEMMA RecordDeliverySkippedInv ==
  ASSUME Inv, NEW r \in Runs, RecordDeliverySkipped(r)
  PROVE  Inv'
<1> USE DEF Inv, RecordDeliverySkipped, Bookkeeping, BestEffort, Flip,
           flowVars, attemptVars, findingVars
<1>1. TypeOK'
  BY DEF TypeOK, Attempts, Stages, Places, Ended, Working, Outcomes, Posted
<1>2. Unscheduled'
  BY DEF TypeOK, Unscheduled, Attempts
<1>3. OneWinner' /\ LadderIsWinners' /\ WinnerPosted'
  BY DEF TypeOK, OneWinner, LadderIsWinners, OnLadder, WinnerPosted, Ladder
<1>4. KnowsCreated' /\ KnowsRecorded'
  BY DEF TypeOK, KnowsCreated, CreatedBy, KnowsRecorded, RecordedFor, Unscheduled
<1>5. IdsArePaired' /\ CapturedTextWasShown'
  BY DEF TypeOK, IdsArePaired, Paired, CapturedTextWasShown, Unscheduled
<1>6. InlineDeliveredHasComment'
  BY DEF TypeOK, InlineDeliveredHasComment, IdsArePaired, Paired
<1> QED
  BY <1>1, <1>2, <1>3, <1>4, <1>5, <1>6

LEMMA RecordDeliveryDegradedInv ==
  ASSUME Inv, NEW r \in Runs, RecordDeliveryDegraded(r)
  PROVE  Inv'
<1> USE DEF Inv, RecordDeliveryDegraded, Bookkeeping, BestEffort, Flip,
           flowVars, attemptVars, findingVars
<1>1. TypeOK'
  BY DEF TypeOK, Attempts, Stages, Places, Ended, Working, Outcomes, Posted
<1>2. Unscheduled'
  BY DEF TypeOK, Unscheduled, Attempts
<1>3. OneWinner' /\ LadderIsWinners' /\ WinnerPosted'
  BY DEF TypeOK, OneWinner, LadderIsWinners, OnLadder, WinnerPosted, Ladder
<1>4. KnowsCreated' /\ KnowsRecorded'
  BY DEF TypeOK, KnowsCreated, CreatedBy, KnowsRecorded, RecordedFor, Unscheduled
<1>5. IdsArePaired' /\ CapturedTextWasShown'
  BY DEF TypeOK, IdsArePaired, Paired, CapturedTextWasShown, Unscheduled
<1>a. \A f \in Findings : outcome'[f] = "inline_delivered" => outcome[f] = "inline_delivered"
  <2>1. CASE capture[r] = "body_only_posted"
    BY <2>1
  <2>2. CASE capture[r] = "degraded_unposted"
    BY <2>2
  <2>3. CASE capture[r] \notin {"body_only_posted", "degraded_unposted"}
    BY <2>3
  <2> QED
    BY <2>1, <2>2, <2>3
<1>6. InlineDeliveredHasComment'
  BY <1>a DEF InlineDeliveredHasComment
<1> QED
  BY <1>1, <1>2, <1>3, <1>4, <1>5, <1>6

LEMMA DispatchInlineSkippedInv ==
  ASSUME Inv, NEW r \in Runs, DispatchInlineSkipped(r)
  PROVE  Inv'
<1> USE DEF Inv, DispatchInlineSkipped, Bookkeeping, BestEffort, Flip,
           flowVars, attemptVars, findingVars
<1>1. TypeOK'
  BY DEF TypeOK, Attempts, Stages, Places, Ended, Working, Outcomes, Posted
<1>2. Unscheduled'
  BY DEF TypeOK, Unscheduled, Attempts
<1>3. OneWinner' /\ LadderIsWinners' /\ WinnerPosted'
  BY DEF TypeOK, OneWinner, LadderIsWinners, OnLadder, WinnerPosted, Ladder
<1>4. KnowsCreated' /\ KnowsRecorded'
  BY DEF TypeOK, KnowsCreated, CreatedBy, KnowsRecorded, RecordedFor, Unscheduled
<1>5. IdsArePaired' /\ CapturedTextWasShown'
  BY DEF TypeOK, IdsArePaired, Paired, CapturedTextWasShown, Unscheduled
<1>6. InlineDeliveredHasComment'
  BY DEF TypeOK, InlineDeliveredHasComment, IdsArePaired, Paired
<1> QED
  BY <1>1, <1>2, <1>3, <1>4, <1>5, <1>6

-----------------------------------------------------------------------------
\* Nothing is lost when GitHub does not touch the reviews.
LEMMA KeptUnchanged ==
  ASSUME reviews \in Seq(Review), UNCHANGED reviews
  PROVE  Kept
BY DEF Kept

\* The flow variables after a step of attempt a: at most its own run moves on.
FlowOf(a) ==
  /\ UNCHANGED <<current, attempt, kept, dropped>>
  /\ stage' \in [Runs -> Stages]
  /\ capture' \in [Runs -> Outcomes \cup {"none"}]
  /\ commentsOf' \in [Runs -> SUBSET Findings]
  /\ \A r \in Runs : r # a[1] => capture'[r] = capture[r] /\ commentsOf'[r] = commentsOf[r]
  /\ \A r \in Runs : stage'[r] \in {"unborn", "running"} =>
       stage'[r] = stage[r] /\ commentsOf'[r] = commentsOf[r]

\* The attempts after a step of attempt a: the others are where they were.
AttemptsOf(a) ==
  /\ pc[a] # "off" /\ pc'[a] # "off"
  /\ pc' \in [Attempts -> Places]
  /\ tries' \in [Attempts -> 0..HttpTries - 1]
  /\ made' \in [Attempts -> Nat]
  /\ out' \in [Attempts -> Outcomes \cup {"none"}]
  /\ \A b \in Attempts : b # a => pc'[b] = pc[b] /\ made'[b] = made[b] /\ out'[b] = out[b]

\* The winners after a step of attempt a.
WinnersOf(a) ==
  /\ won' \in [Attempts -> BOOLEAN]
  /\ won[a] => won'[a]
  /\ \A b \in Attempts : b # a => won'[b] = won[b]

\* The row after a step of attempt a: only the winner gives it a review.
RowOf(a) ==
  /\ row' \in Row /\ row'.review <= Len(reviews')
  /\ row'.outcome = "degraded_unposted" <=> row'.review = 0
  /\ row.claimed => row'.claimed
  /\ row'.review = row.review \/ (row.review = 0 /\ won[a])

\* The reviews after a step of attempt a: only the winner adds one.
ReviewsOf(a) ==
  /\ Kept
  /\ \A i \in 1..Len(reviews') : i > Len(reviews) => won[a] /\ reviews'[i].by = a

\* A step of an attempt preserves the invariant if it preserves what the
\* invariant says of this attempt and its run.
LEMMA StepOfAttempt ==
  ASSUME Inv, NEW a \in Attempts,
         FlowOf(a), AttemptsOf(a), WinnersOf(a), RowOf(a), ReviewsOf(a),
         UNCHANGED findingVars, OneWinner', made'[a] <= Len(reviews'),
         OnLadder(a)', CreatedBy(a)', RecordedFor(a)', Paired(a[1])', Shown(a[1])'
  PROVE  Inv'
<1> USE DEF Inv, findingVars
<1>0. a[1] \in Runs
  BY DEF Attempts
<1>a. /\ Len(reviews) \in Nat /\ Len(reviews') \in Nat /\ Len(reviews) <= Len(reviews')
      /\ 1..Len(reviews) \subseteq 1..Len(reviews')
  BY DEF ReviewsOf, Kept, TypeOK
<1>b. \A i \in 1..Len(reviews) :
        /\ reviews'[i].by = reviews[i].by
        /\ reviews'[i].comments = reviews[i].comments
        /\ reviews[i].texts \subseteq reviews'[i].texts
  BY DEF ReviewsOf, Kept
<1>1. TypeOK'
  <2>1. \A b \in Attempts : made'[b] \in 0..Len(reviews')
    <3> SUFFICES ASSUME NEW b \in Attempts PROVE made'[b] \in 0..Len(reviews')
      OBVIOUS
    <3>1. made[b] \in 0..Len(reviews) /\ made'[b] \in Nat
      BY DEF TypeOK, AttemptsOf
    <3>2. CASE b = a
      BY ONLY <1>a, <3>1, <3>2, made'[a] <= Len(reviews')
    <3>3. CASE b # a
      <4>1. made'[b] = made[b]
        BY <3>3 DEF AttemptsOf
      <4> QED
        BY ONLY <1>a, <3>1, <4>1
    <3> QED
      BY <3>2, <3>3
  <2>2. made' \in [Attempts -> 0..Len(reviews')]
    BY <2>1 DEF AttemptsOf
  <2> QED
    BY <2>2 DEF TypeOK, FlowOf, AttemptsOf, WinnersOf, RowOf, ReviewsOf, Kept
<1>2. Unscheduled'
  BY DEF Unscheduled, FlowOf, AttemptsOf, WinnersOf
<1>3. LadderIsWinners'
  <2> SUFFICES ASSUME NEW b \in Attempts, b # a PROVE OnLadder(b)'
    BY DEF LadderIsWinners
  <2> QED
    BY DEF LadderIsWinners, OnLadder, AttemptsOf, WinnersOf, RowOf, OneWinner
<1>4. WinnerPosted'
  <2> SUFFICES ASSUME NEW i \in 1..Len(reviews') PROVE won'[reviews'[i].by]
    BY DEF WinnerPosted
  <2>1. CASE i > Len(reviews)
    BY <2>1 DEF ReviewsOf, WinnersOf
  <2>2. CASE i \in 1..Len(reviews)
    <3>1. reviews[i] \in Review
      BY <2>2 DEF TypeOK
    <3>2. won[reviews[i].by] /\ reviews[i].by \in Attempts
      BY <2>2, <3>1 DEF WinnerPosted, Review
    <3> QED
      BY <1>b, <2>2, <3>2 DEF WinnersOf
  <2> QED
    BY <1>a, <2>1, <2>2
<1>5. KnowsCreated'
  <2> SUFFICES ASSUME NEW b \in Attempts, b # a, pc[b] \in {"comments", "record"}
               PROVE  CreatedBy(b)'
    BY DEF KnowsCreated, CreatedBy, AttemptsOf
  <2>1. made[b] \in 1..Len(reviews)
    BY <1>a DEF TypeOK, KnowsCreated, CreatedBy
  <2>2. made'[b] = made[b] /\ out'[b] = out[b] /\ kept' = kept
    BY DEF AttemptsOf, FlowOf
  <2> QED
    BY <1>b, <2>1, <2>2 DEF KnowsCreated, CreatedBy
<1>6. KnowsRecorded'
  BY DEF KnowsRecorded, RecordedFor, AttemptsOf, RowOf
<1>7. IdsArePaired'
  <2> SUFFICES ASSUME NEW r \in Runs, r # a[1], commentsOf[r] # {} PROVE Paired(r)'
    BY DEF IdsArePaired, Paired, FlowOf
  <2>1. PICK i \in 1..Len(reviews) : reviews[i].comments = kept[r]
    BY DEF IdsArePaired, Paired
  <2>2. i \in 1..Len(reviews') /\ reviews'[i].comments = kept[r]
    BY <1>a, <1>b, <2>1
  <2> QED
    BY <2>2 DEF IdsArePaired, Paired, FlowOf
<1>8. CapturedTextWasShown'
  <2> SUFFICES ASSUME NEW r \in Runs, r # a[1], capture[r] \in Posted
               PROVE  row'.review # 0 /\ r \in reviews'[row'.review].texts
    BY DEF CapturedTextWasShown, Shown, FlowOf
  <2>1. row.review # 0 /\ r \in reviews[row.review].texts
    BY DEF CapturedTextWasShown
  <2>2. row'.review = row.review
    BY <2>1 DEF RowOf
  <2>3. row.review \in 1..Len(reviews)
    BY <2>1 DEF TypeOK, Row
  <2> QED
    BY <1>b, <2>1, <2>2, <2>3
<1>9. InlineDeliveredHasComment'
  BY <1>a, <1>b DEF InlineDeliveredHasComment
<1> QED
  BY <1>1, <1>2, <1>3, <1>4, <1>5, <1>6, <1>7, <1>8, <1>9

\* An attempt that throws ends, and nothing is captured.
LEMMA ThrowEffect ==
  ASSUME TypeOK, NEW a \in Attempts, pc[a] # "off", NEW how \in Ended,
         NEW next \in {"waiting", "rescue", "failed"}, Throw(a, how, next)
  PROVE  /\ FlowOf(a) /\ AttemptsOf(a)
         /\ pc'[a] \in Ended /\ made'[a] = 0
         /\ UNCHANGED <<capture, commentsOf>>
<1> USE DEF Throw, Leave
<1>1. FlowOf(a)
  BY DEF TypeOK, FlowOf, Stages
<1>2. AttemptsOf(a)
  BY DEF TypeOK, AttemptsOf, Places, Ended
<1> QED
  BY <1>1, <1>2 DEF TypeOK, Ended

LEMMA AfterFailureEffect ==
  ASSUME NEW r \in Runs, NEW carries \in BOOLEAN
  PROVE  AfterFailure(r, carries) \in {"waiting", "rescue", "failed"}
BY DEF AfterFailure

\* The three ways to throw.
LEMMA ThrowsEffect ==
  ASSUME TypeOK, NEW a \in Attempts, pc[a] # "off",
         ThrowPlain(a) \/ ThrowWithState(a) \/ ThrowStale(a)
  PROVE  /\ FlowOf(a) /\ AttemptsOf(a)
         /\ pc'[a] \in Ended /\ made'[a] = 0
         /\ UNCHANGED <<capture, commentsOf>>
<1>1. a[1] \in Runs
  BY DEF Attempts
<1> QED
  BY <1>1, ThrowEffect, AfterFailureEffect DEF ThrowPlain, ThrowWithState, ThrowStale, Ended

\* An attempt that returns ends; its answer is captured if Temporal still waits.
LEMMA ReturnEffect ==
  ASSUME TypeOK, NEW a \in Attempts, pc[a] # "off", NEW answer \in Outcomes,
         NEW ids \in SUBSET Findings, Return(a, answer, ids)
  PROVE  /\ FlowOf(a) /\ AttemptsOf(a)
         /\ pc'[a] \in Ended /\ made'[a] = 0
         /\ \/ UNCHANGED <<capture, commentsOf>>
            \/ capture'[a[1]] = answer /\ commentsOf'[a[1]] = ids
<1> USE DEF Return, Leave
<1>1. FlowOf(a)
  BY DEF TypeOK, FlowOf, Stages
<1>2. AttemptsOf(a)
  BY DEF TypeOK, AttemptsOf, Places, Ended
<1> QED
  BY <1>1, <1>2 DEF TypeOK, Ended, Attempts

\* What an attempt that has ended or goes on without a review has to show.
LEMMA GotoEffect ==
  ASSUME TypeOK, NEW a \in Attempts, pc[a] # "off", NEW place \in Working,
         Goto(a, place)
  PROVE  /\ FlowOf(a) /\ pc' = [pc EXCEPT ![a] = place]
         /\ pc'[a] = place /\ UNCHANGED <<capture, commentsOf>>
BY DEF Goto, flowVars, FlowOf, TypeOK

\* What the invariant says of the captures holds for a step that captures nothing.
LEMMA NothingCaptured ==
  ASSUME Inv, NEW a \in Attempts, FlowOf(a), RowOf(a), ReviewsOf(a),
         UNCHANGED <<capture, commentsOf>>
  PROVE  Paired(a[1])' /\ Shown(a[1])'
<1> USE DEF Inv
<1>0. a[1] \in Runs
  BY DEF Attempts
<1>1. /\ 1..Len(reviews) \subseteq 1..Len(reviews') /\ row.review \in 0..Len(reviews)
      /\ kept' = kept
  BY DEF ReviewsOf, Kept, TypeOK, Row, FlowOf
<1>2. \A i \in 1..Len(reviews) :
        /\ reviews'[i].comments = reviews[i].comments
        /\ reviews[i].texts \subseteq reviews'[i].texts
  BY DEF ReviewsOf, Kept
<1>3. Paired(a[1])'
  BY <1>0, <1>1, <1>2 DEF IdsArePaired, Paired
<1>4. Shown(a[1])'
  <2> SUFFICES ASSUME capture[a[1]] \in Posted
               PROVE  row'.review # 0 /\ a[1] \in reviews'[row'.review].texts
    BY DEF Shown
  <2>1. row.review # 0 /\ a[1] \in reviews[row.review].texts
    BY <1>0 DEF CapturedTextWasShown
  <2>2. row'.review = row.review
    BY <2>1 DEF RowOf
  <2>3. row.review \in 1..Len(reviews)
    BY <1>1, <2>1
  <2> QED
    BY <1>2, <2>1, <2>2, <2>3
<1> QED
  BY <1>3, <1>4

\* A step that leaves the row alone and loses no review.
LEMMA RowUnchanged ==
  ASSUME Inv, NEW a \in Attempts, UNCHANGED <<row, won>>, Kept
  PROVE  RowOf(a) /\ WinnersOf(a) /\ OneWinner'
<1>1. Len(reviews) \in Nat /\ Len(reviews') \in Nat /\ Len(reviews) <= Len(reviews')
  BY DEF Inv, TypeOK, Kept
<1> QED
  BY <1>1 DEF Inv, TypeOK, RowOf, WinnersOf, OneWinner, Row

\* A step that leaves GitHub alone, and one that posts for the winner.
LEMMA ReviewsUnchanged ==
  ASSUME Inv, NEW a \in Attempts, UNCHANGED reviews
  PROVE  ReviewsOf(a)
BY DEF Inv, TypeOK, ReviewsOf, Kept

LEMMA ReviewAdded ==
  ASSUME Inv, NEW a \in Attempts, won[a], NEW sent \in SUBSET Findings, Created(a, sent)
  PROVE  ReviewsOf(a) /\ Kept /\ Len(reviews') = Len(reviews) + 1
         /\ reviews'[Len(reviews) + 1] = [by |-> a, comments |-> sent, texts |-> {a[1]}]
<1> DEFINE new == [by |-> a, comments |-> sent, texts |-> {a[1]}]
<1>1. reviews \in Seq(Review) /\ Len(reviews) \in Nat
  BY DEF Inv, TypeOK
<1>2. /\ Kept /\ Len(reviews') = Len(reviews) + 1
      /\ reviews'[Len(reviews) + 1] = new
  BY <1>1, CreatedEffect
<1>3. new.by = a
  OBVIOUS
<1> HIDE DEF new
<1>4. ReviewsOf(a)
  BY <1>1, <1>2, <1>3 DEF ReviewsOf
<1> QED
  BY <1>2, <1>4 DEF new

\* An attempt that ends without an answer preserves the invariant.
LEMMA EndInv ==
  ASSUME Inv, NEW a \in Attempts, FlowOf(a), AttemptsOf(a), WinnersOf(a), RowOf(a),
         ReviewsOf(a), UNCHANGED findingVars, OneWinner',
         pc'[a] \in Ended, made'[a] = 0, UNCHANGED <<capture, commentsOf>>
  PROVE  Inv'
<1>1. Paired(a[1])' /\ Shown(a[1])'
  BY NothingCaptured
<1>2. OnLadder(a)' /\ CreatedBy(a)' /\ RecordedFor(a)'
  BY DEF OnLadder, CreatedBy, RecordedFor, Ladder, Ended
<1>3. made'[a] <= Len(reviews')
  BY DEF ReviewsOf, Kept
<1> QED
  BY <1>1, <1>2, <1>3, StepOfAttempt

LEMMA ThrowInv ==
  ASSUME Inv, NEW a \in Attempts, pc[a] # "off", UNCHANGED <<row, won, findingVars>>,
         ThrowPlain(a) \/ ThrowWithState(a) \/ ThrowStale(a), ReviewsOf(a)
  PROVE  Inv'
<1>1. TypeOK /\ Kept
  BY DEF Inv, ReviewsOf
<1>2. RowOf(a) /\ WinnersOf(a) /\ OneWinner'
  BY <1>1, RowUnchanged
<1>3. /\ FlowOf(a) /\ AttemptsOf(a)
      /\ pc'[a] \in Ended /\ made'[a] = 0
      /\ UNCHANGED <<capture, commentsOf>>
  BY <1>1, ThrowsEffect
<1> QED
  BY <1>2, <1>3, EndInv

\* An attempt that goes on without touching the row preserves the invariant.
LEMMA GoOnInv ==
  ASSUME Inv, NEW a \in Attempts, FlowOf(a), AttemptsOf(a), ReviewsOf(a),
         UNCHANGED <<row, won, findingVars>>, UNCHANGED <<capture, commentsOf>>,
         made'[a] <= Len(reviews'), OnLadder(a)', CreatedBy(a)', RecordedFor(a)'
  PROVE  Inv'
<1>1. RowOf(a) /\ WinnersOf(a) /\ OneWinner'
  BY RowUnchanged DEF ReviewsOf
<1>2. Paired(a[1])' /\ Shown(a[1])'
  BY <1>1, NothingCaptured
<1> QED
  BY <1>1, <1>2, StepOfAttempt

\* An attempt that returns preserves the invariant if its answer is true.
LEMMA ReturnInv ==
  ASSUME Inv, NEW a \in Attempts, pc[a] # "off", NEW answer \in Outcomes,
         NEW ids \in SUBSET Findings, Return(a, answer, ids),
         WinnersOf(a), RowOf(a), ReviewsOf(a), OneWinner', UNCHANGED findingVars,
         answer \in Posted => row'.review # 0 /\ a[1] \in reviews'[row'.review].texts,
         ids # {} => /\ ids = kept[a[1]]
                     /\ \E i \in 1..Len(reviews') : reviews'[i].comments = kept[a[1]]
  PROVE  Inv'
<1>1. /\ FlowOf(a) /\ AttemptsOf(a)
      /\ pc'[a] \in Ended /\ made'[a] = 0
      /\ \/ UNCHANGED <<capture, commentsOf>>
         \/ capture'[a[1]] = answer /\ commentsOf'[a[1]] = ids
  BY ReturnEffect DEF Inv
<1>2. CASE UNCHANGED <<capture, commentsOf>>
  BY <1>1, <1>2, EndInv
<1>3. CASE capture'[a[1]] = answer /\ commentsOf'[a[1]] = ids
  <2>1. kept' = kept
    BY <1>1 DEF FlowOf
  <2>2. Paired(a[1])' /\ Shown(a[1])'
    BY <1>3, <2>1 DEF Paired, Shown
  <2>3. OnLadder(a)' /\ CreatedBy(a)' /\ RecordedFor(a)'
    BY <1>1 DEF OnLadder, CreatedBy, RecordedFor, Ladder, Ended
  <2>4. made'[a] <= Len(reviews')
    BY <1>1 DEF ReviewsOf, Kept
  <2> QED
    BY <1>1, <2>2, <2>3, <2>4, StepOfAttempt
<1> QED
  BY <1>1, <1>2, <1>3

-----------------------------------------------------------------------------
\* One lemma per operation of an attempt.

LEMMA TransactionFailsInv ==
  ASSUME Inv, NEW a \in Attempts, TransactionFails(a)
  PROVE  Inv'
BY ReviewsUnchanged, ThrowInv DEF TransactionFails

LEMMA CrashInv ==
  ASSUME Inv, NEW a \in Attempts, Crash(a)
  PROVE  Inv'
<1> USE DEF Crash, Leave, flowVars
<1>1. TypeOK
  BY DEF Inv
<1>2. FlowOf(a)
  BY <1>1 DEF TypeOK, FlowOf
<1>3. AttemptsOf(a)
  BY <1>1 DEF TypeOK, AttemptsOf, Places, Working, Ended
<1>4. ReviewsOf(a) /\ Kept
  BY ReviewsUnchanged DEF ReviewsOf
<1>5. RowOf(a) /\ WinnersOf(a) /\ OneWinner'
  BY <1>4, RowUnchanged
<1>6. pc'[a] \in Ended /\ made'[a] = 0 /\ UNCHANGED <<capture, commentsOf>>
  BY <1>1 DEF TypeOK, Ended
<1> QED
  BY <1>2, <1>3, <1>4, <1>5, <1>6, EndInv

\* A fresh claim is a row without a review.
LEMMA ClaimRow ==
  /\ Claim \in Row /\ Claim.claimed /\ Claim.review = 0
  /\ Claim.outcome = "degraded_unposted"
<1>1. NoRow \in Row
  BY DEF NoRow, Row, Outcomes
<1> QED
  BY <1>1 DEF Claim, NoRow, Row, Outcomes

LEMMA AtomicClaimInv ==
  ASSUME Inv, NEW a \in Attempts, AtomicClaim(a)
  PROVE  Inv'
<1> USE DEF AtomicClaim
<1>0. TypeOK /\ ReviewsOf(a) /\ Kept /\ pc[a] # "off" /\ UNCHANGED findingVars
  BY ReviewsUnchanged DEF Inv, ReviewsOf
<1>1. CASE ThrowStale(a) /\ UNCHANGED <<row, won>>
  BY <1>0, <1>1, ThrowInv
<1>2. CASE /\ ~row.claimed /\ row' = Claim /\ Goto(a, "inline")
           /\ won' = [won EXCEPT ![a] = TRUE] /\ UNCHANGED <<tries, made, out>>
  <2>1. /\ FlowOf(a) /\ pc' = [pc EXCEPT ![a] = "inline"]
        /\ pc'[a] = "inline" /\ UNCHANGED <<capture, commentsOf>>
    BY <1>0, <1>2, GotoEffect DEF Working
  <2>2. AttemptsOf(a)
    BY <1>0, <1>2, <2>1 DEF TypeOK, AttemptsOf, Places, Working
  <2>3. \A b \in Attempts : ~won[b]
    BY <1>2 DEF Inv, OneWinner
  <2>4. row.review = 0
    BY <1>2 DEF Inv, OneWinner, TypeOK, Row
  <2>5. RowOf(a) /\ row'.claimed /\ row'.review = 0
    BY <1>0, <1>2, <2>4, ClaimRow DEF RowOf, Kept
  <2>6. WinnersOf(a) /\ won'[a] /\ OneWinner'
    BY <1>0, <1>2, <2>3, <2>5 DEF TypeOK, WinnersOf, OneWinner
  <2>7. Paired(a[1])' /\ Shown(a[1])'
    BY <1>0, <2>1, <2>5, NothingCaptured
  <2>8. OnLadder(a)' /\ CreatedBy(a)' /\ RecordedFor(a)'
    BY <2>1, <2>5, <2>6 DEF OnLadder, CreatedBy, RecordedFor
  <2>9. made'[a] <= Len(reviews')
    BY <1>0, <1>2 DEF TypeOK, Kept
  <2> QED
    BY <1>0, <2>1, <2>2, <2>5, <2>6, <2>7, <2>8, <2>9, StepOfAttempt
<1>3. CASE ~row.claimed /\ row' = Claim /\ ThrowPlain(a) /\ UNCHANGED won
  <2>1. /\ FlowOf(a) /\ AttemptsOf(a)
        /\ pc'[a] \in Ended /\ made'[a] = 0
        /\ UNCHANGED <<capture, commentsOf>>
    BY <1>0, <1>3, ThrowsEffect
  <2>2. row.review = 0
    BY <1>3 DEF Inv, OneWinner, TypeOK, Row
  <2>3. RowOf(a) /\ row'.claimed
    BY <1>0, <1>3, <2>2, ClaimRow DEF RowOf, Kept
  <2>4. WinnersOf(a) /\ OneWinner'
    BY <1>0, <1>3, <2>3 DEF Inv, TypeOK, WinnersOf, OneWinner
  <2> QED
    BY <1>0, <2>1, <2>3, <2>4, EndInv
<1>4. CASE Goto(a, "lost") /\ UNCHANGED <<row, tries, won, made, out>>
  <2>1. /\ FlowOf(a) /\ pc' = [pc EXCEPT ![a] = "lost"]
        /\ pc'[a] = "lost" /\ UNCHANGED <<capture, commentsOf>>
    BY <1>0, <1>4, GotoEffect DEF Working
  <2>2. AttemptsOf(a) /\ made'[a] <= Len(reviews')
    BY <1>0, <1>4, <2>1 DEF TypeOK, AttemptsOf, Places, Working, Kept
  <2>3. OnLadder(a)' /\ CreatedBy(a)' /\ RecordedFor(a)'
    BY <2>1 DEF OnLadder, CreatedBy, RecordedFor, Ladder
  <2> QED
    BY <1>0, <1>4, <2>1, <2>2, <2>3, GoOnInv
<1> QED
  BY <1>1, <1>2, <1>3, <1>4
\* The POST from a place of the ladder other than those after it.
LEMMA PostRequestInv ==
  ASSUME Inv, NEW a \in Attempts, pc[a] \in {"inline", "body"},
         NEW sent \in SUBSET Findings, PostRequest(a, sent),
         UNCHANGED <<row, won, findingVars>>
  PROVE  Inv'
<1>1. TypeOK /\ won[a] /\ row.review = 0
  BY DEF Inv, LadderIsWinners, OnLadder, Ladder
<1>2. ReviewsOf(a) /\ Kept
  <2>1. CASE Created(a, sent)
    BY <1>1, <2>1, ReviewAdded
  <2>2. CASE UNCHANGED reviews
    BY <2>2, ReviewsUnchanged DEF ReviewsOf
  <2> QED
    BY <2>1, <2>2 DEF PostRequest
<1>3. CASE ThrowWithState(a)
  BY <1>2, <1>3, ThrowInv
<1>4. CASE /\ tries[a] + 1 < HttpTries
           /\ tries' = [tries EXCEPT ![a] = @ + 1]
           /\ UNCHANGED <<flowVars, pc, made, out>>
  <2> USE DEF flowVars
  <2>1. FlowOf(a) /\ UNCHANGED <<capture, commentsOf>>
    BY <1>1, <1>4 DEF TypeOK, FlowOf
  <2>2. tries' \in [Attempts -> 0..HttpTries - 1]
    <3>1. tries[a] \in 0..HttpTries - 1
      BY <1>1 DEF TypeOK
    <3>2. tries[a] + 1 \in 0..HttpTries - 1
      BY <1>4, <3>1
    <3> QED
      BY <1>1, <1>4, <3>2 DEF TypeOK
  <2>3. AttemptsOf(a)
    BY <1>1, <1>4, <2>2 DEF TypeOK, AttemptsOf
  <2>4. made'[a] <= Len(reviews')
    BY <1>1, <1>2, <1>4 DEF TypeOK, Kept
  <2>5. OnLadder(a)' /\ CreatedBy(a)' /\ RecordedFor(a)'
    BY <1>1, <1>4 DEF OnLadder, CreatedBy, RecordedFor
  <2> QED
    BY <1>2, <2>1, <2>3, <2>4, <2>5, GoOnInv
<1> QED
  BY <1>3, <1>4 DEF PostRequest

\* The POST that was answered: the attempt knows the review it created.
LEMMA CreatedInv ==
  ASSUME Inv, NEW a \in Attempts, pc[a] \in {"inline", "body"},
         NEW sent \in SUBSET Findings, Created(a, sent),
         NEW answer \in Posted, answer = "inline_posted" => sent = kept[a[1]],
         NEW place \in {"comments", "record"}, Goto(a, place),
         made' = [made EXCEPT ![a] = Len(reviews) + 1],
         out' = [out EXCEPT ![a] = answer],
         UNCHANGED <<tries, row, won, findingVars>>
  PROVE  Inv'
<1>1. TypeOK /\ won[a] /\ row.review = 0 /\ Len(reviews) \in Nat
  BY DEF Inv, LadderIsWinners, OnLadder, Ladder, TypeOK
<1>2. /\ ReviewsOf(a) /\ Len(reviews') = Len(reviews) + 1
      /\ reviews'[Len(reviews) + 1] = [by |-> a, comments |-> sent, texts |-> {a[1]}]
  BY <1>1, ReviewAdded
<1>3. /\ FlowOf(a) /\ pc' = [pc EXCEPT ![a] = place]
      /\ pc'[a] = place /\ UNCHANGED <<capture, commentsOf>>
  BY <1>1, GotoEffect DEF Working
<1>4. AttemptsOf(a)
  BY <1>1, <1>3 DEF TypeOK, AttemptsOf, Places, Working, Outcomes
<1>5. made'[a] = Len(reviews) + 1 /\ out'[a] = answer /\ kept' = kept
  BY <1>1, <1>3 DEF TypeOK, FlowOf
<1>6. CreatedBy(a)'
  BY <1>1, <1>2, <1>5 DEF CreatedBy
<1>7. OnLadder(a)' /\ RecordedFor(a)' /\ made'[a] <= Len(reviews')
  BY <1>1, <1>2, <1>3, <1>5 DEF OnLadder, RecordedFor
<1> QED
  BY <1>2, <1>3, <1>4, <1>6, <1>7, GoOnInv

LEMMA CreateInlineInv ==
  ASSUME Inv, NEW a \in Attempts, CreateInline(a)
  PROVE  Inv'
<1> USE DEF CreateInline
<1>1. TypeOK /\ won[a] /\ row.review = 0 /\ pc[a] = "inline" /\ a[1] \in Runs
  BY DEF Inv, LadderIsWinners, OnLadder, Ladder, Attempts
<1>2. kept[a[1]] \in SUBSET Findings /\ UNCHANGED <<row, won, findingVars>>
  BY <1>1 DEF TypeOK
<1>3. CASE PostRequest(a, kept[a[1]])
  BY <1>1, <1>2, <1>3, PostRequestInv
<1>4. CASE /\ Goto(a, "body") /\ tries' = [tries EXCEPT ![a] = 0]
           /\ UNCHANGED <<made, out, reviews>>
  <2>1. /\ FlowOf(a) /\ pc' = [pc EXCEPT ![a] = "body"]
        /\ pc'[a] = "body" /\ UNCHANGED <<capture, commentsOf>>
    BY <1>1, <1>4, GotoEffect DEF Working
  <2>2. AttemptsOf(a) /\ made'[a] <= Len(reviews')
    BY <1>1, <1>4, <2>1 DEF TypeOK, AttemptsOf, Places, Working
  <2>3. OnLadder(a)' /\ CreatedBy(a)' /\ RecordedFor(a)'
    BY <1>1, <1>2, <2>1 DEF OnLadder, CreatedBy, RecordedFor
  <2> QED
    BY <1>2, <1>4, <2>1, <2>2, <2>3, ReviewsUnchanged, GoOnInv
<1>5. CASE /\ Created(a, kept[a[1]])
           /\ made' = [made EXCEPT ![a] = Len(reviews) + 1]
           /\ out' = [out EXCEPT ![a] = "inline_posted"]
           /\ Goto(a, IF kept[a[1]] = {} THEN "record" ELSE "comments")
           /\ UNCHANGED tries
  BY <1>1, <1>2, <1>5, CreatedInv DEF Posted
<1> QED
  BY <1>3, <1>4, <1>5

LEMMA CreateBodyOnlyInv ==
  ASSUME Inv, NEW a \in Attempts, CreateBodyOnly(a)
  PROVE  Inv'
<1> USE DEF CreateBodyOnly
<1>1. TypeOK /\ won[a] /\ row.review = 0 /\ pc[a] = "body"
  BY DEF Inv, LadderIsWinners, OnLadder, Ladder
<1>2. UNCHANGED <<row, won, findingVars>>
  OBVIOUS
<1>3. CASE PostRequest(a, {})
  BY <1>1, <1>2, <1>3, PostRequestInv
<1>4. CASE /\ Goto(a, "degrade")
           /\ out' = [out EXCEPT ![a] = "degraded_unposted"]
           /\ UNCHANGED <<tries, made, reviews>>
  <2>1. /\ FlowOf(a) /\ pc' = [pc EXCEPT ![a] = "degrade"]
        /\ pc'[a] = "degrade" /\ UNCHANGED <<capture, commentsOf>>
    BY <1>1, <1>4, GotoEffect DEF Working
  <2>2. AttemptsOf(a) /\ made'[a] <= Len(reviews')
    BY <1>1, <1>4, <2>1 DEF TypeOK, AttemptsOf, Places, Working, Outcomes
  <2>3. OnLadder(a)' /\ CreatedBy(a)' /\ RecordedFor(a)'
    BY <1>1, <1>2, <2>1 DEF OnLadder, CreatedBy, RecordedFor
  <2> QED
    BY <1>2, <1>4, <2>1, <2>2, <2>3, ReviewsUnchanged, GoOnInv
<1>5. CASE /\ Created(a, {})
           /\ made' = [made EXCEPT ![a] = Len(reviews) + 1]
           /\ out' = [out EXCEPT ![a] = "body_only_posted"]
           /\ Goto(a, "record")
           /\ UNCHANGED tries
  BY <1>1, <1>2, <1>5, CreatedInv DEF Posted
<1> QED
  BY <1>3, <1>4, <1>5

LEMMA FetchCommentIdsInv ==
  ASSUME Inv, NEW a \in Attempts, FetchCommentIds(a)
  PROVE  Inv'
<1> USE DEF FetchCommentIds
<1>1. TypeOK /\ won[a] /\ row.review = 0 /\ pc[a] = "comments"
  BY DEF Inv, LadderIsWinners, OnLadder, Ladder
<1>2. UNCHANGED <<row, won, reviews, findingVars>> /\ ReviewsOf(a)
  BY ReviewsUnchanged
<1>3. CASE ThrowPlain(a) \/ ThrowWithState(a)
  BY <1>1, <1>2, <1>3, ThrowInv
<1>4. CASE Goto(a, "record") /\ UNCHANGED <<tries, made, out>>
  <2>1. /\ FlowOf(a) /\ pc' = [pc EXCEPT ![a] = "record"]
        /\ pc'[a] = "record" /\ UNCHANGED <<capture, commentsOf>>
    BY <1>1, <1>4, GotoEffect DEF Working
  <2>2. AttemptsOf(a) /\ made'[a] <= Len(reviews')
    BY <1>1, <1>2, <1>4, <2>1 DEF TypeOK, AttemptsOf, Places, Working
  <2>3. CreatedBy(a)'
    BY <1>1, <1>2, <1>4, <2>1 DEF Inv, KnowsCreated, CreatedBy, FlowOf
  <2>4. OnLadder(a)' /\ RecordedFor(a)'
    BY <1>1, <1>2, <2>1 DEF OnLadder, RecordedFor
  <2> QED
    BY <1>2, <2>1, <2>2, <2>3, <2>4, GoOnInv
<1> QED
  BY <1>3, <1>4
LEMMA PersistPhase2Inv ==
  ASSUME Inv, NEW a \in Attempts, PersistPhase2(a)
  PROVE  Inv'
<1> USE DEF PersistPhase2
<1>1. TypeOK /\ won[a] /\ row.review = 0 /\ row.claimed /\ pc[a] = "record" /\ a[1] \in Runs
  BY DEF Inv, LadderIsWinners, OnLadder, Ladder, OneWinner, Attempts
<1>2. /\ made[a] \in 1..Len(reviews) /\ out[a] \in Posted
      /\ a[1] \in reviews[made[a]].texts
      /\ out[a] = "inline_posted" => reviews[made[a]].comments = kept[a[1]]
  BY <1>1 DEF Inv, KnowsCreated, CreatedBy, TypeOK
<1>3. ReviewsOf(a) /\ Kept /\ UNCHANGED <<reviews, findingVars>>
  BY ReviewsUnchanged DEF ReviewsOf
<1>a. made[a] \in Nat /\ out[a] \in Outcomes /\ row \in Row
  BY <1>1, <1>2 DEF TypeOK, Outcomes
<1>b. row' = [row EXCEPT !.review = made[a], !.outcome = out[a]]
  OBVIOUS
<1>4. /\ row' \in Row /\ row'.review = made[a] /\ row'.outcome = out[a]
      /\ row'.claimed = row.claimed
  BY ONLY <1>a, <1>b DEF Row
<1>5. RowOf(a)
  BY <1>1, <1>2, <1>3, <1>4 DEF RowOf, Posted
<1>6. WinnersOf(a) /\ OneWinner'
  BY <1>1, <1>4 DEF Inv, TypeOK, WinnersOf, OneWinner
<1>7. CASE ThrowPlain(a)
  <2>1. /\ FlowOf(a) /\ AttemptsOf(a)
        /\ pc'[a] \in Ended /\ made'[a] = 0
        /\ UNCHANGED <<capture, commentsOf>>
    BY <1>1, <1>7, ThrowsEffect
  <2> QED
    BY <1>3, <1>5, <1>6, <2>1, EndInv
<1>8. CASE Return(a, out[a], IF out[a] = "inline_posted" THEN kept[a[1]] ELSE {})
  <2> DEFINE ids == IF out[a] = "inline_posted" THEN kept[a[1]] ELSE {}
  <2>1. ids \in SUBSET Findings /\ out[a] \in Outcomes
    BY <1>1, <1>2 DEF TypeOK, Outcomes
  <2>2. row'.review # 0 /\ a[1] \in reviews'[row'.review].texts
    BY <1>2, <1>3, <1>4
  <2>3. ids # {} => /\ ids = kept[a[1]]
                    /\ \E i \in 1..Len(reviews') : reviews'[i].comments = kept[a[1]]
    BY <1>2, <1>3
  <2>4. Return(a, out[a], ids)
    BY <1>8
  <2> HIDE DEF ids
  <2> QED
    BY <1>1, <1>3, <1>5, <1>6, <2>1, <2>2, <2>3, <2>4, ReturnInv
<1> QED
  BY <1>7, <1>8

LEMMA PersistDegradedInv ==
  ASSUME Inv, NEW a \in Attempts, PersistDegraded(a)
  PROVE  Inv'
<1> USE DEF PersistDegraded
<1>1. TypeOK /\ won[a] /\ row.review = 0 /\ row.claimed /\ pc[a] = "degrade"
  BY DEF Inv, LadderIsWinners, OnLadder, Ladder, OneWinner
<1>2. ReviewsOf(a) /\ Kept /\ UNCHANGED <<reviews, findingVars>>
  BY ReviewsUnchanged DEF ReviewsOf
<1>3. /\ row' \in Row /\ row'.review = 0 /\ row'.outcome = "degraded_unposted"
      /\ row'.claimed = row.claimed
  BY <1>1 DEF TypeOK, Row, Outcomes
<1>4. RowOf(a)
  BY <1>1, <1>2, <1>3 DEF RowOf, Kept
<1>5. WinnersOf(a) /\ OneWinner'
  BY <1>1, <1>3 DEF Inv, TypeOK, WinnersOf, OneWinner
<1>6. CASE ThrowPlain(a)
  <2>1. /\ FlowOf(a) /\ AttemptsOf(a)
        /\ pc'[a] \in Ended /\ made'[a] = 0
        /\ UNCHANGED <<capture, commentsOf>>
    BY <1>1, <1>6, ThrowsEffect
  <2> QED
    BY <1>2, <1>4, <1>5, <2>1, EndInv
<1>7. CASE Return(a, "degraded_unposted", {})
  BY <1>1, <1>2, <1>4, <1>5, <1>7, ReturnInv DEF Outcomes, Posted
<1> QED
  BY <1>6, <1>7

LEMMA ReadLostClaimInv ==
  ASSUME Inv, NEW a \in Attempts, ReadLostClaim(a)
  PROVE  Inv'
<1> USE DEF ReadLostClaim
<1>1. TypeOK /\ pc[a] = "lost"
  BY DEF Inv
<1>2. ReviewsOf(a) /\ Kept /\ UNCHANGED <<row, won, reviews, findingVars>>
  BY ReviewsUnchanged DEF ReviewsOf
<1>3. RowOf(a) /\ WinnersOf(a) /\ OneWinner'
  BY <1>2, RowUnchanged
<1>4. CASE ThrowPlain(a)
  BY <1>1, <1>2, <1>4, ThrowInv
<1>5. CASE Return(a, "degraded_unposted", {})
  BY <1>1, <1>2, <1>3, <1>5, ReturnInv DEF Outcomes, Posted
<1>6. CASE /\ row.review # 0
           /\ out' = [out EXCEPT ![a] = row.outcome]
           /\ made' = [made EXCEPT ![a] = row.review]
           /\ Goto(a, "update") /\ UNCHANGED tries
  <2>1. /\ FlowOf(a) /\ pc' = [pc EXCEPT ![a] = "update"]
        /\ pc'[a] = "update" /\ UNCHANGED <<capture, commentsOf>>
    BY <1>1, <1>6, GotoEffect DEF Working
  <2>2. row.outcome \in Posted /\ row.review \in 1..Len(reviews)
    BY <1>1, <1>6 DEF TypeOK, Row, Outcomes
  <2>3. AttemptsOf(a)
    BY <1>1, <1>6, <2>1, <2>2 DEF TypeOK, AttemptsOf, Places, Working, Outcomes
  <2>4. made'[a] = row.review /\ out'[a] = row.outcome
    BY <1>1, <1>6 DEF TypeOK
  <2>5. RecordedFor(a)'
    BY <1>2, <1>6, <2>2, <2>4 DEF RecordedFor
  <2>6. OnLadder(a)' /\ CreatedBy(a)' /\ made'[a] <= Len(reviews')
    BY <1>2, <2>1, <2>2, <2>4 DEF OnLadder, CreatedBy, Ladder
  <2> QED
    BY <1>2, <2>1, <2>3, <2>5, <2>6, GoOnInv
<1> QED
  BY <1>4, <1>5, <1>6

LEMMA UpdateReviewInv ==
  ASSUME Inv, NEW a \in Attempts, UpdateReview(a)
  PROVE  Inv'
<1> USE DEF UpdateReview
<1>1. TypeOK /\ pc[a] = "update" /\ row.review # 0 /\ made[a] = row.review /\ out[a] \in Posted
  BY DEF Inv, KnowsRecorded, RecordedFor
<1>2. made[a] \in 1..Len(reviews) /\ UNCHANGED <<row, won, findingVars>>
  BY <1>1 DEF TypeOK
<1>3. Kept /\ Len(reviews') = Len(reviews)
      /\ (TextReplaced(a) => a[1] \in reviews'[made[a]].texts)
  <2>1. CASE TextReplaced(a)
    BY <1>1, <1>2, <2>1, TextReplacedEffect DEF TypeOK
  <2>2. CASE UNCHANGED reviews /\ ~TextReplaced(a)
    BY <1>1, <2>2, KeptUnchanged DEF TypeOK
  <2> QED
    BY <2>1, <2>2
<1>4. ReviewsOf(a)
  BY <1>1, <1>3 DEF ReviewsOf, TypeOK
<1>5. RowOf(a) /\ WinnersOf(a) /\ OneWinner'
  BY <1>2, <1>3, RowUnchanged
<1>6. CASE ThrowWithState(a)
  BY <1>1, <1>2, <1>4, <1>6, ThrowInv
<1>7. CASE TextReplaced(a) /\ Return(a, out[a], {})
  <2>1. row'.review # 0 /\ a[1] \in reviews'[row'.review].texts
    BY <1>1, <1>2, <1>3, <1>7
  <2> QED
    BY <1>1, <1>2, <1>4, <1>5, <1>7, <2>1, ReturnInv DEF Outcomes
<1> QED
  BY <1>6, <1>7

\* The window passes: only the row's age changes.
LEMMA WindowPassesInv ==
  ASSUME Inv, WindowPasses
  PROVE  Inv'
<1> USE DEF Inv, WindowPasses, flowVars, attemptVars, findingVars
<1>0. /\ row' \in Row /\ row'.review = row.review /\ row'.outcome = row.outcome
      /\ row'.claimed = row.claimed
  BY DEF TypeOK, Row
<1>1. TypeOK'
  BY <1>0 DEF TypeOK
<1>2. Unscheduled' /\ OneWinner' /\ LadderIsWinners' /\ WinnerPosted'
  BY <1>0 DEF Unscheduled, OneWinner, LadderIsWinners, OnLadder, WinnerPosted
<1>3. KnowsCreated' /\ KnowsRecorded'
  BY <1>0 DEF KnowsCreated, CreatedBy, KnowsRecorded, RecordedFor
<1>4. IdsArePaired' /\ CapturedTextWasShown' /\ InlineDeliveredHasComment'
  BY <1>0 DEF IdsArePaired, Paired, CapturedTextWasShown, InlineDeliveredHasComment
<1> QED
  BY <1>1, <1>2, <1>3, <1>4

LEMMA StutterInv ==
  ASSUME Inv, UNCHANGED vars
  PROVE  Inv'
<1> USE DEF Inv, vars, flowVars, attemptVars, findingVars
<1>1. TypeOK' /\ Unscheduled' /\ OneWinner' /\ LadderIsWinners' /\ WinnerPosted'
  BY DEF TypeOK, Unscheduled, OneWinner, LadderIsWinners, OnLadder, WinnerPosted
<1>2. KnowsCreated' /\ KnowsRecorded' /\ IdsArePaired'
  BY DEF KnowsCreated, CreatedBy, KnowsRecorded, RecordedFor, IdsArePaired, Paired
<1>3. CapturedTextWasShown' /\ InlineDeliveredHasComment'
  BY DEF CapturedTextWasShown, InlineDeliveredHasComment
<1> QED
  BY <1>1, <1>2, <1>3

-----------------------------------------------------------------------------
\* Every step preserves the invariant.
LEMMA NextInv == Inv /\ [Next]_vars => Inv'
<1> SUFFICES ASSUME Inv, [Next]_vars PROVE Inv'
  OBVIOUS
<1>1. ASSUME NEW r \in Runs, RunStep(r) PROVE Inv'
  BY <1>1, PushInv, PersistAggregatedInv, ApplyArbitrationInv, StartAttemptInv, TimeOutInv,
     RecordDeliveryFinalizedInv, RecordDeliverySkippedInv, RecordDeliveryDegradedInv,
     DispatchInlineSkippedInv DEF RunStep
<1>2. ASSUME NEW a \in Attempts, AttemptStep(a) PROVE Inv'
  BY <1>2, AtomicClaimInv, CreateInlineInv, FetchCommentIdsInv, CreateBodyOnlyInv,
     PersistPhase2Inv, PersistDegradedInv, ReadLostClaimInv, UpdateReviewInv,
     TransactionFailsInv, CrashInv DEF AttemptStep
<1> QED
  BY <1>1, <1>2, WindowPassesInv, StutterInv DEF Next

LEMMA InvAlways == Spec => []Inv
<1>1. Init => Inv
  BY InitInv
<1>2. Inv /\ [Next]_vars => Inv'
  BY NextInv
<1> QED
  BY <1>1, <1>2, PTL DEF Spec

\* The variables have their types, and the IFF constraint of core.posted_reviews
\* between publication_outcome and github_review_id holds: no path of doPost
\* writes one without the other.
THEOREM TypeCorrect == Spec => []TypeOK
<1>1. Inv => TypeOK
  BY DEF Inv
<1> QED
  BY <1>1, InvAlways, PTL

\* The claim of doPost is exclusive: for any number of runs, attempts and
\* requests, all reviews of the bot were posted by the attempt that won it.
THEOREM ClaimIsExclusive == Spec => []OnlyTheWinnerPosts
<1>1. Inv => OnlyTheWinnerPosts
  <2> SUFFICES ASSUME Inv, NEW i \in 1..Len(reviews), NEW j \in 1..Len(reviews)
               PROVE  reviews[i].by = reviews[j].by
    BY DEF OnlyTheWinnerPosts
  <2>1. reviews[i] \in Review /\ reviews[j] \in Review
    BY DEF Inv, TypeOK
  <2>2. reviews[i].by \in Attempts /\ reviews[j].by \in Attempts
    BY <2>1 DEF Review
  <2> QED
    BY <2>2 DEF Inv, WinnerPosted, OneWinner
<1> QED
  BY <1>1, InvAlways, PTL

\* What captureFromPostedReview keeps is true of GitHub: a captured publication
\* outcome says that the text of this run was shown, although the review may be
\* another run's and the outcome inherited from it.
THEOREM CaptureIsTrue == Spec => []CapturedTextWasShown
<1>1. Inv => CapturedTextWasShown
  BY DEF Inv
<1> QED
  BY <1>1, InvAlways, PTL

\* recordDeliveryFinalized never marks a finding as delivered inline that has no
\* comment on GitHub: the comparison of the two lengths in
\* runLifecycleBookkeeping is all that protects it on the update path.
THEOREM InlineDeliveredIsOnGitHub == Spec => []InlineDeliveredHasComment
<1>1. Inv => InlineDeliveredHasComment
  BY DEF Inv
<1> QED
  BY <1>1, InvAlways, PTL
-----------------------------------------------------------------------------
\* With an abandoned claim no attempt is on the ladder or before a PUT.
LEMMA AbandonedIsIdle ==
  ASSUME Inv, Abandoned, NEW a \in Attempts
  PROVE  pc[a] \notin Ladder /\ pc[a] # "update"
BY DEF Inv, Abandoned, LadderIsWinners, OnLadder, Ladder, Ended, KnowsRecorded, RecordedFor

\* What keeps a claim abandoned: the row's claim and review stay, nobody wins, and
\* a winner that has ended is not started again.
LEMMA StaysAbandoned ==
  ASSUME Inv, Abandoned,
         row'.claimed = row.claimed, row'.review = row.review, UNCHANGED <<won, reviews>>,
         \A a \in Attempts : won[a] /\ pc[a] \in Ended => pc'[a] \in Ended
  PROVE  Abandoned' /\ UNCHANGED reviews
BY DEF Abandoned

LEMMA RunStepStaysAbandoned ==
  ASSUME Inv, Abandoned, NEW r \in Runs, RunStep(r)
  PROVE  Abandoned' /\ UNCHANGED reviews
<1>1. ASSUME UNCHANGED <<row, won, reviews, pc>> PROVE Abandoned' /\ UNCHANGED reviews
  BY <1>1, StaysAbandoned
<1>2. CASE StartAttempt(r)
  <2>1. ~won[<<r, attempt[r] + 1>>]
    BY <1>2 DEF StartAttempt, Inv, TypeOK, Unscheduled, Attempts
  <2>2. \A a \in Attempts : won[a] /\ pc[a] \in Ended => pc'[a] \in Ended
    BY <1>2, <2>1 DEF StartAttempt, Inv, TypeOK
  <2> QED
    BY <1>2, <2>2, StaysAbandoned DEF StartAttempt
<1>3. CASE \/ Push(r) \/ PersistAggregated(r) \/ ApplyArbitration(r) \/ TimeOut(r)
           \/ RecordDeliveryFinalized(r) \/ RecordDeliverySkipped(r)
           \/ RecordDeliveryDegraded(r) \/ DispatchInlineSkipped(r)
  BY <1>1, <1>3 DEF Push, PersistAggregated, ApplyArbitration, TimeOut,
     RecordDeliveryFinalized, RecordDeliverySkipped, RecordDeliveryDegraded,
     DispatchInlineSkipped, Bookkeeping, attemptVars
<1> QED
  BY <1>2, <1>3 DEF RunStep

LEMMA AttemptStepStaysAbandoned ==
  ASSUME Inv, Abandoned, NEW a \in Attempts, AttemptStep(a)
  PROVE  Abandoned' /\ UNCHANGED reviews
<1>1. TypeOK /\ row.claimed /\ row.review = 0
  BY DEF Inv, Abandoned
<1>2. pc[a] \notin Ladder /\ pc[a] # "update"
  BY AbandonedIsIdle
<1>3. \/ AtomicClaim(a) \/ ReadLostClaim(a) \/ TransactionFails(a) \/ Crash(a)
  BY <1>2 DEF AttemptStep, CreateInline, FetchCommentIds, CreateBodyOnly, PersistPhase2,
     PersistDegraded, UpdateReview, Ladder
<1>4. UNCHANGED <<row, won, reviews>> /\ pc[a] \notin Ended
  BY <1>1, <1>3 DEF AtomicClaim, ReadLostClaim, TransactionFails, Crash, Working, Ended
<1>5. \A b \in Attempts : b # a => pc'[b] = pc[b]
  <2>1. CASE AtomicClaim(a)
    BY <1>1, <2>1 DEF AtomicClaim, ThrowStale, Throw, Leave, Goto, TypeOK
  <2>2. CASE ReadLostClaim(a)
    BY <1>1, <2>2 DEF ReadLostClaim, ThrowPlain, Throw, Return, Leave, TypeOK
  <2>3. CASE TransactionFails(a) \/ Crash(a)
    BY <1>1, <2>3 DEF TransactionFails, ThrowPlain, Throw, Crash, Leave, TypeOK
  <2> QED
    BY <1>3, <2>1, <2>2, <2>3
<1> QED
  BY <1>4, <1>5, StaysAbandoned

\* Nobody takes over a claim whose winner has ended without a review: for every
\* retry and every later run, the row keeps its NULL id and the bot neither
\* posts nor changes a review on the pull request again.
THEOREM AbandonedForGood == Spec => AbandonedClaimIsForever
<1>1. Inv /\ [Next]_vars => [Abandoned => Abandoned' /\ UNCHANGED reviews]_vars
  <2> SUFFICES ASSUME Inv, Next, Abandoned PROVE Abandoned' /\ UNCHANGED reviews
    OBVIOUS
  <2>1. CASE WindowPasses
    <3>1. row'.claimed = row.claimed /\ row'.review = row.review
      BY <2>1 DEF WindowPasses, Inv, TypeOK, Row
    <3>2. UNCHANGED <<won, reviews, pc>>
      BY <2>1 DEF WindowPasses, attemptVars
    <3> QED
      BY <3>1, <3>2, StaysAbandoned
  <2> QED
    BY <2>1, RunStepStaysAbandoned, AttemptStepStaysAbandoned DEF Next
<1> QED
  BY <1>1, InvAlways, PTL DEF Spec, AbandonedClaimIsForever
-----------------------------------------------------------------------------
(* The implementation of BotReview *)

\* A step in which nobody wins or records shows a reader at most a new review.
LEMMA ShowsNothing ==
  ASSUME UNCHANGED <<row.claimed, won, row.review, reviews>>
  PROVE  UNCHANGED Bot!vars
BY DEF Bot!vars

\* A POST that GitHub executes, whatever becomes of its answer.
LEMMA CreatedPosts ==
  ASSUME NEW a \in Attempts, OnLadder(a), pc[a] \in Ladder, NEW sent \in SUBSET Findings,
         Created(a, sent) \/ UNCHANGED reviews, UNCHANGED <<row, won>>
  PROVE  Bot!Next \/ UNCHANGED Bot!vars
<1>1. CASE UNCHANGED reviews
  BY <1>1, ShowsNothing
<1>2. CASE Created(a, sent)
  <2>1. a \in {b \in Attempts : won[b]} /\ row.review = 0
    BY DEF OnLadder
  <2>2. Bot!Post(a, sent)
    BY <1>2, <2>1 DEF Bot!Post, Created
  <2> QED
    BY <2>1, <2>2 DEF Bot!Next
<1> QED
  BY <1>1, <1>2

\* The transaction of phase 1 claims, and makes its attempt the poster unless the
\* answer to the COMMIT is lost.
LEMMA AtomicClaimClaims ==
  ASSUME Inv, NEW a \in Attempts, AtomicClaim(a)
  PROVE  Bot!Next \/ UNCHANGED Bot!vars
<1>1. won \in [Attempts -> BOOLEAN] /\ UNCHANGED reviews
  BY DEF Inv, TypeOK, AtomicClaim
<1>2. CASE UNCHANGED <<row, won>>
  BY <1>1, <1>2, ShowsNothing
<1>3. CASE ~row.claimed /\ row' = Claim
            /\ (won' = [won EXCEPT ![a] = TRUE] \/ UNCHANGED won)
  <2>1. row.review = 0 /\ {b \in Attempts : won[b]} = {}
    BY <1>3 DEF Inv, OneWinner
  <2>2. row'.claimed = TRUE /\ row'.review = 0
    BY <1>3 DEF Claim, NoRow
  <2>3. {b \in Attempts : won'[b]} \in {{}, {a}}
    BY <1>1, <1>3, <2>1
  <2>4. Bot!Claim(a)
    BY <1>1, <1>3, <2>1, <2>2, <2>3 DEF Bot!Claim
  <2> QED
    BY <2>4 DEF Bot!Next
<1> QED
  BY <1>2, <1>3 DEF AtomicClaim

\* The transaction of phase 2 records the review that its attempt created.
LEMMA PersistRecords ==
  ASSUME Inv, NEW a \in Attempts, PersistPhase2(a)
  PROVE  Bot!Next \/ UNCHANGED Bot!vars
<1>1. won[a] /\ row.review = 0 /\ made[a] # 0 /\ made[a] \in 0..Len(reviews)
  BY DEF Inv, TypeOK, LadderIsWinners, OnLadder, Ladder, KnowsCreated, CreatedBy, PersistPhase2
<1>2. Len(reviews) \in Nat
  BY DEF Inv, TypeOK
<1>3. made[a] \in 1..Len(reviews)
  BY <1>1, <1>2
<1>4. reviews[made[a]].by = a
  <2>1. won[reviews[made[a]].by] /\ reviews[made[a]] \in Review
    BY <1>3 DEF Inv, TypeOK, WinnerPosted
  <2> QED
    BY <1>1, <2>1 DEF OneWinner, Inv, Review
<1>5. row'.review = made[a] /\ row'.claimed = row.claimed /\ UNCHANGED <<won, reviews>>
  BY DEF Inv, TypeOK, Row, PersistPhase2
<1>6. Bot!Record(a, made[a])
  BY <1>1, <1>4, <1>5 DEF Bot!Record
<1>7. a \in {b \in Attempts : won[b]}
  BY <1>1
<1> QED
  BY <1>3, <1>6, <1>7 DEF Bot!Next

\* The PUT of an attempt that lost the claim refreshes the recorded review.
LEMMA UpdateRefreshes ==
  ASSUME Inv, NEW a \in Attempts, UpdateReview(a)
  PROVE  Bot!Next \/ UNCHANGED Bot!vars
<1>1. row.review # 0 /\ made[a] = row.review /\ a[1] \in Runs
  BY DEF Inv, KnowsRecorded, RecordedFor, UpdateReview, Attempts
<1>2. UNCHANGED <<won, row>> /\ (TextReplaced(a) \/ UNCHANGED reviews)
  BY DEF UpdateReview
<1>3. CASE UNCHANGED reviews
  BY <1>2, <1>3, ShowsNothing
<1>4. CASE TextReplaced(a)
  <2>1. Bot!Refresh(a[1])
    BY <1>1, <1>2, <1>4 DEF Bot!Refresh, TextReplaced
  <2> QED
    BY <1>1, <2>1 DEF Bot!Next
<1> QED
  BY <1>2, <1>3, <1>4

\* The two POSTs of the ladder.
LEMMA LadderPosts ==
  ASSUME Inv, NEW a \in Attempts, CreateInline(a) \/ CreateBodyOnly(a)
  PROVE  Bot!Next \/ UNCHANGED Bot!vars
<1>1. OnLadder(a) /\ pc[a] \in Ladder
  BY DEF Inv, LadderIsWinners, Ladder, CreateInline, CreateBodyOnly
<1>2. kept[a[1]] \in SUBSET Findings /\ {} \in SUBSET Findings
  BY DEF Inv, TypeOK, Attempts
<1>3. \E sent \in SUBSET Findings : Created(a, sent) \/ UNCHANGED reviews
  BY <1>2 DEF CreateInline, CreateBodyOnly, PostRequest
<1>4. UNCHANGED <<row, won>>
  BY DEF CreateInline, CreateBodyOnly
<1> QED
  BY <1>1, <1>3, <1>4, CreatedPosts

\* Every step of the protocol is a step of the poster or shows nothing.
LEMMA BotStep == Inv /\ [Next]_vars => [Bot!Next]_(Bot!vars)
<1> SUFFICES ASSUME Inv, [Next]_vars PROVE Bot!Next \/ UNCHANGED Bot!vars
  OBVIOUS
<1>1. ASSUME NEW r \in Runs, RunStep(r) PROVE UNCHANGED Bot!vars
  <2>1. UNCHANGED <<row, won, reviews>>
    BY <1>1 DEF RunStep, Push, PersistAggregated, ApplyArbitration, StartAttempt, TimeOut,
       RecordDeliveryFinalized, RecordDeliverySkipped, RecordDeliveryDegraded,
       DispatchInlineSkipped, Bookkeeping, attemptVars
  <2> QED
    BY <2>1, ShowsNothing
<1>2. ASSUME NEW a \in Attempts, AttemptStep(a) PROVE Bot!Next \/ UNCHANGED Bot!vars
  <2>1. CASE FetchCommentIds(a) \/ ReadLostClaim(a) \/ TransactionFails(a) \/ Crash(a)
    <3>1. UNCHANGED <<row, won, reviews>>
      BY <2>1 DEF FetchCommentIds, ReadLostClaim, TransactionFails, Crash
    <3> QED
      BY <3>1, ShowsNothing
  <2>2. CASE PersistDegraded(a)
    <3>1. /\ row'.claimed = row.claimed /\ row'.review = row.review
          /\ UNCHANGED <<won, reviews>>
      BY <2>2 DEF PersistDegraded, Inv, TypeOK, Row
    <3> QED
      BY <3>1, ShowsNothing
  <2> QED
    BY <1>2, <2>1, <2>2, AtomicClaimClaims, PersistRecords, UpdateRefreshes, LadderPosts
    DEF AttemptStep
<1>3. ASSUME WindowPasses PROVE UNCHANGED Bot!vars
  <2>1. /\ row'.claimed = row.claimed /\ row'.review = row.review
        /\ UNCHANGED <<won, reviews>>
    BY <1>3 DEF WindowPasses, attemptVars, Inv, TypeOK, Row
  <2> QED
    BY <2>1, ShowsNothing
<1>4. ASSUME UNCHANGED vars PROVE UNCHANGED Bot!vars
  <2>1. UNCHANGED <<row, won, reviews>>
    BY <1>4 DEF vars, attemptVars
  <2> QED
    BY <2>1, ShowsNothing
<1> QED
  BY <1>1, <1>2, <1>3, <1>4 DEF Next

\* For any number of runs, attempts and requests the posting protocol, with its
\* crashes, its timeouts and its late attempts, implements BotReview: one poster,
\* no POST once a review is recorded, a recorded id that never changes, and
\* afterwards only new texts of the recorded review.
THEOREM ImplementsBotReview == Spec => BotHasOnePoster
<1>1. Init => Bot!Init
  <2> SUFFICES ASSUME Init PROVE Bot!Init
    OBVIOUS
  <2>1. row.claimed = FALSE /\ row.review = 0
    BY DEF Init, NoRow
  <2>2. {a \in Attempts : won[a]} = {} /\ reviews = <<>>
    BY DEF Init
  <2> QED
    BY <2>1, <2>2 DEF Bot!Init
<1> QED
  BY <1>1, BotStep, InvAlways, PTL DEF Spec, BotHasOnePoster, Bot!Spec
-----------------------------------------------------------------------------
(* How many reviews the bot leaves *)

\* Before the claim there is none; on a rung there are at most those of the requests
\* answered 5xx so far, and on the second also those of the first, whose last
\* request was answered 422.
InlineBudget(a) == pc[a] = "inline" => Len(reviews) <= tries[a]
BodyBudget(a) == pc[a] = "body" => Len(reviews) <= (HttpTries - 1) + tries[a]
ReviewBudget ==
  /\ (\A a \in Attempts : ~won[a]) => Len(reviews) = 0
  /\ \A a \in Attempts : InlineBudget(a) /\ BodyBudget(a)
  /\ ReviewsAreBounded

\* A step that posts nothing and brings nobody onto another rung keeps the budget.
LEMMA NothingSpent ==
  ASSUME ReviewBudget, UNCHANGED <<reviews, won>>,
         \A b \in Attempts : pc'[b] \in {"inline", "body"} => pc'[b] = pc[b] /\ tries'[b] = tries[b]
  PROVE  ReviewBudget'
BY DEF ReviewBudget, InlineBudget, BodyBudget, ReviewsAreBounded

\* An attempt that posts is alone on the ladder, before and after.
LEMMA AloneOnLadder ==
  ASSUME Inv, Inv', NEW a \in Attempts, pc[a] \in Ladder, UNCHANGED won
  PROVE  /\ won'[a]
         /\ \A b \in Attempts : b # a => pc'[b] \notin Ladder
<1>1. won[a]
  BY DEF Inv, LadderIsWinners, OnLadder
<1>2. \A b \in Attempts : b # a => ~won'[b]
  BY <1>1 DEF Inv, OneWinner
<1> QED
  BY <1>1, <1>2 DEF Inv, LadderIsWinners, OnLadder

\* The budget after a step of the attempt on the ladder is its own.
LEMMA LadderSpends ==
  ASSUME Inv, Inv', NEW a \in Attempts, pc[a] \in Ladder, UNCHANGED won,
         InlineBudget(a)', BodyBudget(a)', ReviewsAreBounded'
  PROVE  ReviewBudget'
<1>1. /\ won'[a] /\ \A b \in Attempts : b # a => pc'[b] \notin {"inline", "body"}
  BY AloneOnLadder DEF Ladder
<1> QED
  BY <1>1 DEF ReviewBudget, InlineBudget, BodyBudget

\* GitHub creates a review or does not.
LEMMA OneMore ==
  ASSUME reviews \in Seq(Review), NEW a \in Attempts, NEW sent \in SUBSET Findings,
         Created(a, sent) \/ UNCHANGED reviews
  PROVE  Len(reviews') \in {Len(reviews), Len(reviews) + 1} /\ Len(reviews) \in Nat
<1>1. Created(a, sent) => Len(reviews') = Len(reviews) + 1
  BY CreatedEffect
<1> QED
  BY <1>1

\* A throw and a return end the attempt and keep the places of all others.
LEMMA LeaveEnds ==
  ASSUME Inv, NEW a \in Attempts, NEW place \in Ended, Leave(a, place)
  PROVE  \A b \in Attempts : pc'[b] \in {"inline", "body"} => pc'[b] = pc[b] /\ tries'[b] = tries[b]
BY DEF Inv, TypeOK, Leave, Ended

LEMMA ThrowsLeave ==
  ASSUME NEW a \in Attempts, ThrowPlain(a) \/ ThrowWithState(a) \/ ThrowStale(a)
  PROVE  \E place \in Ended : Leave(a, place)
BY DEF ThrowPlain, ThrowWithState, ThrowStale, Throw, Ended

LEMMA ReturnLeaves ==
  ASSUME NEW a \in Attempts, NEW answer, NEW ids, Return(a, answer, ids)
  PROVE  \E place \in Ended : Leave(a, place)
BY DEF Return, Ended

\* The claim finds no review; the attempt that wins it begins with an empty budget.
LEMMA ClaimSpends ==
  ASSUME Inv, ReviewBudget, NEW a \in Attempts, AtomicClaim(a)
  PROVE  ReviewBudget'
<1>1. /\ pc \in [Attempts -> Places] /\ tries \in [Attempts -> 0..HttpTries - 1]
      /\ won \in [Attempts -> BOOLEAN] /\ UNCHANGED reviews
  BY DEF Inv, TypeOK, AtomicClaim
<1>2. CASE (ThrowPlain(a) \/ ThrowStale(a)) /\ UNCHANGED won
  BY <1>1, <1>2, ThrowsLeave, LeaveEnds, NothingSpent
<1>3. CASE Goto(a, "lost") /\ UNCHANGED <<tries, won>>
  BY <1>1, <1>3, NothingSpent DEF Goto
<1>4. CASE ~row.claimed /\ Goto(a, "inline") /\ won' = [won EXCEPT ![a] = TRUE]
           /\ UNCHANGED tries
  <2>1. Len(reviews') = 0
    BY <1>1, <1>4 DEF Inv, OneWinner, ReviewBudget
  <2>2. \A b \in Attempts : tries'[b] \in Nat
    BY <1>1, <1>4
  <2>3. \A b \in Attempts : InlineBudget(b)' /\ BodyBudget(b)'
    BY <2>1, <2>2 DEF InlineBudget, BodyBudget
  <2>4. ReviewsAreBounded'
    BY <2>1 DEF ReviewsAreBounded
  <2> QED
    BY <2>1, <2>3, <2>4 DEF ReviewBudget
<1> QED
  BY <1>2, <1>3, <1>4 DEF AtomicClaim

\* The requests of the first rung: the last one is not followed by another.
LEMMA InlineSpends ==
  ASSUME Inv, Inv', ReviewBudget, NEW a \in Attempts, CreateInline(a)
  PROVE  ReviewBudget'
<1>1. /\ pc[a] = "inline" /\ pc[a] \in Ladder /\ UNCHANGED won
      /\ kept[a[1]] \in SUBSET Findings
  BY DEF CreateInline, Ladder, Inv, TypeOK, Attempts
<1>2. /\ pc \in [Attempts -> Places] /\ tries \in [Attempts -> 0..HttpTries - 1]
      /\ reviews \in Seq(Review)
  BY DEF Inv, TypeOK
<1>3. Len(reviews) <= tries[a] /\ tries[a] \in 0..HttpTries - 1
  BY <1>1, <1>2 DEF ReviewBudget, InlineBudget
<1>4. Len(reviews') \in {Len(reviews), Len(reviews) + 1} /\ Len(reviews) \in Nat
  <2>1. Created(a, kept[a[1]]) \/ UNCHANGED reviews
    BY DEF CreateInline, PostRequest
  <2> QED
    BY <1>1, <1>2, <2>1, OneMore
<1>5. Len(reviews') <= HttpTries
  BY <1>3, <1>4
<1>6. ReviewsAreBounded'
  BY <1>5 DEF ReviewsAreBounded
<1>7. InlineBudget(a)' /\ BodyBudget(a)'
  <2>1. CASE tries[a] + 1 < HttpTries /\ tries' = [tries EXCEPT ![a] = @ + 1] /\ UNCHANGED pc
    <3>1. pc'[a] = "inline" /\ tries'[a] = tries[a] + 1
      BY <1>1, <1>2, <2>1
    <3> QED
      BY <1>3, <1>4, <3>1 DEF InlineBudget, BodyBudget
  <2>2. CASE ThrowWithState(a)
    <3>1. pc'[a] \in Ended
      BY <1>2, <2>2, ThrowsLeave DEF Leave
    <3> QED
      BY <3>1 DEF InlineBudget, BodyBudget, Ended
  <2>3. CASE Goto(a, "body") /\ tries' = [tries EXCEPT ![a] = 0] /\ UNCHANGED reviews
    <3>1. pc'[a] = "body" /\ tries'[a] = 0 /\ Len(reviews') = Len(reviews)
      BY <1>2, <2>3 DEF Goto
    <3> QED
      BY <1>3, <1>4, <3>1 DEF InlineBudget, BodyBudget
  <2>4. CASE \E place \in {"record", "comments"} : Goto(a, place)
    <3>1. pc'[a] \in {"record", "comments"}
      BY <1>2, <2>4 DEF Goto
    <3> QED
      BY <3>1 DEF InlineBudget, BodyBudget
  <2> QED
    BY <2>1, <2>2, <2>3, <2>4 DEF CreateInline, PostRequest
<1> QED
  BY <1>1, <1>6, <1>7, LadderSpends

\* The requests of the second rung.
LEMMA BodySpends ==
  ASSUME Inv, Inv', ReviewBudget, NEW a \in Attempts, CreateBodyOnly(a)
  PROVE  ReviewBudget'
<1>1. pc[a] = "body" /\ pc[a] \in Ladder /\ UNCHANGED won
  BY DEF CreateBodyOnly, Ladder
<1>2. /\ pc \in [Attempts -> Places] /\ tries \in [Attempts -> 0..HttpTries - 1]
      /\ reviews \in Seq(Review)
  BY DEF Inv, TypeOK
<1>3. Len(reviews) <= (HttpTries - 1) + tries[a] /\ tries[a] \in 0..HttpTries - 1
  BY <1>1, <1>2 DEF ReviewBudget, BodyBudget
<1>4. Len(reviews') \in {Len(reviews), Len(reviews) + 1} /\ Len(reviews) \in Nat
  <2>1. Created(a, {}) \/ UNCHANGED reviews
    BY DEF CreateBodyOnly, PostRequest
  <2> QED
    BY <1>2, <2>1, OneMore
<1>5. Len(reviews') <= 2 * HttpTries - 1
  BY <1>3, <1>4
<1>6. ReviewsAreBounded'
  BY <1>5 DEF ReviewsAreBounded
<1>7. InlineBudget(a)' /\ BodyBudget(a)'
  <2>1. CASE tries[a] + 1 < HttpTries /\ tries' = [tries EXCEPT ![a] = @ + 1] /\ UNCHANGED pc
    <3>1. pc'[a] = "body" /\ tries'[a] = tries[a] + 1
      BY <1>1, <1>2, <2>1
    <3> QED
      BY <1>3, <1>4, <3>1 DEF InlineBudget, BodyBudget
  <2>2. CASE ThrowWithState(a)
    <3>1. pc'[a] \in Ended
      BY <1>2, <2>2, ThrowsLeave DEF Leave
    <3> QED
      BY <3>1 DEF InlineBudget, BodyBudget, Ended
  <2>3. CASE \E place \in {"record", "degrade"} : Goto(a, place)
    <3>1. pc'[a] \in {"record", "degrade"}
      BY <1>2, <2>3 DEF Goto
    <3> QED
      BY <3>1 DEF InlineBudget, BodyBudget
  <2> QED
    BY <2>1, <2>2, <2>3 DEF CreateBodyOnly, PostRequest
<1> QED
  BY <1>1, <1>6, <1>7, LadderSpends

\* The PUT replaces a text and posts nothing.
LEMMA UpdateSpends ==
  ASSUME Inv, ReviewBudget, NEW a \in Attempts, UpdateReview(a)
  PROVE  ReviewBudget'
<1>1. UNCHANGED won /\ Len(reviews') = Len(reviews)
  BY DEF UpdateReview, TextReplaced
<1>2. \E place \in Ended : Leave(a, place)
  BY ThrowsLeave, ReturnLeaves DEF UpdateReview
<1>3. \A b \in Attempts : pc'[b] \in {"inline", "body"} => pc'[b] = pc[b] /\ tries'[b] = tries[b]
  BY <1>2, LeaveEnds
<1> QED
  BY <1>1, <1>3 DEF ReviewBudget, InlineBudget, BodyBudget, ReviewsAreBounded

\* A step of a workflow leaves the attempts, or brings one to its start.
LEMMA RunSpends ==
  ASSUME Inv, ReviewBudget, NEW r \in Runs, RunStep(r)
  PROVE  ReviewBudget'
<1>1. UNCHANGED <<reviews, won, tries>>
  BY DEF RunStep, Push, PersistAggregated, ApplyArbitration, StartAttempt, TimeOut,
     RecordDeliveryFinalized, RecordDeliverySkipped, RecordDeliveryDegraded,
     DispatchInlineSkipped, Bookkeeping, attemptVars
<1>2. pc' = pc \/ \E i : pc' = [pc EXCEPT ![i] = "start"]
  BY DEF RunStep, Push, PersistAggregated, ApplyArbitration, StartAttempt, TimeOut,
     RecordDeliveryFinalized, RecordDeliverySkipped, RecordDeliveryDegraded,
     DispatchInlineSkipped, Bookkeeping, attemptVars
<1>3. \A b \in Attempts : pc'[b] \in {"inline", "body"} => pc'[b] = pc[b] /\ tries'[b] = tries[b]
  BY <1>1, <1>2 DEF Inv, TypeOK
<1> QED
  BY <1>1, <1>3, NothingSpent

\* Every step keeps the budget.
LEMMA BudgetStep == Inv /\ Inv' /\ ReviewBudget /\ [Next]_vars => ReviewBudget'
<1> SUFFICES ASSUME Inv, Inv', ReviewBudget, [Next]_vars PROVE ReviewBudget'
  OBVIOUS
<1>1. ASSUME NEW r \in Runs, RunStep(r) PROVE ReviewBudget'
  BY <1>1, RunSpends
<1>2. ASSUME NEW a \in Attempts, AttemptStep(a) PROVE ReviewBudget'
  <2>0. pc \in [Attempts -> Places]
    BY DEF Inv, TypeOK
  <2>1. CASE FetchCommentIds(a)
    BY <2>0, <2>1, ThrowsLeave, LeaveEnds, NothingSpent DEF FetchCommentIds, Goto
  <2>2. CASE PersistPhase2(a) \/ PersistDegraded(a) \/ TransactionFails(a) \/ Crash(a)
    <3>1. UNCHANGED <<won, reviews>>
      BY <2>2 DEF PersistPhase2, PersistDegraded, TransactionFails, Crash
    <3>2. \E place \in Ended : Leave(a, place)
      BY <2>2, ThrowsLeave, ReturnLeaves
      DEF PersistPhase2, PersistDegraded, TransactionFails, Crash, Ended
    <3> QED
      BY <3>1, <3>2, LeaveEnds, NothingSpent
  <2>3. CASE ReadLostClaim(a)
    <3>1. UNCHANGED <<won, reviews>>
      BY <2>3 DEF ReadLostClaim
    <3>2. (\E place \in Ended : Leave(a, place)) \/ (Goto(a, "update") /\ UNCHANGED tries)
      BY <2>3, ThrowsLeave, ReturnLeaves DEF ReadLostClaim
    <3> QED
      BY <2>0, <3>1, <3>2, LeaveEnds, NothingSpent DEF Goto
  <2> QED
    BY <1>2, <2>1, <2>2, <2>3, ClaimSpends, InlineSpends, BodySpends, UpdateSpends
    DEF AttemptStep
<1>3. ASSUME WindowPasses \/ UNCHANGED vars PROVE ReviewBudget'
  <2>1. UNCHANGED <<reviews, won, pc, tries>>
    BY <1>3 DEF WindowPasses, vars, attemptVars
  <2> QED
    BY <2>1, NothingSpent
<1> QED
  BY <1>1, <1>2, <1>3 DEF Next

\* For any number of runs and attempts, with every crash, timeout and late answer,
\* the bot leaves at most 2 * HttpTries - 1 reviews on a pull request: what one attempt
\* can post when GitHub executes each request that it answers with a 5xx.
THEOREM FewReviews == Spec => []ReviewsAreBounded
<1>1. Init => ReviewBudget
  <2> SUFFICES ASSUME Init PROVE ReviewBudget
    OBVIOUS
  <2>1. Len(reviews) = 0 /\ \A a \in Attempts : pc[a] = "off"
    BY DEF Init
  <2>2. ReviewsAreBounded
    BY <2>1 DEF ReviewsAreBounded
  <2> QED
    BY <2>1, <2>2 DEF ReviewBudget, InlineBudget, BodyBudget
<1>2. ReviewBudget => ReviewsAreBounded
  BY DEF ReviewBudget
<1> QED
  BY <1>1, <1>2, BudgetStep, InvAlways, PTL DEF Spec
=============================================================================
