----------------------------- MODULE PostReview -----------------------------
(***************************************************************************)
(* How the runs of one pull request get their review onto GitHub: the      *)
(* claim row of core.posted_reviews, the attempts that Temporal makes of   *)
(* the activity post_review_results, the requests these send, and the      *)
(* delivery columns of core.review_findings that the workflow fills in     *)
(* afterwards.  Every attempt is a process of its own: one that Temporal   *)
(* gave up on may still be executing, and one that crashed leaves whatever *)
(* it had done.  GitHub may have executed a request whose answer is an     *)
(* error.                                                                  *)
(*                                                                         *)
(* Abstracted: the texts of the review and of its comments; which finding  *)
(* the diff classifier keeps is chosen once per run, as every attempt gets *)
(* the same input.  The lifecycle of a run (ReviewRuns) is reduced to      *)
(* which run is the current one.                                           *)
(***************************************************************************)
EXTENDS Naturals, Sequences, FiniteSets

CONSTANTS
  Runs,         \* run ids of the pull request, in the order of their webhooks
  Findings,     \* content-addressed finding ids: runs may find the same one
  MaxAttempts,  \* maximumAttempts of postReview
  HttpTries     \* MAX_5XX_RETRIES of the GitHub client

ASSUME BoundsAssumption ==
  /\ Runs \subseteq Nat \ {0} /\ IsFiniteSet(Findings)
  /\ MaxAttempts \in Nat \ {0} /\ HttpTries \in Nat \ {0}

VARIABLES
  \* the workflow of a run
  current,     \* pull_request_reviews.current_run_id, 0 before the first webhook
  stage,       \* where the workflow of a run is
  attempt,     \* attempts of post_review_results that were scheduled for a run
  kept,        \* findings of a run inside the diff, sent as inline comments
  dropped,     \* findings of a run outside the diff
  capture,     \* publication_outcome the workflow captured, "none" without one
  commentsOf,  \* the findings whose comment ids the workflow captured
  \* an attempt <<r, k>> of the activity
  pc,          \* where it is
  tries,       \* requests of the current call that were answered 5xx
  won,         \* wonClaim
  made,        \* the review that createReview returned, 0 for none
  out,         \* publication outcome to record, or the one it inherited
  \* Postgres and GitHub
  row,         \* the row of core.posted_reviews, NoRow without one
  reviews,     \* the bot's reviews on the pull request, in order of creation
  outcome,     \* review_findings.delivery_outcome, "absent" without a row
  suppressed   \* the findings with suppression_state <> 'NONE'

flowVars == <<current, stage, attempt, kept, dropped, capture, commentsOf>>
attemptVars == <<pc, tries, won, made, out>>
findingVars == <<outcome, suppressed>>
vars == <<flowVars, attemptVars, row, reviews, findingVars>>

-----------------------------------------------------------------------------
Attempts == Runs \X (1..MaxAttempts)
Posted == {"inline_posted", "body_only_posted"}
Outcomes == Posted \cup {"degraded_unposted"}

\* A review on GitHub: the attempt that posted it, the findings with an inline
\* comment, the runs whose text it has shown.
Review == [by : Attempts, comments : SUBSET Findings, texts : SUBSET Runs]

\* The row of posted_reviews, with the position of its review in reviews, 0 for a
\* NULL id.  "aged" stands for now() - posted_at >= IN_FLIGHT_WINDOW_SECONDS_DEFAULT.
Row == [claimed : BOOLEAN, review : Nat, outcome : Outcomes, aged : BOOLEAN]
NoRow == [claimed |-> FALSE, review |-> 0, outcome |-> "degraded_unposted", aged |-> FALSE]
Claim == [NoRow EXCEPT !.claimed = TRUE]

\* How an attempt has ended: Temporal got its answer, Temporal got an error with
\* the classifier's state in the details, or anything else (another error, an end
\* after Temporal had given it up, the death of the worker).
Ended == {"returned", "threw_state", "ended"}
Working == {"start", "inline", "comments", "body", "record", "degrade", "lost", "update"}
Places == {"off"} \cup Working \cup Ended

\* Where the workflow of a run is.
Stages == {"unborn", "running", "persisted", "waiting", "open", "finalize", "skip",
           "degraded", "rescue", "done", "failed"}

Open(a) == stage[a[1]] = "open" /\ attempt[a[1]] = a[2]

Present(r) == kept[r] \cup dropped[r]

Init ==
  /\ current = 0
  /\ stage = [r \in Runs |-> "unborn"]
  /\ attempt = [r \in Runs |-> 0]
  /\ kept = [r \in Runs |-> {}]
  /\ dropped = [r \in Runs |-> {}]
  /\ capture = [r \in Runs |-> "none"]
  /\ commentsOf = [r \in Runs |-> {}]
  /\ pc = [a \in Attempts |-> "off"]
  /\ tries = [a \in Attempts |-> 0]
  /\ won = [a \in Attempts |-> FALSE]
  /\ made = [a \in Attempts |-> 0]
  /\ out = [a \in Attempts |-> "none"]
  /\ row = NoRow
  /\ reviews = <<>>
  /\ outcome = [f \in Findings |-> "absent"]
  /\ suppressed = {}

-----------------------------------------------------------------------------
\* The run's workflow up to the post stage

\* A webhook allocates the next run and moves current_run_id to it.
Push(r) ==
  /\ stage[r] = "unborn" /\ current < r
  /\ current' = r
  /\ stage' = [stage EXCEPT ![r] = "running"]
  /\ UNCHANGED <<attempt, kept, dropped, capture, commentsOf, attemptVars, row,
                 reviews, findingVars>>

\* persistAggregated behind the stale-write guard: ON CONFLICT DO NOTHING keeps
\* the columns of a finding that an earlier run found.  A superseded run fails.
PersistAggregated(r) ==
  /\ stage[r] = "running"
  /\ \/ /\ current = r
        /\ \E k, d \in SUBSET Findings :
             /\ k \cap d = {}
             /\ kept' = [kept EXCEPT ![r] = k]
             /\ dropped' = [dropped EXCEPT ![r] = d]
             /\ outcome' = [f \in Findings |->
                              IF f \in k \cup d /\ outcome[f] = "absent" THEN "null"
                              ELSE outcome[f]]
        /\ stage' = [stage EXCEPT ![r] = "persisted"]
     \/ /\ current # r
        /\ stage' = [stage EXCEPT ![r] = "failed"]
        /\ UNCHANGED <<kept, dropped, outcome>>
  /\ UNCHANGED <<current, attempt, capture, commentsOf, attemptVars, row, reviews,
                 suppressed>>

\* applyArbitration writes one decision per statement and is fail-open, so any
\* part of the decisions may have been written.  The CHECK of the table refuses
\* to suppress a finding that was delivered inline.
ApplyArbitration(r) ==
  /\ stage[r] = "persisted"
  /\ \E written \in SUBSET Present(r) : \E hidden \in SUBSET written :
       /\ \A f \in hidden : outcome[f] # "inline_delivered"
       /\ suppressed' = (suppressed \ written) \cup hidden
  /\ stage' = [stage EXCEPT ![r] = "waiting"]
  /\ UNCHANGED <<current, attempt, kept, dropped, capture, commentsOf, attemptVars,
                 row, reviews, outcome>>

-----------------------------------------------------------------------------
\* Temporal and the activity

\* Temporal schedules the next attempt.
StartAttempt(r) ==
  /\ stage[r] = "waiting" /\ attempt[r] < MaxAttempts
  /\ attempt' = [attempt EXCEPT ![r] = @ + 1]
  /\ stage' = [stage EXCEPT ![r] = "open"]
  /\ pc' = [pc EXCEPT ![<<r, attempt[r] + 1>>] = "start"]
  /\ UNCHANGED <<current, kept, dropped, capture, commentsOf, tries, won, made, out,
                 row, reviews, findingVars>>

\* What the workflow gets when the last attempt has failed: only that attempt's
\* failure, and with it the dropped findings if it carries them.
AfterFailure(r, carries) ==
  IF attempt[r] < MaxAttempts THEN "waiting" ELSE IF carries THEN "rescue" ELSE "failed"

\* start_to_close runs out.  The attempt itself may still be executing.
TimeOut(r) ==
  /\ stage[r] = "open"
  /\ stage' = [stage EXCEPT ![r] = AfterFailure(r, FALSE)]
  /\ UNCHANGED <<current, attempt, kept, dropped, capture, commentsOf, attemptVars, row,
                 reviews, findingVars>>

\* An attempt ends; what it knew of its requests is gone.
Leave(a, place) ==
  /\ pc' = [pc EXCEPT ![a] = place]
  /\ tries' = [tries EXCEPT ![a] = 0]
  /\ made' = [made EXCEPT ![a] = 0]

\* The worker of an attempt dies.
Crash(a) ==
  /\ pc[a] \in Working
  /\ Leave(a, "ended")
  /\ out' = [out EXCEPT ![a] = "none"]
  /\ UNCHANGED <<flowVars, won, row, reviews, findingVars>>

\* An attempt throws: retried by Temporal unless it is the last one or the
\* error's type is not retryable.  Nobody hears of it after a timeout.
Throw(a, how, next) ==
  /\ Leave(a, IF Open(a) THEN how ELSE "ended")
  /\ out' = [out EXCEPT ![a] = "none"]
  /\ stage' = [stage EXCEPT ![a[1]] = IF Open(a) THEN next ELSE @]
  /\ UNCHANGED <<current, attempt, kept, dropped, capture, commentsOf>>

ThrowPlain(a) == Throw(a, "ended", AfterFailure(a[1], FALSE))
ThrowWithState(a) == Throw(a, "threw_state", AfterFailure(a[1], TRUE))
ThrowStale(a) == Throw(a, "ended", "failed")

\* An attempt returns a PostedReviewV1, which captureFromPostedReview keeps.
Return(a, answer, ids) ==
  /\ Leave(a, IF Open(a) THEN "returned" ELSE "ended")
  /\ out' = [out EXCEPT ![a] = answer]
  /\ stage' = [stage EXCEPT ![a[1]] = IF Open(a) THEN "finalize" ELSE @]
  /\ capture' = [capture EXCEPT ![a[1]] = IF Open(a) THEN answer ELSE @]
  /\ commentsOf' = [commentsOf EXCEPT ![a[1]] = IF Open(a) THEN ids ELSE @]
  /\ UNCHANGED <<current, attempt, kept, dropped>>

\* An attempt goes on to the next place.
Goto(a, place) ==
  /\ pc' = [pc EXCEPT ![a] = place]
  /\ UNCHANGED flowVars

\* A transaction of the attempt fails and leaves nothing behind.
TransactionFails(a) ==
  /\ pc[a] \in {"start", "lost", "record", "degrade"}
  /\ ThrowPlain(a)
  /\ UNCHANGED <<won, row, reviews, findingVars>>

-----------------------------------------------------------------------------
\* doPost

\* Phase 1: the guard and the INSERT .. ON CONFLICT DO NOTHING, one transaction.
\* If the answer to its COMMIT is lost, the row is there and the attempt fails.
AtomicClaim(a) ==
  /\ pc[a] = "start"
  /\ \/ /\ current # a[1]
        /\ ThrowStale(a)
        /\ UNCHANGED <<row, won>>
     \/ /\ current = a[1] /\ ~row.claimed
        /\ row' = Claim
        /\ \/ /\ Goto(a, "inline")
              /\ won' = [won EXCEPT ![a] = TRUE]
              /\ UNCHANGED <<tries, made, out>>
           \/ ThrowPlain(a) /\ UNCHANGED won
     \/ /\ current = a[1] /\ row.claimed
        /\ Goto(a, "lost")
        /\ UNCHANGED <<row, tries, won, made, out>>
  /\ UNCHANGED <<reviews, findingVars>>

\* GitHub executes the POST: a review with comments on the findings sent.
Created(a, sent) ==
  reviews' = Append(reviews, [by |-> a, comments |-> sent, texts |-> {a[1]}])

\* The POST of createReview, seen from one attempt; "sent" are the findings with
\* an inline comment in the payload.
PostRequest(a, sent) ==
  \/ \* A 5xx, whether or not GitHub created the review: sent again by the
     \* client, HttpTries times in all.
     /\ Created(a, sent) \/ UNCHANGED reviews
     /\ tries[a] + 1 < HttpTries
     /\ tries' = [tries EXCEPT ![a] = @ + 1]
     /\ UNCHANGED <<flowVars, pc, made, out>>
  \/ \* The last 5xx or any error but 422: no connection, 401, 403, 404, or the
     \* answer to the created review says that the rate limit is used up.
     /\ Created(a, sent) \/ UNCHANGED reviews
     /\ ThrowWithState(a)

\* First rung of attemptCreateWithBodyOnlyFallback: POST with inline comments.
\* Without any comment the client skips the GET of their ids.
CreateInline(a) ==
  /\ pc[a] = "inline"
  /\ \/ PostRequest(a, kept[a[1]])
     \/ \* 422: the next rung
        /\ Goto(a, "body")
        /\ tries' = [tries EXCEPT ![a] = 0]
        /\ UNCHANGED <<made, out, reviews>>
     \/ /\ Created(a, kept[a[1]])
        /\ made' = [made EXCEPT ![a] = Len(reviews) + 1]
        /\ out' = [out EXCEPT ![a] = "inline_posted"]
        /\ Goto(a, IF kept[a[1]] = {} THEN "record" ELSE "comments")
        /\ UNCHANGED tries
  /\ UNCHANGED <<won, row, findingVars>>

\* The follow-up GET of the comment ids.  A failing GET is a ladder failure; a
\* list of another length than the payload is thrown outside the ladder's try.
FetchCommentIds(a) ==
  /\ pc[a] = "comments"
  /\ \/ Goto(a, "record") /\ UNCHANGED <<tries, made, out>>
     \/ ThrowWithState(a)
     \/ ThrowPlain(a)
  /\ UNCHANGED <<won, row, reviews, findingVars>>

\* Second rung: the same body without comments.
CreateBodyOnly(a) ==
  /\ pc[a] = "body"
  /\ \/ PostRequest(a, {})
     \/ \* the second 422
        /\ Goto(a, "degrade")
        /\ out' = [out EXCEPT ![a] = "degraded_unposted"]
        /\ UNCHANGED <<tries, made, reviews>>
     \/ /\ Created(a, {})
        /\ made' = [made EXCEPT ![a] = Len(reviews) + 1]
        /\ out' = [out EXCEPT ![a] = "body_only_posted"]
        /\ Goto(a, "record")
        /\ UNCHANGED tries
  /\ UNCHANGED <<won, row, findingVars>>

\* Phase 2: persist the review's id and outcome, then return.  The failure is a
\* lost answer to the COMMIT.
PersistPhase2(a) ==
  /\ pc[a] = "record"
  /\ row' = [row EXCEPT !.review = made[a], !.outcome = out[a]]
  /\ \/ Return(a, out[a], IF out[a] = "inline_posted" THEN kept[a[1]] ELSE {})
     \/ ThrowPlain(a)
  /\ UNCHANGED <<won, reviews, findingVars>>

\* After two 422s: the outcome is written, github_review_id stays NULL.
PersistDegraded(a) ==
  /\ pc[a] = "degrade"
  /\ row' = [row EXCEPT !.outcome = "degraded_unposted"]
  /\ Return(a, "degraded_unposted", {}) \/ ThrowPlain(a)
  /\ UNCHANGED <<won, reviews, findingVars>>

\* Mutant: a retry takes a claim over whose winner did not record a review.
ReadLostClaimTakesOver(a) ==
  /\ pc[a] = "lost"
  /\ \/ row.review = 0 /\ Goto(a, "inline") /\ UNCHANGED <<made, out>>
     \/ /\ row.review # 0
        /\ out' = [out EXCEPT ![a] = row.outcome]
        /\ made' = [made EXCEPT ![a] = row.review]
        /\ Goto(a, "update")
  /\ UNCHANGED <<tries, won, row, reviews, findingVars>>

\* The SELECT of an attempt that lost the claim, which may be its own run's: a
\* NULL id within the window is taken for a creation in progress, afterwards for
\* a winner that got two 422s.
ReadLostClaim(a) ==
  /\ pc[a] = "lost"
  /\ \/ /\ row.review = 0 /\ ~row.aged
        /\ ThrowPlain(a)
     \/ /\ row.review = 0 /\ row.aged
        /\ Return(a, "degraded_unposted", {})
     \/ /\ row.review # 0
        /\ out' = [out EXCEPT ![a] = row.outcome]
        /\ made' = [made EXCEPT ![a] = row.review]
        /\ Goto(a, "update")
        /\ UNCHANGED tries
  /\ UNCHANGED <<won, row, reviews, findingVars>>

\* GitHub executes the PUT: the review shows the text of this run.
TextReplaced(a) == reviews' = [reviews EXCEPT ![made[a]].texts = @ \cup {a[1]}]

\* Mutant: the update path reports the prior outcome without sending its text.
UpdateReviewSkipped(a) ==
  /\ pc[a] = "update"
  /\ Return(a, out[a], {})
  /\ UNCHANGED <<won, row, reviews, findingVars>>

\* The PUT of the new body (sending it again after a 5xx changes nothing more);
\* the caller gets the inherited outcome and no comment ids.
UpdateReview(a) ==
  /\ pc[a] = "update"
  /\ \/ TextReplaced(a) /\ Return(a, out[a], {})
     \/ (TextReplaced(a) \/ UNCHANGED reviews) /\ ThrowWithState(a)
  /\ UNCHANGED <<won, row, findingVars>>

\* The window is longer than start_to_close: when it is over, Temporal has given
\* up on, or heard of, the attempt that holds the claim.
WindowPasses ==
  /\ row.claimed /\ ~row.aged
  /\ \A a \in Attempts : won[a] => ~Open(a)
  /\ row' = [row EXCEPT !.aged = TRUE]
  /\ UNCHANGED <<flowVars, attemptVars, reviews, findingVars>>

-----------------------------------------------------------------------------
\* runLifecycleBookkeeping and the rescue of the dropped findings.  Every
\* dispatch is best-effort: it may leave the rows as they are, and with the kill
\* switch CODEMASTER_LIFECYCLE_WRITES_ENABLED off it always does.

\* The setters: only rows without an outcome and without suppression flip.
Flip(fs, value) ==
  outcome' = [f \in Findings |->
                IF f \in fs /\ outcome[f] = "null" /\ f \notin suppressed THEN value
                ELSE outcome[f]]

BestEffort(fs, value) == Flip(fs, value) \/ UNCHANGED outcome

Bookkeeping(r, from, to) ==
  /\ stage[r] = from
  /\ stage' = [stage EXCEPT ![r] = to]
  /\ UNCHANGED <<current, attempt, kept, dropped, capture, commentsOf, attemptVars, row,
                 reviews, suppressed>>

\* Mutant: the lengths of the ids and the findings are not compared.
FinalizeUnpaired(r) ==
  /\ Bookkeeping(r, "finalize", "skip")
  /\ IF capture[r] = "inline_posted" THEN BestEffort(kept[r], "inline_delivered")
     ELSE UNCHANGED outcome

\* recordDeliveryFinalized: only when there is a comment id for every finding.
RecordDeliveryFinalized(r) ==
  /\ Bookkeeping(r, "finalize", "skip")
  /\ IF capture[r] = "inline_posted"
        /\ Cardinality(kept[r]) = Cardinality(commentsOf[r])
     THEN BestEffort(kept[r], "inline_delivered")
     ELSE UNCHANGED outcome

\* recordDeliverySkipped: the findings outside the diff.
RecordDeliverySkipped(r) ==
  /\ Bookkeeping(r, "skip", "degraded")
  /\ BestEffort(dropped[r], "not_applicable")

\* recordDeliveryDegraded with the value of resolveDegradedPayload.
RecordDeliveryDegraded(r) ==
  /\ Bookkeeping(r, "degraded", "done")
  /\ CASE capture[r] = "body_only_posted" -> BestEffort(kept[r], "body_only_fallback")
       [] capture[r] = "degraded_unposted" -> BestEffort(kept[r], "failed")
       [] OTHER -> UNCHANGED outcome

\* dispatchInlineSkippedLifecycle before the failure propagates.
DispatchInlineSkipped(r) ==
  /\ Bookkeeping(r, "rescue", "failed")
  /\ BestEffort(dropped[r], "not_applicable")

-----------------------------------------------------------------------------
RunStep(r) ==
  \/ Push(r)
  \/ PersistAggregated(r)
  \/ ApplyArbitration(r)
  \/ StartAttempt(r)
  \/ TimeOut(r)
  \/ RecordDeliveryFinalized(r)
  \/ RecordDeliverySkipped(r)
  \/ RecordDeliveryDegraded(r)
  \/ DispatchInlineSkipped(r)

AttemptStep(a) ==
  \/ AtomicClaim(a)
  \/ CreateInline(a)
  \/ FetchCommentIds(a)
  \/ CreateBodyOnly(a)
  \/ PersistPhase2(a)
  \/ PersistDegraded(a)
  \/ ReadLostClaim(a)
  \/ UpdateReview(a)
  \/ TransactionFails(a)
  \/ Crash(a)

Next ==
  \/ \E r \in Runs : RunStep(r)
  \/ \E a \in Attempts : AttemptStep(a)
  \/ WindowPasses

Spec == Init /\ [][Next]_vars

-----------------------------------------------------------------------------
\* The tables, the rows of the attempts and the IFF constraint of posted_reviews.
TypeOK ==
  /\ current \in Runs \cup {0}
  /\ stage \in [Runs -> Stages]
  /\ attempt \in [Runs -> 0..MaxAttempts]
  /\ kept \in [Runs -> SUBSET Findings]
  /\ dropped \in [Runs -> SUBSET Findings]
  /\ capture \in [Runs -> Outcomes \cup {"none"}]
  /\ commentsOf \in [Runs -> SUBSET Findings]
  /\ pc \in [Attempts -> Places]
  /\ tries \in [Attempts -> 0..HttpTries - 1]
  /\ won \in [Attempts -> BOOLEAN]
  /\ made \in [Attempts -> 0..Len(reviews)]
  /\ out \in [Attempts -> Outcomes \cup {"none"}]
  /\ row \in Row /\ row.review <= Len(reviews)
  /\ row.outcome = "degraded_unposted" <=> row.review = 0
  /\ reviews \in Seq(Review)
  /\ outcome \in [Findings -> {"absent", "null", "inline_delivered", "not_applicable",
                               "body_only_fallback", "failed"}]
  /\ suppressed \subseteq Findings

\* The row and the attempts as the poster of BotReview.
Bot == INSTANCE BotReview WITH
         Posters <- Attempts,
         claimed <- row.claimed,
         posters <- {a \in Attempts : won[a]},
         recorded <- row.review

\* Every interleaving of attempts, also of those that Temporal has given up on or
\* that belong to an overtaken run, shows the pull request one poster, which posts
\* only until a review is recorded; the recorded id never changes, and whoever
\* comes later refreshes the text of that review and touches no other.
BotHasOnePoster == Bot!Spec

\* However often Temporal retries and however late an attempt goes on, all
\* reviews of the bot on the pull request were posted by one attempt ("two
\* concurrent Temporal retries cannot both POST").  That attempt may have posted
\* more than one: the client sends a POST again after a 5xx.
OnlyTheWinnerPosts ==
  \A i, j \in 1..Len(reviews) : reviews[i].by = reviews[j].by

\* The price of sending a POST again after a 5xx: over all attempts of all runs the
\* bot leaves at most the reviews of one attempt's two rungs on the pull request,
\* whose last one took no 422.  Without resending, it leaves one.
ReviewsAreBounded == Len(reviews) <= 2 * HttpTries - 1

\* A finding that the database calls delivered inline has a comment on GitHub, in
\* a review of the bot, although a later run that only replaced the text of the
\* review captures the same publication outcome.
InlineDeliveredHasComment ==
  \A f \in Findings : outcome[f] = "inline_delivered" =>
    \E i \in 1..Len(reviews) : f \in reviews[i].comments

\* A run whose workflow was told that its review is posted had its own text on
\* the pull request, in the review that the row names.
CapturedTextWasShown ==
  \A r \in Runs : capture[r] \in Posted =>
    row.review # 0 /\ r \in reviews[row.review].texts

\* Nobody takes over a claim: if the attempt that won it has ended without
\* recording a review, the row stays as it is, and no review is posted or changed
\* any more, for this run and for all later ones of the pull request.
Abandoned ==
  /\ row.claimed /\ row.review = 0
  /\ \A a \in Attempts : won[a] => pc[a] \in Ended

AbandonedClaimIsForever ==
  [][Abandoned => Abandoned' /\ UNCHANGED reviews]_vars

\* The comment of the lost path: a NULL id past the window means that "the prior
\* winner double-422'd and left the row NULL by design".
DegradedAnswerMeansTwo422 ==
  \A a \in Attempts :
    (pc[a] = "returned" /\ out[a] = "degraded_unposted" /\ ~won[a]) =>
      \E b \in Attempts : won[b] /\ out[b] = "degraded_unposted"

\* The comment of the ladder's try: a failed ladder hands the classifier's state
\* to the workflow, so that the dropped findings do not stay without an outcome
\* for ever.  Of a run that was not superseded: if the ladder failed in one of its
\* attempts, the failure that ends the run is such a failure.
LadderFailureReachesWorkflow ==
  \A r \in Runs :
    (/\ stage[r] = "failed" /\ current = r
     /\ \E k \in 1..MaxAttempts : pc[<<r, k>>] = "threw_state")
    => pc[<<r, attempt[r]>>] = "threw_state"
=============================================================================
