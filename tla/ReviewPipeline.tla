--------------------------- MODULE ReviewPipeline ---------------------------
(***************************************************************************)
(* orchestrate: the stages of one review between the accepted claim and    *)
(* its result, as the single workflow thread runs them over activities.    *)
(*                                                                         *)
(* The thread awaits one activity, a pair (steps 3 and 9) or the fan-out   *)
(* over the chunks.  An activity it no longer awaits goes on.  The claim   *)
(* may be lost and the workflow cancelled between any two steps.           *)
(***************************************************************************)
EXTENDS Integers, FiniteSets, Sequences, SequencesExt, FiniteSetsExt

CONSTANTS
  N,             \* chunks of the diff, in input order
  Concurrency,   \* ctx.limits.chunkConcurrency
  MaxChunks,     \* MAX_CHUNKS_PER_REVIEW
  MaxInline,     \* MAX_INLINE_FINDINGS
  Notice,        \* the config-change notice, or the advisory of excluded paths
  Absent,        \* no value
  MaxFaults      \* bound: stages that fail in one run

Chunk == 1 .. N

\* A chunk yields at most one finding, named by it; 0 is the linter's.
Finding == {0, Notice} \cup Chunk

ASSUME PipelineAssumption ==
  /\ N \in Nat /\ MaxChunks \in Nat /\ MaxInline \in Nat /\ MaxFaults \in Nat
  /\ Concurrency \in Nat \ {0}
  /\ Notice \notin Nat /\ Absent \notin Nat \cup {Notice}

VARIABLES
  pc,          \* the stage the workflow thread is at, or awaits
  outcome,     \* how orchestrate left its try block: none, accepted, failed, cancelled
  claim,       \* this run holds the lease of the pull request
  cancelled,   \* Temporal cancelled the workflow
  faults,      \* stages that failed so far
  workspace,   \* the clone on the worker: none, cloned or removed
  notes,       \* state.degradation
  policy,      \* state.policyBundles is not empty
  pair,        \* the members of step 3 and of step 9
  chunk,       \* chunk[c]: where the invocation for chunk c is
  aborted,     \* the fan-out's flag
  found,       \* findings collected before aggregation
  findings,    \* aggregated.findings
  semantic,    \* dedupe_stats.semantic_skipped of the aggregation
  metadata,    \* state.inlinePostFilterMetadata: the findings its rows are about
  rows,        \* core.review_findings: what persistReviewFindings wrote
  ids,         \* state.persistedFindingIds: the rows as the thread knows them
  walkthrough, \* [findings, note]: what generateWalkthrough rendered
  github,      \* [review, placeholder]: what the pull request shows
  skipped      \* the rows record_delivery_skipped flipped, dropped: those it was for

control == <<pc, outcome, claim, cancelled, faults>>
fan == <<chunk, aborted>>
result == <<found, findings, semantic, metadata>>
stored == <<rows, ids, walkthrough, github, skipped>>
pipelineVars == <<control, workspace, notes, policy, pair, fan, result, stored>>

Stages == {"clone", "config", "policy", "classify", "advisory", "prepare", "select", "fanOut",
           "dedup", "aggregate", "citation", "persist", "arbitrate", "walkthrough",
           "persistWalkthrough", "post", "settle", "cleanup", "ended"}
Checked == {"clone", "classify", "advisory", "aggregate", "post"}
Members == {"chunkAndRedact", "staticAnalysis", "postReview", "postCheckRun"}
Notes == {"policy", "classifier", "static", "carryForward", "chunksCapped", "dedup",
          "citation", "persist", "arbitration", "walkthrough", "pathFilters", "checkRun",
          "cleanup"}
InFlight == {"context", "review", "audit"}
Row == [finding : Finding, metadata : Finding \cup {Absent}]

PipelineTypeOK ==
  /\ pc \in [stage : Stages, checked : BOOLEAN]
  /\ outcome \in {"none", "accepted", "threw"}
  /\ {claim, cancelled, policy, aborted, semantic} \subseteq BOOLEAN
  /\ faults \in 0 .. MaxFaults
  /\ workspace \in {"none", "cloned", "removed"}
  /\ notes \subseteq Notes
  /\ pair \in [Members -> {"idle", "running", "posted", "ok", "failed"}]
  /\ chunk \in [Chunk -> InFlight \cup {"notDue", "due", "done", "failed"}]
  /\ found \subseteq Finding
  /\ findings \in Seq(Finding)
  /\ metadata = Absent \/ metadata \in Seq(Finding)
  /\ ids \in Seq(Row) /\ rows \subseteq Row
  /\ {skipped.rows, skipped.dropped} \subseteq SUBSET Finding

PipelineInit ==
  /\ pc = [stage |-> "clone", checked |-> FALSE]
  /\ outcome = "none" /\ claim = TRUE /\ cancelled = FALSE /\ faults = 0
  /\ workspace = "none" /\ notes = {} /\ policy = FALSE
  /\ pair = [m \in Members |-> "idle"]
  /\ chunk = [c \in Chunk |-> "notDue"] /\ aborted = FALSE
  /\ found = {} /\ findings = <<>> /\ semantic = FALSE /\ metadata = Absent
  /\ rows = {} /\ ids = <<>>
  /\ walkthrough = Absent
  /\ github = [review |-> Absent, placeholder |-> TRUE]
  /\ skipped = [rows |-> {}, dropped |-> {}]

-----------------------------------------------------------------------------
(* The workflow thread. *)

\* The thread is at a stage, whose claim check has passed if it has one.
At(stage) == pc = [stage |-> stage, checked |-> stage \in Checked]
Goto(stage) == pc' = [stage |-> stage, checked |-> FALSE]

Fault == faults < MaxFaults /\ faults' = faults + 1
NoFault == UNCHANGED faults
Note(ns) == notes' = notes \cup ns

\* An exception leaves the try block, once the clone has armed it, for the cleanup.
Throw == outcome' = "threw" /\ Goto(IF workspace = "none" THEN "ended" ELSE "cleanup")
Proceed(stage) == Goto(stage) /\ UNCHANGED outcome

\* A stage without a fallback, and one whose failure stageOutcome swallows with a note.
MustDo(stage) == (NoFault /\ Proceed(stage)) \/ (Fault /\ Throw)
FailOpen(stage, note) ==
  /\ Proceed(stage)
  /\ (NoFault /\ UNCHANGED notes) \/ (Fault /\ Note({note}))

\* abortIfClaimLost, at the stages that begin with it.
ClaimCheck ==
  /\ pc.stage \in Checked /\ ~pc.checked
  /\ \/ claim /\ NoFault /\ pc' = [pc EXCEPT !.checked = TRUE] /\ UNCHANGED outcome
     \/ ~claim /\ NoFault /\ Throw
     \/ Fault /\ Throw
  /\ UNCHANGED <<claim, cancelled, workspace, notes, policy, pair, fan, result, stored>>

-----------------------------------------------------------------------------
(* Steps 1 to 4. *)

Clone ==
  /\ At("clone") /\ MustDo("config")
  /\ workspace' = IF pc'.stage = "config" THEN "cloned" ELSE workspace
  /\ UNCHANGED <<claim, cancelled, notes, policy, pair, fan, result, stored>>

LoadRepoConfig ==
  /\ At("config") /\ MustDo("policy")
  /\ UNCHANGED <<claim, cancelled, workspace, notes, policy, pair, fan, result, stored>>

\* On a failure the bundles stay empty; they may be empty without one.
ComputePolicyRules ==
  /\ At("policy") /\ FailOpen("classify", "policy")
  /\ policy' \in (IF faults' = faults THEN BOOLEAN ELSE {FALSE})
  /\ UNCHANGED <<claim, cancelled, workspace, pair, fan, result, stored>>

\* filterReviewPaths may leave none of the review files.
Classify ==
  /\ At("classify")
  /\ \/ NoFault /\ (\E stage \in {"prepare", "advisory"} : Proceed(stage)) /\ UNCHANGED notes
     \/ Fault /\ Proceed("prepare") /\ Note({"classifier"})
     \/ Fault /\ Throw /\ UNCHANGED notes
  /\ pair' = IF pc'.stage = "prepare"
             THEN [pair EXCEPT !["chunkAndRedact"] = "running", !["staticAnalysis"] = "running"]
             ELSE pair
  /\ UNCHANGED <<claim, cancelled, workspace, policy, fan, result, stored>>

\* A member of step 3 ends.  Promise.all waits for both and rejects with the first that fails.
PrepareEnds(m) ==
  /\ pair[m] = "running" /\ m \in {"chunkAndRedact", "staticAnalysis"}
  /\ \E end \in {"ok", "failed"} :
       /\ pair' = [pair EXCEPT ![m] = end]
       /\ IF end = "ok" THEN NoFault ELSE Fault
  /\ IF ~At("prepare") THEN UNCHANGED <<pc, outcome, notes>>
     ELSE IF pair'[m] = "failed" THEN Throw /\ UNCHANGED notes
     ELSE IF pair'["chunkAndRedact"] = "ok" /\ pair'["staticAnalysis"] = "ok"
       THEN Proceed("select") /\ Note({}) ELSE UNCHANGED <<pc, outcome, notes>>
  /\ UNCHANGED <<claim, cancelled, workspace, policy, fan, result, stored>>

First(n, S) == {c \in S : Cardinality({d \in S : d < c}) < n}

\* The chunks to review are due, and the pool takes the first of them at once.
StartFanOut(S) ==
  /\ chunk' = [c \in Chunk |-> IF c \in First(Concurrency, S) THEN "context"
                               ELSE IF c \in S THEN "due" ELSE "notDue"]
  /\ Proceed(IF S = {} THEN "dedup" ELSE "fanOut")

\* The selector carries the findings of the chunks it leaves out; its fallback reviews every chunk.
SelectCarryForward ==
  /\ At("select")
  /\ \E S \in SUBSET Chunk :
       /\ \/ NoFault /\ \E carried \in SUBSET (Chunk \ S) : found' = carried
          \/ Fault /\ S = Chunk /\ found' = {}
       /\ StartFanOut(First(MaxChunks, S))
       /\ Note((IF faults' = faults THEN {} ELSE {"carryForward"}) \cup
               (IF Cardinality(S) > MaxChunks THEN {"chunksCapped"} ELSE {}))
  /\ UNCHANGED <<claim, cancelled, workspace, policy, pair, aborted, findings, semantic,
                 metadata, stored>>

-----------------------------------------------------------------------------
(* Step 5: fanOutReview. *)

\* The worker that is through with chunk c takes the next one unless a peer has failed.
PullNext(c) ==
  LET due == {d \in Chunk : chunk[d] = "due"}
      next == IF aborted THEN {} ELSE First(1, due)
  IN  chunk' = [d \in Chunk |-> IF d = c THEN "done" ELSE IF d \in next THEN "context" ELSE chunk[d]]

\* buildChunkContext: the query vector and the knowledge fail open, the evidence does not.
\* Then reviewChunk, then the audit of a sanitised answer.
ChunkAdvances(c) ==
  /\ \/ chunk[c] = "context" /\ chunk' = [chunk EXCEPT ![c] = "review"]
     \/ chunk[c] = "review" /\ chunk' = [chunk EXCEPT ![c] = "audit"]
  /\ UNCHANGED <<control, workspace, notes, policy, pair, aborted, result, stored>>

\* The last one resolves the fan-out, whose slots are then gone.
ChunkDone(c) ==
  /\ chunk[c] \in {"review", "audit"}
  /\ found' \in {found, found \cup {c}}
  /\ IF At("fanOut") /\ \A d \in Chunk \ {c} : chunk[d] \in {"notDue", "done"}
       THEN Proceed("dedup") /\ chunk' = [d \in Chunk |-> "notDue"]
       ELSE PullNext(c) /\ UNCHANGED <<pc, outcome>>
  /\ UNCHANGED <<claim, cancelled, faults, workspace, notes, policy, pair, aborted, findings,
                 semantic, metadata, stored>>

\* The worker raises the flag and ends.  The first failure rejects the whole fan-out.
ChunkFails(c) ==
  /\ chunk[c] \in InFlight /\ Fault
  /\ chunk' = [chunk EXCEPT ![c] = "failed"]
  /\ aborted' = TRUE
  /\ IF At("fanOut") THEN Throw ELSE UNCHANGED <<pc, outcome>>
  /\ UNCHANGED <<claim, cancelled, workspace, notes, policy, pair, result, stored>>

-----------------------------------------------------------------------------
(* Steps 6 to 8. *)

\* The linter's finding may survive beside those of the chunks; a chunk's may be merged away.
DedupFindings ==
  /\ At("dedup") /\ MustDo("aggregate")
  /\ found' \in SUBSET (found \cup {0})
  /\ notes' \in {notes, notes \cup {"dedup"}}
  /\ UNCHANGED <<claim, cancelled, workspace, policy, pair, fan, findings, semantic, metadata,
                 stored>>

\* A list in the order of the ranking, or of the list it was taken from.
Ranked(f) == \A i, j \in DOMAIN f : i < j => f[i] < f[j]

\* aggregate ranks, drops and caps; the cap of the workflow, the notice and the policy filter
\* follow before the thread awaits again.  The filter keeps one row of metadata per finding.
Aggregate ==
  /\ At("aggregate") /\ MustDo("citation")
  /\ \E n \in 0 .. MaxInline, notice \in {<<>>, <<Notice>>} : \E top \in [1 .. n -> found] :
       Ranked(top) /\ findings' = top \o notice
  /\ semantic' \in BOOLEAN
  /\ metadata' = IF policy THEN findings' ELSE Absent
  /\ found' = {}
  /\ UNCHANGED <<claim, cancelled, workspace, notes, policy, pair, fan, stored>>

\* Only the findings are replaced by the survivors.
CitationValidate ==
  /\ At("citation") /\ MustDo("persist")
  /\ \E n \in 0 .. Len(findings) : \E kept \in [1 .. n -> 1 .. Len(findings)] :
       /\ Ranked(kept)
       /\ findings' = [i \in 1 .. n |-> findings[kept[i]]]
       /\ Note(IF findings' = findings THEN {} ELSE {"citation"})
  /\ UNCHANGED <<claim, cancelled, workspace, policy, pair, fan, found, semantic, metadata,
                 stored>>

\* Fault for the checks: the notice is not worth a row.
RowsWithoutNotice(fs, ms) ==
  LET own == SelectSeq(fs, LAMBDA f : f # Notice)
  IN  [i \in 1 .. Len(own) |-> [finding |-> own[i], metadata |-> Absent]]

\* Row i takes the metadata at index i, or none.
RowsOf(fs, ms) ==
  [i \in 1 .. Len(fs) |->
     [finding |-> fs[i],
      metadata |-> IF ms # Absent /\ i <= Len(ms) THEN ms[i] ELSE Absent]]

\* A call that fails may have written its rows.
PersistFindings ==
  /\ At("persist") /\ FailOpen("arbitrate", "persist")
  /\ IF faults' = faults
     THEN ids' = RowsOf(findings, metadata) /\ rows' = Range(ids')
     ELSE ids' = <<>> /\ rows' \in {rows, Range(RowsOf(findings, metadata))}
  /\ UNCHANGED <<claim, cancelled, workspace, policy, pair, fan, result, walkthrough, github,
                 skipped>>

\* apply_arbitration and record_tool_runs.
ApplyArbitration ==
  /\ At("arbitrate") /\ FailOpen("walkthrough", "arbitration")
  /\ UNCHANGED <<claim, cancelled, workspace, policy, pair, fan, result, stored>>

\* The renderer is given the findings and the statistics of the aggregation, not state.degradation.
\* The model may write a note of its own.
Render == walkthrough' \in [findings : {findings'}, note : {semantic', TRUE}]

GenerateWalkthrough ==
  /\ At("walkthrough") /\ MustDo("persistWalkthrough")
  /\ UNCHANGED result
  /\ Render
  /\ UNCHANGED <<claim, cancelled, workspace, notes, policy, pair, fan, rows, ids, github, skipped>>

PersistWalkthrough ==
  /\ At("persistWalkthrough") /\ FailOpen("post", "walkthrough")
  /\ UNCHANGED <<claim, cancelled, workspace, policy, pair, fan, result, stored>>

-----------------------------------------------------------------------------
(* Step 9, the cleanup, and what comes from outside. *)

\* Both posts are dispatched before either is awaited.
Dispatched == [pair EXCEPT !["postReview"] = "running", !["postCheckRun"] = "running"]

PostStage ==
  /\ At("post") /\ NoFault /\ Proceed("settle") /\ pair' = Dispatched
  /\ UNCHANGED <<claim, cancelled, workspace, notes, policy, fan, result, stored>>

\* Step 2a.1: the advisory of excluded paths is aggregated, rendered and posted at once.
Advisory ==
  /\ At("advisory")
  /\ MustDo("settle")
  /\ findings' = <<Notice>> /\ semantic' \in BOOLEAN
  /\ Render
  /\ pair' = IF pc'.stage = "settle" THEN Dispatched ELSE pair
  /\ UNCHANGED <<claim, cancelled, workspace, notes, policy, fan, found, metadata, rows, ids,
                 github, skipped>>

\* A failed post may have delivered the review; it may name the indices that GitHub cannot take,
\* whose rows are then marked skipped if that call succeeds.
PostReviewEnds ==
  /\ pair["postReview"] = "running"
  /\ \/ /\ NoFault
        /\ pair' = [pair EXCEPT !["postReview"] = "posted"]
        /\ github' = [github EXCEPT !.review = findings]
        /\ UNCHANGED skipped
     \/ /\ Fault
        /\ pair' = [pair EXCEPT !["postReview"] = "failed"]
        /\ github' \in {github, [github EXCEPT !.review = findings]}
        /\ \E dropped \in SUBSET (1 .. Len(findings)) :
             LET known == {ids[i].finding : i \in dropped \cap (1 .. Len(ids))}
             IN  /\ skipped.dropped = {}
                 /\ skipped' \in [rows : {{}, known}, dropped : {{findings[i] : i \in dropped}}]
  /\ UNCHANGED <<pc, outcome, claim, cancelled, workspace, notes, policy, fan, result, rows, ids,
                 walkthrough>>

\* The description and the fix prompt fail open, without a note.
DescribeReview ==
  /\ pair["postReview"] = "posted"
  /\ pair' = [pair EXCEPT !["postReview"] = "ok"]
  /\ UNCHANGED <<control, workspace, notes, policy, fan, result, stored>>

CheckRunEnds ==
  /\ pair["postCheckRun"] = "running"
  /\ \/ NoFault /\ pair' = [pair EXCEPT !["postCheckRun"] = "ok"]
     \/ Fault /\ pair' = [pair EXCEPT !["postCheckRun"] = "failed"]
  /\ UNCHANGED <<pc, outcome, claim, cancelled, workspace, notes, policy, fan, result, stored>>

\* Fault for the checks: Promise.all, which rejects with the check run.
Settled == {"ok", "failed"}
SettleAll ==
  /\ At("settle") /\ {pair["postReview"], pair["postCheckRun"]} \subseteq Settled
  /\ NoFault
  /\ IF "failed" \in {pair["postReview"], pair["postCheckRun"]} THEN Throw /\ UNCHANGED <<github, notes>>
     ELSE /\ outcome' = "accepted" /\ Goto("cleanup")
          /\ github' \in {github, [github EXCEPT !.placeholder = FALSE]}
          /\ UNCHANGED notes
  /\ UNCHANGED <<claim, cancelled, workspace, policy, pair, fan, result, rows, ids, walkthrough,
                 skipped>>

\* allSettled: the review decides.  The teardown of the placeholder is best effort.
Settle ==
  /\ At("settle") /\ {pair["postReview"], pair["postCheckRun"]} \subseteq Settled
  /\ NoFault
  /\ IF pair["postReview"] = "failed"
     THEN Throw /\ UNCHANGED <<github, notes>>
     ELSE /\ outcome' = "accepted" /\ Goto("cleanup")
          /\ github' \in {github, [github EXCEPT !.placeholder = FALSE]}
          /\ Note((IF pair["postCheckRun"] = "failed" THEN {"checkRun"} ELSE {}) \cup
                  (IF pair["chunkAndRedact"] = "idle" THEN {"pathFilters"} ELSE {}))
  /\ UNCHANGED <<claim, cancelled, workspace, policy, pair, fan, result, rows, ids, walkthrough,
                 skipped>>

Cleanup ==
  /\ At("cleanup") /\ FailOpen("ended", "cleanup")
  /\ workspace' \in (IF faults' = faults THEN {"removed"} ELSE {workspace, "removed"})
  /\ UNCHANGED <<claim, cancelled, policy, pair, fan, result, stored>>

\* Another run takes the pull request over; from "settle" on the thread does not ask any more.
LoseClaim ==
  /\ claim /\ pc.stage \notin {"settle", "cleanup", "ended"} /\ claim' = FALSE
  /\ UNCHANGED <<pc, outcome, cancelled, faults, workspace, notes, policy, pair, fan, result, stored>>

\* What is awaited rejects, and so does every dispatch after it, the cleanup's among them.
Cancel ==
  /\ ~cancelled /\ pc.stage # "ended"
  /\ cancelled' = TRUE /\ outcome' = "threw" /\ Goto("ended")
  /\ chunk' = [c \in Chunk |-> IF chunk[c] \in InFlight THEN "failed" ELSE chunk[c]]
  /\ pair' = [m \in Members |-> IF pair[m] \in {"running", "posted"} THEN "failed" ELSE pair[m]]
  /\ UNCHANGED <<claim, faults, workspace, notes, policy, aborted, result, stored>>

\* orchestrate is left and nothing of it runs any more.
Over ==
  /\ pc.stage = "ended"
  /\ \A c \in Chunk : chunk[c] \notin InFlight
  /\ \A m \in Members : pair[m] \notin {"running", "posted"}
  /\ UNCHANGED pipelineVars

PipelineNext ==
  \/ ClaimCheck \/ Clone \/ LoadRepoConfig \/ ComputePolicyRules \/ Classify
  \/ \E m \in Members : PrepareEnds(m)
  \/ SelectCarryForward
  \/ \E c \in Chunk : ChunkAdvances(c) \/ ChunkDone(c) \/ ChunkFails(c)
  \/ DedupFindings \/ Aggregate \/ CitationValidate \/ PersistFindings \/ ApplyArbitration
  \/ GenerateWalkthrough \/ PersistWalkthrough
  \/ Advisory \/ PostStage \/ PostReviewEnds \/ DescribeReview \/ CheckRunEnds \/ Settle
  \/ Cleanup \/ LoseClaim \/ Cancel \/ Over

PipelineSpec == PipelineInit /\ [][PipelineNext]_pipelineVars

-----------------------------------------------------------------------------
(* Properties. *)

\* The walkthrough, the rows of core.review_findings and the review on GitHub are about the same
\* findings in the same order, and the rows marked skipped are those of findings that GitHub
\* refused, although findings are dropped, capped and appended on the way and later stages find
\* their rows by index.
OneFindingSet ==
  /\ github.review # Absent =>
       /\ walkthrough.findings = github.review
       /\ ids # <<>> => github.review = [i \in 1 .. Len(ids) |-> ids[i].finding]
  /\ skipped.rows \subseteq skipped.dropped

\* Unless the workflow is cancelled, the delivery of the review decides how the run leaves the
\* pipeline: a delivered review is not failed by the check run or a cleanup, a review that is not
\* delivered is never accepted, and the placeholder goes only with an accepted review.
DeliveryDecides ==
  /\ outcome = "accepted" => pair["postReview"] = "ok" /\ github.review = findings
  /\ outcome = "threw" /\ ~cancelled => pair["postReview"] \notin {"posted", "ok"}
  /\ ~github.placeholder => outcome = "accepted" \/ cancelled

\* orchestrator.ts:779: the metadata handed to the persistence step is index-aligned with the
\* filtered findings.
MetadataIsAligned ==
  \A row \in rows : row.metadata \in {Absent, row.finding}

\* orchestrator.ts:61-66: the rendered walkthrough reflects the true degraded state, as far as it
\* is known before the review is posted.
DegradedReviewSaysSo ==
  github.review # Absent /\ notes \ {"pathFilters", "checkRun", "cleanup"} # {} => walkthrough.note
=============================================================================
