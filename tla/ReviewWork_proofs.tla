------------------------- MODULE ReviewWork_proofs -------------------------
(***************************************************************************)
(* Proofs about the work inside one review: that what it delivers is one   *)
(* set of findings and that the delivery decides how it ends, that the     *)
(* transactions of the cost enforcer wait in a circle only after a change  *)
(* of a cap, and what they make of the totals of a day.  What follows      *)
(* holds for every number of chunks, findings, calls, attempts, scopes and *)
(* days.                                                                   *)
(***************************************************************************)
EXTENDS ReviewPipeline, CostLedger, FiniteSetTheorems, SequenceTheorems, TLAPS

-----------------------------------------------------------------------------
(* The pipeline: what follows what. *)

\* The stages before the rows are written, and those at which posts may run.
BeforeRows == {"clone", "config", "policy", "classify", "advisory", "prepare", "select", "fanOut",
               "dedup", "aggregate", "citation", "persist"}
Posting == {"settle", "cleanup", "ended"}

\* The findings as the rows that the thread knows list them.
Column(rs) == [i \in 1 .. Len(rs) |-> rs[i].finding]

Shape ==
  /\ pc.stage \in Stages /\ DOMAIN pc = {"stage", "checked"}
  /\ pair = [m \in Members |-> pair[m]]
  /\ DOMAIN github = {"review", "placeholder"}
  /\ found \subseteq Finding /\ findings \in Seq(Finding)

\* Nothing touches the findings between the rows and the end, but for a run without rows.
RowsFollow ==
  /\ pc.stage \in BeforeRows => ids = <<>>
  /\ ids # <<>> => findings = Column(ids)

RenderFollows ==
  pc.stage \in {"persistWalkthrough", "post"} \/ pair["postReview"] # "idle" =>
    walkthrough.findings = findings

ReviewFollows ==
  /\ pair["postReview"] # "idle" => pc.stage \in Posting
  /\ pair["postReview"] \in {"posted", "ok"} => github.review = findings
  /\ github.review # Absent => github.review = findings /\ pair["postReview"] # "idle"

SkipsFollow == skipped.rows \subseteq skipped.dropped

OutcomeFollows ==
  /\ outcome # "none" => pc.stage \in {"cleanup", "ended"}
  /\ outcome = "accepted" => pair["postReview"] = "ok"
  /\ outcome = "threw" /\ ~cancelled => pair["postReview"] \in {"idle", "failed"}
  /\ ~github.placeholder => outcome = "accepted" \/ cancelled

PipelineInv ==
  Shape /\ RowsFollow /\ RenderFollows /\ ReviewFollows /\ SkipsFollow /\ OutcomeFollows

LEMMA PipelineStarts == PipelineInit => PipelineInv
  BY DEF PipelineInit, PipelineInv, Shape, RowsFollow, RenderFollows, ReviewFollows,
         SkipsFollow, OutcomeFollows, Stages, Members, Posting

\* A step of the thread that leaves what the invariant is about: it goes on in the order of the
\* stages, or an exception leaves for the cleanup before anything was posted.
Quiet ==
  /\ found' \subseteq Finding
  /\ UNCHANGED <<findings, ids, walkthrough, github, skipped, cancelled>>
  /\ pair' = [m \in Members |-> pair'[m]] /\ pair'["postReview"] = pair["postReview"]
  /\ pc'.stage \in Stages /\ DOMAIN pc' = {"stage", "checked"}
  /\ \/ /\ UNCHANGED outcome
        /\ pc'.stage \in BeforeRows => pc.stage \in BeforeRows
        /\ pc'.stage \in {"persistWalkthrough", "post"} =>
             pc.stage \in {"persistWalkthrough", "post"}
        /\ pc.stage \in Posting => pc'.stage \in Posting
        /\ pc.stage \in {"cleanup", "ended"} => pc'.stage \in {"cleanup", "ended"}
     \/ outcome' = "threw" /\ pc'.stage \in {"cleanup", "ended"} /\ pc.stage \notin Posting

LEMMA QuietKeeps == PipelineInv /\ Quiet => PipelineInv'
<1> SUFFICES ASSUME PipelineInv, Quiet PROVE PipelineInv'
    OBVIOUS
<1> USE DEF PipelineInv, Quiet, Posting
<1>1. Shape'
    BY DEF Shape
<1>2. RowsFollow'
    BY DEF RowsFollow, BeforeRows, Column
<1>3. RenderFollows'
    BY DEF RenderFollows
<1>4. ReviewFollows'
    BY DEF ReviewFollows
<1>5. SkipsFollow'
    BY DEF SkipsFollow
<1>6. OutcomeFollows'
    BY DEF OutcomeFollows, ReviewFollows
<1> QED BY <1>1, <1>2, <1>3, <1>4, <1>5, <1>6

LEMMA StageFacts ==
  /\ \A s \in Stages : At(s) => pc.stage = s
  /\ \A s \in Stages : Goto(s) => pc'.stage = s /\ DOMAIN pc' = {"stage", "checked"}
  BY DEF At, Goto

LEMMA QuietStages ==
  ASSUME PipelineInv,
         \/ ClaimCheck \/ Clone \/ LoadRepoConfig \/ ComputePolicyRules \/ Classify
         \/ \E m \in Members : PrepareEnds(m)
         \/ SelectCarryForward
  PROVE  Quiet
<1> USE DEF PipelineInv, Shape, Quiet, MustDo, FailOpen, Throw, Proceed, Stages, BeforeRows, Posting,
            result, stored
<1>1. CASE ClaimCheck
    BY <1>1, StageFacts DEF ClaimCheck, Checked
<1>2. CASE Clone
    BY <1>2, StageFacts DEF Clone
<1>3. CASE LoadRepoConfig
    BY <1>3, StageFacts DEF LoadRepoConfig
<1>4. CASE ComputePolicyRules
    BY <1>4, StageFacts DEF ComputePolicyRules
<1>5. CASE Classify
    BY <1>5, StageFacts DEF Classify, Members
<1>6. ASSUME NEW m \in Members, PrepareEnds(m) PROVE Quiet
    BY <1>6, StageFacts DEF PrepareEnds, Members
<1>7. CASE SelectCarryForward
    BY <1>7, StageFacts DEF SelectCarryForward, StartFanOut, Finding
<1> QED BY <1>1, <1>2, <1>3, <1>4, <1>5, <1>6, <1>7

LEMMA QuietRest ==
  ASSUME PipelineInv,
         \/ \E c \in Chunk : ChunkAdvances(c) \/ ChunkDone(c) \/ ChunkFails(c)
         \/ DedupFindings \/ ApplyArbitration \/ PersistWalkthrough \/ CheckRunEnds
         \/ Cleanup \/ LoseClaim \/ UNCHANGED pipelineVars
  PROVE  Quiet
<1> USE DEF PipelineInv, Shape, Quiet, MustDo, FailOpen, Throw, Proceed, Stages, BeforeRows, Posting,
            control, result, stored
<1>1. ASSUME NEW c \in Chunk, ChunkAdvances(c) PROVE Quiet
    BY <1>1 DEF ChunkAdvances
<1>2. ASSUME NEW c \in Chunk, ChunkDone(c) PROVE Quiet
    BY <1>2, StageFacts DEF ChunkDone, Finding
<1>3. ASSUME NEW c \in Chunk, ChunkFails(c) PROVE Quiet
    BY <1>3, StageFacts DEF ChunkFails
<1>4. CASE DedupFindings
    BY <1>4, StageFacts DEF DedupFindings, Finding
<1>5. CASE ApplyArbitration
    BY <1>5, StageFacts DEF ApplyArbitration
<1>6. CASE PersistWalkthrough
    BY <1>6, StageFacts DEF PersistWalkthrough
<1>7. CASE CheckRunEnds
    BY <1>7 DEF CheckRunEnds, Members
<1>8. CASE Cleanup
    BY <1>8, StageFacts DEF Cleanup
<1>9. CASE LoseClaim
    BY <1>9 DEF LoseClaim
<1>10. CASE UNCHANGED pipelineVars
    BY <1>10 DEF pipelineVars
<1> QED BY <1>1, <1>2, <1>3, <1>4, <1>5, <1>6, <1>7, <1>8, <1>9, <1>10

-----------------------------------------------------------------------------
(* The stages that write what the invariant is about. *)

LEMMA ListIsSeq ==
  ASSUME NEW S, NEW n \in Nat, NEW f \in [1 .. n -> S]
  PROVE  f \in Seq(S) /\ Len(f) = n
  BY SeqDef

LEMMA RankedStays ==
  ASSUME PipelineInv, Aggregate \/ CitationValidate
  PROVE  findings' \in Seq(Finding)
<1>1. CASE Aggregate
  <2>1. PICK n \in 0 .. MaxInline, notice \in {<<>>, <<Notice>>} :
          \E top \in [1 .. n -> found] : findings' = top \o notice
        BY <1>1 DEF Aggregate
  <2>3. PICK top \in [1 .. n -> found] : findings' = top \o notice
        BY <2>1
  <2>4. top \in [1 .. n -> Finding] /\ n \in Nat
        BY PipelineAssumption DEF PipelineInv, Shape
  <2>5. top \in Seq(Finding)
        BY <2>4, ListIsSeq
  <2>6. <<Notice>> \in Seq(Finding) /\ <<>> \in Seq(Finding)
        BY EmptySeq DEF Finding
  <2>7. notice \in Seq(Finding)
        BY <2>6
  <2> QED BY <2>3, <2>5, <2>7
<1>2. CASE CitationValidate
  <2>0. PICK n \in 0 .. Len(findings) :
          \E kept \in [1 .. n -> 1 .. Len(findings)] :
            findings' = [i \in 1 .. n |-> findings[kept[i]]]
        BY <1>2 DEF CitationValidate
  <2>1. PICK kept \in [1 .. n -> 1 .. Len(findings)] :
          findings' = [i \in 1 .. n |-> findings[kept[i]]]
        BY <2>0
  <2>2. \A i \in 1 .. n : findings[kept[i]] \in Finding
        BY DEF PipelineInv, Shape
  <2>3. findings' \in [1 .. n -> Finding] /\ n \in Nat
        BY <2>1, <2>2 DEF PipelineInv, Shape
  <2> QED BY <2>3, ListIsSeq
<1> QED BY <1>1, <1>2

\* The findings are set before any row exists and before anything is rendered.
LEMMA FindingsSet ==
  ASSUME PipelineInv, Aggregate \/ CitationValidate
  PROVE  PipelineInv'
<1>1. /\ pc.stage \in {"aggregate", "citation"} /\ found' \subseteq Finding
      /\ \/ pc'.stage \in {"citation", "persist"} /\ UNCHANGED outcome
         \/ pc'.stage \in {"cleanup", "ended"} /\ outcome' = "threw"
      /\ DOMAIN pc' = {"stage", "checked"}
      /\ UNCHANGED <<ids, walkthrough, github, skipped, cancelled, pair>>
    <2> USE DEF MustDo, Throw, Proceed, PipelineInv, Shape, Stages, stored
    <2>1. CASE Aggregate
        BY <2>1, StageFacts DEF Aggregate
    <2>2. CASE CitationValidate
        BY <2>2, StageFacts DEF CitationValidate
    <2> QED BY <2>1, <2>2
<1>2. findings' \in Seq(Finding)
    BY RankedStays
<1>3. ids' = <<>> /\ pair'["postReview"] = "idle" /\ github'.review = Absent
    BY <1>1 DEF PipelineInv, RowsFollow, ReviewFollows, BeforeRows, Posting
<1>4. Shape' /\ RowsFollow' /\ RenderFollows' /\ SkipsFollow'
    BY <1>1, <1>2, <1>3 DEF PipelineInv, Shape, RowsFollow, RenderFollows, SkipsFollow, Stages
<1>5. ReviewFollows' /\ OutcomeFollows'
    BY <1>1, <1>3 DEF PipelineInv, ReviewFollows, OutcomeFollows
<1> QED BY <1>4, <1>5 DEF PipelineInv

\* The advisory is rendered with the finding that it sets, and posts it at once.
LEMMA AdvisoryGiven ==
  ASSUME PipelineInv, Advisory
  PROVE  PipelineInv'
<1>1. /\ pc.stage = "advisory" /\ findings' = <<Notice>>
      /\ walkthrough'.findings = findings'
      /\ \/ pc'.stage = "settle" /\ UNCHANGED outcome /\ pair' = Dispatched
         \/ pc'.stage \in {"cleanup", "ended"} /\ outcome' = "threw" /\ UNCHANGED pair
      /\ DOMAIN pc' = {"stage", "checked"}
      /\ UNCHANGED <<found, ids, github, skipped, cancelled>>
    BY StageFacts DEF Advisory, Render, MustDo, Throw, Proceed, Stages
<1>2. findings' \in Seq(Finding) /\ ids' = <<>> /\ pair["postReview"] = "idle"
    BY <1>1 DEF PipelineInv, RowsFollow, ReviewFollows, BeforeRows, Posting, Finding
<1>3. /\ pair' = [m \in Members |-> pair'[m]]
      /\ pair'["postReview"] = IF pc'.stage = "settle" THEN "running" ELSE "idle"
    BY <1>1, <1>2 DEF Dispatched, PipelineInv, Shape, Members
<1>4. Shape' /\ RowsFollow' /\ RenderFollows' /\ SkipsFollow'
    BY <1>1, <1>2, <1>3 DEF PipelineInv, Shape, RowsFollow, RenderFollows, SkipsFollow, Stages
<1>5. ReviewFollows' /\ OutcomeFollows'
    BY <1>1, <1>2, <1>3 DEF PipelineInv, ReviewFollows, OutcomeFollows, Posting
<1> QED BY <1>4, <1>5 DEF PipelineInv

\* The rows the thread knows are one for each finding, in their order.
LEMMA RowsGiven ==
  ASSUME PipelineInv, PersistFindings
  PROVE  PipelineInv'
<1>1. /\ pc.stage = "persist" /\ pc'.stage = "arbitrate" /\ DOMAIN pc' = {"stage", "checked"}
      /\ ids' = <<>> \/ ids' = RowsOf(findings, metadata)
      /\ UNCHANGED <<outcome, found, findings, walkthrough, github, skipped, cancelled, pair>>
    BY StageFacts DEF PersistFindings, FailOpen, Proceed, Stages, result
<1>2. LET rs == RowsOf(findings, metadata) IN findings = [i \in 1 .. Len(rs) |-> rs[i].finding]
    <2>1. findings \in [1 .. Len(findings) -> Finding] /\ Len(findings) \in Nat
        BY LenProperties DEF PipelineInv, Shape
    <2> DEFINE rs == RowsOf(findings, metadata)
    <2>2. rs = [i \in 1 .. Len(findings) |-> rs[i]] /\ \A i \in 1 .. Len(findings) : rs[i].finding = findings[i]
        BY DEF RowsOf
    <2>3. Len(rs) = Len(findings)
        <3>1. rs \in [1 .. Len(findings) -> {rs[i] : i \in 1 .. Len(findings)}]
            BY <2>2
        <3> QED BY <3>1, <2>1, ListIsSeq
    <2> HIDE DEF rs
    <2>4. findings = [i \in 1 .. Len(rs) |-> rs[i].finding]
        BY <2>1, <2>2, <2>3
    <2> QED BY <2>4 DEF rs
<1>3. Shape' /\ RowsFollow'
    BY <1>1, <1>2 DEF PipelineInv, Shape, RowsFollow, Column, BeforeRows, Stages
<1>4. RenderFollows' /\ ReviewFollows' /\ SkipsFollow' /\ OutcomeFollows'
    BY <1>1 DEF PipelineInv, RenderFollows, ReviewFollows, SkipsFollow, OutcomeFollows, Posting
<1> QED BY <1>3, <1>4 DEF PipelineInv

LEMMA WalkthroughGiven ==
  ASSUME PipelineInv, GenerateWalkthrough
  PROVE  PipelineInv'
<1>1. /\ pc.stage = "walkthrough" /\ walkthrough'.findings = findings'
      /\ \/ pc'.stage = "persistWalkthrough" /\ UNCHANGED outcome
         \/ pc'.stage \in {"cleanup", "ended"} /\ outcome' = "threw"
      /\ DOMAIN pc' = {"stage", "checked"}
      /\ UNCHANGED <<found, findings, ids, github, skipped, cancelled, pair>>
    BY StageFacts DEF GenerateWalkthrough, Render, MustDo, result, Throw, Proceed, Stages
<1>2. Shape' /\ RowsFollow' /\ RenderFollows' /\ SkipsFollow'
    BY <1>1 DEF PipelineInv, Shape, RowsFollow, RenderFollows, SkipsFollow, Stages, BeforeRows, Column
<1>3. ReviewFollows' /\ OutcomeFollows'
    BY <1>1 DEF PipelineInv, ReviewFollows, OutcomeFollows, Posting
<1> QED BY <1>2, <1>3 DEF PipelineInv

-----------------------------------------------------------------------------
(* The posts, their settlement, and the cancellation. *)

LEMMA PostDispatched ==
  ASSUME PipelineInv, PostStage
  PROVE  PipelineInv'
<1>1. /\ pc.stage = "post" /\ pc'.stage = "settle" /\ DOMAIN pc' = {"stage", "checked"}
      /\ pair' = [m \in Members |-> pair'[m]] /\ pair'["postReview"] = "running"
      /\ UNCHANGED <<outcome, found, findings, ids, walkthrough, github, skipped, cancelled>>
    BY StageFacts DEF PostStage, Proceed, Dispatched, Stages, result, stored, PipelineInv, Shape,
       Members
<1>2. Shape' /\ RowsFollow' /\ RenderFollows' /\ SkipsFollow'
    BY <1>1 DEF PipelineInv, Shape, RowsFollow, RenderFollows, SkipsFollow, Stages, BeforeRows, Column
<1>3. ReviewFollows' /\ OutcomeFollows'
    BY <1>1 DEF PipelineInv, ReviewFollows, OutcomeFollows, Posting
<1> QED BY <1>2, <1>3 DEF PipelineInv

\* The indices that GitHub refuses name rows of the findings they are indices of.
LEMMA PostEnded ==
  ASSUME PipelineInv, PostReviewEnds
  PROVE  PipelineInv'
<1>1. /\ pair["postReview"] = "running"
      /\ UNCHANGED <<pc, outcome, cancelled, found, findings, ids, walkthrough>>
      /\ pair' = [m \in Members |-> pair'[m]] /\ pair'["postReview"] \in {"posted", "failed"}
      /\ DOMAIN github' = {"review", "placeholder"}
      /\ github'.placeholder = github.placeholder
      /\ \/ github'.review = findings
         \/ pair'["postReview"] = "failed" /\ github'.review = github.review
    BY DEF PostReviewEnds, result, PipelineInv, Shape, Members
<1>2. SkipsFollow'
    BY DEF PostReviewEnds, PipelineInv, SkipsFollow, RowsFollow, Column
<1>3. Shape' /\ RowsFollow' /\ RenderFollows'
    BY <1>1 DEF PipelineInv, Shape, RowsFollow, RenderFollows, Column
<1>4. ReviewFollows' /\ OutcomeFollows'
    BY <1>1 DEF PipelineInv, ReviewFollows, OutcomeFollows
<1> QED BY <1>2, <1>3, <1>4 DEF PipelineInv

LEMMA ReviewDescribed ==
  ASSUME PipelineInv, DescribeReview
  PROVE  PipelineInv'
<1>1. /\ pair["postReview"] = "posted" /\ pair'["postReview"] = "ok"
      /\ pair' = [m \in Members |-> pair'[m]]
      /\ UNCHANGED <<pc, outcome, cancelled, found, findings, ids, walkthrough, github, skipped>>
    BY DEF DescribeReview, control, result, stored, PipelineInv, Shape, Members
<1>2. Shape' /\ RowsFollow' /\ RenderFollows' /\ SkipsFollow'
    BY <1>1 DEF PipelineInv, Shape, RowsFollow, RenderFollows, SkipsFollow, Column
<1>3. ReviewFollows' /\ OutcomeFollows'
    BY <1>1 DEF PipelineInv, ReviewFollows, OutcomeFollows
<1> QED BY <1>2, <1>3 DEF PipelineInv

\* The review decides: it was delivered when the run is accepted, and failed when it throws.
LEMMA RunSettled ==
  ASSUME PipelineInv, Settle
  PROVE  PipelineInv'
<1>1. /\ pc.stage = "settle" /\ pc'.stage \in {"cleanup", "ended"}
      /\ DOMAIN pc' = {"stage", "checked"}
      /\ UNCHANGED <<found, findings, ids, walkthrough, skipped, cancelled, pair>>
      /\ \/ pair["postReview"] = "failed" /\ outcome' = "threw" /\ UNCHANGED github
         \/ pair["postReview"] = "ok" /\ outcome' = "accepted" /\ github'.review = github.review
      /\ DOMAIN github' = {"review", "placeholder"}
    BY StageFacts DEF Settle, Settled, Throw, Stages, result, PipelineInv, Shape
<1>2. Shape' /\ RowsFollow' /\ RenderFollows' /\ SkipsFollow'
    BY <1>1 DEF PipelineInv, Shape, RowsFollow, RenderFollows, SkipsFollow, Stages, BeforeRows, Column
<1>3. ReviewFollows' /\ OutcomeFollows'
    BY <1>1 DEF PipelineInv, ReviewFollows, OutcomeFollows, Posting
<1> QED BY <1>2, <1>3 DEF PipelineInv

\* A cancellation fails a post that is under way, and what it delivered stays on GitHub.
LEMMA RunCancelled ==
  ASSUME PipelineInv, Cancel
  PROVE  PipelineInv'
<1>1. /\ pc'.stage = "ended" /\ outcome' = "threw" /\ cancelled' = TRUE
      /\ DOMAIN pc' = {"stage", "checked"}
      /\ UNCHANGED <<found, findings, ids, walkthrough, github, skipped>>
      /\ pair' = [m \in Members |-> pair'[m]]
      /\ pair'["postReview"] =
           IF pair["postReview"] \in {"running", "posted"} THEN "failed" ELSE pair["postReview"]
    BY StageFacts DEF Cancel, Stages, result, stored, PipelineInv, Shape, Members
<1>2. Shape' /\ RowsFollow' /\ RenderFollows' /\ SkipsFollow'
    BY <1>1 DEF PipelineInv, Shape, RowsFollow, RenderFollows, SkipsFollow, Stages, BeforeRows, Column
<1>3. ReviewFollows' /\ OutcomeFollows'
    BY <1>1 DEF PipelineInv, ReviewFollows, OutcomeFollows, Posting
<1> QED BY <1>2, <1>3 DEF PipelineInv

LEMMA PipelineKeeps == PipelineInv /\ [PipelineNext]_pipelineVars => PipelineInv'
<1> SUFFICES ASSUME PipelineInv, PipelineNext \/ UNCHANGED pipelineVars PROVE PipelineInv'
    OBVIOUS
<1>1. CASE \/ ClaimCheck \/ Clone \/ LoadRepoConfig \/ ComputePolicyRules \/ Classify
           \/ \E m \in Members : PrepareEnds(m)
           \/ SelectCarryForward
    BY <1>1, QuietStages, QuietKeeps
<1>2. CASE \/ \E c \in Chunk : ChunkAdvances(c) \/ ChunkDone(c) \/ ChunkFails(c)
           \/ DedupFindings \/ ApplyArbitration \/ PersistWalkthrough \/ CheckRunEnds
           \/ Cleanup \/ LoseClaim \/ UNCHANGED pipelineVars
    BY <1>2, QuietRest, QuietKeeps
<1>3. CASE \/ Aggregate \/ CitationValidate \/ Advisory \/ PersistFindings \/ GenerateWalkthrough
    BY <1>3, FindingsSet, AdvisoryGiven, RowsGiven, WalkthroughGiven
<1>4. CASE \/ PostStage \/ PostReviewEnds \/ DescribeReview \/ Settle \/ Cancel
    BY <1>4, PostDispatched, PostEnded, ReviewDescribed, RunSettled, RunCancelled
<1>5. CASE Over
    BY <1>5, QuietRest, QuietKeeps DEF Over
<1> QED BY <1>1, <1>2, <1>3, <1>4, <1>5 DEF PipelineNext

\* The walkthrough, the rows and the review on GitHub are about the same findings in the same
\* order, and a row is marked skipped only for a finding that GitHub refused (orchestrate's
\* steps 7 to 9 and record_delivery_skipped).
THEOREM OneFindingSetHolds == PipelineSpec => []OneFindingSet
<1>1. PipelineInv => OneFindingSet
    BY DEF PipelineInv, OneFindingSet, RowsFollow, RenderFollows, ReviewFollows, SkipsFollow, Column
<1> QED BY <1>1, PipelineStarts, PipelineKeeps, PTL DEF PipelineSpec

\* Unless it is cancelled, a run is accepted only with a delivered review and fails only without
\* one, and the placeholder goes only with an accepted review (orchestrate's allSettled).
THEOREM DeliveryDecidesHolds == PipelineSpec => []DeliveryDecides
<1>1. PipelineInv => DeliveryDecides
    BY DEF PipelineInv, DeliveryDecides, ReviewFollows, OutcomeFollows
<1> QED BY <1>1, PipelineStarts, PipelineKeeps, PTL DEF PipelineSpec

-----------------------------------------------------------------------------
(* The pipeline: types. *)

\* The thread and what surrounds it, its invocations, and what it has stored.
ThreadTyped ==
  /\ outcome \in {"none", "accepted", "threw"}
  /\ faults \in 0 .. MaxFaults
  /\ workspace \in {"none", "cloned", "removed"}

PlaceTyped == pc \in [stage : Stages, checked : BOOLEAN]

FlagsTyped == {claim, cancelled, policy, aborted, semantic} \subseteq BOOLEAN

WorkTyped ==
  /\ notes \subseteq Notes
  /\ pair \in [Members -> {"idle", "running", "posted", "ok", "failed"}]
  /\ chunk \in [Chunk -> InFlight \cup {"notDue", "due", "done", "failed"}]

StoreTyped ==
  /\ metadata = Absent \/ metadata \in Seq(Finding)
  /\ ids \in Seq(Row) /\ rows \subseteq Row
  /\ {skipped.rows, skipped.dropped} \subseteq SUBSET Finding

LEMMA TypedParts ==
  PlaceTyped /\ ThreadTyped /\ FlagsTyped /\ WorkTyped /\ StoreTyped /\ Shape => PipelineTypeOK
  BY DEF PipelineTypeOK, PlaceTyped, ThreadTyped, FlagsTyped, WorkTyped, StoreTyped, Shape

\* A stage that fails is counted up to the bound.
LEMMA ThreadKeeps ==
  ASSUME ThreadTyped, PipelineNext \/ UNCHANGED pipelineVars
  PROVE  ThreadTyped'
<1> USE PipelineAssumption
    DEF ThreadTyped, Fault, NoFault, MustDo, FailOpen, Throw, Proceed
<1>1. CASE ClaimCheck \/ Clone \/ LoadRepoConfig \/ ComputePolicyRules \/ Classify
  <2>1. CASE ClaimCheck
      BY <2>1 DEF ClaimCheck
  <2>2. CASE Clone
      BY <2>2 DEF Clone
  <2>3. CASE LoadRepoConfig \/ ComputePolicyRules
    <3>1. UNCHANGED workspace /\ (MustDo("policy") \/ FailOpen("classify", "policy"))
        BY <2>3 DEF LoadRepoConfig, ComputePolicyRules
    <3> QED BY <3>1
  <2>4. CASE Classify
      BY <2>4 DEF Classify
  <2> QED BY <1>1, <2>1, <2>2, <2>3, <2>4
<1>2. CASE SelectCarryForward \/ \E m \in Members : PrepareEnds(m)
  <2>1. CASE SelectCarryForward
      BY <2>1 DEF SelectCarryForward, StartFanOut
  <2>2. ASSUME NEW m \in Members, PrepareEnds(m) PROVE ThreadTyped'
    <3>1. NoFault \/ Fault
        BY <2>2 DEF PrepareEnds
    <3>2. (UNCHANGED outcome \/ outcome' = "threw") /\ UNCHANGED workspace
        BY <2>2 DEF PrepareEnds
    <3> QED BY <3>1, <3>2
  <2> QED BY <1>2, <2>1, <2>2
<1>3. CASE \E c \in Chunk : ChunkAdvances(c) \/ ChunkDone(c) \/ ChunkFails(c)
    BY <1>3 DEF ChunkAdvances, ChunkDone, ChunkFails, control
<1>4. CASE DedupFindings \/ Aggregate \/ CitationValidate \/ PersistFindings \/ ApplyArbitration
    BY <1>4 DEF DedupFindings, Aggregate, CitationValidate, PersistFindings, ApplyArbitration
<1>5. CASE GenerateWalkthrough \/ PersistWalkthrough \/ Advisory \/ PostStage
    BY <1>5 DEF GenerateWalkthrough, PersistWalkthrough, Advisory, PostStage
<1>6. CASE PostReviewEnds \/ DescribeReview \/ CheckRunEnds \/ Settle
    BY <1>6 DEF PostReviewEnds, DescribeReview, CheckRunEnds, Settle, control
<1>7. CASE Cleanup \/ LoseClaim \/ Cancel
    BY <1>7 DEF Cleanup, LoseClaim, Cancel
<1>8. CASE Over \/ UNCHANGED pipelineVars
    BY <1>8 DEF Over, pipelineVars, control
<1> QED BY <1>1, <1>2, <1>3, <1>4, <1>5, <1>6, <1>7, <1>8 DEF PipelineNext

\* The thread goes from stage to stage, each of which begins with its claim check if it has one.
LEMMA ThreadMoves ==
  ASSUME PipelineNext \/ UNCHANGED pipelineVars
  PROVE  \/ UNCHANGED pc
         \/ pc' = [pc EXCEPT !.checked = TRUE]
         \/ \E s \in Stages : Goto(s)
<1> USE DEF MustDo, FailOpen, Throw, Proceed, Stages
<1>1. CASE ClaimCheck \/ Clone \/ LoadRepoConfig \/ ComputePolicyRules \/ Classify
    BY <1>1 DEF ClaimCheck, Clone, LoadRepoConfig, ComputePolicyRules, Classify
<1>2. CASE SelectCarryForward \/ \E m \in Members : PrepareEnds(m)
    BY <1>2 DEF SelectCarryForward, StartFanOut, PrepareEnds
<1>3. CASE \E c \in Chunk : ChunkAdvances(c) \/ ChunkDone(c) \/ ChunkFails(c)
    BY <1>3 DEF ChunkAdvances, ChunkDone, ChunkFails, control
<1>4. CASE DedupFindings \/ Aggregate \/ CitationValidate \/ PersistFindings \/ ApplyArbitration
    BY <1>4 DEF DedupFindings, Aggregate, CitationValidate, PersistFindings, ApplyArbitration
<1>5. CASE GenerateWalkthrough \/ PersistWalkthrough \/ Advisory \/ PostStage
    BY <1>5 DEF GenerateWalkthrough, PersistWalkthrough, Advisory, PostStage
<1>6. CASE PostReviewEnds \/ DescribeReview \/ CheckRunEnds \/ Settle
    BY <1>6 DEF PostReviewEnds, DescribeReview, CheckRunEnds, Settle, control
<1>7. CASE Cleanup \/ LoseClaim \/ Cancel
    BY <1>7 DEF Cleanup, LoseClaim, Cancel
<1>8. CASE Over \/ UNCHANGED pipelineVars
    BY <1>8 DEF Over, pipelineVars, control
<1> QED BY <1>1, <1>2, <1>3, <1>4, <1>5, <1>6, <1>7, <1>8 DEF PipelineNext

LEMMA PlaceKeeps ==
  ASSUME PlaceTyped, PipelineNext \/ UNCHANGED pipelineVars
  PROVE  PlaceTyped'
<1>1. ASSUME NEW s \in Stages, Goto(s) PROVE PlaceTyped'
    BY <1>1 DEF PlaceTyped, Goto
<1>2. CASE UNCHANGED pc \/ pc' = [pc EXCEPT !.checked = TRUE]
    BY <1>2 DEF PlaceTyped
<1> QED BY ThreadMoves, <1>1, <1>2

LEMMA FlagsKeep ==
  ASSUME FlagsTyped, PipelineNext \/ UNCHANGED pipelineVars
  PROVE  FlagsTyped'
<1> USE DEF FlagsTyped, fan, result
<1>1. CASE ClaimCheck \/ Clone \/ LoadRepoConfig \/ ComputePolicyRules \/ Classify
    BY <1>1 DEF ClaimCheck, Clone, LoadRepoConfig, ComputePolicyRules, Classify
<1>2. CASE SelectCarryForward \/ \E m \in Members : PrepareEnds(m)
    BY <1>2 DEF SelectCarryForward, PrepareEnds
<1>3. CASE \E c \in Chunk : ChunkAdvances(c) \/ ChunkDone(c) \/ ChunkFails(c)
    BY <1>3 DEF ChunkAdvances, ChunkDone, ChunkFails, control
<1>4. CASE DedupFindings \/ Aggregate \/ CitationValidate \/ PersistFindings \/ ApplyArbitration
    BY <1>4 DEF DedupFindings, Aggregate, CitationValidate, PersistFindings, ApplyArbitration
<1>5. CASE GenerateWalkthrough \/ PersistWalkthrough \/ Advisory \/ PostStage
    BY <1>5 DEF GenerateWalkthrough, PersistWalkthrough, Advisory, PostStage
<1>6. CASE PostReviewEnds \/ DescribeReview \/ CheckRunEnds \/ Settle
    BY <1>6 DEF PostReviewEnds, DescribeReview, CheckRunEnds, Settle, control
<1>7. CASE Cleanup \/ LoseClaim \/ Cancel
    BY <1>7 DEF Cleanup, LoseClaim, Cancel
<1>8. CASE Over \/ UNCHANGED pipelineVars
    BY <1>8 DEF Over, pipelineVars, control
<1> QED BY <1>1, <1>2, <1>3, <1>4, <1>5, <1>6, <1>7, <1>8 DEF PipelineNext

\* An invocation is always at one of its places, and a degraded stage leaves a note of its own.
LEMMA WorkKeeps ==
  ASSUME WorkTyped, PipelineNext \/ UNCHANGED pipelineVars
  PROVE  WorkTyped'
<1> USE DEF WorkTyped, FailOpen, Note, Notes, Members, InFlight, fan
<1>1. CASE ClaimCheck \/ Clone \/ LoadRepoConfig \/ ComputePolicyRules \/ Classify
    BY <1>1 DEF ClaimCheck, Clone, LoadRepoConfig, ComputePolicyRules, Classify
<1>2. ASSUME NEW m \in Members, PrepareEnds(m) PROVE WorkTyped'
  <2>1. \E end \in {"ok", "failed"} : pair' = [pair EXCEPT ![m] = end]
      BY <1>2 DEF PrepareEnds
  <2>2. UNCHANGED <<notes, chunk>>
      BY <1>2 DEF PrepareEnds
  <2> QED BY <2>1, <2>2
<1>3. CASE SelectCarryForward
    BY <1>3 DEF SelectCarryForward, StartFanOut
<1>4. ASSUME NEW c \in Chunk, ChunkAdvances(c) \/ ChunkDone(c) \/ ChunkFails(c)
      PROVE  WorkTyped'
    BY <1>4 DEF ChunkAdvances, ChunkDone, ChunkFails, PullNext
<1>5. CASE DedupFindings \/ Aggregate \/ CitationValidate \/ PersistFindings \/ ApplyArbitration
    BY <1>5 DEF DedupFindings, Aggregate, CitationValidate, PersistFindings, ApplyArbitration
<1>6. CASE GenerateWalkthrough \/ PersistWalkthrough \/ Advisory \/ PostStage
    BY <1>6 DEF GenerateWalkthrough, PersistWalkthrough, Advisory, PostStage, Dispatched
<1>7. CASE PostReviewEnds \/ DescribeReview \/ CheckRunEnds \/ Settle
    BY <1>7 DEF PostReviewEnds, DescribeReview, CheckRunEnds, Settle
<1>8. CASE Cleanup \/ LoseClaim
    BY <1>8 DEF Cleanup, LoseClaim
<1>10. CASE Cancel
  <2>1. UNCHANGED notes
      BY <1>10 DEF Cancel
  <2>2. chunk' \in [Chunk -> InFlight \cup {"notDue", "due", "done", "failed"}]
      BY <1>10 DEF Cancel
  <2>3. pair' \in [Members -> {"idle", "running", "posted", "ok", "failed"}]
      BY <1>10 DEF Cancel
  <2> QED BY <2>1, <2>2, <2>3
<1>9. CASE Over \/ UNCHANGED pipelineVars
    BY <1>9 DEF Over, pipelineVars
<1> QED BY <1>1, <1>2, <1>3, <1>4, <1>5, <1>6, <1>7, <1>8, <1>9, <1>10 DEF PipelineNext

\* Rows are made of a finding and of the metadata at its index, if that is there.
LEMMA RowsTyped ==
  ASSUME NEW fs \in Seq(Finding), NEW ms, ms = Absent \/ ms \in Seq(Finding)
  PROVE  RowsOf(fs, ms) \in Seq(Row)
<1>1. Len(fs) \in Nat /\ \A i \in 1 .. Len(fs) : fs[i] \in Finding
    BY LenProperties
<1>2. ASSUME NEW i \in 1 .. Len(fs)
      PROVE  (IF ms # Absent /\ i <= Len(ms) THEN ms[i] ELSE Absent) \in Finding \cup {Absent}
    BY <1>1
<1>3. RowsOf(fs, ms) \in [1 .. Len(fs) -> Row]
    BY <1>1, <1>2 DEF RowsOf, Row
<1> QED BY <1>1, <1>3, ListIsSeq

LEMMA StoreKeeps ==
  ASSUME StoreTyped, PipelineInv, PipelineNext \/ UNCHANGED pipelineVars
  PROVE  StoreTyped'
<1>0. findings \in Seq(Finding)
    BY DEF PipelineInv, Shape
<1>1. CASE Aggregate
  <2>1. findings' \in Seq(Finding)
      BY <1>1, RankedStays
  <2> QED BY <1>1, <2>1 DEF Aggregate, StoreTyped, stored
<1>2. CASE PersistFindings
  <2> DEFINE written == RowsOf(findings, metadata)
  <2>1. written \in Seq(Row)
      BY <1>0, RowsTyped DEF StoreTyped
  <2>2. Range(written) \subseteq Row
      BY <2>1, LenProperties DEF Range
  <2>3. /\ ids' = written \/ ids' = <<>>
        /\ rows' = Range(written) \/ rows' = rows
        /\ UNCHANGED <<metadata, skipped>>
      BY <1>2 DEF PersistFindings, result
  <2> HIDE DEF written
  <2> QED BY <2>1, <2>2, <2>3, EmptySeq DEF StoreTyped
<1>3. CASE PostReviewEnds
  <2>1. /\ UNCHANGED <<metadata, rows, ids>>
        /\ \/ UNCHANGED skipped
           \/ \E dropped \in SUBSET (1 .. Len(findings)) :
                skipped' \in [rows : {{}, {ids[i].finding : i \in dropped \cap (1 .. Len(ids))}},
                              dropped : {{findings[i] : i \in dropped}}]
      BY <1>3 DEF PostReviewEnds, result
  <2>2. ASSUME NEW dropped \in SUBSET (1 .. Len(findings))
        PROVE  /\ {ids[i].finding : i \in dropped \cap (1 .. Len(ids))} \subseteq Finding
               /\ {findings[i] : i \in dropped} \subseteq Finding
    <3>1. \A i \in 1 .. Len(ids) : ids[i] \in Row
        BY LenProperties DEF StoreTyped
    <3>2. \A i \in 1 .. Len(findings) : findings[i] \in Finding
        BY <1>0, LenProperties
    <3> QED BY <3>1, <3>2 DEF Row
  <2>3. {skipped'.rows, skipped'.dropped} \subseteq SUBSET Finding
      BY <2>1, <2>2 DEF StoreTyped
  <2> QED BY <2>1, <2>3 DEF StoreTyped
<1>4. CASE UNCHANGED <<metadata, rows, ids, skipped>>
    BY <1>4 DEF StoreTyped
<1>5. Aggregate \/ PersistFindings \/ PostReviewEnds \/ UNCHANGED <<metadata, rows, ids, skipped>>
  <2> USE DEF result, stored
  <2>1. CASE ClaimCheck \/ Clone \/ LoadRepoConfig \/ ComputePolicyRules \/ Classify
      BY <2>1 DEF ClaimCheck, Clone, LoadRepoConfig, ComputePolicyRules, Classify
  <2>2. CASE SelectCarryForward \/ \E m \in Members : PrepareEnds(m)
      BY <2>2 DEF SelectCarryForward, PrepareEnds
  <2>3. CASE \E c \in Chunk : ChunkAdvances(c) \/ ChunkDone(c) \/ ChunkFails(c)
      BY <2>3 DEF ChunkAdvances, ChunkDone, ChunkFails
  <2>4. CASE DedupFindings \/ CitationValidate \/ ApplyArbitration
      BY <2>4 DEF DedupFindings, CitationValidate, ApplyArbitration
  <2>5. CASE GenerateWalkthrough \/ PersistWalkthrough \/ Advisory \/ PostStage
      BY <2>5 DEF GenerateWalkthrough, PersistWalkthrough, Advisory, PostStage
  <2>6. CASE DescribeReview \/ CheckRunEnds \/ Settle \/ Cleanup \/ LoseClaim \/ Cancel
      BY <2>6 DEF DescribeReview, CheckRunEnds, Settle, Cleanup, LoseClaim, Cancel
  <2>7. CASE Over \/ UNCHANGED pipelineVars
      BY <2>7 DEF Over, pipelineVars
  <2> QED BY <2>1, <2>2, <2>3, <2>4, <2>5, <2>6, <2>7 DEF PipelineNext
<1> QED BY <1>1, <1>2, <1>3, <1>4, <1>5

\* Every variable of the pipeline keeps its type: the rows that step 8 stores are made of the
\* findings it was given, and the ones marked as skipped are findings (orchestrate).
THEOREM PipelineTypeCorrect == PipelineSpec => []PipelineTypeOK
<1> DEFINE Typed == PlaceTyped /\ ThreadTyped /\ FlagsTyped /\ WorkTyped /\ StoreTyped
<1>1. PipelineInit => Typed
  <2> SUFFICES ASSUME PipelineInit PROVE Typed
      OBVIOUS
  <2>1. PlaceTyped /\ ThreadTyped
      BY PipelineAssumption DEF PipelineInit, PlaceTyped, ThreadTyped, Stages
  <2>2. FlagsTyped
      BY DEF PipelineInit, FlagsTyped
  <2>3. WorkTyped
      BY DEF PipelineInit, WorkTyped
  <2>4. StoreTyped
      BY EmptySeq DEF PipelineInit, StoreTyped
  <2> QED BY <2>1, <2>2, <2>3, <2>4
<1>2. Typed /\ PipelineInv /\ [PipelineNext]_pipelineVars => Typed'
    BY PlaceKeeps, ThreadKeeps, FlagsKeep, WorkKeeps, StoreKeeps
<1>3. Typed /\ PipelineInv => PipelineTypeOK
    BY TypedParts DEF PipelineInv
<1> HIDE DEF Typed
<1> QED BY <1>1, <1>2, <1>3, PipelineStarts, PipelineKeeps, PTL DEF PipelineSpec

-----------------------------------------------------------------------------
(* The ledger: types. *)

Transaction ==
  [step : Steps \cup {"none"}, caps : [Scopes -> Nat], holds : SUBSET Scopes,
   fresh : SUBSET Scopes, seen : Nat]
Attempt ==
  [at : Places, date : Days \cup {0}, replay : BOOLEAN, paid : BOOLEAN,
   booked : Days \cup {0}, settled : Days \cup {0}, tx : Transaction]
RowOfDay == [exists : BOOLEAN, total : Nat, cap : Nat]

LEMMA ScopeFacts ==
  ASSUME NEW p \in Attempts
  PROVE  /\ p[1] \in Calls /\ Org(p) \in Scopes /\ Global \in Scopes
         /\ ScopesOf(p) \subseteq Scopes /\ Est[p[1]] \in Nat /\ Act[p[1]] \in Nat
  BY CostAssumption DEF Attempts, Org, Scopes, ScopesOf

LEMMA NothingHeld == NoTransaction \in Transaction
  BY DEF NoTransaction, Transaction, Steps

LEMMA GoOnIs ==
  ASSUME LedgerTypeOK, NEW p \in Attempts, NEW place \in Places
  PROVE  /\ GoOn(p, place) \in Attempt
         /\ GoOn(p, place).at = place /\ GoOn(p, place).tx = NoTransaction
         /\ GoOn(p, place).date = 0
<1>1. att[p] \in Attempt
    BY DEF LedgerTypeOK, Attempt, Transaction
<1> QED BY <1>1, NothingHeld DEF GoOn, Attempt

LEMMA BeginIs ==
  ASSUME LedgerTypeOK, NEW p \in Attempts, NEW place
  PROVE  /\ Begin(p, place) \in Transaction
         /\ Begin(p, place).holds = {} /\ Begin(p, place).fresh = {}
         /\ \/ Begin(p, place).step = "insertGlobal"
            \/ Begin(p, place).step = "refreshGlobal" /\ Begin(p, place).caps = Resolved(p)
<1>1. Resolved(p) \in [Scopes -> Nat]
    BY DEF Resolved, LedgerTypeOK
<1> QED BY <1>1, NothingHeld DEF Begin, NoTransaction, Transaction, Steps

LEMMA EnterIs ==
  ASSUME LedgerTypeOK, NEW p \in Attempts, NEW place \in Places, NEW d \in Days \cup {0}
  PROVE  /\ Enter(p, place, d) \in Attempt
         /\ Enter(p, place, d).at = place /\ Enter(p, place, d).tx = Begin(p, place)
         /\ Enter(p, place, d).date = d
<1>1. GoOn(p, place) \in Attempt /\ Begin(p, place) \in Transaction /\ GoOn(p, place).at = place
    BY GoOnIs, BeginIs
<1> QED BY <1>1 DEF Enter, Attempt

-----------------------------------------------------------------------------
(* The ledger: who holds what, and which caps it saw. *)

\* A transaction runs exactly where an attempt is in one, on a day; otherwise nothing is held.
Placed(p) ==
  /\ att[p].at \in InTransaction <=> att[p].tx.step # "none"
  /\ att[p].tx.step = "none" => att[p].tx.holds = {} /\ att[p].tx.fresh = {}
  /\ att[p].tx.step # "none" => att[p].date \in Days

\* The rows it holds are its own scopes'; until the first FOR UPDATE it holds only what it
\* wrote; and it holds nothing on a day whose global row it does not see.
Held(p) ==
  LET tx == att[p].tx IN
  /\ tx.holds \subseteq ScopesOf(p) /\ tx.fresh \subseteq tx.holds
  /\ tx.step = "insertGlobal" => tx.holds = {}
  /\ tx.step = "insertOrg" => tx.holds \subseteq {Global} /\ Visible(p, Global)
  /\ tx.step # "lockLast" => tx.holds \subseteq tx.fresh
  /\ tx.holds # {} => Visible(p, Global)
  /\ \A s \in tx.holds \ tx.fresh : row[att[p].date][s].exists

Apart ==
  \A p, q \in Attempts :
    p # q /\ att[p].date = att[q].date => att[p].tx.holds \cap att[q].tx.holds = {}

RowsTogether == \A d \in Days, s \in Scopes : row[d][s].exists => row[d][Global].exists

\* As long as no cap was changed, every cap is the first one, and what a transaction wrote is a
\* row that it inserted.
Resolving == {"refreshGlobal", "refreshOrg", "lockFirst", "lockLast"}
CapsSeen(p) ==
  /\ att[p].tx.step \in Resolving => \A s \in ScopesOf(p) : att[p].tx.caps[s] = InitialCap[s]
  /\ \A s \in att[p].tx.fresh : ~row[att[p].date][s].exists
CapsStand ==
  changes = {} =>
    /\ setting = InitialCap
    /\ \A d \in Days, s \in Scopes : row[d][s].exists => row[d][s].cap = InitialCap[s]
    /\ \A p \in Attempts : CapsSeen(p)

LedgerInv ==
  /\ LedgerTypeOK
  /\ \A p \in Attempts : Placed(p) /\ Held(p)
  /\ Apart /\ RowsTogether /\ CapsStand

LEMMA LedgerStarts == LedgerInit => LedgerInv
<1> SUFFICES ASSUME LedgerInit PROVE LedgerInv
    OBVIOUS
<1>1. LedgerTypeOK
    <2>1. Idle \in Attempt
        BY NothingHeld DEF Idle, Attempt, Places
    <2> QED BY <2>1, CostAssumption DEF LedgerInit, LedgerTypeOK, Attempt, Transaction, Days
<1>2. \A p \in Attempts : att[p].at = "idle" /\ att[p].tx = NoTransaction
    BY DEF LedgerInit, Idle
<1>3. \A p \in Attempts : Placed(p) /\ Held(p)
    BY <1>2 DEF NoTransaction, Placed, Held, InTransaction
<1>4. Apart
    BY <1>2 DEF NoTransaction, Apart
<1>5. RowsTogether /\ CapsStand
    BY <1>2 DEF NoTransaction, LedgerInit, RowsTogether, CapsStand, CapsSeen, Resolving
<1> QED BY <1>1, <1>3, <1>4, <1>5 DEF LedgerInv

\* An attempt that ends its transaction or begins one holds nothing.
LEMMA Leaves ==
  ASSUME LedgerInv, NEW p \in Attempts, NEW r \in Attempt,
         att' = [att EXCEPT ![p] = r],
         UNCHANGED <<day, setting, changes, row>>, ledger' \subseteq Calls,
         r.tx.holds = {}, r.tx.fresh = {},
         r.at \in InTransaction <=> r.tx.step # "none",
         r.tx.step # "none" => r.date \in Days,
         \/ r.tx.step \in {"none", "insertGlobal"}
         \/ r.tx.step = "refreshGlobal" /\ r.tx.caps = Resolved(p)
  PROVE  LedgerInv'
<1>1. LedgerTypeOK'
    BY DEF LedgerInv, LedgerTypeOK, Attempt, Transaction
<1>2. att'[p] = r /\ \A q \in Attempts \ {p} : att'[q] = att[q]
    BY DEF LedgerInv, LedgerTypeOK
<1>3. ASSUME NEW q \in Attempts PROVE Placed(q)' /\ Held(q)'
    <2>1. CASE q = p
        BY <1>2, <2>1 DEF Placed, Held
    <2>2. CASE q # p
        BY <1>2, <2>2 DEF LedgerInv, Placed, Held, Visible
    <2> QED BY <2>1, <2>2
<1>4. Apart'
    BY <1>2 DEF LedgerInv, Apart
<1>5. RowsTogether'
    BY DEF LedgerInv, RowsTogether
<1>6. CapsStand'
    <2> SUFFICES ASSUME changes = {} PROVE CapsStand'
        BY DEF CapsStand
    <2>1. ASSUME NEW q \in Attempts PROVE CapsSeen(q)'
        <3>1. CASE q = p
            BY <1>2, <3>1, ScopeFacts DEF LedgerInv, CapsStand, CapsSeen, Resolving, Resolved
        <3>2. CASE q # p
            BY <1>2, <3>2 DEF LedgerInv, CapsStand, CapsSeen
        <3> QED BY <3>1, <3>2
    <2> QED BY <2>1 DEF LedgerInv, CapsStand
<1> QED BY <1>1, <1>3, <1>4, <1>5, <1>6 DEF LedgerInv

\* What the steps before the second FOR UPDATE have in common: W is what they lock.
StepOn(p, tx, W) ==
  /\ tx \in Transaction /\ tx.step \in Steps \ {"insertGlobal"}
  /\ att[p].at \in InTransaction /\ att[p].tx.step \in Steps \ {"lockLast"}
  /\ W \subseteq ScopesOf(p) /\ \A s \in W : Free(p, s)
  /\ tx.holds = att[p].tx.holds \cup W
  /\ W = {} \/ W = {Global} \/ Visible(p, Global)
  /\ IF tx.step = "lockLast"
       THEN tx.fresh = att[p].tx.fresh /\ \A s \in W : Visible(p, s)
       ELSE /\ tx.fresh = att[p].tx.fresh \cup W
            /\ changes = {} => \A s \in W : ~row[att[p].date][s].exists
  /\ IF tx.step = "insertOrg"
       THEN /\ att[p].tx.step = "insertGlobal" /\ W \subseteq {Global}
            /\ W = {Global} \/ row[att[p].date][Global].exists
       ELSE /\ att[p].tx.step # "insertGlobal"
            /\ \/ tx.caps = Resolved(p)
               \/ tx.caps = att[p].tx.caps /\ att[p].tx.step \in Resolving

LEMMA StepOnKeeps ==
  ASSUME LedgerInv, NEW p \in Attempts, NEW tx, NEW W, StepOn(p, tx, W), SetTx(p, tx),
         UNCHANGED <<day, setting, changes, row, ledger>>
  PROVE  LedgerInv'
<1>1. LedgerTypeOK'
    <2>1. att \in [Attempts -> Attempt] /\ tx \in Transaction
        BY DEF LedgerInv, LedgerTypeOK, StepOn, Attempt, Transaction
    <2>2. att' \in [Attempts -> Attempt]
        BY <2>1 DEF SetTx, Attempt
    <2> QED BY <2>2 DEF LedgerInv, LedgerTypeOK, Attempt, Transaction
<1>2. /\ att'[p].at = att[p].at /\ att'[p].date = att[p].date /\ att'[p].tx = tx
      /\ \A q \in Attempts \ {p} : att'[q] = att[q]
    BY DEF LedgerInv, LedgerTypeOK, SetTx
<1>3. \A s : Visible(p, s)' <=> Visible(p, s) \/ s \in W
    BY <1>2 DEF Visible, StepOn
<1>4. ASSUME NEW q \in Attempts PROVE Placed(q)' /\ Held(q)'
    <2>1. CASE q = p
      <3>1. Placed(p)'
          BY <1>2 DEF LedgerInv, Placed, StepOn, Steps
      <3>2. tx.holds \subseteq ScopesOf(p) /\ tx.fresh \subseteq tx.holds
          BY DEF LedgerInv, Held, StepOn
      <3>3. tx.step = "insertOrg" => tx.holds \subseteq {Global} /\ Visible(p, Global)'
          BY <1>3 DEF LedgerInv, Held, StepOn, Visible
      <3>4. tx.step # "lockLast" => tx.holds \subseteq tx.fresh
          BY DEF LedgerInv, Held, StepOn, Steps
      <3>5. tx.holds # {} => Visible(p, Global)'
          BY <1>3 DEF LedgerInv, Held, StepOn
      <3>6. \A s \in tx.holds \ tx.fresh : row[att[p].date][s].exists
          BY DEF LedgerInv, Held, StepOn, Steps, Visible
      <3>7. tx.step # "insertGlobal"
          BY DEF StepOn
      <3>8. Held(p)'
        <4>1. att'[p].tx = tx /\ att'[p].date = att[p].date /\ row' = row
            BY <1>2
        <4>2. \A s \in tx.holds \ tx.fresh : row'[att'[p].date][s].exists
            BY ONLY <4>1, <3>6
        <4> QED BY ONLY <4>1, <4>2, <3>2, <3>3, <3>4, <3>5, <3>7 DEF Held, ScopesOf
      <3> QED BY <2>1, <3>1, <3>8
    <2>2. CASE q # p
        BY <1>2, <2>2 DEF LedgerInv, Placed, Held, Visible
    <2> QED BY <2>1, <2>2
<1>5. Apart'
    <2>1. ASSUME NEW q \in Attempts \ {p}, att[q].date = att[p].date
          PROVE  tx.holds \cap att[q].tx.holds = {}
        BY <2>1 DEF LedgerInv, Apart, StepOn, Free
    <2> QED BY <1>2, <2>1 DEF LedgerInv, Apart
<1>6. RowsTogether'
    BY DEF LedgerInv, RowsTogether
<1>7. CapsStand'
    <2> SUFFICES ASSUME changes = {} PROVE CapsStand'
        BY DEF CapsStand
    <2>1. ASSUME NEW q \in Attempts PROVE CapsSeen(q)'
        <3>1. CASE q = p
          <4>1. tx.step \in Resolving => \A s \in ScopesOf(p) : tx.caps[s] = InitialCap[s]
              BY ScopeFacts DEF LedgerInv, CapsStand, CapsSeen, StepOn, Resolved, Resolving
          <4>2. \A s \in tx.fresh : ~row[att[p].date][s].exists
              BY DEF LedgerInv, CapsStand, CapsSeen, StepOn
          <4> QED BY <1>2, <3>1, <4>1, <4>2 DEF CapsSeen
        <3>2. CASE q # p
            BY <1>2, <3>2 DEF LedgerInv, CapsStand, CapsSeen
        <3> QED BY <3>1, <3>2
    <2> QED BY <2>1 DEF LedgerInv, CapsStand
<1> QED BY <1>1, <1>4, <1>5, <1>6, <1>7 DEF LedgerInv

LEMMA TransactionIs ==
  ASSUME LedgerInv, NEW p \in Attempts
  PROVE  att[p] \in Attempt /\ att[p].tx \in Transaction
  BY DEF LedgerInv, LedgerTypeOK, Attempt, Transaction

\* An INSERT locks the row unless it is there, and what it locks it wrote.
LEMMA InsertGlobalKeeps ==
  ASSUME LedgerInv, NEW p \in Attempts, InsertGlobal(p)
  PROVE  LedgerInv'
<1> DEFINE old == att[p].tx
           ask == [old EXCEPT !.step = "insertOrg"]
           got == [Take(p, Global, ask) EXCEPT !.fresh = @ \cup {Global}]
<1>1. old \in Transaction /\ Global \in Scopes /\ old.step = "insertGlobal"
      /\ att[p].at \in InTransaction
    BY TransactionIs, ScopeFacts DEF InsertGlobal, InStep, InTransaction
<1>2. /\ ask \in Transaction /\ ask.step = "insertOrg"
      /\ ask.holds = old.holds /\ ask.fresh = old.fresh
    BY <1>1 DEF Transaction, Steps
<1>3. /\ got \in Transaction /\ got.step = "insertOrg"
      /\ got.holds = old.holds \cup {Global} /\ got.fresh = old.fresh \cup {Global}
    BY <1>1, <1>2 DEF Transaction, Take
<1>4. CASE row[att[p].date][Global].exists
  <2>1. StepOn(p, ask, {}) /\ SetTx(p, ask)
      BY <1>1, <1>2, <1>4 DEF InsertGlobal, Insert, StepOn, Steps
  <2> QED BY <2>1, StepOnKeeps DEF InsertGlobal
<1>5. CASE ~row[att[p].date][Global].exists
  <2>1. StepOn(p, got, {Global}) /\ SetTx(p, got)
      BY <1>1, <1>3, <1>5 DEF InsertGlobal, Insert, StepOn, Steps, ScopesOf
  <2> QED BY <2>1, StepOnKeeps DEF InsertGlobal
<1> QED BY <1>4, <1>5

LEMMA InsertOrgKeeps ==
  ASSUME LedgerInv, NEW p \in Attempts, InsertOrg(p)
  PROVE  LedgerInv'
<1> DEFINE old == att[p].tx
           ask == [old EXCEPT !.step = "refreshGlobal", !.caps = Resolved(p)]
           got == [Take(p, Org(p), ask) EXCEPT !.fresh = @ \cup {Org(p)}]
<1>1. old \in Transaction /\ Org(p) \in Scopes /\ old.step = "insertOrg"
      /\ att[p].at \in InTransaction /\ Resolved(p) \in [Scopes -> Nat]
    BY TransactionIs, ScopeFacts
       DEF InsertOrg, InStep, InTransaction, Resolved, LedgerInv, LedgerTypeOK
<1>2. /\ ask \in Transaction /\ ask.step = "refreshGlobal" /\ ask.caps = Resolved(p)
      /\ ask.holds = old.holds /\ ask.fresh = old.fresh
    BY <1>1 DEF Transaction, Steps
<1>3. /\ got \in Transaction /\ got.step = "refreshGlobal" /\ got.caps = Resolved(p)
      /\ got.holds = old.holds \cup {Org(p)} /\ got.fresh = old.fresh \cup {Org(p)}
    BY <1>1, <1>2 DEF Transaction, Take
<1>4. Visible(p, Global)
    BY <1>1 DEF LedgerInv, Held
<1>5. CASE SetTx(p, ask)
  <2>1. StepOn(p, ask, {})
      BY <1>1, <1>2 DEF StepOn, Steps
  <2> QED BY <1>5, <2>1, StepOnKeeps DEF InsertOrg
<1>6. CASE ~row[att[p].date][Org(p)].exists /\ Free(p, Org(p)) /\ SetTx(p, got)
  <2>1. StepOn(p, got, {Org(p)})
      BY <1>1, <1>3, <1>4, <1>6 DEF StepOn, Steps, ScopesOf
  <2> QED BY <1>6, <2>1, StepOnKeeps DEF InsertOrg
<1> QED BY <1>5, <1>6 DEF InsertOrg, Insert

\* A refresh writes a row only after a change of its cap.
LEMMA RefreshKeeps ==
  ASSUME LedgerInv, NEW p \in Attempts, NEW s \in ScopesOf(p),
         NEW from \in {"refreshGlobal", "refreshOrg"}, NEW to \in {"refreshOrg", "lockFirst"},
         from = "refreshGlobal" => s = Global,
         RefreshCap(p, s, from, to)
  PROVE  LedgerInv'
<1> DEFINE old == att[p].tx
           ask == [old EXCEPT !.step = to]
           got == [Take(p, s, ask) EXCEPT !.fresh = @ \cup {s}]
<1>1. old \in Transaction /\ s \in Scopes /\ old.step = from /\ att[p].at \in InTransaction
    BY TransactionIs, ScopeFacts DEF RefreshCap, InStep
<1>2. /\ ask \in Transaction /\ ask.step = to /\ ask.caps = old.caps
      /\ ask.holds = old.holds /\ ask.fresh = old.fresh
    BY <1>1 DEF Transaction, Steps
<1>3. /\ got \in Transaction /\ got.step = to /\ got.caps = old.caps
      /\ got.holds = old.holds \cup {s} /\ got.fresh = old.fresh \cup {s}
    BY <1>1, <1>2 DEF Transaction, Take
<1>4. CASE SetTx(p, ask)
  <2>1. StepOn(p, ask, {})
      BY <1>1, <1>2 DEF StepOn, Steps, Resolving
  <2> QED BY <1>4, <2>1, StepOnKeeps DEF RefreshCap
<1>5. CASE Visible(p, s) /\ CapSeen(p, s) # old.caps[s] /\ Free(p, s) /\ SetTx(p, got)
  <2>1. changes # {}
    <3> SUFFICES ASSUME changes = {} PROVE FALSE
        OBVIOUS
    <3>1. old.caps[s] = InitialCap[s]
        BY <1>1 DEF LedgerInv, CapsStand, CapsSeen, Resolving
    <3>2. s \notin old.fresh /\ row[att[p].date][s].cap # InitialCap[s]
        BY <1>5, <3>1 DEF CapSeen
    <3>3. row[att[p].date][s].exists
        BY <1>1, <1>5, <3>2 DEF Visible, LedgerInv, Held
    <3>4. att[p].date \in Days
        BY <1>1 DEF LedgerInv, Placed
    <3> QED BY <1>1, <3>2, <3>3, <3>4 DEF LedgerInv, CapsStand
  <2>2. Visible(p, Global)
    <3>1. att[p].date \in Days
        BY <1>1 DEF LedgerInv, Placed
    <3> QED BY <1>1, <1>5, <3>1 DEF Visible, LedgerInv, Held, RowsTogether
  <2>3. StepOn(p, got, {s})
      BY <1>1, <1>3, <1>5, <2>1, <2>2 DEF StepOn, Steps, Resolving
  <2> QED BY <1>5, <2>3, StepOnKeeps DEF RefreshCap
<1> QED BY <1>4, <1>5 DEF RefreshCap

LEMMA LockFirstKeeps ==
  ASSUME LedgerInv, NEW p \in Attempts, LockFirst(p)
  PROVE  LedgerInv'
<1> DEFINE old == att[p].tx
           ask == [old EXCEPT !.step = "lockLast", !.seen = row[att[p].date][Global].total]
           got == Take(p, Global, ask)
<1>1. old \in Transaction /\ Global \in Scopes /\ old.step = "lockFirst"
      /\ att[p].at \in InTransaction /\ att[p].date \in Days
    BY TransactionIs, ScopeFacts DEF LockFirst, InStep, LedgerInv, Placed
<1>2. row[att[p].date][Global].total \in Nat
    BY <1>1 DEF LedgerInv, LedgerTypeOK
<1>3. /\ ask \in Transaction /\ ask.step = "lockLast" /\ ask.caps = old.caps
      /\ ask.holds = old.holds /\ ask.fresh = old.fresh
    BY <1>1, <1>2 DEF Transaction, Steps
<1>4. /\ got \in Transaction /\ got.step = "lockLast" /\ got.caps = old.caps
      /\ got.holds = old.holds \cup {Global} /\ got.fresh = old.fresh
    BY <1>1, <1>3 DEF Transaction, Take
<1>5. CASE SetTx(p, ask)
  <2>1. StepOn(p, ask, {})
      BY <1>1, <1>3 DEF StepOn, Steps, Resolving
  <2> QED BY <1>5, <2>1, StepOnKeeps DEF LockFirst
<1>6. CASE Visible(p, Global) /\ Free(p, Global) /\ SetTx(p, got)
  <2>1. StepOn(p, got, {Global})
      BY <1>1, <1>4, <1>6 DEF StepOn, Steps, Resolving, ScopesOf
  <2> QED BY <1>6, <2>1, StepOnKeeps DEF LockFirst
<1> QED BY <1>5, <1>6 DEF LockFirst, FirstLocked

\* A commit makes rows only beside the global row, and changes those that nobody else holds.
LEMMA CommitKeeps ==
  ASSUME LedgerInv, NEW p \in Attempts, NEW cents \in Int, NEW place \in Ended \cup {"sdk"},
         NEW r \in Attempt, r.at = place, r.tx = NoTransaction,
         att[p].tx.step = "lockLast", LastReady(p), Commit(p, cents),
         \A s \in ScopesOf(p) : Visible(p, s) => row[att[p].date][s].total + cents \in Nat,
         att' = [att EXCEPT ![p] = r], UNCHANGED <<day, setting, changes, ledger>>
  PROVE  LedgerInv'
<1> DEFINE d == att[p].date
<1>0. d \in Days /\ ScopesOf(p) \subseteq Scopes /\ Global \in ScopesOf(p) /\ Global \in Scopes
    BY ScopeFacts DEF LedgerInv, Placed, ScopesOf
<1>1. row \in [Days -> [Scopes -> RowOfDay]]
    BY DEF LedgerInv, LedgerTypeOK, RowOfDay
<1> DEFINE new == [s \in Scopes |-> IF s \in ScopesOf(p) /\ Visible(p, s)
                     THEN [exists |-> TRUE, total |-> row[d][s].total + cents,
                           cap |-> CapSeen(p, s)]
                     ELSE row[d][s]]
<1>2. row' = [row EXCEPT ![d] = new]
    BY <1>0, <1>1 DEF Commit
<1>3. new \in [Scopes -> RowOfDay]
    <2>1. ASSUME NEW s \in Scopes PROVE new[s] \in RowOfDay
      <3>1. CapSeen(p, s) \in Nat
          BY <1>0, <1>1, TransactionIs DEF CapSeen, Transaction, RowOfDay
      <3> QED BY <1>0, <1>1, <3>1 DEF RowOfDay
    <2> QED BY <2>1
<1>4. row' \in [Days -> [Scopes -> RowOfDay]] /\ row'[d] = new
      /\ \A e \in Days \ {d} : row'[e] = row[e]
    BY <1>0, <1>1, <1>2, <1>3
<1>5. \A s \in Scopes : new[s].exists <=> row[d][s].exists \/ (s \in ScopesOf(p) /\ Visible(p, s))
    BY DEF Visible
<1>6. \A s \in Scopes : new[s].exists /\ ~row[d][s].exists => s \in att[p].tx.holds
    BY <1>5 DEF Visible
<1> HIDE DEF new
<1>7. att'[p] = r /\ \A q \in Attempts \ {p} : att'[q] = att[q]
    BY DEF LedgerInv, LedgerTypeOK
<1>8. LedgerTypeOK'
    BY <1>4 DEF LedgerInv, LedgerTypeOK, Attempt, Transaction, RowOfDay
<1>9. ASSUME NEW e \in Days, NEW s \in Scopes, row[e][s].exists PROVE row'[e][s].exists
    <2>1. CASE e = d
        BY <1>4, <1>5, <1>9, <2>1
    <2>2. CASE e # d
        BY <1>4, <1>9, <2>2
    <2> QED BY <2>1, <2>2
<1>10. ASSUME NEW q \in Attempts PROVE Placed(q)' /\ Held(q)'
    <2>1. CASE q = p
        BY <1>7, <2>1 DEF Placed, Held, NoTransaction, Ended, InTransaction
    <2>2. CASE q # p
      <3>1. Placed(q)'
          BY <1>7, <2>2 DEF LedgerInv, Placed
      <3>2. CASE att[q].tx.step = "none"
          BY <1>7, <2>2, <3>1, <3>2 DEF Held, Placed
      <3>3. CASE att[q].tx.step # "none"
        <4>1. att[q].date \in Days /\ att[q].tx.holds \subseteq Scopes
            BY <3>3, TransactionIs DEF LedgerInv, Placed, Transaction
        <4>2. Visible(q, Global) => Visible(q, Global)'
            BY <1>0, <1>7, <1>9, <2>2, <4>1 DEF Visible
        <4>3. \A s \in att[q].tx.holds :
                row[att[q].date][s].exists => row'[att[q].date][s].exists
            BY <1>9, <4>1
        <4>4. Held(q)
            BY DEF LedgerInv
        <4> QED BY <1>7, <2>2, <3>1, <4>2, <4>3, <4>4 DEF Held
      <3> QED BY <3>1, <3>2, <3>3
    <2> QED BY <2>1, <2>2
<1>11. Apart'
    BY <1>7 DEF LedgerInv, Apart, NoTransaction
<1>12. RowsTogether'
    <2>1. ASSUME NEW s \in Scopes, new[s].exists PROVE new[Global].exists
      <3>1. CASE row[d][s].exists
          BY <1>0, <1>5, <3>1 DEF LedgerInv, RowsTogether
      <3>2. CASE ~row[d][s].exists
        <4>1. att[p].tx.holds # {} /\ Held(p)
            BY <1>6, <2>1, <3>2 DEF LedgerInv
        <4>2. Visible(p, Global)
            BY <4>1 DEF Held
        <4> QED BY <1>0, <1>5, <4>2
      <3> QED BY <3>1, <3>2
    <2> QED BY <1>0, <1>4, <2>1 DEF LedgerInv, RowsTogether
<1>13. CapsStand'
    <2> SUFFICES ASSUME changes = {} PROVE CapsStand'
        BY DEF CapsStand
    <2>1. ASSUME NEW s \in Scopes, new[s].exists PROVE new[s].cap = InitialCap[s]
      <3>1. CASE s \in ScopesOf(p) /\ Visible(p, s)
        <4>1. CapSeen(p, s) = InitialCap[s]
          <5>1. CapsStand /\ Held(p) /\ changes = {}
              BY DEF LedgerInv
          <5> QED BY <1>0, <3>1, <5>1 DEF CapSeen, Visible, CapsStand, CapsSeen, Resolving, Held
        <4> QED BY <3>1, <4>1 DEF new
      <3>2. CASE ~(s \in ScopesOf(p) /\ Visible(p, s))
          BY <1>0, <1>5, <2>1, <3>2 DEF new, LedgerInv, CapsStand
      <3> QED BY <3>1, <3>2
    <2>2. ASSUME NEW q \in Attempts PROVE CapsSeen(q)'
        <3>1. CASE q = p
            BY <1>7, <3>1 DEF CapsSeen, NoTransaction, Resolving
        <3>2. CASE q # p
          <4>1. ASSUME NEW s \in att[q].tx.fresh PROVE ~row'[att[q].date][s].exists
            <5>1. /\ s \in att[q].tx.holds /\ att[q].date \in Days /\ s \in Scopes
                  /\ ~row[att[q].date][s].exists
                BY <4>1, TransactionIs
                   DEF LedgerInv, Held, Placed, CapsStand, CapsSeen, Transaction
            <5>2. att[q].date = d => s \notin att[p].tx.holds
                BY <3>2, <5>1 DEF LedgerInv, Apart
            <5> QED BY <1>4, <1>6, <5>1, <5>2
          <4> QED BY <1>7, <3>2, <4>1 DEF LedgerInv, CapsStand, CapsSeen
        <3> QED BY <3>1, <3>2
    <2>3. \A e \in Days, s \in Scopes : row'[e][s].exists => row'[e][s].cap = InitialCap[s]
        BY <1>4, <2>1 DEF LedgerInv, CapsStand
    <2> QED BY <2>2, <2>3 DEF LedgerInv, CapsStand
<1> QED BY <1>8, <1>10, <1>11, <1>12, <1>13 DEF LedgerInv

LEMMA ReserveKeeps ==
  ASSUME LedgerInv, NEW p \in Attempts, Reserve(p)
  PROVE  LedgerInv'
<1> DEFINE gone == GoOn(p, "refused")
           paid == [GoOn(p, "sdk") EXCEPT !.booked = att[p].date]
<1>1. att[p].tx.step = "lockLast" /\ att[p].date \in Days /\ LedgerTypeOK
    BY DEF Reserve, InStep, LedgerInv, Placed
<1>2. gone \in Attempt /\ gone.at = "refused" /\ gone.tx = NoTransaction
    BY <1>1, GoOnIs DEF Places, Ended
<1>3. paid \in Attempt /\ paid.at = "sdk" /\ paid.tx = NoTransaction
  <2>1. GoOn(p, "sdk") \in Attempt /\ GoOn(p, "sdk").at = "sdk" /\ GoOn(p, "sdk").tx = NoTransaction
      BY <1>1, GoOnIs DEF Places
  <2> QED BY <1>1, <2>1 DEF Attempt
<1>4. CASE att' = [att EXCEPT ![p] = gone] /\ UNCHANGED row
  <2>1. gone.tx.holds = {} /\ gone.tx.fresh = {} /\ gone.tx.step = "none"
      BY <1>2 DEF NoTransaction
  <2>2. gone.at \notin InTransaction /\ ledger' \subseteq Calls
      BY <1>1, <1>2 DEF InTransaction, LedgerTypeOK, Reserve
  <2> HIDE DEF gone
  <2> QED BY <1>2, <1>4, <2>1, <2>2, Leaves DEF Reserve
<1>5. CASE Commit(p, Est[p[1]]) /\ att' = [att EXCEPT ![p] = paid]
  <2>1. \A s \in ScopesOf(p) : row[att[p].date][s].total + Est[p[1]] \in Nat
      BY <1>1, ScopeFacts DEF LedgerTypeOK
  <2>2. /\ Est[p[1]] \in Int /\ "sdk" \in Ended \cup {"sdk"}
        /\ LastReady(p) /\ UNCHANGED <<day, setting, changes, ledger>>
      BY ScopeFacts DEF Reserve
  <2> HIDE DEF paid
  <2> QED BY <1>1, <1>3, <1>5, <2>1, <2>2, CommitKeeps
<1> QED BY <1>4, <1>5 DEF Reserve

LEMMA SettleKeeps ==
  ASSUME LedgerInv, NEW p \in Attempts, SettleCost(p)
  PROVE  LedgerInv'
<1> DEFINE done == [GoOn(p, Recorded(p)) EXCEPT !.settled = att[p].date]
<1>1. /\ att[p].tx.step = "lockLast" /\ att[p].date \in Days /\ LedgerTypeOK
      /\ Recorded(p) \in Ended
    BY DEF SettleCost, InStep, LedgerInv, Placed, Recorded, Ended
<1>2. done \in Attempt /\ done.at = Recorded(p) /\ done.tx = NoTransaction
  <2>1. /\ GoOn(p, Recorded(p)) \in Attempt /\ GoOn(p, Recorded(p)).at = Recorded(p)
        /\ GoOn(p, Recorded(p)).tx = NoTransaction
      BY <1>1, GoOnIs DEF Places
  <2> QED BY <1>1, <2>1 DEF Attempt
<1>3. Difference(p) \in Int
    BY ScopeFacts DEF Difference
<1>4. \A s \in ScopesOf(p) : Visible(p, s) => row[att[p].date][s].total + Difference(p) \in Nat
    BY <1>1, <1>3, ScopeFacts DEF SettleCost, StaysPositive, LedgerTypeOK
<1> HIDE DEF done
<1> QED BY <1>1, <1>2, <1>3, <1>4, CommitKeeps DEF SettleCost, done

\* invokeModel's own steps, and what ends an attempt.
LEMMA AttemptKeeps ==
  ASSUME LedgerInv, NEW p \in Attempts,
         Lookup(p) \/ LockTimeout(p) \/ Fail(p) \/ Invoke(p) \/ Observe(p)
  PROVE  LedgerInv'
<1>1. /\ UNCHANGED <<day, setting, changes, row>> /\ ledger' \subseteq Calls
      /\ LedgerTypeOK /\ day \in Days /\ att[p] \in Attempt
    BY ScopeFacts, TransactionIs
       DEF Lookup, LockTimeout, Fail, Invoke, Observe, LedgerInv, LedgerTypeOK
<1>2. ASSUME NEW r \in Attempt, att' = [att EXCEPT ![p] = r], r.tx = NoTransaction,
             r.at \in Places \ InTransaction
      PROVE  LedgerInv'
  <2>1. r.tx.holds = {} /\ r.tx.fresh = {} /\ r.tx.step = "none"
      BY <1>2 DEF NoTransaction
  <2> QED BY <1>1, <1>2, <2>1, Leaves
<1>3. ASSUME NEW place \in InTransaction, NEW d \in Days,
             att' = [att EXCEPT ![p] = Enter(p, place, d)]
      PROVE  LedgerInv'
  <2> DEFINE r == Enter(p, place, d)
  <2>1. r \in Attempt /\ r.at = place /\ r.tx = Begin(p, place) /\ r.date = d
      BY <1>1, EnterIs DEF Places
  <2>2. /\ r.tx.holds = {} /\ r.tx.fresh = {}
        /\ \/ r.tx.step = "insertGlobal"
           \/ r.tx.step = "refreshGlobal" /\ r.tx.caps = Resolved(p)
      BY <1>1, <2>1, BeginIs
  <2>3. att' = [att EXCEPT ![p] = r]
      BY <1>3
  <2> HIDE DEF r
  <2> QED BY <1>1, <2>1, <2>2, <2>3, Leaves
<1>4. ASSUME NEW place \in Places \ InTransaction, att' = [att EXCEPT ![p] = GoOn(p, place)]
      PROVE  LedgerInv'
    BY <1>1, <1>2, <1>4, GoOnIs
<1>5. CASE Lookup(p)
  <2>1. CASE p[1] \in ledger
    <3>1. /\ GoOn(p, "observe") \in Attempt /\ GoOn(p, "observe").at = "observe"
          /\ GoOn(p, "observe").tx = NoTransaction
        BY <1>1, GoOnIs DEF Places
    <3> DEFINE r == [GoOn(p, "observe") EXCEPT !.replay = TRUE]
    <3>2. r \in Attempt /\ r.tx = NoTransaction /\ r.at \in Places \ InTransaction
        BY <3>1 DEF Attempt, Places, InTransaction
    <3>3. att' = [att EXCEPT ![p] = r]
        BY <1>5, <2>1 DEF Lookup
    <3> HIDE DEF r
    <3> QED BY <1>2, <3>2, <3>3
  <2>2. CASE p[1] \notin ledger
    <3>1. att' = [att EXCEPT ![p] = Enter(p, "check", day)]
        BY <1>5, <2>2 DEF Lookup
    <3> QED BY <1>1, <1>3, <3>1 DEF InTransaction
  <2> QED BY <2>1, <2>2
<1>6. CASE LockTimeout(p)
  <2>1. CASE att[p].at = "check"
    <3>1. att[p].date \in Days
        BY <2>1 DEF LedgerInv, Placed, InTransaction
    <3>2. att' = [att EXCEPT ![p] = Enter(p, "recheck", att[p].date)]
        BY <1>6, <2>1 DEF LockTimeout
    <3> QED BY <1>3, <3>1, <3>2 DEF InTransaction
  <2>2. CASE att[p].at # "check"
    <3>1. \E place \in {"refused", "failed"} : att' = [att EXCEPT ![p] = GoOn(p, place)]
        BY <1>6, <2>2 DEF LockTimeout
    <3> QED BY <1>4, <3>1 DEF Places, Ended, InTransaction
  <2> QED BY <2>1, <2>2
<1>7. CASE Fail(p)
    BY <1>4, <1>7 DEF Fail, Places, Ended, InTransaction
<1>8. CASE Invoke(p)
  <2>1. ASSUME NEW place \in {"observe", "failed"}, NEW b \in BOOLEAN,
               att' = [att EXCEPT ![p] = [GoOn(p, place) EXCEPT !.paid = b]]
        PROVE  LedgerInv'
    <3>1. /\ GoOn(p, place) \in Attempt /\ GoOn(p, place).at = place
          /\ GoOn(p, place).tx = NoTransaction
        BY <1>1, GoOnIs DEF Places, Ended
    <3> DEFINE r == [GoOn(p, place) EXCEPT !.paid = b]
    <3>2. r \in Attempt /\ r.tx = NoTransaction /\ r.at \in Places \ InTransaction
        BY <3>1 DEF Attempt, Places, Ended, InTransaction
    <3>3. att' = [att EXCEPT ![p] = r]
        BY <2>1
    <3> HIDE DEF r
    <3> QED BY <1>2, <3>2, <3>3
  <2>2. CASE att' = [att EXCEPT ![p] = Enter(p, "release", day)]
      BY <1>1, <1>3, <2>2 DEF InTransaction
  <2> QED BY <1>8, <2>1, <2>2 DEF Invoke
<1>9. CASE Observe(p)
  <2>1. CASE att' = [att EXCEPT ![p] = GoOn(p, "done")]
      BY <1>4, <2>1 DEF Places, Ended, InTransaction
  <2>2. CASE att' = [att EXCEPT ![p] = Enter(p, "record", day)]
      BY <1>1, <1>3, <2>2 DEF InTransaction
  <2> QED BY <1>9, <2>1, <2>2 DEF Observe
<1> QED BY <1>5, <1>6, <1>7, <1>8, <1>9

LEMMA ScheduleKeeps ==
  ASSUME LedgerInv, Midnight \/ \E s \in Scopes, c \in Caps : ChangeCap(s, c)
  PROVE  LedgerInv'
<1>1. UNCHANGED <<row, att, ledger>>
    BY DEF Midnight, ChangeCap
<1>2. LedgerTypeOK'
  <2>1. CASE Midnight
      BY <2>1, CostAssumption DEF Midnight, LedgerInv, LedgerTypeOK, Days
  <2>2. ASSUME NEW s \in Scopes, NEW c \in Caps, ChangeCap(s, c) PROVE LedgerTypeOK'
    <3>1. c \in Nat /\ setting[s] \in Nat /\ day \in Days
        BY CostAssumption DEF LedgerInv, LedgerTypeOK
    <3> QED BY <1>1, <2>2, <3>1 DEF ChangeCap, LedgerInv, LedgerTypeOK
  <2> QED BY <2>1, <2>2
<1>3. \A p \in Attempts : Placed(p)' /\ Held(p)'
    BY <1>1 DEF LedgerInv, Placed, Held, Visible
<1>4. Apart' /\ RowsTogether'
    BY <1>1 DEF LedgerInv, Apart, RowsTogether
<1>5. CapsStand'
  <2>1. CASE Midnight
      BY <1>1, <2>1 DEF Midnight, LedgerInv, CapsStand, CapsSeen
  <2>2. CASE \E s \in Scopes, c \in Caps : ChangeCap(s, c)
      BY <2>2 DEF ChangeCap, CapsStand
  <2> QED BY <2>1, <2>2
<1> QED BY <1>2, <1>3, <1>4, <1>5 DEF LedgerInv

LEMMA LedgerKeeps == LedgerInv /\ [LedgerNext]_ledgerVars => LedgerInv'
<1> SUFFICES ASSUME LedgerInv, [LedgerNext]_ledgerVars PROVE LedgerInv'
    OBVIOUS
<1>1. ASSUME NEW p \in Attempts, TransactionStep(p) PROVE LedgerInv'
  <2>1. /\ Global \in ScopesOf(p) /\ Org(p) \in ScopesOf(p)
        /\ RefreshCap(p, Global, "refreshGlobal", "refreshOrg") => LedgerInv'
        /\ RefreshCap(p, Org(p), "refreshOrg", "lockFirst") => LedgerInv'
      BY RefreshKeeps DEF ScopesOf
  <2> QED BY <1>1, <2>1, InsertGlobalKeeps, InsertOrgKeeps, LockFirstKeeps, ReserveKeeps,
             SettleKeeps DEF TransactionStep
<1>2. ASSUME NEW p \in Attempts,
             Lookup(p) \/ LockTimeout(p) \/ Fail(p) \/ Invoke(p) \/ Observe(p)
      PROVE  LedgerInv'
    BY <1>2, AttemptKeeps
<1>3. CASE UNCHANGED ledgerVars
  <2>1. UNCHANGED <<day, setting, changes, row, att, ledger>>
      BY <1>3 DEF ledgerVars
  <2>2. LedgerTypeOK' /\ \A p \in Attempts : Placed(p)' /\ Held(p)'
      BY <2>1 DEF LedgerInv, LedgerTypeOK, Placed, Held, Visible
  <2>3. Apart' /\ RowsTogether' /\ CapsStand'
      BY <2>1 DEF LedgerInv, Apart, RowsTogether, CapsStand, CapsSeen
  <2> QED BY <2>2, <2>3 DEF LedgerInv
<1> QED BY <1>1, <1>2, <1>3, ScheduleKeeps DEF LedgerNext

LEMMA LedgerAlways == LedgerSpec => []LedgerInv
  BY LedgerStarts, LedgerKeeps, PTL DEF LedgerSpec

\* Rows, caps, dates and transactions keep their types; no daily total is negative, which is
\* what the CHECK of the table and the guard of recordCallCost's commit are for.
THEOREM LedgerTypeCorrect == LedgerSpec => []LedgerTypeOK
  BY LedgerAlways, PTL DEF LedgerInv

\* Who waits for a row wants one of its own scopes, and waits for the global row only before
\* its first FOR UPDATE.
LEMMA WantsAre ==
  ASSUME NEW p \in Attempts
  PROVE  /\ Wanted(p) \subseteq ScopesOf(p)
         /\ Global \in Wanted(p) /\ ~Platform(p) => att[p].tx.step # "lockLast"
         /\ \A s \in Wanted(p) : Visible(p, s) \/ att[p].tx.step \in {"insertGlobal", "insertOrg"}
         /\ Org(p) \in Wanted(p) /\ ~Platform(p) => att[p].tx.step # "insertGlobal"
  BY DEF Wanted, ScopesOf, Platform, FirstLocked, LastLocked

LEMMA CircleAtGlobal ==
  ASSUME LedgerInv, NEW p \in Attempts, NEW q \in Attempts, WaitsFor(p, q), WaitsFor(q, p),
         Global \in Wanted(p), Global \in att[q].tx.holds
  PROVE  Org(p) \in att[p].tx.fresh /\ Global \notin att[p].tx.holds /\ changes # {}
<1>1. /\ p # q /\ att[p].date = att[q].date
      /\ att[p].tx.holds \cap att[q].tx.holds = {}
      /\ Held(p) /\ Held(q) /\ Placed(p)
    BY DEF WaitsFor, LedgerInv, Apart
<1>2. PICK s \in Wanted(q) : s \in att[p].tx.holds
    BY DEF WaitsFor
<1>3. s # Global /\ Global \notin att[p].tx.holds /\ s \notin att[q].tx.holds
    BY <1>1, <1>2
<1>4. s = Org(p) /\ s = Org(q) /\ ~Platform(p) /\ ~Platform(q)
  <2>1. s \in ScopesOf(q) /\ s \in ScopesOf(p)
      BY <1>1, <1>2, WantsAre DEF Held
  <2> QED BY <1>3, <2>1 DEF ScopesOf, Platform
<1>5. s \in att[p].tx.fresh
  <2>1. att[p].tx.step # "lockLast"
      BY <1>4, WantsAre
  <2> QED BY <1>1, <1>2, <2>1 DEF Held
<1>6. changes # {}
  <2> SUFFICES ASSUME changes = {} PROVE FALSE
      OBVIOUS
  <2>1. CapsSeen(p) /\ CapsSeen(q)
      BY DEF LedgerInv, CapsStand
  <2>2. ~Visible(q, s)
      BY <1>1, <1>3, <1>5, <2>1 DEF CapsSeen, Visible
  <2>3. att[q].tx.step = "insertOrg"
      BY <1>2, <1>4, <2>2, WantsAre
  <2>4. ~row[att[p].date][Global].exists
      BY <1>1, <2>1, <2>3 DEF Held, CapsSeen
  <2>5. Visible(p, Global)
      BY <1>1, <1>2 DEF Held
  <2> QED BY <1>3, <2>4, <2>5 DEF Visible
<1> QED BY <1>3, <1>4, <1>5, <1>6

\* Two transactions of the enforcer (postgres_enforcer.ts: insert, refreshCapCents, SELECT ...
\* FOR UPDATE) wait for each other only after a change of a cap, and then one of them wrote its
\* installation's cap before it had the global row.
THEOREM DeadlockNeedsCapChangeHolds == LedgerSpec => []DeadlockNeedsCapChange
<1>1. ASSUME LedgerInv PROVE DeadlockNeedsCapChange
  <2> SUFFICES ASSUME NEW p \in Attempts, NEW q \in Attempts, WaitsFor(p, q), WaitsFor(q, p)
               PROVE  \E x \in {p, q} : /\ Org(x) \in att[x].tx.fresh
                                        /\ Global \notin att[x].tx.holds /\ changes # {}
      BY DEF DeadlockNeedsCapChange
  <2>1. PICK s \in Wanted(p) : s \in att[q].tx.holds
      BY DEF WaitsFor
  <2>2. PICK t \in Wanted(q) : t \in att[p].tx.holds
      BY DEF WaitsFor
  <2>3. s = Global \/ t = Global
    <3>1. s \in ScopesOf(p) /\ s \in ScopesOf(q) /\ t \in ScopesOf(q)
        BY <1>1, <2>1, <2>2, WantsAre DEF LedgerInv, Held
    <3>2. s # t
        BY <1>1, <2>1, <2>2 DEF WaitsFor, LedgerInv, Apart
    <3> QED BY <3>1, <3>2 DEF ScopesOf
  <2>4. CASE s = Global
      BY <1>1, <2>1, <2>4, CircleAtGlobal
  <2>5. CASE t = Global
      BY <1>1, <2>2, <2>5, CircleAtGlobal
  <2> QED BY <2>3, <2>4, <2>5
<1> QED BY <1>1, LedgerAlways, PTL

-----------------------------------------------------------------------------
(* Sums, counted cent by cent. *)

LEMMA CentsOfOne ==
  ASSUME NEW p, NEW n \in Nat
  PROVE  IsFiniteSet({p} \X (1 .. n)) /\ Cardinality({p} \X (1 .. n)) = n
<1>1. IsFiniteSet({p}) /\ Cardinality({p}) = 1
    BY FS_Singleton
<1>2. IsFiniteSet(1 .. n) /\ Cardinality(1 .. n) = n
  <2>1. IsFiniteSet(1 .. n) /\ Cardinality(1 .. n) = IF 1 > n THEN 0 ELSE n - 1 + 1
      BY FS_Interval
  <2> QED BY <2>1
<1> DEFINE one == {p}
           many == 1 .. n
<1> HIDE DEF one, many
<1>3. IsFiniteSet(one \X many) /\ Cardinality(one \X many) = Cardinality(one) * Cardinality(many)
    BY <1>1, <1>2, FS_Product DEF one, many
<1>4. Cardinality(one) * Cardinality(many) = n
    BY <1>1, <1>2 DEF one, many
<1> QED BY <1>3, <1>4 DEF one, many

LEMMA CentsAreFinite ==
  ASSUME NEW S, IsFiniteSet(S), NEW amount, \A p \in S : amount[p] \in Nat
  PROVE  IsFiniteSet(Cents(amount, S)) /\ SumOf(amount, S) \in Nat
<1> DEFINE T == {{p} \X (1 .. amount[p]) : p \in S}
           f == [p \in S |-> {p} \X (1 .. amount[p])]
<1>1. f \in Surjection(S, T)
    BY DEF Surjection
<1>2. IsFiniteSet(T)
    BY <1>1, FS_Surjection
<1>3. ASSUME NEW C \in T PROVE IsFiniteSet(C)
  <2>1. PICK p \in S : C = {p} \X (1 .. amount[p])
      OBVIOUS
  <2>2. amount[p] \in Nat
      OBVIOUS
  <2> QED BY <2>1, <2>2, CentsOfOne
<1>4. IsFiniteSet(UNION T)
    BY <1>2, <1>3, FS_UNION
<1>5. IsFiniteSet(Cents(amount, S))
    BY <1>4 DEF Cents
<1> QED BY <1>5, FS_CardinalityType DEF SumOf

LEMMA ApartCount ==
  ASSUME NEW A, IsFiniteSet(A), NEW B, IsFiniteSet(B), A \cap B = {}
  PROVE  Cardinality(A \cup B) = Cardinality(A) + Cardinality(B)
<1>1. Cardinality(A \cup B) = Cardinality(A) + Cardinality(B) - Cardinality(A \cap B)
    BY FS_Union
<1>2. Cardinality(A \cap B) = 0
    BY FS_EmptySet
<1>3. Cardinality(A) \in Nat /\ Cardinality(B) \in Nat
    BY FS_CardinalityType
<1> QED BY <1>1, <1>2, <1>3

\* One more member adds its amount.
LEMMA SumAdds ==
  ASSUME NEW S, IsFiniteSet(S), NEW p, p \notin S,
         NEW amount, \A q \in S \cup {p} : amount[q] \in Nat
  PROVE  SumOf(amount, S \cup {p}) = SumOf(amount, S) + amount[p]
<1> DEFINE A == Cents(amount, S)
           B == {p} \X (1 .. amount[p])
<1>1. Cents(amount, S \cup {p}) = A \cup B
    BY DEF Cents
<1>2. A \cap B = {}
    BY DEF Cents
<1>3. IsFiniteSet(A)
    BY CentsAreFinite
<1>4. IsFiniteSet(B) /\ Cardinality(B) = amount[p]
    BY CentsOfOne
<1>5. SumOf(amount, S) = Cardinality(A) /\ SumOf(amount, S \cup {p}) = Cardinality(A \cup B)
    BY <1>1 DEF SumOf
<1> HIDE DEF A, B
<1> QED BY <1>2, <1>3, <1>4, <1>5, ApartCount

\* Only the amounts of the members matter.
LEMMA SumSame ==
  ASSUME NEW S, NEW amount, NEW other, \A p \in S : amount[p] = other[p]
  PROVE  SumOf(amount, S) = SumOf(other, S)
<1>1. Cents(amount, S) = Cents(other, S)
    BY DEF Cents
<1> QED BY <1>1 DEF SumOf

\* Smaller amounts of fewer members have a smaller sum.
LEMMA SumGrows ==
  ASSUME NEW S, IsFiniteSet(S), NEW T \in SUBSET S, NEW amount, NEW other,
         \A p \in S : amount[p] \in Nat /\ other[p] \in Nat /\ amount[p] <= other[p]
  PROVE  SumOf(amount, T) <= SumOf(other, S)
<1>1. \A p \in S : 1 .. amount[p] \subseteq 1 .. other[p]
    OBVIOUS
<1>2. Cents(amount, T) \subseteq Cents(other, S)
    BY <1>1 DEF Cents
<1>3. IsFiniteSet(Cents(other, S))
    BY CentsAreFinite
<1> QED BY <1>2, <1>3, FS_Subset DEF SumOf

\* The amount of one member changes.
LEMMA SumChanges ==
  ASSUME NEW S, IsFiniteSet(S), NEW p \in S, NEW amount, NEW other,
         \A q \in S : amount[q] \in Nat /\ other[q] \in Nat,
         \A q \in S \ {p} : amount[q] = other[q]
  PROVE  SumOf(other, S) = SumOf(amount, S) + other[p] - amount[p]
<1> DEFINE R == S \ {p}
<1>1. IsFiniteSet(R) /\ p \notin R /\ S = R \cup {p}
    BY FS_RemoveElement
<1>2. SumOf(amount, R) \in Nat
    BY <1>1, CentsAreFinite
<1>3. SumOf(amount, R) = SumOf(other, R)
    BY SumSame
<1> HIDE DEF R
<1>4. SumOf(amount, S) = SumOf(amount, R) + amount[p]
    BY <1>1, SumAdds
<1>5. SumOf(other, S) = SumOf(other, R) + other[p]
    BY <1>1, SumAdds
<1> QED BY <1>2, <1>3, <1>4, <1>5

LEMMA AttemptsAreFinite == IsFiniteSet(Attempts)
<1> DEFINE T == {{c} \X (1 .. Tries[c]) : c \in Calls}
           f == [c \in Calls |-> {c} \X (1 .. Tries[c])]
<1>1. f \in Surjection(Calls, T)
    BY DEF Surjection
<1>2. IsFiniteSet(T)
    BY <1>1, FS_Surjection, CostAssumption
<1>3. ASSUME NEW C \in T PROVE IsFiniteSet(C)
  <2>1. PICK c \in Calls : C = {c} \X (1 .. Tries[c])
      OBVIOUS
  <2>2. Tries[c] \in Nat
      BY CostAssumption
  <2> QED BY <2>1, <2>2, CentsOfOne
<1>4. IsFiniteSet(UNION T)
    BY <1>2, <1>3, FS_UNION
<1> QED BY <1>4 DEF Attempts

LEMMA MaxOfTwo ==
  ASSUME NEW a \in Int, NEW b \in Int
  PROVE  /\ Max({a, b}) \in {a, b} /\ Max({a, b}) >= a /\ Max({a, b}) >= b
         /\ Min({a, b}) \in {a, b} /\ Min({a, b}) <= a /\ Min({a, b}) <= b
<1>1. \E x \in {a, b} : \A y \in {a, b} : x >= y
  <2>1. CASE a >= b
      BY <2>1
  <2>2. CASE ~(a >= b)
      BY <2>2
  <2> QED BY <2>1, <2>2
<1>2. \E x \in {a, b} : \A y \in {a, b} : x =< y
  <2>1. CASE a <= b
      BY <2>1
  <2>2. CASE ~(a <= b)
      BY <2>2
  <2> QED BY <2>1, <2>2
<1> QED BY <1>1, <1>2 DEF Max, Min

-----------------------------------------------------------------------------
(* What the rows of a day add up to. *)

\* An attempt reserves before it calls the provider and settles at most once, after that.
Counted(p) ==
  /\ att[p].at \in {"idle", "check", "recheck", "refused"} =>
       att[p].booked = 0 /\ ~att[p].paid
  /\ att[p].at \in {"sdk", "release"} => att[p].booked # 0 /\ ~att[p].paid
  /\ att[p].at = "record" => att[p].booked # 0 /\ att[p].paid
  /\ att[p].at = "observe" => IF att[p].replay THEN att[p].booked = 0
                              ELSE att[p].booked # 0 /\ att[p].paid
  /\ att[p].settled # 0 => att[p].booked # 0 /\ att[p].at \in Ended

\* A check sees the rows that it has made sure of, and holds the global one when it reserves.
CheckSees(p) ==
  att[p].at \in {"check", "recheck"} =>
    /\ att[p].tx.step \in Resolving => \A s \in ScopesOf(p) : Visible(p, s)
    /\ att[p].tx.step = "lockLast" => Global \in att[p].tx.holds

BookedHasRow ==
  \A p \in Attempts : att[p].booked # 0 =>
    \A s \in ScopesOf(p) : row[att[p].booked][s].exists
EmptyRows == \A d \in Days, s \in Scopes : ~row[d][s].exists => row[d][s].total = 0

\* Every cap that is in force somewhere was set at some time.
CapsKnown ==
  /\ \A s \in Scopes : setting[s] \in CapsOf(s)
  /\ \A d \in Days, s \in Scopes : row[d][s].exists => row[d][s].cap \in CapsOf(s)
  /\ \A p \in Attempts : att[p].tx.step \in Resolving =>
       \A s \in ScopesOf(p) : att[p].tx.caps[s] \in CapsOf(s)
  /\ \A s \in Scopes : \E m \in CapsOf(s) : \A c \in CapsOf(s) : c <= m

\* What an attempt has in the row of the day it reserved on.
Share == [p \in Attempts |->
            IF att[p].settled # 0 /\ att[p].settled = att[p].booked THEN Paid(p) ELSE Est[p[1]]]
Accounted ==
  \A d \in Days, s \in Scopes :
    ~Foreign(d) => row[d][s].total = SumOf(Share, Spending(d, s))
Capped ==
  \A d \in Days, s \in Scopes :
    row[d][s].total <= Max(CapsOf(s)) + SumOf(Excess, SettledOn(d, s))

\* The total a check has read is exceeded by settlements only.
SeenIsClose ==
  \A p \in Attempts :
    att[p].at \in {"check", "recheck"} /\ att[p].tx.step = "lockLast" =>
      row[att[p].date][Global].total
        <= att[p].tx.seen + SumOf(Excess, SettledOn(att[p].date, Global))

MoneyInv ==
  /\ \A p \in Attempts : Counted(p) /\ CheckSees(p)
  /\ BookedHasRow /\ EmptyRows /\ CapsKnown /\ Accounted /\ Capped /\ SeenIsClose

LEMMA MaxIs ==
  ASSUME NEW S, S \subseteq Nat, NEW m \in S, \A c \in S : c <= m
  PROVE  Max(S) \in S /\ \A c \in S : c <= Max(S)
<1>1. \E x \in S : \A y \in S : x >= y
    OBVIOUS
<1> QED BY <1>1 DEF Max

LEMMA CapsAre ==
  ASSUME LedgerTypeOK, NEW s \in Scopes
  PROVE  CapsOf(s) \subseteq Nat /\ InitialCap[s] \in CapsOf(s)
  BY CostAssumption DEF LedgerTypeOK, CapsOf

LEMMA HighestCap ==
  ASSUME LedgerTypeOK, CapsKnown, NEW s \in Scopes
  PROVE  /\ Max(CapsOf(s)) \in Nat /\ Max(CapsOf(s)) \in CapsOf(s)
         /\ \A c \in CapsOf(s) : c <= Max(CapsOf(s))
<1>1. PICK m \in CapsOf(s) : \A c \in CapsOf(s) : c <= m
    BY DEF CapsKnown
<1>2. CapsOf(s) \subseteq Nat
    BY CapsAre
<1>3. Max(CapsOf(s)) \in CapsOf(s) /\ \A c \in CapsOf(s) : c <= Max(CapsOf(s))
    BY <1>1, <1>2, MaxIs
<1> QED BY <1>2, <1>3

LEMMA SharesAre ==
  ASSUME LedgerTypeOK, NEW p \in Attempts
  PROVE  /\ Share[p] \in Nat /\ Excess[p] \in Nat /\ Excess[p] >= Act[p[1]] - Est[p[1]]
         /\ Paid(p) \in Nat /\ Paid(p) <= Act[p[1]]
<1>1. Est[p[1]] \in Nat /\ Act[p[1]] \in Nat
    BY ScopeFacts
<1>2. Paid(p) \in Nat /\ Paid(p) <= Act[p[1]]
    BY <1>1 DEF Paid
<1>3. Excess[p] = Max({0, Act[p[1]] - Est[p[1]]})
    BY DEF Excess
<1>4. Excess[p] \in Nat /\ Excess[p] >= Act[p[1]] - Est[p[1]]
  <2> DEFINE gap == Act[p[1]] - Est[p[1]]
  <2>1. gap \in Int /\ Excess[p] = Max({0, gap})
      BY <1>1, <1>3
  <2> HIDE DEF gap
  <2>2. Max({0, gap}) \in {0, gap} /\ Max({0, gap}) >= 0 /\ Max({0, gap}) >= gap
      BY <2>1, MaxOfTwo
  <2>3. Excess[p] \in Nat /\ Excess[p] >= gap
      BY <2>1, <2>2
  <2> QED BY <2>3 DEF gap
<1>5. Share[p] \in Nat
    BY <1>1, <1>2 DEF Share
<1> QED BY <1>2, <1>4, <1>5

LEMMA SpendersAreFinite ==
  ASSUME NEW d, NEW s
  PROVE  IsFiniteSet(Spending(d, s)) /\ IsFiniteSet(SettledOn(d, s))
         /\ Spending(d, s) \subseteq Attempts /\ SettledOn(d, s) \subseteq Attempts
<1>1. Spending(d, s) \subseteq Attempts /\ SettledOn(d, s) \subseteq Attempts
    BY DEF Spending, SettledOn
<1> QED BY <1>1, AttemptsAreFinite, FS_Subset

LEMMA SumsAre ==
  ASSUME LedgerTypeOK, NEW d, NEW s
  PROVE  SumOf(Share, Spending(d, s)) \in Nat /\ SumOf(Excess, SettledOn(d, s)) \in Nat
  BY SharesAre, SpendersAreFinite, CentsAreFinite

LEMMA MoneyStarts == LedgerInit => MoneyInv
<1> SUFFICES ASSUME LedgerInit PROVE MoneyInv
    OBVIOUS
<1>1. LedgerTypeOK
    BY LedgerStarts DEF LedgerInv
<1>2. \A p \in Attempts : /\ att[p].at = "idle" /\ att[p].tx = NoTransaction
                         /\ att[p].booked = 0 /\ att[p].settled = 0 /\ ~att[p].paid
    BY DEF LedgerInit, Idle
<1>3. \A d \in Days, s \in Scopes : ~row[d][s].exists /\ row[d][s].total = 0
    BY DEF LedgerInit
<1>4. \A s \in Scopes : CapsOf(s) = {InitialCap[s]} /\ InitialCap[s] \in Nat
    BY CostAssumption DEF LedgerInit, CapsOf
<1>5. \A p \in Attempts : Counted(p) /\ CheckSees(p)
    BY <1>2 DEF Counted, CheckSees, Ended
<1>6. BookedHasRow /\ EmptyRows
    BY <1>2, <1>3 DEF BookedHasRow, EmptyRows
<1>7. CapsKnown
  <2>1. \A s \in Scopes : setting[s] \in CapsOf(s)
      BY <1>4 DEF LedgerInit
  <2>2. \A p \in Attempts : att[p].tx.step \notin Resolving
      BY <1>2 DEF NoTransaction, Resolving
  <2>3. ASSUME NEW s \in Scopes PROVE \E m \in CapsOf(s) : \A c \in CapsOf(s) : c <= m
      BY <1>4
  <2> QED BY <1>3, <2>1, <2>2, <2>3 DEF CapsKnown
<1>8. Accounted
  <2>1. ASSUME NEW d \in Days, NEW s \in Scopes PROVE SumOf(Share, Spending(d, s)) = 0
    <3>1. Spending(d, s) = {}
        BY <1>2 DEF Spending, Days
    <3>2. Cents(Share, {}) = {}
        BY DEF Cents
    <3> QED BY <3>1, <3>2, FS_EmptySet DEF SumOf
  <2> QED BY <1>3, <2>1 DEF Accounted
<1>9. Capped
    BY <1>1, <1>3, <1>7, HighestCap, SumsAre DEF Capped
<1>10. SeenIsClose
    BY <1>2 DEF SeenIsClose
<1> QED BY <1>5, <1>6, <1>7, <1>8, <1>9, <1>10 DEF MoneyInv

\* What the sums are made of does not change.
StandsAs(q) ==
  /\ att'[q].booked = att[q].booked /\ att'[q].settled = att[q].settled
  /\ att'[q].paid = att[q].paid \/ att[q].settled = 0

\* A step that commits nothing leaves every sum as it is.
LEMMA NoCommitSums ==
  ASSUME LedgerInv, LedgerTypeOK', MoneyInv, row' = row, changes \subseteq changes', CapsKnown',
         \A q \in Attempts : StandsAs(q)
  PROVE  /\ BookedHasRow' /\ EmptyRows' /\ Accounted' /\ Capped'
         /\ \A d, s : SumOf(Excess, SettledOn(d, s))' = SumOf(Excess, SettledOn(d, s))
<1>1. BookedHasRow' /\ EmptyRows'
  <2>1. \A q \in Attempts : ScopesOf(q)' = ScopesOf(q)
      BY DEF ScopesOf, Org
  <2> QED BY <2>1 DEF MoneyInv, BookedHasRow, EmptyRows, StandsAs
<1>2. \A d, s : Spending(d, s)' = Spending(d, s) /\ SettledOn(d, s)' = SettledOn(d, s)
    BY DEF Spending, SettledOn, ScopesOf, Org, StandsAs
<1>3. \A q \in Attempts : Share'[q] = Share[q]
    BY DEF Share, Paid, StandsAs
<1>4. \A d, s : SumOf(Share, Spending(d, s))' = SumOf(Share, Spending(d, s))
  <2> TAKE d, s
  <2>1. SumOf(Share', Spending(d, s)) = SumOf(Share, Spending(d, s))
      BY <1>3, SpendersAreFinite, SumSame
  <2> QED BY <1>2, <2>1 DEF SumOf, Cents
<1>5. \A d, s : SumOf(Excess, SettledOn(d, s))' = SumOf(Excess, SettledOn(d, s))
    BY <1>2 DEF SumOf, Cents, Excess
<1>6. Accounted'
  <2>1. \A d : Foreign(d)' <=> Foreign(d)
      BY DEF Foreign, StandsAs
  <2> QED BY <1>4, <2>1 DEF MoneyInv, Accounted
<1>7. Capped'
  <2> SUFFICES ASSUME NEW d \in Days, NEW s \in Scopes
               PROVE  row[d][s].total <= Max(CapsOf(s))' + SumOf(Excess, SettledOn(d, s))
      BY <1>5 DEF Capped
  <2>1. row[d][s].total <= Max(CapsOf(s)) + SumOf(Excess, SettledOn(d, s))
      BY DEF MoneyInv, Capped
  <2>2. Max(CapsOf(s)) \in CapsOf(s) /\ Max(CapsOf(s)) \in Nat
      BY HighestCap DEF LedgerInv, MoneyInv
  <2>3. CapsOf(s) \subseteq CapsOf(s)'
      BY DEF CapsOf
  <2>4. Max(CapsOf(s))' \in Nat /\ Max(CapsOf(s)) <= Max(CapsOf(s))'
    <3>1. PICK m \in CapsOf(s)' : \A c \in CapsOf(s)' : c <= m
        BY DEF CapsKnown
    <3>2. CapsOf(s)' \subseteq Nat
        BY CostAssumption DEF LedgerTypeOK, CapsOf
    <3>3. Max(CapsOf(s)') \in CapsOf(s)' /\ \A c \in CapsOf(s)' : c <= Max(CapsOf(s)')
        BY <3>1, <3>2, MaxIs
    <3> QED BY <2>2, <2>3, <3>2, <3>3 DEF Max
  <2>5. SumOf(Excess, SettledOn(d, s)) \in Nat /\ row[d][s].total \in Nat
      BY SumsAre DEF LedgerInv, LedgerTypeOK
  <2> QED BY <2>1, <2>2, <2>4, <2>5
<1> QED BY <1>1, <1>5, <1>6, <1>7

\* A step of one attempt that commits nothing: r is what becomes of the attempt.
CommitsNothing(p, r) ==
  /\ UNCHANGED <<row, setting, changes>>
  /\ att'[p] = r /\ \A q \in Attempts \ {p} : att'[q] = att[q]
  /\ r.booked = att[p].booked /\ r.settled = att[p].settled
  /\ r.paid = att[p].paid \/ att[p].settled = 0
  /\ r.tx.step \in Resolving => \A s \in ScopesOf(p) : r.tx.caps[s] \in CapsOf(s)
  /\ r.at \in {"check", "recheck"} /\ r.tx.step = "lockLast" =>
       r.date \in Days /\ r.tx.seen = row[r.date][Global].total

LEMMA NoCommitKeeps ==
  ASSUME NEW p \in Attempts, NEW r, LedgerInv, LedgerTypeOK', MoneyInv, CommitsNothing(p, r),
         Counted(p)', CheckSees(p)'
  PROVE  MoneyInv'
<1>1. ASSUME NEW q \in Attempts PROVE Counted(q)' /\ CheckSees(q)'
  <2>1. CASE q # p
      BY <2>1 DEF MoneyInv, Counted, CheckSees, Visible, ScopesOf, Org, CommitsNothing
  <2> QED BY <2>1
<1>2. CapsKnown'
  <2>1. \A s \in Scopes : CapsOf(s)' = CapsOf(s)
      BY DEF CapsOf, CommitsNothing
  <2>2. ASSUME NEW q \in Attempts, att'[q].tx.step \in Resolving, NEW s \in ScopesOf(q)
        PROVE  att'[q].tx.caps[s] \in CapsOf(s) /\ s \in Scopes
    <3>1. s \in Scopes
        BY ScopeFacts
    <3>2. CASE q # p
        BY <2>2, <3>1, <3>2 DEF MoneyInv, CapsKnown, CommitsNothing
    <3>3. CASE q = p
        BY <2>2, <3>1, <3>3 DEF CommitsNothing
    <3> QED BY <3>1, <3>2, <3>3
  <2>3. \A q \in Attempts : ScopesOf(q)' = ScopesOf(q)
      BY DEF ScopesOf, Org
  <2> QED BY <2>1, <2>2, <2>3 DEF MoneyInv, CapsKnown, CommitsNothing
<1>3. /\ BookedHasRow' /\ EmptyRows' /\ Accounted' /\ Capped'
      /\ \A d, s : SumOf(Excess, SettledOn(d, s))' = SumOf(Excess, SettledOn(d, s))
  <2>1. \A q \in Attempts : StandsAs(q)
      BY DEF StandsAs, CommitsNothing
  <2> QED BY <1>2, <2>1, NoCommitSums DEF CommitsNothing
<1>4. SeenIsClose'
  <2>1. ASSUME NEW q \in Attempts, att'[q].at \in {"check", "recheck"}, att'[q].tx.step = "lockLast"
        PROVE  row[att'[q].date][Global].total
                 <= att'[q].tx.seen + SumOf(Excess, SettledOn(att'[q].date, Global))
    <3>1. CASE q = p
      <4>1. SumOf(Excess, SettledOn(att'[p].date, Global)) \in Nat
          BY SumsAre DEF LedgerInv
      <4>2. row[att'[p].date][Global].total \in Nat
          BY <2>1, <3>1, ScopeFacts DEF LedgerInv, LedgerTypeOK, CommitsNothing
      <4> QED BY <2>1, <3>1, <4>1, <4>2 DEF CommitsNothing
    <3>2. CASE q # p
        BY <2>1, <3>2 DEF MoneyInv, SeenIsClose, CommitsNothing
    <3> QED BY <3>1, <3>2
  <2> QED BY <1>3, <2>1 DEF SeenIsClose, CommitsNothing
<1> QED BY <1>1, <1>2, <1>3, <1>4 DEF MoneyInv

\* What becomes of an attempt when it goes on, or enters a transaction.
LEMMA GoOnStands ==
  ASSUME LedgerTypeOK, NEW p \in Attempts, NEW place
  PROVE  /\ GoOn(p, place).booked = att[p].booked /\ GoOn(p, place).settled = att[p].settled
         /\ GoOn(p, place).paid = att[p].paid /\ GoOn(p, place).replay = FALSE
         /\ GoOn(p, place).at = place /\ GoOn(p, place).tx = NoTransaction
<1>1. att[p] \in Attempt
    BY DEF LedgerTypeOK, Attempt, Transaction
<1> QED BY <1>1 DEF GoOn, Attempt

LEMMA EnterStands ==
  ASSUME LedgerTypeOK, NEW p \in Attempts, NEW place, NEW d
  PROVE  /\ Enter(p, place, d).booked = att[p].booked
         /\ Enter(p, place, d).settled = att[p].settled
         /\ Enter(p, place, d).paid = att[p].paid /\ Enter(p, place, d).at = place
         /\ Enter(p, place, d).tx = Begin(p, place) /\ Enter(p, place, d).date = d
<1>1. att[p] \in Attempt
    BY DEF LedgerTypeOK, Attempt, Transaction
<1> QED BY <1>1 DEF Enter, GoOn, Attempt

\* Where a transaction begins, no row is needed, and its caps are what is in force.
LEMMA BeginStands ==
  ASSUME LedgerInv, MoneyInv, NEW p \in Attempts, NEW place
  PROVE  /\ place \in {"check", "recheck"} => Begin(p, place).step \notin Resolving
         /\ Begin(p, place).step # "lockLast"
         /\ Begin(p, place).step \in Resolving =>
              \A s \in ScopesOf(p) : Begin(p, place).caps[s] \in CapsOf(s)
<1>1. \A s \in ScopesOf(p) : Resolved(p)[s] = setting[s] /\ setting[s] \in CapsOf(s)
    BY ScopeFacts DEF Resolved, MoneyInv, CapsKnown
<1>2. CASE place \in {"check", "recheck"}
    BY <1>2 DEF Begin, NoTransaction, Resolving
<1>3. CASE place \notin {"check", "recheck"}
  <2>1. Begin(p, place).step = "refreshGlobal" /\ Begin(p, place).caps = Resolved(p)
      BY <1>3 DEF Begin, NoTransaction
  <2> QED BY <1>1, <1>3, <2>1
<1> QED BY <1>2, <1>3

\* An attempt goes to a place outside of a transaction, or enters one.
LEMMA LeavingKeeps ==
  ASSUME LedgerInv, LedgerTypeOK', MoneyInv, NEW p \in Attempts, NEW r,
         UNCHANGED <<row, setting, changes>>, att' = [att EXCEPT ![p] = r],
         r.booked = att[p].booked, r.settled = att[p].settled,
         r.paid = att[p].paid \/ att[p].settled = 0,
         r.tx = NoTransaction \/ r.tx = Begin(p, r.at), Counted(p)'
  PROVE  MoneyInv'
<1>1. att'[p] = r /\ \A q \in Attempts \ {p} : att'[q] = att[q]
    BY DEF LedgerInv, LedgerTypeOK
<1>2. /\ r.at \in {"check", "recheck"} => r.tx.step \notin Resolving
      /\ r.tx.step # "lockLast"
      /\ r.tx.step \in Resolving => \A s \in ScopesOf(p) : r.tx.caps[s] \in CapsOf(s)
  <2>1. CASE r.tx = NoTransaction
      BY <2>1 DEF NoTransaction, Resolving
  <2>2. CASE r.tx = Begin(p, r.at)
      BY <2>2, BeginStands
  <2> QED BY <2>1, <2>2
<1>3. CommitsNothing(p, r)
    BY <1>1, <1>2 DEF CommitsNothing
<1>4. CheckSees(p)'
    BY <1>1, <1>2 DEF CheckSees
<1> QED BY <1>3, <1>4, NoCommitKeeps

\* invokeModel's own steps: an answer is paid once, and only for what was reserved.
LEMMA CallKeepsMoney ==
  ASSUME LedgerInv, LedgerTypeOK', MoneyInv, NEW p \in Attempts,
         Lookup(p) \/ LockTimeout(p) \/ Fail(p) \/ Invoke(p) \/ Observe(p)
  PROVE  MoneyInv'
<1>1. UNCHANGED <<row, setting, changes>> /\ LedgerTypeOK /\ att[p] \in Attempt /\ Counted(p)
    BY TransactionIs DEF Lookup, LockTimeout, Fail, Invoke, Observe, LedgerInv, MoneyInv
<1>2. ASSUME NEW place, att' = [att EXCEPT ![p] = GoOn(p, place)],
             \/ place = "failed"
             \/ place = "refused" /\ att[p].at = "recheck"
             \/ place = "done" /\ att[p].at = "observe"
      PROVE  MoneyInv'
  <2> DEFINE r == GoOn(p, place)
  <2>1. /\ r.booked = att[p].booked /\ r.settled = att[p].settled /\ r.paid = att[p].paid
        /\ r.at = place /\ r.tx = NoTransaction
      BY <1>1, GoOnStands
  <2>2. att' = [att EXCEPT ![p] = r] /\ att'[p] = r
      BY <1>1, <1>2 DEF LedgerTypeOK
  <2> HIDE DEF r
  <2>3. Counted(p)'
      BY <1>1, <1>2, <2>1, <2>2 DEF Counted, Ended
  <2> QED BY <1>1, <2>1, <2>2, <2>3, LeavingKeeps
<1>3. ASSUME NEW place, NEW d, att' = [att EXCEPT ![p] = Enter(p, place, d)],
             \/ place = "check" /\ att[p].at = "idle"
             \/ place = "recheck" /\ att[p].at = "check"
             \/ place = "release" /\ att[p].at = "sdk"
             \/ place = "record" /\ att[p].at = "observe" /\ ~att[p].replay
      PROVE  MoneyInv'
  <2> DEFINE r == Enter(p, place, d)
  <2>1. /\ r.booked = att[p].booked /\ r.settled = att[p].settled /\ r.paid = att[p].paid
        /\ r.at = place /\ r.tx = Begin(p, place)
      BY <1>1, EnterStands
  <2>2. att' = [att EXCEPT ![p] = r] /\ att'[p] = r
      BY <1>1, <1>3 DEF LedgerTypeOK
  <2> HIDE DEF r
  <2>3. Counted(p)'
      BY <1>1, <1>3, <2>1, <2>2 DEF Counted, Ended
  <2> QED BY <1>1, <2>1, <2>2, <2>3, LeavingKeeps
<1>4. CASE Lookup(p)
  <2>1. CASE p[1] \in ledger
    <3> DEFINE r == [GoOn(p, "observe") EXCEPT !.replay = TRUE]
    <3>1. GoOn(p, "observe") \in Attempt
        BY <1>1, GoOnIs DEF Places
    <3>2. /\ r.booked = att[p].booked /\ r.settled = att[p].settled /\ r.paid = att[p].paid
          /\ r.at = "observe" /\ r.replay /\ r.tx = NoTransaction
        BY <1>1, <3>1, GoOnStands DEF Attempt
    <3>3. att' = [att EXCEPT ![p] = r] /\ att'[p] = r /\ att[p].at = "idle"
        BY <1>1, <1>4, <2>1 DEF Lookup, LedgerTypeOK
    <3> HIDE DEF r
    <3>4. Counted(p)'
        BY <1>1, <3>2, <3>3 DEF Counted, Ended
    <3> QED BY <1>1, <3>2, <3>3, <3>4, LeavingKeeps
  <2>2. CASE p[1] \notin ledger
      BY <1>3, <1>4, <2>2 DEF Lookup
  <2> QED BY <2>1, <2>2
<1>5. CASE LockTimeout(p)
  <2>1. CASE att[p].at = "check"
      BY <1>3, <1>5, <2>1 DEF LockTimeout
  <2>2. CASE att[p].at = "recheck"
      BY <1>2, <1>5, <2>2 DEF LockTimeout
  <2>3. CASE att[p].at \notin {"check", "recheck"}
      BY <1>2, <1>5, <2>3 DEF LockTimeout
  <2> QED BY <2>1, <2>2, <2>3
<1>6. CASE Fail(p)
    BY <1>2, <1>6 DEF Fail
<1>7. CASE Invoke(p)
  <2>1. att[p].at = "sdk" /\ att[p].settled = 0 /\ att[p].booked # 0
      BY <1>1, <1>7 DEF Invoke, Counted, Ended
  <2>2. ASSUME NEW place \in {"failed", "observe"}, NEW b \in BOOLEAN, place = "observe" => b = TRUE,
               att' = [att EXCEPT ![p] = [GoOn(p, place) EXCEPT !.paid = b]]
        PROVE  MoneyInv'
    <3> DEFINE r == [GoOn(p, place) EXCEPT !.paid = b]
    <3>1. GoOn(p, place) \in Attempt
        BY <1>1, <2>2, GoOnIs DEF Places, Ended
    <3>2. /\ r.booked = att[p].booked /\ r.settled = att[p].settled /\ r.paid = b
          /\ r.at = place /\ ~r.replay /\ r.tx = NoTransaction
        BY <1>1, <3>1, GoOnStands DEF Attempt
    <3>3. att' = [att EXCEPT ![p] = r] /\ att'[p] = r
        BY <1>1, <2>2 DEF LedgerTypeOK
    <3> HIDE DEF r
    <3>4. Counted(p)'
        BY <2>1, <2>2, <3>2, <3>3 DEF Counted, Ended
    <3> QED BY <1>1, <2>1, <3>2, <3>3, <3>4, LeavingKeeps
  <2>3. CASE att' = [att EXCEPT ![p] = Enter(p, "release", day)]
      BY <1>3, <2>1, <2>3
  <2>4. CASE att' = [att EXCEPT ![p] = [GoOn(p, "observe") EXCEPT !.paid = TRUE]]
      BY <2>2, <2>4
  <2>5. CASE \E b \in BOOLEAN : att' = [att EXCEPT ![p] = [GoOn(p, "failed") EXCEPT !.paid = b]]
    <3>1. PICK b \in BOOLEAN : att' = [att EXCEPT ![p] = [GoOn(p, "failed") EXCEPT !.paid = b]]
        BY <2>5
    <3> QED BY <2>2, <3>1
  <2> QED BY <1>7, <2>3, <2>4, <2>5 DEF Invoke
<1>8. CASE Observe(p)
  <2>1. CASE att[p].replay \/ Act[p[1]] = Est[p[1]]
      BY <1>2, <1>8, <2>1 DEF Observe
  <2>2. CASE ~(att[p].replay \/ Act[p[1]] = Est[p[1]])
      BY <1>3, <1>8, <2>2 DEF Observe
  <2> QED BY <2>1, <2>2
<1> QED BY <1>4, <1>5, <1>6, <1>7, <1>8

\* A statement before the second FOR UPDATE: tx is what becomes of the transaction.
LEMMA StatementKeepsMoney ==
  ASSUME LedgerInv, LedgerTypeOK', MoneyInv, NEW p \in Attempts, NEW tx, SetTx(p, tx),
         UNCHANGED <<row, setting, changes>>,
         tx.step \in Resolving => \A s \in ScopesOf(p) : tx.caps[s] \in CapsOf(s),
         tx.step = "lockLast" =>
           att[p].date \in Days /\ tx.seen = row[att[p].date][Global].total,
         CheckSees(p)'
  PROVE  MoneyInv'
<1> DEFINE r == [att[p] EXCEPT !.tx = tx]
<1>1. att[p] \in Attempt /\ Counted(p)
    BY TransactionIs DEF MoneyInv
<1>2. /\ r.at = att[p].at /\ r.date = att[p].date /\ r.booked = att[p].booked
      /\ r.settled = att[p].settled /\ r.paid = att[p].paid /\ r.replay = att[p].replay
      /\ r.tx = tx
    BY <1>1 DEF Attempt
<1>3. att'[p] = r /\ \A q \in Attempts \ {p} : att'[q] = att[q]
    BY DEF SetTx, LedgerInv, LedgerTypeOK
<1> HIDE DEF r
<1>4. CommitsNothing(p, r)
    BY <1>2, <1>3 DEF CommitsNothing
<1>5. Counted(p)'
    BY <1>1, <1>2, <1>3 DEF Counted
<1> QED BY <1>4, <1>5, NoCommitKeeps

\* What the steps of a transaction know of its caps.
LEMMA CapsResolved ==
  ASSUME LedgerInv, MoneyInv, NEW p \in Attempts
  PROVE  /\ \A s \in ScopesOf(p) : Resolved(p)[s] \in CapsOf(s)
         /\ att[p].tx.step \in Resolving => \A s \in ScopesOf(p) : att[p].tx.caps[s] \in CapsOf(s)
  BY ScopeFacts DEF Resolved, MoneyInv, CapsKnown

\* Rows that are seen stay seen, as a statement gives up no lock.
LEMMA StaysVisible ==
  ASSUME LedgerInv, NEW p \in Attempts, NEW tx, SetTx(p, tx), UNCHANGED row,
         att[p].tx.holds \subseteq tx.holds, NEW s
  PROVE  /\ Visible(p, s) => Visible(p, s)'
         /\ s \in tx.holds => Visible(p, s)'
         /\ att'[p].at = att[p].at /\ att'[p].tx = tx /\ att'[p].date = att[p].date
  BY DEF SetTx, LedgerInv, LedgerTypeOK, Visible

LEMMA StatementsKeepMoney ==
  ASSUME LedgerInv, LedgerTypeOK', MoneyInv, NEW p \in Attempts,
         \/ InsertGlobal(p) \/ InsertOrg(p) \/ LockFirst(p)
         \/ RefreshCap(p, Global, "refreshGlobal", "refreshOrg")
         \/ RefreshCap(p, Org(p), "refreshOrg", "lockFirst")
  PROVE  MoneyInv'
<1> DEFINE old == att[p].tx
<1>1. /\ UNCHANGED <<row, setting, changes>> /\ old \in Transaction /\ LedgerTypeOK
      /\ CheckSees(p) /\ Held(p) /\ Placed(p) /\ ScopesOf(p) = {Global, Org(p)}
      /\ Global \in Scopes /\ Org(p) \in Scopes
    BY TransactionIs, ScopeFacts
       DEF InsertGlobal, InsertOrg, LockFirst, RefreshCap, LedgerInv, MoneyInv, ScopesOf
<1>2. ASSUME NEW tx, SetTx(p, tx), tx.step \in {"refreshOrg", "lockFirst"}, tx.caps = old.caps,
             old.holds \subseteq tx.holds, old.step \in {"refreshGlobal", "refreshOrg"}
      PROVE  MoneyInv'
  <2>1. CheckSees(p)'
      BY <1>1, <1>2, StaysVisible DEF CheckSees, ScopesOf, Org, Resolving
  <2>2. old.step \in Resolving
      BY <1>2 DEF Resolving
  <2> QED BY <1>1, <1>2, <2>1, <2>2, CapsResolved, StatementKeepsMoney
<1>3. CASE InsertGlobal(p)
  <2>1. PICK tx : SetTx(p, tx) /\ tx.step = "insertOrg"
    <3>1. [old EXCEPT !.step = "insertOrg"].step = "insertOrg"
          /\ [Take(p, Global, [old EXCEPT !.step = "insertOrg"]) EXCEPT
               !.fresh = @ \cup {Global}].step = "insertOrg"
        BY <1>1 DEF Take, Transaction
    <3> QED BY <1>3, <3>1 DEF InsertGlobal, Insert
  <2>2. CheckSees(p)'
      BY <2>1 DEF CheckSees, Resolving, SetTx, LedgerInv, LedgerTypeOK
  <2> QED BY <1>1, <2>1, <2>2, StatementKeepsMoney DEF Resolving
<1>4. CASE InsertOrg(p)
  <2> DEFINE ask == [old EXCEPT !.step = "refreshGlobal", !.caps = Resolved(p)]
             got == [Take(p, Org(p), ask) EXCEPT !.fresh = @ \cup {Org(p)}]
  <2>1. /\ ask.step = "refreshGlobal" /\ ask.caps = Resolved(p) /\ ask.holds = old.holds
        /\ got.step = "refreshGlobal" /\ got.caps = Resolved(p)
        /\ got.holds = old.holds \cup {Org(p)}
      BY <1>1 DEF Take, Transaction
  <2>2. old.step = "insertOrg" /\ Visible(p, Global)
      BY <1>1, <1>4 DEF InsertOrg, InStep, Held
  <2> HIDE DEF got, ask
  <2>3. \/ SetTx(p, ask) /\ (Platform(p) \/ Visible(p, Org(p)))
        \/ SetTx(p, got)
      BY <1>4 DEF InsertOrg, Insert, ask, got, Visible
  <2>4. PICK tx : /\ SetTx(p, tx) /\ tx.step = "refreshGlobal" /\ tx.caps = Resolved(p)
                  /\ old.holds \subseteq tx.holds
                  /\ Platform(p) \/ Visible(p, Org(p)) \/ Org(p) \in tx.holds
      BY <2>1, <2>3
  <2>5. CheckSees(p)'
    <3>1. Visible(p, Global)' /\ Visible(p, Org(p))' /\ att'[p].tx = tx
        BY <1>1, <2>2, <2>4, StaysVisible DEF Platform
    <3> QED BY <1>1, <2>4, <3>1 DEF CheckSees, ScopesOf, Org
  <2> QED BY <1>1, <2>4, <2>5, CapsResolved, StatementKeepsMoney
<1>5. ASSUME NEW s, NEW from, NEW to \in {"refreshOrg", "lockFirst"},
             from \in {"refreshGlobal", "refreshOrg"}, RefreshCap(p, s, from, to)
      PROVE  MoneyInv'
  <2>1. PICK tx : /\ SetTx(p, tx) /\ tx.step = to /\ tx.caps = old.caps
                  /\ old.holds \subseteq tx.holds
    <3> DEFINE ask == [old EXCEPT !.step = to]
               got == [Take(p, s, ask) EXCEPT !.fresh = @ \cup {s}]
    <3>1. /\ ask.step = to /\ ask.caps = old.caps /\ ask.holds = old.holds
          /\ got.step = to /\ got.caps = old.caps /\ got.holds = old.holds \cup {s}
        BY <1>1 DEF Take, Transaction
    <3> HIDE DEF got, ask
    <3>2. SetTx(p, ask) \/ SetTx(p, got)
        BY <1>5 DEF RefreshCap, ask, got
    <3> QED BY <3>1, <3>2
  <2> QED BY <1>2, <1>5, <2>1 DEF RefreshCap, InStep
<1>6. CASE LockFirst(p)
  <2> DEFINE ask == [old EXCEPT !.step = "lockLast", !.seen = row[att[p].date][Global].total]
             got == Take(p, Global, ask)
  <2>1. /\ ask.step = "lockLast" /\ ask.caps = old.caps /\ ask.holds = old.holds
        /\ ask.seen = row[att[p].date][Global].total
        /\ got.step = "lockLast" /\ got.caps = old.caps
        /\ got.holds = old.holds \cup {Global} /\ got.seen = row[att[p].date][Global].total
      BY <1>1 DEF Take, Transaction
  <2>2. old.step = "lockFirst" /\ att[p].date \in Days
      BY <1>1, <1>6 DEF LockFirst, InStep, Placed
  <2> HIDE DEF got, ask
  <2>3. \/ SetTx(p, ask) /\ ~Visible(p, Global)
        \/ SetTx(p, got)
      BY <1>6 DEF LockFirst, FirstLocked, ask, got
  <2>4. PICK tx : /\ SetTx(p, tx) /\ tx.step = "lockLast" /\ tx.caps = old.caps
                  /\ old.holds \subseteq tx.holds /\ tx.seen = row[att[p].date][Global].total
                  /\ Visible(p, Global) => Global \in tx.holds
      BY <2>1, <2>3
  <2>5. CheckSees(p)'
    <3>1. att[p].at \in {"check", "recheck"} =>
            Visible(p, Global) /\ Visible(p, Org(p))
        BY <1>1, <2>2 DEF CheckSees, Resolving
    <3> QED BY <1>1, <2>4, <3>1, StaysVisible DEF CheckSees, ScopesOf, Org
  <2>6. old.step \in Resolving
      BY <2>2 DEF Resolving
  <2> QED BY <1>1, <2>2, <2>4, <2>5, <2>6, CapsResolved, StatementKeepsMoney
<1> QED BY <1>3, <1>4, <1>5, <1>6

-----------------------------------------------------------------------------
(* Commits. *)

\* A commit of p adds cents to the rows of its scopes on its day, as far as it sees them.
Adds(p, cents) ==
  \A d \in Days, s \in Scopes :
    IF d = att[p].date /\ s \in ScopesOf(p) /\ Visible(p, s)
      THEN /\ row'[d][s].exists /\ row'[d][s].total = row[d][s].total + cents
           /\ row'[d][s].cap = CapSeen(p, s)
      ELSE row'[d][s] = row[d][s]

LEMMA CommitIs ==
  ASSUME LedgerInv, NEW p \in Attempts, att[p].date \in Days, NEW cents, Commit(p, cents)
  PROVE  Adds(p, cents)
<1> DEFINE e == att[p].date
           new == [s \in Scopes |-> IF s \in ScopesOf(p) /\ Visible(p, s)
                     THEN [exists |-> TRUE, total |-> row[e][s].total + cents,
                           cap |-> CapSeen(p, s)]
                     ELSE row[e][s]]
<1>1. row' = [row EXCEPT ![e] = new]
    BY DEF Commit, LedgerInv, LedgerTypeOK
<1>2. row'[e] = new /\ \A d \in Days \ {e} : row'[d] = row[d]
  <2> HIDE DEF new
  <2> QED BY <1>1 DEF LedgerInv, LedgerTypeOK
<1> QED BY <1>2 DEF Adds

\* The caps that a transaction has seen when it commits were set at some time.
LEMMA CapSeenIsKnown ==
  ASSUME LedgerInv, MoneyInv, NEW p \in Attempts, att[p].tx.step = "lockLast",
         att[p].date \in Days, NEW s \in ScopesOf(p), Visible(p, s)
  PROVE  CapSeen(p, s) \in CapsOf(s)
<1>1. s \in Scopes
    BY ScopeFacts
<1>2. CASE s \in att[p].tx.fresh
    BY <1>2, CapsResolved DEF CapSeen, Resolving
<1>3. CASE s \notin att[p].tx.fresh
  <2>1. row[att[p].date][s].exists
      BY <1>3 DEF Visible, LedgerInv, Held
  <2> QED BY <1>1, <1>3, <2>1 DEF CapSeen, MoneyInv, CapsKnown
<1> QED BY <1>2, <1>3

\* What every commit keeps: r is what becomes of the attempt.
LEMMA CommitKeepsRows ==
  ASSUME LedgerInv, MoneyInv, NEW p \in Attempts, NEW cents \in Int, NEW r,
         att[p].tx.step = "lockLast", att[p].date \in Days, Commit(p, cents),
         att' = [att EXCEPT ![p] = r], UNCHANGED <<setting, changes>>,
         r.tx = NoTransaction, r.at \notin {"check", "recheck"}, Counted(p)',
         \/ r.booked = att[p].booked
         \/ r.booked = att[p].date /\ \A s \in ScopesOf(p) : Visible(p, s)
  PROVE  /\ \A q \in Attempts : Counted(q)' /\ CheckSees(q)'
         /\ BookedHasRow' /\ EmptyRows' /\ CapsKnown'
         /\ att'[p] = r /\ \A q \in Attempts \ {p} : att'[q] = att[q]
<1>1. att'[p] = r /\ \A q \in Attempts \ {p} : att'[q] = att[q]
    BY DEF LedgerInv, LedgerTypeOK
<1>0. Adds(p, cents)
    BY CommitIs
<1>2. \A d \in Days, s \in Scopes : row[d][s].exists => row'[d][s].exists
    BY <1>0 DEF Adds
<1>3. ASSUME NEW q \in Attempts PROVE Counted(q)' /\ CheckSees(q)'
  <2>1. CASE q = p
      BY <1>1, <2>1 DEF CheckSees
  <2>2. CASE q # p
    <3>1. Counted(q)'
        BY <1>1, <2>2 DEF MoneyInv, Counted
    <3>2. ASSUME att[q].at \in {"check", "recheck"}, NEW s \in ScopesOf(q), Visible(q, s)
          PROVE  Visible(q, s)'
      <4>1. att[q].date \in Days /\ s \in Scopes
          BY <3>2, ScopeFacts DEF LedgerInv, Placed, InTransaction
      <4> QED BY <1>1, <1>2, <2>2, <3>2, <4>1 DEF Visible
    <3>3. CheckSees(q)
        BY DEF MoneyInv
    <3>4. CheckSees(q)'
        BY <1>1, <2>2, <3>2, <3>3 DEF CheckSees, ScopesOf, Org
    <3> QED BY <3>1, <3>4
  <2> QED BY <2>1, <2>2
<1>4. BookedHasRow'
  <2> SUFFICES ASSUME NEW q \in Attempts, att'[q].booked # 0, NEW s \in ScopesOf(q)
               PROVE  row'[att'[q].booked][s].exists
      BY DEF BookedHasRow, ScopesOf, Org
  <2>1. s \in Scopes
      BY ScopeFacts
  <2>2. CASE att'[q].booked = att[q].booked
    <3>1. row[att[q].booked][s].exists /\ att[q].booked \in Days
        BY <2>2 DEF MoneyInv, BookedHasRow, LedgerInv, LedgerTypeOK
    <3> QED BY <1>2, <2>1, <2>2, <3>1
  <2>3. CASE att'[q].booked # att[q].booked
    <3>1. q = p /\ att'[q].booked = att[p].date /\ Visible(p, s)
        BY <1>1, <2>3
    <3> QED BY <1>0, <2>1, <3>1 DEF Adds
  <2> QED BY <2>2, <2>3
<1>5. EmptyRows'
  <2> SUFFICES ASSUME NEW d \in Days, NEW s \in Scopes, ~row'[d][s].exists
               PROVE  row'[d][s].total = 0
      BY DEF EmptyRows
  <2>1. row'[d][s] = row[d][s]
      BY <1>0 DEF Adds
  <2> QED BY <2>1 DEF MoneyInv, EmptyRows
<1>6. CapsKnown'
  <2>1. \A s \in Scopes : CapsOf(s)' = CapsOf(s)
      BY DEF CapsOf
  <2>2. ASSUME NEW d \in Days, NEW s \in Scopes, row'[d][s].exists
        PROVE  row'[d][s].cap \in CapsOf(s)
    <3>1. CASE d = att[p].date /\ s \in ScopesOf(p) /\ Visible(p, s)
        BY <1>0, <3>1, CapSeenIsKnown DEF Adds
    <3>2. CASE ~(d = att[p].date /\ s \in ScopesOf(p) /\ Visible(p, s))
      <4>1. row'[d][s] = row[d][s]
          BY <1>0, <3>2 DEF Adds
      <4> QED BY <2>2, <4>1 DEF MoneyInv, CapsKnown
    <3> QED BY <3>1, <3>2
  <2>3. ASSUME NEW q \in Attempts, att'[q].tx.step \in Resolving, NEW s \in ScopesOf(q)
        PROVE  att'[q].tx.caps[s] \in CapsOf(s) /\ s \in Scopes
    <3>1. q # p
        BY <1>1, <2>3 DEF NoTransaction, Resolving
    <3>2. s \in Scopes
        BY ScopeFacts
    <3> QED BY <1>1, <2>3, <3>1, <3>2 DEF MoneyInv, CapsKnown
  <2>4. \A q \in Attempts : ScopesOf(q)' = ScopesOf(q)
      BY DEF ScopesOf, Org
  <2> QED BY <2>1, <2>2, <2>3, <2>4 DEF MoneyInv, CapsKnown
<1> QED BY <1>1, <1>3, <1>4, <1>5, <1>6

\* A reservation adds its estimate to the rows of its day and to what is spent there.
LEMMA ReserveKeepsMoney ==
  ASSUME LedgerInv, LedgerTypeOK', MoneyInv, NEW p \in Attempts, Reserve(p)
  PROVE  MoneyInv'
<1> DEFINE e == att[p].date
           r == [GoOn(p, "sdk") EXCEPT !.booked = e]
<1>1. /\ att[p].tx.step = "lockLast" /\ e \in Days /\ LedgerTypeOK /\ att[p] \in Attempt
      /\ Counted(p) /\ CheckSees(p) /\ Held(p) /\ att[p].at \in {"check", "recheck"}
      /\ UNCHANGED <<setting, changes>>
    BY TransactionIs DEF Reserve, InStep, LedgerInv, Placed, MoneyInv
<1>2. /\ att[p].booked = 0 /\ ~att[p].paid /\ att[p].settled = 0
      /\ \A s \in ScopesOf(p) : Visible(p, s)
      /\ Global \in att[p].tx.holds
    BY <1>1 DEF Counted, CheckSees, Resolving, Ended
<1>3. CASE att' = [att EXCEPT ![p] = GoOn(p, "refused")] /\ UNCHANGED row
  <2> DEFINE t == GoOn(p, "refused")
  <2>1. /\ t.booked = att[p].booked /\ t.settled = att[p].settled /\ t.paid = att[p].paid
        /\ t.at = "refused" /\ t.tx = NoTransaction
      BY <1>1, GoOnStands
  <2>2. att' = [att EXCEPT ![p] = t] /\ att'[p] = t
      BY <1>1, <1>3 DEF LedgerTypeOK
  <2> HIDE DEF t
  <2>3. Counted(p)'
      BY <1>2, <2>1, <2>2 DEF Counted, Ended
  <2> QED BY <1>1, <1>3, <2>1, <2>2, <2>3, LeavingKeeps
<1>4. CASE ~OverBudget(p) /\ Commit(p, Est[p[1]]) /\ att' = [att EXCEPT ![p] = r]
  <2>1. r.booked = e /\ r.settled = 0 /\ r.paid = att[p].paid /\ r.at = "sdk" /\ r.tx = NoTransaction
    <3> DEFINE go == GoOn(p, "sdk")
    <3>1. go \in Attempt
        BY <1>1, GoOnIs DEF Places
    <3>2. /\ go.settled = att[p].settled /\ go.paid = att[p].paid
          /\ go.at = "sdk" /\ go.tx = NoTransaction
        BY <1>1, GoOnStands
    <3> HIDE DEF go
    <3>3. r = [go EXCEPT !.booked = e]
        BY DEF go
    <3> QED BY <1>2, <3>1, <3>2, <3>3 DEF Attempt
  <2>2. att'[p] = r /\ \A q \in Attempts \ {p} : att'[q] = att[q]
      BY <1>1, <1>4 DEF LedgerTypeOK
  <2>3. Est[p[1]] \in Nat /\ ScopesOf(p) = {Global, Org(p)} /\ ScopesOf(p) \subseteq Scopes
      BY ScopeFacts DEF ScopesOf
  <2>4. att' = [att EXCEPT ![p] = r] /\ Commit(p, Est[p[1]]) /\ Est[p[1]] \in Int
      BY <1>4, <2>3
  <2> HIDE DEF r
  <2>5. Counted(p)'
      BY <1>1, <1>2, <2>1, <2>2 DEF Counted, Ended, Days
  <2>6. /\ \A q \in Attempts : Counted(q)' /\ CheckSees(q)'
        /\ BookedHasRow' /\ EmptyRows' /\ CapsKnown'
    <3>1. r.booked = att[p].date /\ r.at \notin {"check", "recheck"} /\ att[p].date \in Days
        BY <1>1, <2>1
    <3> QED BY <1>1, <1>2, <2>1, <2>4, <2>5, <3>1, CommitKeepsRows
  <2>7. \A d \in Days, s \in Scopes :
          row'[d][s].total = IF d = e /\ s \in ScopesOf(p) THEN row[d][s].total + Est[p[1]]
                             ELSE row[d][s].total
    <3>1. Adds(p, Est[p[1]])
        BY <1>1, <1>4, CommitIs
    <3> QED BY <1>1, <1>2, <3>1 DEF Adds
  <2>8. 0 \notin Days /\ \A d \in Days : Foreign(d)' <=> Foreign(d)
      BY <1>2, <2>1, <2>2 DEF Foreign, Days
  <2>9. \A d \in Days, s \in Scopes :
          /\ p \notin Spending(d, s)
          /\ Spending(d, s)' = IF d = e /\ s \in ScopesOf(p) THEN Spending(d, s) \cup {p}
                                ELSE Spending(d, s)
      BY <1>2, <2>1, <2>2, <2>8 DEF Spending, ScopesOf, Org
  <2>10. \A q \in Attempts : Share'[q] = Share[q] /\ Share[q] \in Nat /\ Share[p] = Est[p[1]]
      BY <1>1, <1>2, <2>1, <2>2, SharesAre DEF Share, Paid
  <2>11. \A d, s : SumOf(Excess, SettledOn(d, s))' = SumOf(Excess, SettledOn(d, s))
    <3>1. \A d, s : SettledOn(d, s)' = SettledOn(d, s)
        BY <1>2, <2>1, <2>2 DEF SettledOn, ScopesOf, Org
    <3> QED BY <3>1 DEF SumOf, Cents, Excess
  <2>12. Accounted'
    <3> SUFFICES ASSUME NEW d \in Days, NEW s \in Scopes, ~Foreign(d)
                 PROVE  row'[d][s].total = SumOf(Share', Spending(d, s)')
        BY <2>8 DEF Accounted, SumOf, Cents
    <3>1. row[d][s].total = SumOf(Share, Spending(d, s))
        BY DEF MoneyInv, Accounted
    <3>2. IsFiniteSet(Spending(d, s)) /\ Spending(d, s) \subseteq Attempts
        BY SpendersAreFinite
    <3>3. SumOf(Share', Spending(d, s)) = SumOf(Share, Spending(d, s))
        BY <2>10, <3>2, SumSame
    <3>4. CASE d = e /\ s \in ScopesOf(p)
      <4>1. p \notin Spending(d, s) /\ Spending(d, s)' = Spending(d, s) \cup {p}
          BY <2>9, <3>4
      <4>2. \A q \in Spending(d, s) \cup {p} : Share'[q] \in Nat
          BY <2>10, <3>2
      <4>3. SumOf(Share', Spending(d, s) \cup {p}) = SumOf(Share', Spending(d, s)) + Share'[p]
          BY <3>2, <4>1, <4>2, SumAdds
      <4>4. row'[d][s].total = row[d][s].total + Est[p[1]] /\ Share'[p] = Est[p[1]]
          BY <2>7, <2>10, <3>4
      <4> QED BY <3>1, <3>3, <4>1, <4>3, <4>4
    <3>5. CASE ~(d = e /\ s \in ScopesOf(p))
        BY <2>7, <2>9, <3>1, <3>3, <3>5
    <3> QED BY <3>4, <3>5
  <2>13. ASSUME NEW d \in Days, NEW s \in Scopes
         PROVE  row'[d][s].total <= Max(CapsOf(s)) + SumOf(Excess, SettledOn(d, s))
    <3>1. /\ row[d][s].total <= Max(CapsOf(s)) + SumOf(Excess, SettledOn(d, s))
          /\ row[d][s].total \in Nat /\ SumOf(Excess, SettledOn(d, s)) \in Nat
        BY <1>1, SumsAre DEF MoneyInv, Capped, LedgerTypeOK
    <3>2. CASE d = e /\ s \in ScopesOf(p)
      <4>1. CapSeen(p, s) \in Nat /\ CapSeen(p, s) <= Max(CapsOf(s)) /\ Max(CapsOf(s)) \in Nat
        <5>1. CapSeen(p, s) \in CapsOf(s)
            BY <1>1, <1>2, <3>2, CapSeenIsKnown
        <5>2. /\ Max(CapsOf(s)) \in Nat /\ \A c \in CapsOf(s) : c <= Max(CapsOf(s))
              /\ CapsOf(s) \subseteq Nat
            BY <1>1, HighestCap, CapsAre DEF MoneyInv
        <5> QED BY <5>1, <5>2
      <4>2. att[p].tx.seen \in Nat
          BY TransactionIs DEF Transaction
      <4>3. CASE s = Global
        <5>1. row[d][s].total <= att[p].tx.seen + SumOf(Excess, SettledOn(d, s))
            BY <1>1, <3>2, <4>3 DEF MoneyInv, SeenIsClose
        <5>2. ~(att[p].tx.seen + Est[p[1]] > CapSeen(p, s))
            BY <1>4, <4>3 DEF OverBudget
        <5>3. att[p].tx.seen + Est[p[1]] <= CapSeen(p, s)
            BY <2>3, <4>1, <4>2, <5>2
        <5> QED BY <2>3, <2>7, <3>1, <3>2, <4>1, <4>2, <5>1, <5>3
      <4>4. CASE s # Global
        <5>1. s = Org(p) /\ ~Platform(p)
            BY <2>3, <3>2, <4>4 DEF Platform
        <5>2. ~(row[d][s].total + Est[p[1]] > CapSeen(p, s))
            BY <1>4, <3>2, <5>1 DEF OverBudget
        <5>3. row[d][s].total + Est[p[1]] <= CapSeen(p, s)
            BY <2>3, <3>1, <4>1, <5>2
        <5> QED BY <2>3, <2>7, <3>1, <3>2, <4>1, <5>3
      <4> QED BY <4>3, <4>4
    <3>3. CASE ~(d = e /\ s \in ScopesOf(p))
        BY <2>7, <3>1, <3>3
    <3> QED BY <3>2, <3>3
  <2>14. Capped'
    <3>1. \A s : Max(CapsOf(s))' = Max(CapsOf(s))
        BY <1>1 DEF CapsOf, Max
    <3> QED BY <2>11, <2>13, <3>1 DEF Capped
  <2>15. SeenIsClose'
    <3>1. ASSUME NEW q \in Attempts, att'[q].at \in {"check", "recheck"},
                 att'[q].tx.step = "lockLast"
          PROVE  row'[att'[q].date][Global].total
                   <= att'[q].tx.seen + SumOf(Excess, SettledOn(att'[q].date, Global))
      <4>1. q # p
          BY <2>1, <2>2, <3>1
      <4>2. att'[q] = att[q] /\ att[q].date \in Days /\ CheckSees(q)
          BY <2>2, <3>1, <4>1 DEF LedgerInv, Placed, InTransaction, MoneyInv
      <4>3. Global \in att[q].tx.holds
          BY <3>1, <4>2 DEF CheckSees
      <4>4. att[q].date # e
          BY <1>2, <4>1, <4>3 DEF LedgerInv, Apart
      <4>5. row'[att[q].date][Global].total = row[att[q].date][Global].total
          BY <2>7, <4>2, <4>4, ScopeFacts
      <4> QED BY <3>1, <4>2, <4>5 DEF MoneyInv, SeenIsClose
    <3> QED BY <2>11, <3>1 DEF SeenIsClose
  <2> QED BY <2>6, <2>12, <2>14, <2>15 DEF MoneyInv
<1> QED BY <1>3, <1>4 DEF Reserve

\* A settlement adds the difference to the rows of its day; it belongs to what is spent there
\* only when that is the day of the reservation.
LEMMA SettleKeepsMoney ==
  ASSUME LedgerInv, LedgerTypeOK', MoneyInv, NEW p \in Attempts, SettleCost(p)
  PROVE  MoneyInv'
<1> DEFINE e == att[p].date
           gap == Difference(p)
           r == [GoOn(p, Recorded(p)) EXCEPT !.settled = e]
<1>1. /\ att[p].tx.step = "lockLast" /\ e \in Days /\ LedgerTypeOK /\ Counted(p)
      /\ att[p].at \in {"record", "release"} /\ UNCHANGED <<setting, changes>>
      /\ Commit(p, gap) /\ att' = [att EXCEPT ![p] = r]
    BY DEF SettleCost, InStep, LedgerInv, Placed, MoneyInv
<1>2. /\ att[p].booked \in Days /\ att[p].settled = 0 /\ 0 \notin Days
      /\ att[p].paid <=> att[p].at = "record"
    BY <1>1 DEF Counted, Ended, Days, LedgerTypeOK
<1>3. /\ r.booked = att[p].booked /\ r.settled = e /\ r.paid = att[p].paid
      /\ r.at \in {"done", "failed"} /\ r.tx = NoTransaction
  <2>1. Recorded(p) \in {"done", "failed"}
      BY DEF Recorded
  <2>2. GoOn(p, Recorded(p)) \in Attempt
      BY <1>1, <2>1, GoOnIs DEF Places, Ended
  <2>3. /\ GoOn(p, Recorded(p)).booked = att[p].booked /\ GoOn(p, Recorded(p)).paid = att[p].paid
        /\ GoOn(p, Recorded(p)).at = Recorded(p) /\ GoOn(p, Recorded(p)).tx = NoTransaction
      BY <1>1, GoOnStands
  <2> QED BY <2>1, <2>2, <2>3 DEF Attempt
<1>4. att'[p] = r /\ \A q \in Attempts \ {p} : att'[q] = att[q]
    BY <1>1 DEF LedgerTypeOK
<1>5. /\ Est[p[1]] \in Nat /\ Paid(p) \in Nat /\ gap = Paid(p) - Est[p[1]]
      /\ gap \in Int /\ Excess[p] \in Nat /\ gap <= Excess[p]
  <2>1. Est[p[1]] \in Nat /\ Act[p[1]] \in Nat
      BY ScopeFacts
  <2>2. gap = Paid(p) - Est[p[1]]
      BY <1>1, <1>2 DEF Difference, Paid
  <2>3. Paid(p) \in Nat /\ Paid(p) <= Act[p[1]] /\ Excess[p] \in Nat
        /\ Excess[p] >= Act[p[1]] - Est[p[1]]
      BY <1>1, SharesAre
  <2> HIDE DEF gap
  <2> QED BY <2>1, <2>2, <2>3
<1>6. Adds(p, gap)
    BY <1>1, CommitIs
<1> HIDE DEF r, gap
<1>7. Counted(p)'
    BY <1>2, <1>1, <1>3, <1>4 DEF Counted, Ended
<1>8. /\ \A q \in Attempts : Counted(q)' /\ CheckSees(q)'
      /\ BookedHasRow' /\ EmptyRows' /\ CapsKnown'
  <2>1. r.at \notin {"check", "recheck"} /\ att[p].date \in Days
      BY <1>1, <1>3
  <2> QED BY <1>1, <1>3, <1>5, <1>7, <2>1, CommitKeepsRows
<1>9. \A d, s : Spending(d, s)' = Spending(d, s)
    BY <1>3, <1>4 DEF Spending, ScopesOf, Org
<1>10. /\ \A q \in Attempts \ {p} : Share'[q] = Share[q]
       /\ Share[p] = Est[p[1]]
       /\ Share'[p] = IF e = att[p].booked THEN Paid(p) ELSE Est[p[1]]
       /\ \A q \in Attempts : Share[q] \in Nat /\ Share'[q] \in Nat
  <2>1. Paid(p)' = Paid(p)
      BY <1>3, <1>4 DEF Paid
  <2>2. \A q \in Attempts \ {p} : Share'[q] = Share[q]
      BY <1>4 DEF Share, Paid
  <2>3. Share[p] = Est[p[1]]
      BY <1>2 DEF Share
  <2>4. Share'[p] = IF e = att[p].booked THEN Paid(p) ELSE Est[p[1]]
      BY <1>1, <1>2, <1>3, <1>4, <2>1 DEF Share
  <2>5. \A q \in Attempts : Share[q] \in Nat
      BY <1>1, SharesAre
  <2>6. \A q \in Attempts : Share'[q] \in Nat
      BY <1>5, <2>2, <2>4, <2>5
  <2> QED BY <2>2, <2>3, <2>4, <2>5, <2>6
<1>11. Accounted'
  <2> SUFFICES ASSUME NEW d \in Days, NEW s \in Scopes, ~Foreign(d)'
               PROVE  row'[d][s].total = SumOf(Share', Spending(d, s)')
      BY DEF Accounted, SumOf, Cents
  <2> DEFINE S == Spending(d, s)
  <2>1. ~Foreign(d)
      BY <1>2, <1>4 DEF Foreign
  <2>2. row[d][s].total = SumOf(Share, S)
      BY <2>1 DEF MoneyInv, Accounted
  <2>3. IsFiniteSet(S) /\ S \subseteq Attempts
      BY SpendersAreFinite
  <2>4. CASE d = e /\ s \in ScopesOf(p)
    <3>1. att[p].booked = e
        BY <1>2, <1>3, <1>4, <2>4 DEF Foreign
    <3>2. p \in S
        BY <2>4, <3>1 DEF Spending
    <3>3. row'[d][s].total = row[d][s].total + gap
      <4>1. Visible(p, s)
          BY <1>2, <2>4, <3>1 DEF MoneyInv, BookedHasRow, Visible
      <4> QED BY <1>6, <2>4, <4>1 DEF Adds
    <3>4. Share'[p] = Paid(p)
        BY <1>10, <3>1
    <3> HIDE DEF S
    <3>5. SumOf(Share', S) = SumOf(Share, S) + Share'[p] - Share[p]
      <4>1. \A q \in S : Share[q] \in Nat /\ Share'[q] \in Nat
          BY <1>10, <2>3
      <4>2. \A q \in S \ {p} : Share[q] = Share'[q]
          BY <1>10, <2>3
      <4> QED BY <2>3, <3>2, <4>1, <4>2, SumChanges
    <3>6. SumOf(Share, S) \in Nat
        BY <1>10, <2>3, CentsAreFinite
    <3>7. row'[d][s].total = SumOf(Share', S)
        BY <1>5, <1>10, <2>2, <3>3, <3>4, <3>5, <3>6
    <3> QED BY <1>9, <3>7 DEF S
  <2>5. CASE ~(d = e /\ s \in ScopesOf(p))
    <3>1. row'[d][s] = row[d][s]
        BY <1>6, <2>5 DEF Adds
    <3>2. \A q \in S : Share'[q] = Share[q]
      <4>1. CASE p \in S
        <5>1. d = att[p].booked /\ s \in ScopesOf(p)
            BY <4>1 DEF Spending
        <5> QED BY <1>10, <2>3, <2>5, <5>1
      <4>2. CASE p \notin S
          BY <1>10, <2>3, <4>2
      <4> QED BY <4>1, <4>2
    <3> HIDE DEF S
    <3>3. SumOf(Share', S) = SumOf(Share, S)
        BY <3>2, SumSame
    <3>4. row'[d][s].total = SumOf(Share', S)
        BY <2>2, <3>1, <3>3
    <3> QED BY <1>9, <3>4 DEF S
  <2> QED BY <2>4, <2>5
<1>12. ASSUME NEW d \in Days, NEW s \in Scopes
       PROVE  /\ SumOf(Excess, SettledOn(d, s)') \in Nat /\ SumOf(Excess, SettledOn(d, s)) \in Nat
              /\ row[d][s].total \in Nat /\ row'[d][s].total \in Nat
              /\ row'[d][s].total - row[d][s].total
                   <= SumOf(Excess, SettledOn(d, s)') - SumOf(Excess, SettledOn(d, s))
  <2> DEFINE S == SettledOn(d, s)
  <2>1. IsFiniteSet(S) /\ S \subseteq Attempts /\ p \notin S
      BY <1>2, SpendersAreFinite DEF SettledOn
  <2>2. SumOf(Excess, S) \in Nat /\ \A q \in Attempts : Excess[q] \in Nat
      BY <1>1, SumsAre, SharesAre
  <2>3. row[d][s].total \in Nat /\ row'[d][s].total \in Nat
      BY <1>1 DEF LedgerTypeOK
  <2>4. CASE d = e /\ s \in ScopesOf(p)
    <3>1. SettledOn(d, s)' = S \cup {p}
        BY <1>3, <1>4, <2>4 DEF SettledOn, ScopesOf, Org
    <3> HIDE DEF S
    <3>2. SumOf(Excess, S \cup {p}) = SumOf(Excess, S) + Excess[p]
      <4>1. \A q \in S \cup {p} : Excess[q] \in Nat
          BY <2>1, <2>2
      <4> QED BY <2>1, <4>1, SumAdds
    <3>3. row'[d][s].total <= row[d][s].total + Excess[p]
      <4>1. CASE Visible(p, s)
        <5>1. row'[d][s].total = row[d][s].total + gap
            BY <1>6, <2>4, <4>1 DEF Adds
        <5> QED BY <1>5, <2>3, <5>1
      <4>2. CASE ~Visible(p, s)
        <5>1. row'[d][s] = row[d][s]
            BY <1>6, <4>2 DEF Adds
        <5> QED BY <1>5, <2>3, <5>1
      <4> QED BY <4>1, <4>2
    <3>4. /\ SumOf(Excess, SettledOn(d, s)') = SumOf(Excess, S) + Excess[p]
          /\ Excess[p] \in Nat
        BY <1>5, <3>1, <3>2
    <3>5. /\ SumOf(Excess, SettledOn(d, s)') \in Nat
          /\ row'[d][s].total - row[d][s].total
               <= SumOf(Excess, SettledOn(d, s)') - SumOf(Excess, S)
        BY <2>2, <2>3, <3>3, <3>4
    <3> QED BY <2>2, <2>3, <3>5 DEF S
  <2>5. CASE ~(d = e /\ s \in ScopesOf(p))
    <3>1. SettledOn(d, s)' = S
        BY <1>2, <1>3, <1>4, <2>5 DEF SettledOn, ScopesOf, Org
    <3>2. row'[d][s] = row[d][s]
        BY <1>6, <2>5 DEF Adds
    <3> QED BY <2>2, <2>3, <3>1, <3>2
  <2> QED BY <2>4, <2>5
<1>13. \A d, s : SumOf(Excess, SettledOn(d, s))' = SumOf(Excess, SettledOn(d, s)')
    BY DEF SumOf, Cents, Excess
<1>14. Capped'
  <2>1. ASSUME NEW d \in Days, NEW s \in Scopes
        PROVE  row'[d][s].total <= Max(CapsOf(s)) + SumOf(Excess, SettledOn(d, s)')
    <3>1. row[d][s].total <= Max(CapsOf(s)) + SumOf(Excess, SettledOn(d, s))
        BY DEF MoneyInv, Capped
    <3>2. Max(CapsOf(s)) \in Nat
        BY <1>1, HighestCap DEF MoneyInv
    <3> QED BY <1>12, <3>1, <3>2
  <2>2. \A s : Max(CapsOf(s))' = Max(CapsOf(s))
      BY <1>1 DEF CapsOf, Max
  <2> QED BY <1>13, <2>1, <2>2 DEF Capped
<1>15. SeenIsClose'
  <2>1. ASSUME NEW q \in Attempts, att'[q].at \in {"check", "recheck"}, att'[q].tx.step = "lockLast"
        PROVE  row'[att'[q].date][Global].total
                 <= att'[q].tx.seen + SumOf(Excess, SettledOn(att[q].date, Global)')
               /\ att'[q] = att[q]
    <3>1. q # p
        BY <1>3, <1>4, <2>1
    <3>2. att'[q] = att[q] /\ att[q].date \in Days /\ Global \in Scopes
        BY <1>4, <2>1, <3>1, ScopeFacts DEF LedgerInv, Placed, InTransaction
    <3>3. row[att[q].date][Global].total
            <= att[q].tx.seen + SumOf(Excess, SettledOn(att[q].date, Global))
        BY <2>1, <3>2 DEF MoneyInv, SeenIsClose
    <3>4. att[q].tx.seen \in Nat
        BY TransactionIs DEF Transaction, LedgerInv
    <3> DEFINE old == SumOf(Excess, SettledOn(att[q].date, Global))
               new == SumOf(Excess, SettledOn(att[q].date, Global)')
    <3>5. /\ old \in Nat /\ new \in Nat
          /\ row[att[q].date][Global].total \in Nat /\ row'[att[q].date][Global].total \in Nat
          /\ row'[att[q].date][Global].total - row[att[q].date][Global].total <= new - old
        BY <1>12, <3>2
    <3> HIDE DEF old, new
    <3>6. row[att[q].date][Global].total <= att[q].tx.seen + old
        BY <3>3 DEF old
    <3>7. row'[att[q].date][Global].total <= att[q].tx.seen + new
        BY <3>4, <3>5, <3>6
    <3> QED BY <3>2, <3>7 DEF new
  <2> QED BY <1>13, <2>1 DEF SeenIsClose
<1> QED BY <1>8, <1>11, <1>14, <1>15 DEF MoneyInv

\* A midnight or a cap change leaves the rows and the attempts alone, and no cap is forgotten.
LEMMA QuietKeepsMoney ==
  ASSUME LedgerInv, LedgerTypeOK', MoneyInv, UNCHANGED <<row, att>>,
         UNCHANGED <<setting, changes>> \/ \E s \in Scopes, c \in Caps : ChangeCap(s, c)
  PROVE  MoneyInv'
<1>1. \A q \in Attempts : Counted(q)' /\ CheckSees(q)'
    BY DEF MoneyInv, Counted, CheckSees, Visible, ScopesOf, Org
<1>2. changes \subseteq changes' /\ CapsKnown'
  <2>1. CASE UNCHANGED <<setting, changes>>
    <3>1. \A s : CapsOf(s)' = CapsOf(s)
        BY <2>1 DEF CapsOf
    <3>2. \A q \in Attempts : ScopesOf(q)' = ScopesOf(q)
        BY DEF ScopesOf, Org
    <3> QED BY <2>1, <3>1, <3>2 DEF MoneyInv, CapsKnown
  <2>2. ASSUME NEW t \in Scopes, NEW c \in Caps, ChangeCap(t, c)
        PROVE  changes \subseteq changes' /\ CapsKnown'
    <3>1. /\ changes \subseteq changes' /\ c \in Nat
          /\ setting' = [setting EXCEPT ![t] = c]
          /\ changes' = changes \cup {[scope |-> t, from |-> setting[t], to |-> c, day |-> day]}
        BY <2>2, CostAssumption DEF ChangeCap
    <3>2. \A s : /\ CapsOf(s) \subseteq CapsOf(s)'
                 /\ CapsOf(s)' = IF s = t THEN CapsOf(s) \cup {c} ELSE CapsOf(s)
      <4> DEFINE new == [scope |-> t, from |-> setting[t], to |-> c, day |-> day]
      <4>1. new.scope = t /\ new.to = c
          OBVIOUS
      <4> HIDE DEF new
      <4>2. changes' = changes \cup {new}
          BY <3>1 DEF new
      <4> QED BY <4>1, <4>2 DEF CapsOf
    <3>3. \A s \in Scopes : setting'[s] \in CapsOf(s)'
        BY <3>1, <3>2 DEF MoneyInv, CapsKnown, LedgerInv, LedgerTypeOK
    <3>4. ASSUME NEW s \in Scopes
          PROVE  \E m \in CapsOf(s)' : \A x \in CapsOf(s)' : x <= m
      <4>1. PICK m \in CapsOf(s) : \A x \in CapsOf(s) : x <= m
          BY DEF MoneyInv, CapsKnown
      <4>2. CapsOf(s) \subseteq Nat
          BY CapsAre DEF LedgerInv
      <4>3. CASE s # t \/ c <= m
          BY <3>2, <4>1, <4>3
      <4>4. CASE s = t /\ ~(c <= m)
        <5>1. \A x \in CapsOf(s) \cup {c} : x <= c
            BY <3>1, <4>1, <4>2, <4>4
        <5> QED BY <3>2, <4>4, <5>1
      <4> QED BY <4>3, <4>4
    <3>5. \A d \in Days, s \in Scopes : row'[d][s].exists => row'[d][s].cap \in CapsOf(s)'
        BY <3>2 DEF MoneyInv, CapsKnown
    <3>6. ASSUME NEW q \in Attempts, att'[q].tx.step \in Resolving, NEW s \in ScopesOf(q)'
          PROVE  att'[q].tx.caps[s] \in CapsOf(s)'
      <4>1. s \in ScopesOf(q)
          BY DEF ScopesOf, Org
      <4> QED BY <3>2, <3>6, <4>1 DEF MoneyInv, CapsKnown
    <3> QED BY <3>1, <3>3, <3>4, <3>5, <3>6 DEF CapsKnown
  <2> QED BY <2>1, <2>2
<1>3. /\ BookedHasRow' /\ EmptyRows' /\ Accounted' /\ Capped'
      /\ \A d, s : SumOf(Excess, SettledOn(d, s))' = SumOf(Excess, SettledOn(d, s))
  <2>1. \A q \in Attempts : StandsAs(q)
      BY DEF StandsAs
  <2> QED BY <1>2, <2>1, NoCommitSums
<1>4. SeenIsClose'
  <2>1. ASSUME NEW q \in Attempts, att'[q].at \in {"check", "recheck"}, att'[q].tx.step = "lockLast"
        PROVE  row'[att'[q].date][Global].total
                 <= att'[q].tx.seen + SumOf(Excess, SettledOn(att'[q].date, Global))
      BY <2>1 DEF MoneyInv, SeenIsClose
  <2> QED BY <1>3, <2>1 DEF SeenIsClose
<1> QED BY <1>1, <1>2, <1>3, <1>4 DEF MoneyInv

LEMMA MoneyKeeps ==
  LedgerInv /\ LedgerInv' /\ MoneyInv /\ [LedgerNext]_ledgerVars => MoneyInv'
<1> SUFFICES ASSUME LedgerInv, LedgerInv', MoneyInv, [LedgerNext]_ledgerVars PROVE MoneyInv'
    OBVIOUS
<1>1. LedgerTypeOK'
    BY DEF LedgerInv
<1>2. ASSUME NEW p \in Attempts, TransactionStep(p) PROVE MoneyInv'
    BY <1>1, <1>2, StatementsKeepMoney, ReserveKeepsMoney, SettleKeepsMoney DEF TransactionStep
<1>3. ASSUME NEW p \in Attempts,
             Lookup(p) \/ LockTimeout(p) \/ Fail(p) \/ Invoke(p) \/ Observe(p)
      PROVE  MoneyInv'
    BY <1>1, <1>3, CallKeepsMoney
<1>4. CASE Midnight
    BY <1>1, <1>4, QuietKeepsMoney DEF Midnight
<1>5. CASE \E s \in Scopes, c \in Caps : ChangeCap(s, c)
  <2>1. UNCHANGED <<row, att>>
      BY <1>5 DEF ChangeCap
  <2> QED BY <1>1, <1>5, <2>1, QuietKeepsMoney
<1>6. CASE UNCHANGED ledgerVars
    BY <1>1, <1>6, QuietKeepsMoney DEF ledgerVars
<1> QED BY <1>2, <1>3, <1>4, <1>5, <1>6 DEF LedgerNext

LEMMA MoneyAlways == LedgerSpec => [](LedgerInv /\ MoneyInv)
<1>1. LedgerInit => LedgerInv /\ MoneyInv
    BY LedgerStarts, MoneyStarts
<1>2. (LedgerInv /\ MoneyInv) /\ [LedgerNext]_ledgerVars => (LedgerInv /\ MoneyInv)'
    BY LedgerKeeps, MoneyKeeps
<1> QED BY <1>1, <1>2, PTL DEF LedgerSpec

\* Whatever checks, retries, replays, lock timeouts, failures and midnights interleave, a day's
\* total in telemetry.cost_daily (checkOrRaise and recordCallCost of postgres_enforcer.ts) is at
\* most what the attempts that reserved on it can have cost, and at least what they cost or
\* estimated, as long as nothing was settled there for another day.
THEOREM DayIsAccountedHolds == LedgerSpec => []DayIsAccounted
<1>1. ASSUME LedgerInv, MoneyInv PROVE DayIsAccounted
  <2> SUFFICES ASSUME NEW d \in Days, NEW s \in Scopes, ~Foreign(d)
               PROVE  /\ row[d][s].total <= SumOf(Most, Spending(d, s))
                      /\ (\A p \in Spending(d, s) : att[p].settled \in {0, d}) =>
                           row[d][s].total >= SumOf(Least, Spending(d, s))
      BY DEF DayIsAccounted
  <2> DEFINE S == Spending(d, s)
  <2>1. LedgerTypeOK /\ d # 0 /\ IsFiniteSet(S) /\ S \subseteq Attempts
        /\ \A p \in S : att[p].booked = d
    <3>1. IsFiniteSet(S) /\ S \subseteq Attempts
        BY SpendersAreFinite
    <3>2. LedgerTypeOK /\ d # 0 /\ \A p \in S : att[p].booked = d
        BY <1>1 DEF LedgerInv, Days, Spending
    <3> QED BY <3>1, <3>2
  <2>2. row[d][s].total = SumOf(Share, S)
      BY <1>1 DEF MoneyInv, Accounted
  <2>3. ASSUME NEW p \in S
        PROVE  /\ Share[p] \in Nat /\ Most[p] \in Nat /\ Least[p] \in Nat
               /\ Share[p] <= Most[p]
               /\ att[p].settled \in {0, d} => Least[p] <= Share[p]
    <3>1. /\ Est[p[1]] \in Nat /\ Act[p[1]] \in Nat /\ Paid(p) \in Nat /\ Share[p] \in Nat
          /\ p \in Attempts /\ att[p].booked = d
        BY <2>1, ScopeFacts, SharesAre
    <3> DEFINE est == Est[p[1]]
               act == Act[p[1]]
               paid == Paid(p)
    <3>2. est \in Nat /\ act \in Nat /\ paid \in Nat
        BY <3>1
    <3> HIDE DEF est, act, paid
    <3>3. Max({est, act}) \in Nat /\ Max({est, act}) >= est
      <4>1. Max({est, act}) \in {est, act} /\ Max({est, act}) >= est
          BY <3>2, MaxOfTwo
      <4> QED BY <3>2, <4>1
    <3>4. Min({est, paid}) \in Nat /\ Min({est, paid}) <= est
      <4>1. est \in Int /\ paid \in Int
          BY <3>2
      <4>2. Min({est, paid}) \in {est, paid} /\ Min({est, paid}) <= est
          BY <4>1, MaxOfTwo
      <4> QED BY <3>2, <4>2
    <3>5. /\ Share[p] = IF att[p].settled # 0 /\ att[p].settled = att[p].booked
                          THEN paid ELSE est
          /\ Most[p] = IF att[p].settled # 0 /\ att[p].settled = att[p].booked
                         THEN paid ELSE Max({est, act})
          /\ Least[p] = IF att[p].settled # 0 THEN paid ELSE Min({est, paid})
        BY <3>1 DEF Share, Most, Least, est, act, paid
    <3> QED BY <2>1, <3>1, <3>2, <3>3, <3>4, <3>5
  <2> HIDE DEF S
  <2>4. SumOf(Share, S) <= SumOf(Most, S)
    <3>1. \A p \in S : Share[p] \in Nat /\ Most[p] \in Nat /\ Share[p] <= Most[p]
        BY <2>3
    <3> QED BY <2>1, <3>1, SumGrows
  <2>5. ASSUME \A p \in S : att[p].settled \in {0, d} PROVE SumOf(Least, S) <= SumOf(Share, S)
    <3>1. \A p \in S : Least[p] \in Nat /\ Share[p] \in Nat /\ Least[p] <= Share[p]
        BY <2>3, <2>5
    <3> QED BY <2>1, <3>1, SumGrows
  <2>6. /\ SumOf(Share, S) \in Nat /\ SumOf(Most, S) \in Nat /\ SumOf(Least, S) \in Nat
      BY <2>1, <2>3, CentsAreFinite
  <2>7. row[d][s].total <= SumOf(Most, S)
      BY <2>2, <2>4
  <2>8. (\A p \in S : att[p].settled \in {0, d}) => row[d][s].total >= SumOf(Least, S)
      BY <2>2, <2>5, <2>6
  <2> QED BY <2>7, <2>8 DEF S
<1> QED BY <1>1, MoneyAlways, PTL

\* The two FOR UPDATE locks of checkOrRaise bound a day for every interleaving: its total goes
\* over the highest cap there ever was by no more than what settled answers cost beyond their
\* estimates.
THEOREM CapBoundsTheDayHolds == LedgerSpec => []CapBoundsTheDay
<1>1. MoneyInv => CapBoundsTheDay
    BY DEF MoneyInv, Capped, CapBoundsTheDay
<1> QED BY <1>1, MoneyAlways, PTL

=============================================================================
