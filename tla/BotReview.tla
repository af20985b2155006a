----------------------------- MODULE BotReview -----------------------------
(***************************************************************************)
(* What PostReview promises to a reader of the pull request: the bot has   *)
(* one poster.  The first attempt to claim the pull request is the only    *)
(* one that may post, and only until a review is recorded; from then on    *)
(* the bot only refreshes the text of the recorded review.  A review is    *)
(* never withdrawn, and neither its author nor its comments change.        *)
(***************************************************************************)
EXTENDS Naturals, Sequences

CONSTANTS
  Runs,
  Posters,  \* pairs of a run and a number
  Findings

VARIABLES
  claimed,   \* somebody has claimed the pull request
  posters,   \* who may post: the claimant, if it has heard that the claim is its own
  recorded,  \* position in reviews of the review that later runs refresh, 0 for none
  reviews    \* the reviews on the pull request

vars == <<claimed, posters, recorded, reviews>>

Init == ~claimed /\ posters = {} /\ recorded = 0 /\ reviews = <<>>

Claim(p) ==
  /\ ~claimed /\ claimed' = TRUE
  /\ posters' \in {{}, {p}}
  /\ UNCHANGED <<recorded, reviews>>

\* A poster p posts, and records a review of its own.
Post(p, comments) ==
  /\ recorded = 0
  /\ reviews' = Append(reviews, [by |-> p, comments |-> comments, texts |-> {p[1]}])
  /\ UNCHANGED <<claimed, posters, recorded>>

Record(p, i) ==
  /\ recorded = 0 /\ recorded' = i
  /\ reviews[i].by = p
  /\ UNCHANGED <<claimed, posters, reviews>>

Refresh(r) ==
  /\ recorded # 0
  /\ reviews' = [reviews EXCEPT ![recorded].texts = @ \cup {r}]
  /\ UNCHANGED <<claimed, posters, recorded>>

Next ==
  \/ \E p \in Posters : Claim(p)
  \/ \E p \in posters :
       \/ \E comments \in SUBSET Findings : Post(p, comments)
       \/ \E i \in 1..Len(reviews) : Record(p, i)
  \/ \E r \in Runs : Refresh(r)

Spec == Init /\ [][Next]_vars
=============================================================================
