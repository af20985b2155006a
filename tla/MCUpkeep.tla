------------------------------- MODULE MCUpkeep -------------------------------
(***************************************************************************)
(* Instance of two protocols that a schedule cleans up after.  They share  *)
(* no state: a behaviour is one of PrMutex or of ConfluenceCorpus, chosen  *)
(* in the initial state.                                                   *)
(*                                                                         *)
(* Two executions compete for one pull request, with three mutex ids (so   *)
(* that a lost answer leaves an orphan and there is still a row for each   *)
(* execution) and a lease of two ticks; or one page is synced, resynced    *)
(* and swept.                                                              *)
(***************************************************************************)
EXTENDS PrMutex, ConfluenceCorpus

CONSTANT q1

MCPrOf == [w \in Workflows |-> q1]

VARIABLE part   \* the protocol this behaviour is about

upkeepVars == <<vars, corpusVars, part>>

UpkeepInit == part \in {"mutex", "corpus"} /\ Init /\ CorpusInit

Syncing == part = "corpus"

UpkeepNext ==
  \/ part = "mutex" /\ Next /\ UNCHANGED <<corpusVars, part>>
  \/ Syncing /\ CorpusNext /\ UNCHANGED <<vars, part>>

\* CorpusFairness, in the behaviours that are about the corpus.  What PrMutex's
\* Fairness is about is disabled while there is no row.
SyncingFairness ==
  /\ WF_corpusVars(Syncing /\ (StartCycle \/ PagesDone \/ \E p \in Pages : NextPage(p)))
  /\ SF_corpusVars(Syncing /\ ListPages) /\ SF_corpusVars(Syncing /\ ReconcileDeletions)
  /\ WF_corpusVars(Syncing /\ \E live \in SUBSET Pages : LateReconcile(live))
  /\ \A w \in Writers : WF_corpusVars(Syncing /\ (PageStep(w) \/ PageFails(w)))
  /\ \A p \in Pages, at \in {"fetch", "limits", "write"} :
       SF_corpusVars(/\ Syncing /\ tasks[Ingest].at = at /\ tasks[Ingest].page = p
                     /\ PageStep(Ingest))

UpkeepSpec == UpkeepInit /\ [][UpkeepNext]_upkeepVars /\ Fairness /\ SyncingFairness

\* CorpusFollowsWiki, of the behaviours that are about the corpus.
CorpusIsCurrent == Syncing => CorpusFollowsWiki
=============================================================================
