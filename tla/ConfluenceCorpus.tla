--------------------------- MODULE ConfluenceCorpus ---------------------------
(***************************************************************************)
(* The chunks of one Confluence space in core.confluence_chunks: the       *)
(* scheduled confluenceIngestWorkflow, triggerPageResyncWorkflow for one   *)
(* page, and the approvals that admins grant and revoke, against a wiki    *)
(* whose pages are edited, hidden and shown again meanwhile.               *)
(*                                                                         *)
(* The limits, the approval and the upsert are three transactions, the     *)
(* listing and the soft delete two others; an activity attempt that timed  *)
(* out may still execute its rest.  A page has one chunk for each version: *)
(* a page's chunks are written and deleted together.                       *)
(***************************************************************************)
EXTENDS Naturals, FiniteSets

CONSTANTS Pages,
          LastEdit,      \* bound: versions of a page
          Cap,           \* default-tagged chunks that a space may have
          Ingest,        \* the execution of confluenceIngestWorkflow
          Others,        \* writers beside it: executions of triggerPageResyncWorkflow,
                         \* and upsert attempts that nobody awaits
          MaxChanges,    \* bound: edits, and pages hidden or shown
          MaxLateSyncs   \* bound: attempts given up that go on

ASSUME CorpusConstants ==
  /\ LastEdit \in Nat \ {0} /\ Cap \in Nat /\ MaxChanges \in Nat /\ MaxLateSyncs \in Nat
  /\ IsFiniteSet(Pages)
  /\ IsFiniteSet(Others) /\ Ingest \notin Others

VARIABLES wiki,      \* the pages as Confluence shows them
          approved,  \* pages with a row in core.confluence_page_approvals
          chunks,    \* core.confluence_chunks by page and version
          sync,      \* the ingest's cycle
          tasks,     \* the page that each writer works on
          sweeps,    \* reconcile attempts given up that go on: their live pages
          changes, lateness

corpusVars == <<wiki, approved, chunks, sync, tasks, sweeps, changes, lateness>>

Writers == {Ingest} \cup Others
Versions == 1..LastEdit

\* A page that is not shown is not listed, and asking for it fails.
WikiPage == [at : Versions, default : BOOLEAN, shown : BOOLEAN]
Chunk == [default : BOOLEAN, deleted : BOOLEAN]
NoChunk == [deleted |-> TRUE]

\* The fetched page travels with the task; at is the next transaction.
Task == [at : {"fetch", "limits", "approval", "write"}, page : Pages,
         version : Versions, default : BOOLEAN]
NoTask == [at |-> "idle"]

CorpusTypeOK ==
  /\ wiki \in [Pages -> WikiPage] /\ approved \subseteq Pages
  /\ chunks \in [Pages \X Versions -> Chunk \cup {NoChunk}]
  /\ sync \in [at : {"idle", "list", "pages", "reconcile"},
               listed : SUBSET Pages, live : SUBSET Pages]
  /\ tasks \in [Writers -> Task \cup {NoTask}]
  /\ sweeps \in SUBSET SUBSET Pages
  /\ changes \in 0..MaxChanges /\ lateness \in 0..MaxLateSyncs

NoCycle == [at |-> "idle", listed |-> {}, live |-> {}]

CorpusInit ==
  /\ wiki \in [Pages -> [at : {1}, default : BOOLEAN, shown : {TRUE}]]
  /\ approved = {}
  /\ chunks = [k \in Pages \X Versions |-> NoChunk]
  /\ sync = NoCycle
  /\ tasks = [w \in Writers |-> NoTask]
  /\ sweeps = {} /\ changes = 0 /\ lateness = 0

Indexed(p, v) == chunks[p, v] # NoChunk
Live(p, v) == ~chunks[p, v].deleted

\* countDefaultChunksInSpace over the rows that listChunkRowsForLimits reads.
DefaultChunks == {k \in Pages \X Versions : ~chunks[k].deleted /\ chunks[k].default}

Idle(w) == tasks[w] = NoTask
Begin(w, p) == tasks' = [tasks EXCEPT ![w] =
                           [at |-> "fetch", page |-> p, version |-> 1, default |-> FALSE]]
MoveOn(w, at) == tasks' = [tasks EXCEPT ![w].at = at]
Finish(w) == tasks' = [tasks EXCEPT ![w] = NoTask]

(***************************************************************************)
(* Confluence and the admins.                                              *)
(***************************************************************************)
EditPage(p) ==
  /\ wiki[p].at < LastEdit /\ changes < MaxChanges /\ changes' = changes + 1
  /\ wiki' = [wiki EXCEPT ![p].at = @ + 1]
  /\ UNCHANGED <<approved, chunks, sync, tasks, sweeps, lateness>>

\* A restriction, the trash, or another space; neither way makes a version.
HideOrShowPage(p) ==
  /\ changes < MaxChanges /\ changes' = changes + 1
  /\ wiki' = [wiki EXCEPT ![p].shown = ~@]
  /\ UNCHANGED <<approved, chunks, sync, tasks, sweeps, lateness>>

CreatePageApproval(p) ==
  /\ p \notin approved /\ approved' = approved \cup {p}
  /\ UNCHANGED <<wiki, chunks, sync, tasks, sweeps, changes, lateness>>

\* The resync is best effort: it may not be wired, and its enqueue may fail.
RevokePageApproval(p) ==
  /\ p \in approved /\ approved' = approved \ {p}
  /\ \/ UNCHANGED tasks
     \/ \E o \in Others : Idle(o) /\ Begin(o, p)
  /\ UNCHANGED <<wiki, chunks, sync, sweeps, changes, lateness>>

(***************************************************************************)
(* syncOneSpace.  A listing that fails ends the space's cycle.             *)
(***************************************************************************)
StartCycle ==
  /\ sync.at = "idle" /\ sync' = [sync EXCEPT !.at = "list"]
  /\ UNCHANGED <<wiki, approved, chunks, tasks, sweeps, changes, lateness>>

ListPages ==
  /\ sync.at = "list"
  /\ sync' = [at |-> "pages", live |-> {}, listed |-> {p \in Pages : wiki[p].shown}]
  /\ UNCHANGED <<wiki, approved, chunks, tasks, sweeps, changes, lateness>>

ListFails ==
  /\ sync.at = "list" /\ sync' = NoCycle
  /\ UNCHANGED <<wiki, approved, chunks, tasks, sweeps, changes, lateness>>

\* The page is live before anything is tried with it (F-40).
NextPage(p) ==
  /\ sync.at = "pages" /\ Idle(Ingest) /\ p \in sync.listed \ sync.live
  /\ sync' = [sync EXCEPT !.live = @ \cup {p}]
  /\ Begin(Ingest, p)
  /\ UNCHANGED <<wiki, approved, chunks, sweeps, changes, lateness>>

PagesDone ==
  /\ sync.at = "pages" /\ Idle(Ingest) /\ sync.listed \subseteq sync.live
  /\ sync' = [sync EXCEPT !.at = "reconcile"]
  /\ UNCHANGED <<wiki, approved, chunks, tasks, sweeps, changes, lateness>>

(***************************************************************************)
(* reconcileDeletions: one UPDATE.  A deleted row stays deleted, the       *)
(* upsert's ON CONFLICT leaves deleted_at alone.                           *)
(***************************************************************************)
\* Fault: a cycle in which no page was seen sweeps nothing.
SweptUnlessEmpty(live) ==
  [k \in Pages \X Versions |->
     IF live = {} \/ k[1] \in live \/ chunks[k] = NoChunk THEN chunks[k]
     ELSE [chunks[k] EXCEPT !.deleted = TRUE]]

Swept(live) == [k \in Pages \X Versions |->
                  IF k[1] \in live \/ chunks[k] = NoChunk THEN chunks[k]
                  ELSE [chunks[k] EXCEPT !.deleted = TRUE]]

ReconcileDeletions ==
  /\ sync.at = "reconcile"
  /\ chunks' = Swept(sync.live) /\ sync' = NoCycle
  /\ UNCHANGED <<wiki, approved, tasks, sweeps, changes, lateness>>

\* The attempts are used up; the last one may still be running.
DeletionsFail ==
  /\ sync.at = "reconcile" /\ sync' = NoCycle
  /\ \/ UNCHANGED <<sweeps, lateness>>
     \/ /\ lateness < MaxLateSyncs /\ lateness' = lateness + 1
        /\ sweeps' = sweeps \cup {sync.live}
  /\ UNCHANGED <<wiki, approved, chunks, tasks, changes>>

LateReconcile(live) ==
  /\ live \in sweeps /\ sweeps' = sweeps \ {live}
  /\ chunks' = Swept(live)
  /\ UNCHANGED <<wiki, approved, sync, tasks, changes, lateness>>

(***************************************************************************)
(* The four activities of a page.                                          *)
(***************************************************************************)
\* With sanitizePage and chunkAndEmbed, which write nothing but may take long.
\* A labels request that fails leaves the page without labels.
FetchPageBody(w) ==
  LET p == tasks[w].page IN
  /\ tasks[w].at = "fetch" /\ wiki[p].shown
  /\ \E kept \in {wiki[p].default, FALSE} :
       tasks' = [tasks EXCEPT ![w] =
                   [at |-> "limits", page |-> p, version |-> wiki[p].at, default |-> kept]]
  /\ UNCHANGED <<wiki, approved, chunks, sync, sweeps, changes, lateness>>

\* Fault: the limit is compared with what is there already.
CheckLimitsLate(w) ==
  /\ tasks[w].at = "limits"
  /\ IF ~tasks[w].default THEN MoveOn(w, "write")
     ELSE IF Cardinality(DefaultChunks) > Cap THEN Finish(w)
     ELSE MoveOn(w, "approval")
  /\ UNCHANGED <<wiki, approved, chunks, sync, sweeps, changes, lateness>>

\* The page's own chunk counts twice when it is there already.
CheckLimits(w) ==
  /\ tasks[w].at = "limits"
  /\ IF ~tasks[w].default THEN MoveOn(w, "write")
     ELSE IF Cardinality(DefaultChunks) + 1 > Cap THEN Finish(w)
     ELSE MoveOn(w, "approval")
  /\ UNCHANGED <<wiki, approved, chunks, sync, sweeps, changes, lateness>>

GetActiveApproval(w) ==
  /\ tasks[w].at = "approval"
  /\ IF tasks[w].page \in approved THEN MoveOn(w, "write") ELSE Finish(w)
  /\ UNCHANGED <<wiki, approved, chunks, sync, sweeps, changes, lateness>>

UpsertChunks(w) ==
  LET k == <<tasks[w].page, tasks[w].version>> IN
  /\ tasks[w].at = "write"
  /\ chunks' = [chunks EXCEPT ![k] =
                  [default |-> tasks[w].default, deleted |-> Indexed(k[1], k[2]) /\ @.deleted]]
  /\ Finish(w)
  /\ UNCHANGED <<wiki, approved, sync, sweeps, changes, lateness>>

\* The attempts of an activity are used up: the page is given up.
PageFails(w) ==
  /\ ~Idle(w) /\ Finish(w)
  /\ UNCHANGED <<wiki, approved, chunks, sync, sweeps, changes, lateness>>

\* An attempt of upsertChunks times out and is repeated while it goes on.
UpsertTimesOut(w, o) ==
  /\ tasks[w].at \in {"limits", "approval", "write"} /\ Idle(o)
  /\ lateness < MaxLateSyncs /\ lateness' = lateness + 1
  /\ tasks' = [tasks EXCEPT ![o] = tasks[w], ![w].at = "limits"]
  /\ UNCHANGED <<wiki, approved, chunks, sync, sweeps, changes>>

PageStep(w) ==
  \/ FetchPageBody(w) \/ CheckLimits(w)
  \/ GetActiveApproval(w) \/ UpsertChunks(w)

Cycle == StartCycle \/ ListPages \/ PagesDone \/ ReconcileDeletions

CorpusNext ==
  \/ \E p \in Pages :
       \/ EditPage(p) \/ HideOrShowPage(p)
       \/ CreatePageApproval(p) \/ RevokePageApproval(p) \/ NextPage(p)
  \/ Cycle \/ ListFails \/ DeletionsFail
  \/ \E live \in SUBSET Pages : LateReconcile(live)
  \/ \E w \in Writers : PageStep(w) \/ PageFails(w)
  \/ \E w \in Writers, o \in Others : UpsertTimesOut(w, o)

(***************************************************************************)
(* What one asks of the corpus.                                            *)
(***************************************************************************)
\* The writers whose limits are checked and whose upsert is still to come.
Admitted == {w \in Writers : tasks[w].at \in {"approval", "write"} /\ tasks[w].default}

\* The limits are read before the upsert's transaction: writers that overlap can
\* pass the cap, but by no more than one page for each of the others.
DefaultCorpusIsBounded == Cardinality(DefaultChunks) <= Cap + Cardinality(Others)

\* A plain page that is shown is there at its version, one that is hidden has no
\* chunks.
Follows(p) ==
  IF wiki[p].shown THEN ~wiki[p].default => Indexed(p, wiki[p].at)
                   ELSE \A v \in Versions : ~Live(p, v)

\* However listings, pages and soft deletes fail in between, the corpus comes to
\* follow the wiki, whose changes are bounded; and a page that was always shown
\* never loses a chunk, whichever of its activities fail (F-40).
CorpusFollowsWiki ==
  \A p \in Pages :
    /\ []<>Follows(p)
    /\ [](wiki[p].shown) => [](\A v \in Versions : Indexed(p, v) => Live(p, v))

(***************************************************************************)
(* Sentences of the code that are false here (README, section 6).          *)
(***************************************************************************)
\* "Pages observed during this sync pass are safe" (confluence_chunks_repo.ts).
ShownPageIsRetrieved ==
  \A p \in Pages, v \in Versions :
    <>[](wiki[p] = [at |-> v, default |-> FALSE, shown |-> TRUE]) => <>[]Live(p, v)

\* "Skip-hygiene filters: superseded_at IS NULL" (postgres_confluence_retrieval.ts).
OldVersionIsHidden ==
  \A p \in Pages, v, u \in Versions :
    v < u /\ Indexed(p, u) /\ Live(p, u) => ~Live(p, v)

\* "default-tagged chunks are flushed within minutes" (confluence_pages_write.ts).
RevokedPageIsFlushed ==
  \A p \in Pages : <>[](p \notin approved) =>
    <>[](\A v \in Versions : ~(<<p, v>> \in DefaultChunks))

(***************************************************************************)
(* The schedule ticks for ever and attempts end.  Confluence, Postgres and *)
(* the embedder may fail again and again, but not every time.              *)
(***************************************************************************)
CorpusFairness ==
  /\ WF_corpusVars(StartCycle \/ PagesDone \/ \E p \in Pages : NextPage(p))
  /\ SF_corpusVars(ListPages) /\ SF_corpusVars(ReconcileDeletions)
  /\ WF_corpusVars(\E live \in SUBSET Pages : LateReconcile(live))
  /\ \A w \in Writers : WF_corpusVars(PageStep(w) \/ PageFails(w))
  /\ \A p \in Pages, at \in {"fetch", "limits", "write"} :
       SF_corpusVars(tasks[Ingest].at = at /\ tasks[Ingest].page = p /\ PageStep(Ingest))

CorpusSpec == CorpusInit /\ [][CorpusNext]_corpusVars /\ CorpusFairness
=============================================================================
