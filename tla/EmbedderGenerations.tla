------------------------- MODULE EmbedderGenerations -------------------------
(***************************************************************************)
(* The lifecycle of embedding generations: EmbedderGenerationService over  *)
(* core.embedding_generations and the singleton core.embedder_runtime_state*)
(* with the snapshot that PostgresEmbedderCache keeps in each process.     *)
(* Every service call checks a row it has read before and then writes in   *)
(* one to three transactions of its own, so calls of several operators     *)
(* interleave between any two of them, and a call may end in between.      *)
(***************************************************************************)
EXTENDS Integers, FiniteSets

CONSTANTS Operators,    \* the admin requests that may be open
          Generations,  \* generation_id; 1 is the migration's seed
          Processes,    \* API and worker processes with a cache
          LastConfig,   \* bound on config_version
          NoGeneration

ASSUME GenerationConstants ==
  /\ 1 \in Generations /\ Generations \subseteq Nat /\ NoGeneration \notin Generations
  /\ LastConfig \in Nat \ {0}

VARIABLES generations,  \* core.embedding_generations
          runtime,      \* core.embedder_runtime_state
          calls,        \* the open service calls
          caches        \* snapshot of each process

embedderVars == <<generations, runtime, calls, caches>>

\* The timestamps are modelled by whether they are set.
Generation == [state : {"backfilling", "ready", "active", "retired"},
               started : BOOLEAN, completed : BOOLEAN, activated : BOOLEAN,
               retired : BOOLEAN, collected : BOOLEAN,
               failed : BOOLEAN, embeddings : BOOLEAN]
Missing == [state |-> "missing"]
Runtime == [active : Generations, pending : Generations \cup {NoGeneration},
            mode : {"fallback", "generation_only"}, version : 1..LastConfig]
Call == [kind : {"start", "cancel", "retire", "activate", "gc"},
         at : {"write", "find", "demote", "promote", "state"},
         generation : Generations, victims : SUBSET Generations]
NoCall == [at |-> "idle"]

EmbedderTypeOK ==
  /\ generations \in [Generations -> Generation \cup {Missing}]
  /\ runtime \in Runtime
  /\ calls \in [Operators -> Call \cup {NoCall}]
  /\ caches \in [Processes -> Runtime]

Seed == [state |-> "active", started |-> FALSE, completed |-> FALSE, activated |-> TRUE,
         retired |-> FALSE, collected |-> FALSE, failed |-> FALSE, embeddings |-> TRUE]
Fresh == [state |-> "backfilling", started |-> TRUE, completed |-> FALSE, activated |-> FALSE,
          retired |-> FALSE, collected |-> FALSE, failed |-> FALSE, embeddings |-> FALSE]

EmbedderInit ==
  /\ generations = [g \in Generations |-> IF g = 1 THEN Seed ELSE Missing]
  /\ runtime = [active |-> 1, pending |-> NoGeneration, mode |-> "fallback", version |-> 1]
  /\ calls = [o \in Operators |-> NoCall]
  /\ caches = [p \in Processes |-> runtime]

StateOf(g) == generations[g].state

\* An activation that has demoted g and not committed holds its row.
Demoting(g) == \E o \in Operators : calls[o].at = "promote" /\ g \in calls[o].victims

Open(o, kind, g, at) ==
  /\ calls[o] = NoCall
  /\ calls' = [calls EXCEPT ![o] =
       [kind |-> kind, at |-> at, generation |-> g, victims |-> {}]]
  /\ UNCHANGED <<generations, runtime, caches>>

Step(o, at) == calls' = [calls EXCEPT ![o].at = at]
End(o) == calls' = [calls EXCEPT ![o] = NoCall]

\* Fault: a write of the singleton that leaves config_version alone.
Silently(state) == state

\* Every write of the singleton bumps config_version in the same statement.
Bumped(state) == [state EXCEPT !.version = @ + 1]

MayBump == runtime.version < LastConfig

(***************************************************************************)
(* startGeneration: read the pending pointer, insert, set the pointer.     *)
(***************************************************************************)
StartGeneration(o) ==
  /\ runtime.pending = NoGeneration
  /\ \E g \in Generations : StateOf(g) = "missing"
  /\ Open(o, "start", 1, "write")

\* generation_id comes from the sequence.
InsertNew(o) ==
  /\ calls[o].at = "write" /\ calls[o].kind = "start"
  /\ \E g \in Generations :
       /\ StateOf(g) = "missing"
       /\ \A h \in Generations : StateOf(h) = "missing" => g <= h
       /\ generations' = [generations EXCEPT ![g] = Fresh]
       /\ calls' = [calls EXCEPT ![o].at = "state", ![o].generation = g]
  /\ UNCHANGED <<runtime, caches>>

SetPending(o) ==
  /\ calls[o].at = "state" /\ calls[o].kind = "start"
  /\ MayBump
  /\ runtime' = Bumped([runtime EXCEPT !.pending = calls[o].generation])
  /\ End(o)
  /\ UNCHANGED <<generations, caches>>

(***************************************************************************)
(* cancelPending and manualRetire: both read the state and then call       *)
(* transitionToRetired, whose UPDATE has its own condition on the state.   *)
(***************************************************************************)
CancelPending(o, g) == StateOf(g) = "backfilling" /\ Open(o, "cancel", g, "write")
ManualRetire(o, g) == StateOf(g) = "ready" /\ Open(o, "retire", g, "write")

TransitionToRetired(o) ==
  LET g == calls[o].generation IN
  /\ calls[o].at = "write" /\ calls[o].kind \in {"cancel", "retire"}
  /\ generations' = IF StateOf(g) \in {"backfilling", "ready"}
                      THEN [generations EXCEPT ![g].state = "retired", ![g].retired = TRUE]
                      ELSE generations
  /\ IF calls[o].kind = "cancel" THEN Step(o, "state") ELSE End(o)
  /\ UNCHANGED <<runtime, caches>>

\* The pointer is cleared whichever generation it names by now.
ClearPending(o) ==
  /\ calls[o].at = "state" /\ calls[o].kind = "cancel"
  /\ MayBump
  /\ runtime' = Bumped([runtime EXCEPT !.pending = NoGeneration])
  /\ End(o)
  /\ UNCHANGED <<generations, caches>>

(***************************************************************************)
(* activate (and rollback, its alias).                                     *)
(***************************************************************************)
Activate(o, g) ==
  /\ StateOf(g) \in {"ready", "retired"}
  /\ ~generations[g].collected
  /\ ~generations[g].failed
  /\ generations[g].embeddings
  /\ Open(o, "activate", g, "find")

\* transitionToActive, first statement: the snapshot of its UPDATE names the
\* rows to demote ...
FindActive(o) ==
  /\ calls[o].at = "find"
  /\ calls' = [calls EXCEPT ![o].at = "demote", ![o].victims =
       {h \in Generations : StateOf(h) = "active" /\ h # calls[o].generation}]
  /\ UNCHANGED <<generations, runtime, caches>>

\* ... and it waits for the locked ones and skips those that are active no more.
Demote(o) ==
  /\ calls[o].at = "demote"
  /\ \A h \in calls[o].victims : ~Demoting(h)
  /\ calls' = [calls EXCEPT ![o].at = "promote",
                            ![o].victims = {h \in @ : StateOf(h) = "active"}]
  /\ UNCHANGED <<generations, runtime, caches>>

Demoted(row) == [row EXCEPT !.state = "ready", !.activated = FALSE, !.completed = TRUE]
Promoted(row) == [row EXCEPT !.state = "active", !.activated = TRUE, !.retired = FALSE]

\* Second statement and COMMIT: the target is promoted whatever it is by now.
Promote(o) ==
  LET g == calls[o].generation IN
  /\ calls[o].at = "promote"
  /\ \A p \in Operators \ {o} : calls[p].at = "promote" => g \notin calls[p].victims
  /\ generations' = [h \in Generations |->
       IF h = g THEN Promoted(generations[h])
       ELSE IF h \in calls[o].victims THEN Demoted(generations[h]) ELSE generations[h]]
  /\ calls' = [calls EXCEPT ![o].at = "state", ![o].victims = {}]
  /\ UNCHANGED <<runtime, caches>>

PointActive(o) ==
  /\ calls[o].at = "state" /\ calls[o].kind = "activate"
  /\ MayBump
  /\ runtime' = Bumped([runtime EXCEPT !.active = calls[o].generation,
                                       !.pending = NoGeneration])
  /\ End(o)
  /\ UNCHANGED <<generations, caches>>

(***************************************************************************)
(* gc, retrieval mode, and the maintenance worker outside of src/.         *)
(***************************************************************************)
GcRequested(o, g) == StateOf(g) = "retired" /\ Open(o, "gc", g, "write")

\* recordGcStarted has no condition; the dispatched workflow deletes the rows
\* of chunk_embeddings and stamps gc_completed_at.
CollectGarbage(o) ==
  /\ calls[o].at = "write" /\ calls[o].kind = "gc"
  /\ generations' = [generations EXCEPT ![calls[o].generation].embeddings = FALSE,
                                        ![calls[o].generation].collected = TRUE]
  /\ End(o)
  /\ UNCHANGED <<runtime, caches>>

\* The coverage gate of generation_only is about the active generation.
SetRetrievalMode(mode) ==
  /\ MayBump
  /\ mode = "generation_only" => generations[runtime.active].embeddings
  /\ runtime' = Bumped([runtime EXCEPT !.mode = mode])
  /\ UNCHANGED <<generations, calls, caches>>

BumpConfigVersion ==
  /\ MayBump
  /\ runtime' = Bumped(runtime)
  /\ UNCHANGED <<generations, calls, caches>>

\* The maintenance worker embeds the chunks and calls transitionToReady.
BackfillEnds(g) ==
  /\ StateOf(g) = "backfilling"
  /\ generations' = [generations EXCEPT ![g].state = "ready", ![g].completed = TRUE,
                                        ![g].embeddings = TRUE]
  /\ UNCHANGED <<runtime, calls, caches>>

\* It validates a generation that was backfilling or ready when asked; only a
\* failed validation is looked at.
ValidationFails(g) ==
  /\ StateOf(g) # "missing" /\ ~generations[g].failed
  /\ generations' = [generations EXCEPT ![g].failed = TRUE]
  /\ UNCHANGED <<runtime, calls, caches>>

CallDies(o) ==
  /\ calls[o] # NoCall
  /\ End(o)
  /\ UNCHANGED <<generations, runtime, caches>>

\* refreshIfStale after its TTL: nothing changes if the version is the same.
RefreshIfStale(p) ==
  /\ caches[p].version # runtime.version
  /\ caches' = [caches EXCEPT ![p] = runtime]
  /\ UNCHANGED <<generations, runtime, calls>>

EmbedderNext ==
  \/ \E o \in Operators :
       \/ StartGeneration(o) \/ InsertNew(o) \/ SetPending(o)
       \/ \E g \in Generations :
            CancelPending(o, g) \/ ManualRetire(o, g) \/ Activate(o, g) \/ GcRequested(o, g)
       \/ TransitionToRetired(o) \/ ClearPending(o)
       \/ FindActive(o) \/ Demote(o) \/ Promote(o) \/ PointActive(o)
       \/ CollectGarbage(o) \/ CallDies(o)
  \/ \E g \in Generations :
       BackfillEnds(g) \/ ValidationFails(g)
  \/ \E mode \in {"fallback", "generation_only"} : SetRetrievalMode(mode)
  \/ BumpConfigVersion
  \/ \E p \in Processes : RefreshIfStale(p)

EmbedderSpec == EmbedderInit /\ [][EmbedderNext]_embedderVars

(***************************************************************************)
(* Properties.                                                             *)
(***************************************************************************)

\* Every row satisfies the CHECK that ties its state to its timestamps, so no
\* UPDATE of a legal sequence of calls fails half way: not the demotion of the
\* seed, whose backfill never ran, nor the rollback of a retired generation
\* that another operator retires or activates at the same time.
RowsPassTheirCheck ==
  \A g \in Generations :
    LET row == generations[g] IN
    CASE row.state = "backfilling" ->
           row.started /\ ~row.completed /\ ~row.activated /\ ~row.retired
      [] row.state = "ready" -> row.completed /\ ~row.activated /\ ~row.retired
      [] row.state = "active" -> row.activated /\ ~row.retired
      [] row.state = "retired" -> row.retired
      [] OTHER -> TRUE

\* A process that compares only config_version never keeps an outdated
\* snapshot: what it has cached under the current version is the current state.
CacheIsItsVersion ==
  \A p \in Processes : caches[p].version = runtime.version => caches[p] = runtime

\* transitionToActive "enforces the SINGLE-ACTIVE invariant".  Two activations
\* that run at once demote the same predecessor and then each other not at all.
SingleActive == Cardinality({g \in Generations : StateOf(g) = "active"}) <= 1

=============================================================================
