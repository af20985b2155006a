---------------------------- MODULE Installations ----------------------------
(***************************************************************************)
(* How one GitHub App installation and its repositories get into           *)
(* core.installations and core.repositories.  Webhooks append outbox rows; *)
(* a row starts one of three workflows, whose id names the installation,   *)
(* so a start that meets an open execution is swallowed (USE_EXISTING).    *)
(* The repair workflow lists the repositories on GitHub; its outbox row is *)
(* throttled by cache.repository_repair_state.                             *)
(***************************************************************************)
EXTENDS Integers, FiniteSets

CONSTANTS Repos,      \* github_repo_id
          MaxSent,    \* bound on the webhooks GitHub sends
          Hydrations, \* attempts of the hydrate activity that may run at once
          NoHydration

ASSUME InstallationConstants == MaxSent \in Nat /\ NoHydration \notin Hydrations

VARIABLES github,        \* the App on GitHub
          webhooks,      \* deliveries that are not yet persisted
          reconcileRows, \* rows of core.outbox that are not yet dispatched
          executions,    \* the open execution of each workflow id
          hydrations,    \* attempts of the hydrate activity
          installation,  \* the row of core.installations
          repositories,  \* core.repositories
          repairState,   \* the row of cache.repository_repair_state
          sent,          \* webhooks sent so far
          switchedOff,   \* history: disabled, and not enabled by an admin since
          repairLost     \* history: a repair was given up

installVars == <<github, webhooks, reconcileRows, executions, hydrations, installation,
                 repositories, repairState, sent, switchedOff, repairLost>>
tables == <<installation, repositories, repairState>>
histories == <<switchedOff, repairLost>>

WorkflowTypes == {"reconcileInstallation", "reconcileRepositories", "repair"}
Unrecorded == "unrecorded"
NoRow == [enabled |-> FALSE]
NoExecution == [open |-> FALSE]
NoAttempt == [at |-> "none"]

\* What a webhook says, and what the payload of its workflow keeps of it.
InstallationEvent == [event : {"installation"}, suspends : BOOLEAN]
RepositoriesEvent == [event : {"installation_repositories"}, added : SUBSET Repos,
                      removed : SUBSET Repos]
PullRequestEvent == [event : {"pull_request"}, repo : Repos]
Says == InstallationEvent \cup RepositoriesEvent \cup PullRequestEvent

Webhook == [nr : 1..MaxSent, says : Says, at : {"sent", "checked"},
            enqueues : BOOLEAN, backfills : BOOLEAN]
ReconcileRow == [nr : 1..MaxSent, workflow : WorkflowTypes, payload : Says]

InstallationsTypeOK ==
  /\ github \in [app : {"absent", "installed", "suspended"}, repos : SUBSET Repos]
  /\ webhooks \subseteq Webhook
  /\ reconcileRows \subseteq ReconcileRow
  /\ executions \in [WorkflowTypes ->
       {NoExecution} \cup [open : {TRUE}, payload : Says,
                           awaits : Hydrations \cup {NoHydration}]]
  /\ hydrations \in [Hydrations ->
       {NoAttempt} \cup [at : {"list", "commit", "block"}, repos : SUBSET Repos]]
  /\ installation \in {Unrecorded, "active", "suspended"}
  /\ repositories \in [Repos -> {NoRow} \cup [enabled : BOOLEAN, archived : BOOLEAN]]
  /\ repairState \in [recent : BOOLEAN, blocked : BOOLEAN]
  /\ sent \in 0..MaxSent
  /\ switchedOff \in [Repos -> BOOLEAN] /\ repairLost \in BOOLEAN

InstallationsInit ==
  /\ github = [app |-> "absent", repos |-> {}]
  /\ webhooks = {} /\ reconcileRows = {}
  /\ executions = [w \in WorkflowTypes |-> NoExecution]
  /\ hydrations = [h \in Hydrations |-> NoAttempt]
  /\ installation = Unrecorded
  /\ repositories = [r \in Repos |-> NoRow]
  /\ repairState = [recent |-> FALSE, blocked |-> FALSE]
  /\ sent = 0
  /\ switchedOff = [r \in Repos |-> FALSE] /\ repairLost = FALSE

(***************************************************************************)
(* GitHub.  Webhooks may overtake each other; the one INSERT into          *)
(* cache.cache_idempotency makes a redelivery a step without effect.       *)
(***************************************************************************)
Send(says) ==
  /\ sent < MaxSent
  /\ sent' = sent + 1
  /\ webhooks' = webhooks \cup {[nr |-> sent + 1, says |-> says, at |-> "sent",
                                 enqueues |-> FALSE, backfills |-> FALSE]}
  /\ UNCHANGED <<reconcileRows, executions, hydrations, tables, histories>>

\* created and unsuspend clear suspended_at, deleted and suspend set it.
AppChanges(app) ==
  /\ github.app # app
  /\ github' = [app |-> app, repos |-> IF app = "absent" THEN {} ELSE github.repos]
  /\ Send([event |-> "installation", suspends |-> app # "installed"])

RepositoryAdded(r) ==
  /\ github.app = "installed" /\ r \notin github.repos
  /\ github' = [github EXCEPT !.repos = @ \cup {r}]
  /\ Send([event |-> "installation_repositories", added |-> {r}, removed |-> {}])

RepositoryRemoved(r) ==
  /\ github.app = "installed" /\ r \in github.repos
  /\ github' = [github EXCEPT !.repos = @ \ {r}]
  /\ Send([event |-> "installation_repositories", added |-> {}, removed |-> {r}])

PullRequest(r) ==
  /\ github.app = "installed" /\ r \in github.repos
  /\ Send([event |-> "pull_request", repo |-> r])
  /\ UNCHANGED github

(***************************************************************************)
(* persistWebhook: the lookups come first, the writes are seen at COMMIT.  *)
(***************************************************************************)
Known(r) == installation # Unrecorded /\ repositories[r] # NoRow

\* getStateForEnqueueDecision.
AllowEnqueue == ~repairState.recent /\ ~repairState.blocked

CheckWebhook(w) ==
  /\ w.at = "sent"
  /\ LET drift == w.says.event = "pull_request" /\ ~Known(w.says.repo) IN
     webhooks' = (webhooks \ {w}) \cup
       {[w EXCEPT !.at = "checked", !.enqueues = drift /\ AllowEnqueue,
                  !.backfills = drift /\ installation = Unrecorded]}
  /\ UNCHANGED <<github, reconcileRows, executions, hydrations, tables, sent, histories>>

Row(w, workflow, payload) == [nr |-> w.nr, workflow |-> workflow, payload |-> payload]

\* maybeEmitInstallationReconcile.
ReconcileEmits(w) ==
  CASE w.says.event = "installation" -> {Row(w, "reconcileInstallation", w.says)}
    [] w.says.event = "installation_repositories" ->
         {Row(w, "reconcileRepositories", w.says)}
    [] w.backfills -> {Row(w, "reconcileInstallation",
                           [event |-> "installation", suspends |-> FALSE])}
    [] OTHER -> {}

\* Fault: the attempt is marked outside of the savepoint.
MarkedAnyway(w, appended) == w.enqueues

\* maybeEnqueueRepair runs behind a savepoint: the row and the mark are
\* written together, or the webhook is persisted without both.
MarksAttempt(w, appended) == w.enqueues /\ appended

PersistWebhook(w) ==
  /\ w.at = "checked"
  /\ webhooks' = webhooks \ {w}
  /\ \E appended \in BOOLEAN :
       /\ appended => w.enqueues
       /\ reconcileRows' = reconcileRows \cup ReconcileEmits(w) \cup
            (IF appended THEN {Row(w, "repair", w.says)} ELSE {})
       /\ repairState' = [repairState EXCEPT !.recent = @ \/ MarksAttempt(w, appended)]
       /\ repairLost' = (repairLost /\ ~appended)
  /\ UNCHANGED <<github, executions, hydrations, installation, repositories, sent, switchedOff>>

\* now() passes last_attempt_at plus the cooldown.
CooldownEnds ==
  /\ repairState.recent
  /\ repairState' = [repairState EXCEPT !.recent = FALSE]
  /\ repairLost' = FALSE
  /\ UNCHANGED <<github, webhooks, reconcileRows, executions, hydrations, installation,
                 repositories, sent, switchedOff>>

(***************************************************************************)
(* Dispatch.                                                               *)
(***************************************************************************)
DispatchReconcile(row) ==
  /\ reconcileRows' = reconcileRows \ {row}
  /\ executions' = IF executions[row.workflow].open THEN executions
       ELSE [executions EXCEPT ![row.workflow] =
              [open |-> TRUE, payload |-> row.payload, awaits |-> NoHydration]]
  /\ UNCHANGED <<github, webhooks, hydrations, tables, sent, histories>>

\* The row used up its attempts.
RowDies(row) ==
  /\ reconcileRows' = reconcileRows \ {row}
  /\ repairLost' = (repairLost \/ row.workflow = "repair")
  /\ UNCHANGED <<github, webhooks, executions, hydrations, tables, sent, switchedOff>>

Complete(w) == executions' = [executions EXCEPT ![w] = NoExecution]

\* Completed, or tried again because the answer was lost.
CompletesOrRepeats(w) == Complete(w) \/ UNCHANGED executions

(***************************************************************************)
(* The reconcile activities, one transaction each.                         *)
(***************************************************************************)
ReconcileInstallation ==
  LET x == executions["reconcileInstallation"] IN
  /\ x.open
  /\ installation' = IF x.payload.suspends THEN "suspended" ELSE "active"
  /\ CompletesOrRepeats("reconcileInstallation")
  /\ UNCHANGED <<github, webhooks, reconcileRows, hydrations, repositories, repairState,
                 sent, histories>>

\* Fault: the DO UPDATE sets enabled as the INSERT does.
UpsertEnabled(row) == [enabled |-> TRUE, archived |-> FALSE]

\* upsertRepository: enabled is set by the INSERT only.
Upserted(row) ==
  IF row = NoRow THEN [enabled |-> TRUE, archived |-> FALSE]
  ELSE [row EXCEPT !.archived = FALSE]

\* removeRepository: a repository that was never recorded stays so.
Removed(row) ==
  IF row = NoRow THEN row ELSE [enabled |-> FALSE, archived |-> TRUE]

\* It throws, and is tried again, until the installation is recorded.  The
\* added repositories come first.
ReconcileRepositories ==
  LET x == executions["reconcileRepositories"]
      added(r) == IF r \in x.payload.added THEN Upserted(repositories[r]) ELSE repositories[r]
  IN
  /\ x.open
  /\ installation # Unrecorded
  /\ repositories' = [r \in Repos |->
       IF r \in x.payload.removed THEN Removed(added(r)) ELSE added(r)]
  /\ switchedOff' = [r \in Repos |->
       switchedOff[r] \/ (r \in x.payload.removed /\ added(r) # NoRow)]
  /\ CompletesOrRepeats("reconcileRepositories")
  /\ UNCHANGED <<github, webhooks, reconcileRows, hydrations, installation, repairState,
                 sent, repairLost>>

\* All attempts of the activity have failed.
ReconcileFails(w) ==
  /\ w # "repair" /\ executions[w].open
  /\ Complete(w)
  /\ UNCHANGED <<github, webhooks, reconcileRows, hydrations, tables, sent, histories>>

(***************************************************************************)
(* hydrateInstallationRepositories, the activity of the repair workflow.   *)
(***************************************************************************)
Awaited == executions["repair"].awaits
AwaitNobody == executions' = [executions EXCEPT !["repair"].awaits = NoHydration]

StartHydration(h) ==
  /\ executions["repair"].open /\ Awaited = NoHydration
  /\ hydrations[h] = NoAttempt
  /\ hydrations' = [hydrations EXCEPT ![h] = [at |-> "list", repos |-> {}]]
  /\ executions' = [executions EXCEPT !["repair"].awaits = h]
  /\ UNCHANGED <<github, webhooks, reconcileRows, tables, sent, histories>>

\* 404 and 403 are terminal and block the installation.
ListInstallationRepositories(h) ==
  /\ hydrations[h].at = "list"
  /\ hydrations' = [hydrations EXCEPT ![h] =
       IF github.app = "installed" THEN [at |-> "commit", repos |-> github.repos]
                                   ELSE [at |-> "block", repos |-> {}]]
  /\ UNCHANGED <<github, webhooks, reconcileRows, executions, tables, sent, histories>>

\* The end of an attempt ends the workflow if it is awaited.
EndHydration(h) ==
  /\ hydrations' = [hydrations EXCEPT ![h] = NoAttempt]
  /\ IF executions["repair"].open /\ Awaited = h THEN Complete("repair")
                                                 ELSE UNCHANGED executions

\* clearOnSuccess also runs if the installation is not recorded.
HydrateCommits(h) ==
  /\ hydrations[h].at = "commit"
  /\ repositories' = [r \in Repos |->
       IF installation # Unrecorded /\ r \in hydrations[h].repos
         THEN Upserted(repositories[r]) ELSE repositories[r]]
  /\ repairState' = [recent |-> FALSE, blocked |-> FALSE]
  /\ EndHydration(h)
  /\ UNCHANGED <<github, webhooks, reconcileRows, installation, sent, histories>>

MarkBlocked(h) ==
  /\ hydrations[h].at = "block"
  /\ repairState' = [recent |-> TRUE, blocked |-> TRUE]
  /\ EndHydration(h)
  /\ UNCHANGED <<github, webhooks, reconcileRows, installation, repositories, sent, histories>>

\* 5xx, a crash or an error of the database.
HydrationFails(h) ==
  /\ hydrations[h] # NoAttempt
  /\ hydrations' = [hydrations EXCEPT ![h] = NoAttempt]
  /\ IF executions["repair"].open /\ Awaited = h THEN AwaitNobody ELSE UNCHANGED executions
  /\ UNCHANGED <<github, webhooks, reconcileRows, tables, sent, histories>>

\* startToCloseTimeout: the attempt goes on and nobody waits for it.
HydrationTimesOut ==
  /\ executions["repair"].open /\ Awaited # NoHydration
  /\ AwaitNobody
  /\ UNCHANGED <<github, webhooks, reconcileRows, hydrations, tables, sent, histories>>

\* The twelfth attempt has failed.
RepairFails ==
  /\ executions["repair"].open /\ Awaited = NoHydration
  /\ Complete("repair")
  /\ repairLost' = TRUE
  /\ UNCHANGED <<github, webhooks, reconcileRows, hydrations, tables, sent, switchedOff>>

(***************************************************************************)
(* The admin API, and the runbook that unblocks an installation.           *)
(***************************************************************************)
SetEnabled(r, enabled) ==
  /\ repositories[r] # NoRow /\ repositories[r].enabled # enabled
  /\ repositories' = [repositories EXCEPT ![r].enabled = enabled]
  /\ switchedOff' = [switchedOff EXCEPT ![r] = ~enabled]
  /\ UNCHANGED <<github, webhooks, reconcileRows, executions, hydrations, installation,
                 repairState, sent, repairLost>>

Unblock ==
  /\ repairState.blocked
  /\ repairState' = [recent |-> FALSE, blocked |-> FALSE]
  /\ UNCHANGED <<github, webhooks, reconcileRows, executions, hydrations, installation,
                 repositories, sent, histories>>

InstallationsNext ==
  \/ \E app \in {"absent", "installed", "suspended"} : AppChanges(app)
  \/ \E r \in Repos :
       \/ RepositoryAdded(r) \/ RepositoryRemoved(r) \/ PullRequest(r)
       \/ \E enabled \in BOOLEAN : SetEnabled(r, enabled)
  \/ \E w \in webhooks : CheckWebhook(w) \/ PersistWebhook(w)
  \/ \E row \in reconcileRows : DispatchReconcile(row) \/ RowDies(row)
  \/ ReconcileInstallation \/ ReconcileRepositories
  \/ \E w \in WorkflowTypes : ReconcileFails(w)
  \/ \E h \in Hydrations :
       \/ StartHydration(h) \/ ListInstallationRepositories(h)
       \/ HydrateCommits(h) \/ MarkBlocked(h) \/ HydrationFails(h)
  \/ HydrationTimesOut \/ RepairFails \/ CooldownEnds \/ Unblock

InstallationsSpec == InstallationsInit /\ [][InstallationsNext]_installVars

(***************************************************************************)
(* Properties.                                                             *)
(***************************************************************************)

\* The kill switch: a repository that was disabled, by an admin or by its
\* removal, is enabled again by an admin only, whatever webhooks arrive late or
\* out of order and whatever an attempt of the repair has listed before.
RepositoryStaysOff ==
  \A r \in Repos : switchedOff[r] => ~repositories[r].enabled

\* The cooldown of the repair is no lock-out: while it turns webhooks of unknown
\* repositories away, a repair is on its way, unless one was given up.
CooldownHasRepair ==
  repairState.recent /\ ~repairState.blocked /\ ~repairLost =>
    \/ executions["repair"].open
    \/ \E row \in reconcileRows : row.workflow = "repair"

=============================================================================
