----------------------------- MODULE RoleChanges -----------------------------
(***************************************************************************)
(* Role changes of the admin API: one user stages a grant or a revoke in   *)
(* core.role_grant_pending, another one decides it, and the decision       *)
(* writes core.role_grants in the same transaction.  Handlers of different *)
(* requests interleave between their SELECT and their transaction, and the *)
(* transactions run at READ COMMITTED: nobody sees their rows before the   *)
(* COMMIT, and an UPDATE that waited for a row looks at it again.          *)
(***************************************************************************)
EXTENDS Integers, FiniteSets

CONSTANTS Admins,         \* users named as requester or approver
          RoleRequests,   \* pending_id
          Subjects,       \* a user or team in one scope of one installation
          Teams,          \* the subjects with subject_kind = 'team'
          RoleNames,      \* platform_owner, platform_operator, reader
          RequestTTL,     \* ROLE_CHANGE_EXPIRES_MS in ticks
          LastTick,       \* bound on the clock
          NoAdmin, NoRequest

ASSUME RoleConstants ==
  /\ Teams \subseteq Subjects
  /\ RequestTTL \in Nat /\ LastTick \in Nat
  /\ NoAdmin \notin Admins /\ NoRequest \notin RoleRequests

VARIABLES requests,   \* core.role_grant_pending, committed
          grants,     \* core.role_grants, committed
          decisions,  \* the approve or reject handler each admin has open
          tick,       \* the clock, in ticks
          lastApplied \* history: the last request applied to each subject

roleVars == <<requests, grants, decisions, tick, lastApplied>>

Grant == [subject : Subjects, role : RoleNames]
Unsent == [state |-> "unsent"]
Sent == [state : {"pending", "applied", "rejected"}, subject : Subjects,
         role : RoleNames, action : {"grant", "revoke"}, requestedBy : Admins,
         expiresAt : Nat, approvedBy : Admins \cup {NoAdmin}]

\* A handler is before its transaction ("update"), or it has updated the
\* pending row and not yet committed ("delete", "commit").
Decision == [at : {"update", "delete", "commit"}, kind : {"approve", "reject"},
             request : RoleRequests, deleted : SUBSET Grant]
NoDecision == [at |-> "idle", request |-> NoRequest]

RolesTypeOK ==
  /\ requests \in [RoleRequests -> Sent \cup {Unsent}]
  /\ grants \subseteq Grant
  /\ decisions \in [Admins -> Decision \cup {NoDecision}]
  /\ tick \in 0..LastTick
  /\ lastApplied \in [Subjects -> RoleRequests \cup {NoRequest}]

RolesInit ==
  /\ requests = [r \in RoleRequests |-> Unsent]
  /\ grants = {}
  /\ decisions = [a \in Admins |-> NoDecision]
  /\ tick = 0
  /\ lastApplied = [s \in Subjects |-> NoRequest]

\* An open transaction has updated the row and holds its lock.
RowLocked(r) ==
  \E a \in Admins : decisions[a].request = r /\ decisions[a].at \in {"delete", "commit"}

GrantsOf(s) == {g \in grants : g.subject = s}
InFlight(s) == {r \in RoleRequests : requests[r].state = "pending" /\ requests[r].subject = s}

\* Fault: no unique index on the pending rows.
IndexAbsent(s) == s \in Subjects

\* The partial unique index: the INSERT waits for a transaction that has
\* changed the pending row of its subject, and fails if it stays pending.
IndexAdmits(s) == InFlight(s) = {}

Expired(r) == requests[r].expiresAt <= tick

(***************************************************************************)
(* Requests.                                                               *)
(***************************************************************************)
RequestRoleChange(a, r, s, role, action) ==
  /\ requests[r] = Unsent
  /\ IndexAdmits(s)
  /\ requests' = [requests EXCEPT ![r] =
       [state |-> "pending", subject |-> s, role |-> role, action |-> action,
        requestedBy |-> a, expiresAt |-> tick + RequestTTL, approvedBy |-> NoAdmin]]
  /\ UNCHANGED <<grants, decisions, tick, lastApplied>>

(***************************************************************************)
(* Decisions.  The handler reads the row and checks it; the transaction    *)
(* follows later, on whatever the row has become.                          *)
(***************************************************************************)
MayDecide(a, r, kind) ==
  /\ requests[r].state = "pending"
  /\ ~Expired(r)
  /\ kind = "approve" => requests[r].requestedBy # a

OpenDecision(a, r, kind) ==
  /\ decisions[a] = NoDecision
  /\ requests[r] # Unsent
  /\ MayDecide(a, r, kind)
  /\ decisions' = [decisions EXCEPT ![a] =
       [at |-> "update", kind |-> kind, request |-> r, deleted |-> {}]]
  /\ UNCHANGED <<requests, grants, tick, lastApplied>>

Close(a) == decisions' = [decisions EXCEPT ![a] = NoDecision]

\* Fault: UPDATE ... WHERE pending_id = ?, without the state.
PendingOnceRead(r) == requests[r] # Unsent

\* The compare-and-swap of both decisions: UPDATE ... AND state = 'pending'.
StillPending(r) == requests[r].state = "pending"

LosesRace(a) ==
  /\ decisions[a].at = "update"
  /\ ~RowLocked(decisions[a].request)
  /\ ~StillPending(decisions[a].request)
  /\ Close(a)
  /\ UNCHANGED <<requests, grants, tick, lastApplied>>

RejectChange(a) ==
  LET r == decisions[a].request IN
  /\ decisions[a].at = "update" /\ decisions[a].kind = "reject"
  /\ ~RowLocked(r)
  /\ StillPending(r)
  /\ requests' = [requests EXCEPT ![r].state = "rejected", ![r].approvedBy = a]
  /\ Close(a)
  /\ UNCHANGED <<grants, tick, lastApplied>>

ApplyUpdate(a) ==
  LET r == decisions[a].request IN
  /\ decisions[a].at = "update" /\ decisions[a].kind = "approve"
  /\ ~RowLocked(r)
  /\ StillPending(r)
  /\ decisions' = [decisions EXCEPT ![a].at = "delete"]
  /\ UNCHANGED <<requests, grants, tick, lastApplied>>

\* The DELETE sees the grants committed by now, and waits for those another
\* transaction is deleting.  Requests for teams write no grant.
ApplyDelete(a) ==
  LET r == decisions[a].request
      s == requests[r].subject
      mine == IF s \in Teams THEN {} ELSE GrantsOf(s)
  IN
  /\ decisions[a].at = "delete"
  /\ \A b \in Admins \ {a} : decisions[b].at = "commit" => decisions[b].deleted \cap mine = {}
  /\ decisions' = [decisions EXCEPT ![a] =
       [at |-> "commit", kind |-> "approve", request |-> r, deleted |-> mine]]
  /\ UNCHANGED <<requests, grants, tick, lastApplied>>

Granted(q) ==
  IF q.action = "grant" /\ q.subject \notin Teams
    THEN {[subject |-> q.subject, role |-> q.role]} ELSE {}

\* INSERT and COMMIT; a role the subject got meanwhile violates the unique
\* index of core.role_grants and rolls the transaction back.
ApplyCommit(a) ==
  LET r == decisions[a].request
      q == requests[r]
      kept == grants \ decisions[a].deleted
  IN
  /\ decisions[a].at = "commit"
  /\ IF Granted(q) \cap kept = {}
       THEN /\ requests' = [requests EXCEPT ![r].state = "applied", ![r].approvedBy = a]
            /\ grants' = kept \cup Granted(q)
            /\ lastApplied' = [lastApplied EXCEPT ![q.subject] = r]
       ELSE UNCHANGED <<requests, grants, lastApplied>>
  /\ Close(a)
  /\ UNCHANGED tick

\* The pod dies, or the connection is lost before the COMMIT.
DecisionDies(a) ==
  /\ decisions[a] # NoDecision
  /\ Close(a)
  /\ UNCHANGED <<requests, grants, tick, lastApplied>>

Pass ==
  /\ tick < LastTick
  /\ tick' = tick + 1
  /\ UNCHANGED <<requests, grants, decisions, lastApplied>>

RolesNext ==
  \/ \E a \in Admins, r \in RoleRequests, s \in Subjects, role \in RoleNames,
        action \in {"grant", "revoke"} : RequestRoleChange(a, r, s, role, action)
  \/ \E a \in Admins, r \in RoleRequests, kind \in {"approve", "reject"} :
        OpenDecision(a, r, kind)
  \/ \E a \in Admins :
        \/ LosesRace(a) \/ RejectChange(a)
        \/ ApplyUpdate(a) \/ ApplyDelete(a) \/ ApplyCommit(a)
        \/ DecisionDies(a)
  \/ Pass

RolesSpec == RolesInit /\ [][RolesNext]_roleVars

(***************************************************************************)
(* Properties.                                                             *)
(***************************************************************************)

\* A subject holds exactly what the last change applied to it says: one role
\* after a grant, none after a revoke, nothing left of an earlier change.  The
\* DELETE and the INSERT of applyChange do not lock the subject; the one change
\* in flight per subject is what keeps two of them apart.
RoleIsLastApplied ==
  \A s \in Subjects :
    GrantsOf(s) = IF lastApplied[s] = NoRequest THEN {} ELSE Granted(requests[lastApplied[s]])

\* A request is decided once: after it was applied or rejected, no handler that
\* read it while it was pending changes it, whoever wins the race.
DecisionIsFinal ==
  [][\A r \in RoleRequests :
       requests[r].state \in {"applied", "rejected"} => requests'[r] = requests[r]]_roleVars

\* What the error of an expired request promises: "resubmit the request" is
\* possible.  Nothing takes an expired row out of state 'pending', and the
\* unique index refuses the next request for its subject.
ExpiredCanBeResubmitted ==
  \A r \in RoleRequests :
    requests[r].state = "pending" /\ Expired(r) => IndexAdmits(requests[r].subject)

=============================================================================
