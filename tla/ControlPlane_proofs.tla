------------------------ MODULE ControlPlane_proofs ------------------------
(***************************************************************************)
(* Theorems about the protocols around the reviews: FlagFlips, RoleChanges,*)
(* EmbedderGenerations, Installations, LlmCredentials, GitHubClient,       *)
(* ConfluenceCorpus and WorkspaceLease.                                    *)
(***************************************************************************)
EXTENDS FlagFlips, RoleChanges, EmbedderGenerations, Installations, LlmCredentials,
        GitHubClient, ConfluenceCorpus, WorkspaceLease, TLAPS, FiniteSetTheorems

-----------------------------------------------------------------------------
(* FlagFlips *)

\* Staging and committing keep the rows and the open PUTs in their types.
LEMMA FlagsTypeStep == FlagsTypeOK /\ [FlagsNext]_flagVars => FlagsTypeOK'
<1> SUFFICES ASSUME FlagsTypeOK, [FlagsNext]_flagVars PROVE FlagsTypeOK'
    OBVIOUS
<1> USE FlagConstants DEF FlagsTypeOK, Staged, Put, NoPut, Nothing
<1>1. ASSUME NEW o \in Owners, NEW v \in FlagValues, NEW token \in 0..live.version,
             OpenPut(o, v, token)
      PROVE  FlagsTypeOK'
  BY <1>1 DEF OpenPut
<1>2. ASSUME NEW o \in Owners, StageFirst(o) PROVE FlagsTypeOK'
  BY <1>2 DEF StageFirst, Answer
<1>3. ASSUME NEW o \in Owners, CommitSecond(o) PROVE FlagsTypeOK'
  BY <1>3 DEF CommitSecond, Answer
<1>4. CASE UNCHANGED flagVars
  BY <1>4 DEF flagVars
<1> QED BY <1>1, <1>2, <1>3, <1>4 DEF FlagsNext

\* The rows of core.flags and the open PUTs keep their types (FlagFlips).
THEOREM FlagsTypeCorrect == FlagsSpec => []FlagsTypeOK
<1>1. FlagsInit => FlagsTypeOK
  BY FlagConstants DEF FlagsInit, FlagsTypeOK, NoPut
<1> QED BY <1>1, FlagsTypeStep, PTL DEF FlagsSpec

\* A staged value was asked for against the live value, for any number of owners,
\* values and flips: the compare-and-swap of the first approval suffices although
\* the SELECT and the UPDATE of a PUT are apart (putFlag).
THEOREM StagedOnLiveValueHolds == FlagsSpec => []StagedOnLiveValue
<1>1. FlagsInit => StagedOnLiveValue
  BY DEF FlagsInit, StagedOnLiveValue
<1>2. StagedOnLiveValue /\ [FlagsNext]_flagVars => StagedOnLiveValue'
  <2> SUFFICES ASSUME StagedOnLiveValue, [FlagsNext]_flagVars PROVE StagedOnLiveValue'
      OBVIOUS
  <2>1. ASSUME NEW o \in Owners, StageFirst(o) PROVE StagedOnLiveValue'
    BY <2>1 DEF StageFirst, MatchesLive, StagedOnLiveValue
  <2>2. ASSUME NEW o \in Owners, CommitSecond(o) PROVE StagedOnLiveValue'
    BY <2>2 DEF CommitSecond, StagedOnLiveValue
  <2>3. CASE UNCHANGED <<live, staged>>
    BY <2>3 DEF StagedOnLiveValue
  <2> QED BY <2>1, <2>2, <2>3 DEF FlagsNext, OpenPut, flagVars
<1> QED BY <1>1, <1>2, PTL DEF FlagsSpec

-----------------------------------------------------------------------------
(* RoleChanges *)

InTransaction(a) == decisions[a].at \in {"delete", "commit"}

\* A handler in its transaction works on a pending request, and is alone with it.
RowLocks ==
  /\ \A a \in Admins : InTransaction(a) => requests[decisions[a].request].state = "pending"
  /\ \A a, b \in Admins :
       InTransaction(a) /\ InTransaction(b) /\ decisions[a].request = decisions[b].request => a = b

\* The unique index: one pending request per subject.
OnePending ==
  \A q, r \in RoleRequests :
    /\ requests[q].state = "pending" /\ requests[r].state = "pending"
    /\ requests[q].subject = requests[r].subject
    => q = r

\* The handler before its COMMIT has deleted what its subject holds.
DeletedAll ==
  \A a \in Admins : decisions[a].at = "commit" =>
    LET s == requests[decisions[a].request].subject
    IN decisions[a].deleted = IF s \in Teams THEN {} ELSE GrantsOf(s)

\* The last change applied to a subject is an applied request about it.
AppliedIsRecorded ==
  \A s \in Subjects : lastApplied[s] # NoRequest =>
    requests[lastApplied[s]].state = "applied" /\ requests[lastApplied[s]].subject = s

RolesInv ==
  RolesTypeOK /\ RowLocks /\ OnePending /\ DeletedAll /\ AppliedIsRecorded /\ RoleIsLastApplied

\* A column of a request keeps its type whatever the request is.
LEMMA RequestTypes ==
  ASSUME RolesTypeOK, NEW r \in RoleRequests
  PROVE  /\ requests[r] \in Sent \cup {Unsent}
         /\ requests[r].state # "unsent" => requests[r] \in Sent
         /\ requests[r] = Unsent => requests[r].state = "unsent"
BY DEF RolesTypeOK, Unsent, Sent

\* An open handler is about a request.
LEMMA DecisionTypes ==
  ASSUME RolesTypeOK, NEW a \in Admins
  PROVE  /\ decisions[a] \in Decision \cup {NoDecision}
         /\ decisions[a].at # "idle" => decisions[a] \in Decision
         /\ InTransaction(a) => decisions[a].request \in RoleRequests
BY DEF RolesTypeOK, Decision, NoDecision, InTransaction

\* At the start no handler is open, nothing is requested and nothing granted.
LEMMA RolesInitInv == RolesInit => RolesInv
<1> SUFFICES ASSUME RolesInit PROVE RolesInv
    OBVIOUS
<1> USE RoleConstants DEF RolesInit, NoDecision, Unsent
<1>1. RolesTypeOK
  BY DEF RolesTypeOK
<1>2. RowLocks /\ OnePending /\ DeletedAll
  BY DEF RowLocks, OnePending, DeletedAll, InTransaction
<1>3. AppliedIsRecorded /\ RoleIsLastApplied
  BY DEF AppliedIsRecorded, RoleIsLastApplied, GrantsOf
<1> QED BY <1>1, <1>2, <1>3 DEF RolesInv

\* A new request is the only pending one of its subject.
LEMMA RequestStep ==
  ASSUME RolesInv, NEW a \in Admins, NEW r \in RoleRequests, NEW s \in Subjects,
         NEW role \in RoleNames, NEW action \in {"grant", "revoke"},
         RequestRoleChange(a, r, s, role, action)
  PROVE  RolesInv'
<1> DEFINE new == [state |-> "pending", subject |-> s, role |-> role, action |-> action,
                   requestedBy |-> a, expiresAt |-> tick + RequestTTL, approvedBy |-> NoAdmin]
<1>0. RolesTypeOK /\ RowLocks /\ OnePending /\ DeletedAll /\ AppliedIsRecorded /\ RoleIsLastApplied
  BY DEF RolesInv
<1>1. /\ requests' = [requests EXCEPT ![r] = new]
      /\ requests[r].state = "unsent"
      /\ IndexAdmits(s)
      /\ UNCHANGED <<grants, decisions, tick, lastApplied>>
  BY <1>0, RequestTypes DEF RequestRoleChange
<1>2. new \in Sent
  BY <1>0, RoleConstants DEF Sent, RolesTypeOK
<1>3. \A q \in RoleRequests : requests'[q] = IF q = r THEN new ELSE requests[q]
  BY <1>0, <1>1 DEF RolesTypeOK
<1> HIDE DEF new
<1>4. new.state = "pending" /\ new.subject = s
  BY DEF new
<1>5. RolesTypeOK'
  BY <1>0, <1>1, <1>2 DEF RolesTypeOK
<1>6. RowLocks'
  <2>1. \A b \in Admins : InTransaction(b) <=> InTransaction(b)'
    BY <1>1 DEF InTransaction
  <2>2. \A b \in Admins : InTransaction(b) => decisions[b].request \in RoleRequests \ {r}
    BY <1>0, <1>1, DecisionTypes DEF RowLocks
  <2> QED BY <1>0, <1>1, <1>3, <2>1, <2>2 DEF RowLocks
<1>7. OnePending'
  BY <1>0, <1>1, <1>3, <1>4 DEF OnePending, IndexAdmits, InFlight
<1>8. DeletedAll'
  <2>1. \A b \in Admins : decisions[b].at = "commit" => decisions[b].request \in RoleRequests \ {r}
    BY <1>0, <1>1, DecisionTypes DEF RowLocks, InTransaction
  <2> QED BY <1>0, <1>1, <1>3, <2>1 DEF DeletedAll, GrantsOf
<1>9. \A t \in Subjects : lastApplied[t] # NoRequest => lastApplied[t] \in RoleRequests \ {r}
  BY <1>0, <1>1 DEF AppliedIsRecorded, RolesTypeOK
<1>10. AppliedIsRecorded'
  BY <1>0, <1>1, <1>3, <1>9 DEF AppliedIsRecorded
<1>11. RoleIsLastApplied'
  BY <1>0, <1>1, <1>3, <1>9 DEF RoleIsLastApplied, GrantsOf
<1> QED BY <1>5, <1>6, <1>7, <1>8, <1>10, <1>11 DEF RolesInv

\* A step that changes no request and no grant, and lets a handler only go, enter its
\* transaction alone, or delete what its subject holds.
LEMMA HandlerStep ==
  ASSUME RolesInv, RolesTypeOK', NEW a \in Admins,
         UNCHANGED <<requests, grants, lastApplied>>,
         \A b \in Admins \ {a} : decisions'[b] = decisions[b],
         InTransaction(a)' =>
           /\ requests[decisions'[a].request].state = "pending"
           /\ \A b \in Admins \ {a} : InTransaction(b) => decisions[b].request # decisions'[a].request,
         decisions'[a].at = "commit" =>
           LET s == requests[decisions'[a].request].subject
           IN decisions'[a].deleted = IF s \in Teams THEN {} ELSE GrantsOf(s)
  PROVE  RolesInv'
<1>0. RolesTypeOK /\ RowLocks /\ OnePending /\ DeletedAll /\ AppliedIsRecorded /\ RoleIsLastApplied
  BY DEF RolesInv
<1>1. \A b \in Admins \ {a} : InTransaction(b)' <=> InTransaction(b)
  BY DEF InTransaction
<1>2. RowLocks'
  BY <1>0, <1>1 DEF RowLocks
<1>3. OnePending' /\ AppliedIsRecorded'
  BY <1>0 DEF OnePending, AppliedIsRecorded
<1>4. DeletedAll'
  <2>1. \A t : GrantsOf(t)' = GrantsOf(t)
    BY DEF GrantsOf
  <2> SUFFICES ASSUME NEW b \in Admins, decisions'[b].at = "commit"
               PROVE  LET s == requests[decisions'[b].request].subject
                      IN decisions'[b].deleted = IF s \in Teams THEN {} ELSE GrantsOf(s)
      BY <2>1 DEF DeletedAll
  <2>2. CASE b = a
    BY <2>2
  <2>3. CASE b # a
    BY <1>0, <2>3 DEF DeletedAll
  <2> QED BY <2>2, <2>3
<1>5. RoleIsLastApplied'
  BY <1>0 DEF RoleIsLastApplied, GrantsOf
<1> QED BY <1>2, <1>3, <1>4, <1>5 DEF RolesInv

\* Opening a handler, losing the race, the two statements before the COMMIT, and the
\* death of a handler are such steps.
LEMMA HandlerSteps ==
  ASSUME RolesInv, NEW a \in Admins,
         \/ \E r \in RoleRequests, kind \in {"approve", "reject"} : OpenDecision(a, r, kind)
         \/ LosesRace(a) \/ ApplyUpdate(a) \/ ApplyDelete(a) \/ DecisionDies(a)
  PROVE  RolesInv'
<1>0. RolesTypeOK /\ RowLocks /\ DeletedAll
  BY DEF RolesInv
<1>1. ASSUME NEW r \in RoleRequests, NEW kind \in {"approve", "reject"}, OpenDecision(a, r, kind)
      PROVE  RolesInv'
  <2>1. /\ RolesTypeOK' /\ UNCHANGED <<requests, grants, lastApplied>>
        /\ \A b \in Admins \ {a} : decisions'[b] = decisions[b]
        /\ decisions'[a].at = "update"
    BY <1>0, <1>1 DEF OpenDecision, RolesTypeOK, Decision
  <2> QED BY <2>1, HandlerStep DEF InTransaction
<1>2. CASE LosesRace(a) \/ DecisionDies(a)
  <2>1. /\ RolesTypeOK' /\ UNCHANGED <<requests, grants, lastApplied>>
        /\ \A b \in Admins \ {a} : decisions'[b] = decisions[b]
        /\ decisions'[a].at = "idle"
    BY <1>0, <1>2 DEF LosesRace, DecisionDies, Close, RolesTypeOK, NoDecision
  <2> QED BY <2>1, HandlerStep DEF InTransaction
<1>3. CASE ApplyUpdate(a)
  <2>1. decisions[a] \in Decision
    BY <1>0, <1>3, DecisionTypes DEF ApplyUpdate
  <2>2. /\ RolesTypeOK' /\ UNCHANGED <<requests, grants, lastApplied>>
        /\ \A b \in Admins \ {a} : decisions'[b] = decisions[b]
        /\ decisions'[a].at = "delete" /\ decisions'[a].request = decisions[a].request
    BY <1>0, <1>3, <2>1 DEF ApplyUpdate, RolesTypeOK, Decision
  <2>3. /\ requests[decisions[a].request].state = "pending"
        /\ \A b \in Admins : InTransaction(b) => decisions[b].request # decisions[a].request
    BY <1>3 DEF ApplyUpdate, StillPending, RowLocked, InTransaction
  <2> QED BY <2>2, <2>3, HandlerStep
<1>4. CASE ApplyDelete(a)
  <2>1. decisions[a] \in Decision
    BY <1>0, <1>4, DecisionTypes DEF ApplyDelete
  <2> DEFINE s == requests[decisions[a].request].subject
             mine == IF s \in Teams THEN {} ELSE GrantsOf(s)
  <2>2. mine \in SUBSET Grant
    BY <1>0 DEF RolesTypeOK, GrantsOf
  <2> DEFINE next == [at |-> "commit", kind |-> "approve",
                      request |-> decisions[a].request, deleted |-> mine]
  <2>3. /\ next \in Decision
        /\ next.at = "commit" /\ next.request = decisions[a].request /\ next.deleted = mine
    BY <2>1, <2>2 DEF Decision
  <2>4. /\ RolesTypeOK' /\ UNCHANGED <<requests, grants, lastApplied>>
        /\ \A b \in Admins \ {a} : decisions'[b] = decisions[b]
        /\ decisions'[a] = next
    <3>1. decisions' = [decisions EXCEPT ![a] = next] /\ UNCHANGED <<requests, grants, tick, lastApplied>>
      BY <1>4 DEF ApplyDelete
    <3> HIDE DEF next, mine
    <3> QED BY <1>0, <2>3, <3>1 DEF RolesTypeOK
  <2>5. InTransaction(a)
    BY <1>4 DEF ApplyDelete, InTransaction
  <2>6. /\ requests[decisions[a].request].state = "pending"
        /\ \A b \in Admins \ {a} : InTransaction(b) => decisions[b].request # decisions[a].request
    BY <1>0, <2>5 DEF RowLocks
  <2> HIDE DEF next
  <2> QED BY <2>3, <2>4, <2>6, HandlerStep
<1> QED BY <1>1, <1>2, <1>3, <1>4

\* A rejection takes the request out of the pending ones; nobody is in a transaction on it.
LEMMA RejectStep == ASSUME RolesInv, NEW a \in Admins, RejectChange(a) PROVE RolesInv'
<1> DEFINE r == decisions[a].request
<1>0. RolesTypeOK /\ RowLocks /\ OnePending /\ DeletedAll /\ AppliedIsRecorded /\ RoleIsLastApplied
  BY DEF RolesInv
<1>1. decisions[a] \in Decision /\ r \in RoleRequests
  BY <1>0, DecisionTypes DEF RejectChange, Decision
<1>2. requests[r] \in Sent /\ requests[r].state = "pending"
  BY <1>0, <1>1, RequestTypes DEF RejectChange, StillPending
<1> DEFINE new == [requests[r] EXCEPT !.state = "rejected", !.approvedBy = a]
<1>3. new \in Sent /\ new.state = "rejected" /\ new.subject = requests[r].subject
  BY <1>2 DEF Sent
<1>4. requests' = [requests EXCEPT ![r] = new]
  BY <1>0, <1>1 DEF RejectChange, RolesTypeOK
<1>5. /\ decisions' = [decisions EXCEPT ![a] = NoDecision]
      /\ UNCHANGED <<grants, tick, lastApplied>>
      /\ \A b \in Admins : InTransaction(b) => decisions[b].request # r
  BY DEF RejectChange, Close, RowLocked, InTransaction
<1> HIDE DEF new
<1>6. \A q \in RoleRequests : requests'[q] = IF q = r THEN new ELSE requests[q]
  BY <1>0, <1>4 DEF RolesTypeOK
<1>7. \A b \in Admins : decisions'[b] = IF b = a THEN NoDecision ELSE decisions[b]
  BY <1>0, <1>5 DEF RolesTypeOK
<1>8. RolesTypeOK'
  BY <1>0, <1>3, <1>4, <1>5 DEF RolesTypeOK
<1>9. \A b \in Admins : InTransaction(b)' =>
        b # a /\ InTransaction(b) /\ decisions[b].request \in RoleRequests \ {r}
  BY <1>0, <1>5, <1>7, DecisionTypes DEF InTransaction, NoDecision
<1>10. RowLocks'
  BY <1>0, <1>6, <1>7, <1>9 DEF RowLocks
<1>11. OnePending'
  BY <1>0, <1>3, <1>6 DEF OnePending
<1>12. DeletedAll'
  <2>1. \A b \in Admins : decisions'[b].at = "commit" =>
          b # a /\ decisions[b].at = "commit" /\ decisions[b].request \in RoleRequests \ {r}
    BY <1>7, <1>9 DEF InTransaction
  <2> QED BY <1>0, <1>5, <1>6, <1>7, <2>1 DEF DeletedAll, GrantsOf
<1>13. \A t \in Subjects : lastApplied[t] # NoRequest => lastApplied[t] \in RoleRequests \ {r}
  BY <1>0, <1>2 DEF AppliedIsRecorded, RolesTypeOK
<1>14. AppliedIsRecorded'
  BY <1>0, <1>5, <1>6, <1>13 DEF AppliedIsRecorded
<1>15. RoleIsLastApplied'
  BY <1>0, <1>5, <1>6, <1>13 DEF RoleIsLastApplied, GrantsOf
<1> QED BY <1>8, <1>10, <1>11, <1>12, <1>14, <1>15 DEF RolesInv

\* What COMMIT leaves: the subject has what the request says, other subjects keep theirs.
LEMMA CommitGrants ==
  ASSUME RolesInv, NEW a \in Admins, decisions[a].at = "commit",
         NEW q, q = requests[decisions[a].request],
         Granted(q) \cap (grants \ decisions[a].deleted) = {}
  PROVE  LET after == (grants \ decisions[a].deleted) \cup Granted(q) IN
         /\ q \in Sent /\ decisions[a].request \in RoleRequests
         /\ after \subseteq Grant
         /\ \A t \in Subjects : {g \in after : g.subject = t} =
              IF t = q.subject THEN Granted(q) ELSE GrantsOf(t)
<1> DEFINE s == q.subject
<1>0. RolesTypeOK /\ RowLocks /\ DeletedAll /\ RoleIsLastApplied /\ AppliedIsRecorded
  BY DEF RolesInv
<1>1. InTransaction(a) /\ decisions[a].request \in RoleRequests
  BY <1>0, DecisionTypes DEF InTransaction
<1>2. q \in Sent /\ s \in Subjects
  BY <1>0, <1>1, RequestTypes DEF RowLocks, Sent
<1>3. Granted(q) \subseteq Grant /\ \A g \in Granted(q) : g.subject = s
  BY <1>2 DEF Granted, Sent, Grant
<1>4. s \in Teams => GrantsOf(s) = {}
  <2> SUFFICES ASSUME s \in Teams, lastApplied[s] # NoRequest
               PROVE  Granted(requests[lastApplied[s]]) = {}
      BY <1>0, <1>2 DEF RoleIsLastApplied
  <2> QED BY <1>0, <1>2 DEF AppliedIsRecorded, Granted
<1>5. decisions[a].deleted = GrantsOf(s)
  BY <1>0, <1>4 DEF DeletedAll
<1> QED BY <1>0, <1>1, <1>2, <1>3, <1>5 DEF GrantsOf, RolesTypeOK

\* The COMMIT of an approval: its request is decided and no longer pending, its subject
\* has what the request says, and nobody else was in a transaction on the subject.
LEMMA CommitStep == ASSUME RolesInv, NEW a \in Admins, ApplyCommit(a) PROVE RolesInv'
<1> DEFINE r == decisions[a].request
           q == requests[r]
           kept == grants \ decisions[a].deleted
<1>0. RolesTypeOK /\ RowLocks /\ OnePending /\ DeletedAll /\ AppliedIsRecorded /\ RoleIsLastApplied
  BY DEF RolesInv
<1>1. decisions[a].at = "commit" /\ InTransaction(a) /\ r \in RoleRequests
  BY <1>0, DecisionTypes DEF ApplyCommit, InTransaction
<1>2. CASE Granted(q) \cap kept # {}
  <2>1. decisions' = [decisions EXCEPT ![a] = NoDecision] /\ UNCHANGED <<requests, grants, tick, lastApplied>>
    BY <1>2 DEF ApplyCommit, Close
  <2>2. /\ RolesTypeOK' /\ decisions'[a].at = "idle"
        /\ \A b \in Admins \ {a} : decisions'[b] = decisions[b]
    BY <1>0, <2>1 DEF RolesTypeOK, NoDecision
  <2> QED BY <2>1, <2>2, HandlerStep DEF InTransaction
<1>3. CASE Granted(q) \cap kept = {}
  <2> DEFINE new == [q EXCEPT !.state = "applied", !.approvedBy = a]
  <2>1. /\ q \in Sent
        /\ kept \cup Granted(q) \subseteq Grant
        /\ \A t \in Subjects : {g \in kept \cup Granted(q) : g.subject = t} =
             IF t = q.subject THEN Granted(q) ELSE GrantsOf(t)
    BY <1>1, <1>3, CommitGrants
  <2>2. /\ requests' = [requests EXCEPT ![r] = new]
        /\ grants' = kept \cup Granted(q)
        /\ lastApplied' = [lastApplied EXCEPT ![q.subject] = r]
        /\ decisions' = [decisions EXCEPT ![a] = NoDecision]
        /\ tick' = tick
    BY <1>0, <1>1, <1>3 DEF ApplyCommit, Close, RolesTypeOK
  <2>3. new \in Sent /\ new.state = "applied" /\ new.subject = q.subject
    BY <2>1 DEF Sent
  <2>4. Granted(new) = Granted(q)
    BY <2>1 DEF Granted, Sent
  <2>5. q.subject \in Subjects /\ q.state = "pending"
    BY <1>0, <1>1, <2>1 DEF Sent, RowLocks
  <2> HIDE DEF new
  <2>6. \A p \in RoleRequests : requests'[p] = IF p = r THEN new ELSE requests[p]
    BY <1>0, <2>2 DEF RolesTypeOK
  <2>7. \A b \in Admins : decisions'[b] = IF b = a THEN NoDecision ELSE decisions[b]
    BY <1>0, <2>2 DEF RolesTypeOK
  <2>8. \A t \in Subjects : lastApplied'[t] = IF t = q.subject THEN r ELSE lastApplied[t]
    BY <1>0, <2>2 DEF RolesTypeOK
  <2>9. RolesTypeOK'
    BY <1>0, <1>1, <2>1, <2>2, <2>3, <2>5 DEF RolesTypeOK
  <2>10. \A b \in Admins : InTransaction(b)' =>
           /\ b # a /\ InTransaction(b)
           /\ decisions[b].request \in RoleRequests \ {r}
           /\ requests[decisions[b].request].subject # q.subject
    BY <1>0, <1>1, <2>7, DecisionTypes DEF InTransaction, NoDecision, RowLocks, OnePending
  <2>11. RowLocks'
    BY <1>0, <2>6, <2>7, <2>10 DEF RowLocks
  <2>12. OnePending'
    BY <1>0, <2>3, <2>6 DEF OnePending
  <2>13. \A t \in Subjects : GrantsOf(t)' = IF t = q.subject THEN Granted(q) ELSE GrantsOf(t)
    BY <2>1, <2>2 DEF GrantsOf
  <2>14. DeletedAll'
    <3> SUFFICES ASSUME NEW b \in Admins, decisions'[b].at = "commit"
                 PROVE  LET s == requests'[decisions'[b].request].subject
                        IN decisions'[b].deleted =
                             IF s \in Teams THEN {} ELSE {g \in grants' : g.subject = s}
        BY DEF DeletedAll, GrantsOf
    <3>1. InTransaction(b)'
      BY DEF InTransaction
    <3>2. /\ decisions'[b] = decisions[b]
          /\ requests'[decisions'[b].request] = requests[decisions[b].request]
          /\ requests[decisions[b].request].subject # q.subject
      BY <2>6, <2>7, <2>10, <3>1
    <3>3. requests[decisions[b].request].subject \in Subjects
      BY <1>0, <2>10, <3>1, RequestTypes DEF RowLocks, Sent
    <3>4. GrantsOf(requests[decisions[b].request].subject) =
            {g \in grants' : g.subject = requests[decisions[b].request].subject}
      BY <2>13, <3>2, <3>3 DEF GrantsOf
    <3> QED BY <1>0, <3>2, <3>4 DEF DeletedAll
  <2>15. \A t \in Subjects : lastApplied[t] # NoRequest => lastApplied[t] \in RoleRequests \ {r}
    BY <1>0, <2>5 DEF AppliedIsRecorded, RolesTypeOK
  <2>16. AppliedIsRecorded'
    BY <1>0, <1>1, <2>3, <2>6, <2>8, <2>15 DEF AppliedIsRecorded
  <2>17. RoleIsLastApplied'
    <3> SUFFICES ASSUME NEW t \in Subjects
                 PROVE  GrantsOf(t)' = IF lastApplied'[t] = NoRequest THEN {}
                                       ELSE Granted(requests'[lastApplied'[t]])
        BY DEF RoleIsLastApplied, Granted
    <3>1. CASE t = q.subject
      BY <1>1, <2>4, <2>6, <2>8, <2>13, <3>1, RoleConstants
    <3>2. CASE t # q.subject
      BY <1>0, <2>6, <2>8, <2>13, <2>15, <3>2 DEF RoleIsLastApplied
    <3> QED BY <3>1, <3>2
  <2> QED BY <2>9, <2>11, <2>12, <2>14, <2>16, <2>17 DEF RolesInv
<1> QED BY <1>2, <1>3

\* RolesInv is inductive.
LEMMA RolesInvStep == RolesInv /\ [RolesNext]_roleVars => RolesInv'
<1> SUFFICES ASSUME RolesInv, [RolesNext]_roleVars PROVE RolesInv'
    OBVIOUS
<1>1. CASE UNCHANGED <<requests, grants, decisions, lastApplied>> /\ tick' \in 0..LastTick
  <2>1. RolesTypeOK'
    BY <1>1 DEF RolesInv, RolesTypeOK
  <2>2. RowLocks' /\ OnePending' /\ AppliedIsRecorded'
    BY <1>1 DEF RolesInv, RowLocks, OnePending, AppliedIsRecorded, InTransaction
  <2>3. DeletedAll' /\ RoleIsLastApplied'
    BY <1>1 DEF RolesInv, DeletedAll, RoleIsLastApplied, GrantsOf, Granted
  <2> QED BY <2>1, <2>2, <2>3 DEF RolesInv
<1>2. CASE Pass \/ UNCHANGED roleVars
  BY <1>1, <1>2, RoleConstants DEF Pass, roleVars, RolesInv, RolesTypeOK
<1> QED BY <1>2, RequestStep, HandlerSteps, RejectStep, CommitStep DEF RolesNext

\* A subject holds what the last change applied to it says, for any number of users,
\* subjects and requests: one change in flight per subject keeps the DELETE and the
\* INSERT of two applyChange transactions apart.
THEOREM RoleIsLastAppliedHolds == RolesSpec => []RoleIsLastApplied
<1>1. RolesInv => RoleIsLastApplied
  BY DEF RolesInv
<1> QED BY <1>1, RolesInitInv, RolesInvStep, PTL DEF RolesSpec

\* The rows of the role requests and grants keep their types (RoleChanges).
THEOREM RolesTypeCorrect == RolesSpec => []RolesTypeOK
<1>1. RolesInv => RolesTypeOK
  BY DEF RolesInv
<1> QED BY <1>1, RolesInitInv, RolesInvStep, PTL DEF RolesSpec

\* An applied or rejected request never changes again, whichever of the handlers that
\* read it as pending comes last: each one checks the state again in its UPDATE, and
\* the row is locked from there to the COMMIT.
THEOREM DecisionIsFinalHolds == RolesSpec => DecisionIsFinal
<1> DEFINE Final == \A r \in RoleRequests :
             requests[r].state \in {"applied", "rejected"} => requests'[r] = requests[r]
<1>1. RolesInv /\ [RolesNext]_roleVars => [Final]_roleVars
  <2> SUFFICES ASSUME RolesInv, RolesNext, NEW r \in RoleRequests,
                      requests[r].state \in {"applied", "rejected"}
               PROVE  requests'[r] = requests[r]
      OBVIOUS
  <2>0. RolesTypeOK /\ RowLocks
    BY DEF RolesInv
  <2>1. ASSUME NEW a \in Admins, NEW p \in RoleRequests, NEW s \in Subjects,
               NEW role \in RoleNames, NEW action \in {"grant", "revoke"},
               RequestRoleChange(a, p, s, role, action)
        PROVE  requests'[r] = requests[r]
    BY <2>0, <2>1, RequestTypes DEF RequestRoleChange, RolesTypeOK
  <2>2. ASSUME NEW a \in Admins, RejectChange(a) PROVE requests'[r] = requests[r]
    BY <2>0, <2>2 DEF RejectChange, StillPending, RolesTypeOK
  <2>3. ASSUME NEW a \in Admins, ApplyCommit(a) PROVE requests'[r] = requests[r]
    <3>1. requests[decisions[a].request].state = "pending"
      BY <2>0, <2>3 DEF ApplyCommit, RowLocks, InTransaction
    <3> QED BY <2>0, <2>3, <3>1 DEF ApplyCommit, RolesTypeOK
  <2> QED BY <2>1, <2>2, <2>3
          DEF RolesNext, OpenDecision, LosesRace, ApplyUpdate, ApplyDelete, DecisionDies, Pass
<1> QED BY <1>1, RolesInitInv, RolesInvStep, PTL DEF RolesSpec, DecisionIsFinal

-----------------------------------------------------------------------------
(* EmbedderGenerations *)

\* What the updates of a row keep and set.
LEMMA RowUpdates ==
  ASSUME NEW row \in Generation
  PROVE  /\ Promoted(row) \in Generation
         /\ Promoted(row).state = "active" /\ Promoted(row).activated /\ ~Promoted(row).retired
         /\ Demoted(row) \in Generation
         /\ Demoted(row).state = "ready" /\ ~Demoted(row).activated /\ Demoted(row).completed
         /\ Demoted(row).retired = row.retired
BY DEF Promoted, Demoted, Generation

\* Every write of the singleton leaves its columns in their types and bumps the version.
LEMMA RuntimeUpdates ==
  ASSUME NEW state \in Runtime, state.version < LastConfig
  PROVE  Bumped(state) \in Runtime /\ Bumped(state).version = state.version + 1
BY GenerationConstants DEF Bumped, Runtime

\* The seed is recorded, and so is the row an open call is about.
CallsAreRecorded ==
  /\ StateOf(1) # "missing"
  /\ \A o \in Operators : calls[o].at # "idle" => StateOf(calls[o].generation) # "missing"

\* What an activation has demoted and not committed is active, its own, and not its target.
DemotionsAreOwned ==
  \A o \in Operators : calls[o].at = "promote" =>
    /\ \A h \in calls[o].victims : StateOf(h) = "active"
    /\ \A p \in Operators \ {o} :
         calls[p].at = "promote" => calls[o].victims \cap calls[p].victims = {}

EmbedderInv == EmbedderTypeOK /\ CallsAreRecorded /\ DemotionsAreOwned /\ RowsPassTheirCheck

\* A row that passes its check.
Passes(row) ==
  CASE row.state = "backfilling" ->
         row.started /\ ~row.completed /\ ~row.activated /\ ~row.retired
    [] row.state = "ready" -> row.completed /\ ~row.activated /\ ~row.retired
    [] row.state = "active" -> row.activated /\ ~row.retired
    [] row.state = "retired" -> row.retired
    [] OTHER -> TRUE

\* The call of one operator goes on or ends; the rows stay.
LEMMA CallStep ==
  ASSUME EmbedderInv, NEW o \in Operators, NEW call \in Call \cup {NoCall},
         calls' = [calls EXCEPT ![o] = call], generations' = generations,
         runtime' \in Runtime, caches' = caches,
         call.at # "idle" => StateOf(call.generation) # "missing",
         call.at = "promote" =>
           /\ \A h \in call.victims : StateOf(h) = "active" /\ ~Demoting(h)
  PROVE  EmbedderInv'
<1>0. EmbedderTypeOK /\ CallsAreRecorded /\ DemotionsAreOwned /\ RowsPassTheirCheck
  BY DEF EmbedderInv
<1>1. \A p \in Operators : calls'[p] = IF p = o THEN call ELSE calls[p]
  BY <1>0 DEF EmbedderTypeOK
<1>2. EmbedderTypeOK'
  BY <1>0 DEF EmbedderTypeOK
<1>3. CallsAreRecorded'
  BY <1>0, <1>1 DEF CallsAreRecorded, StateOf
<1>4. DemotionsAreOwned'
  BY <1>0, <1>1 DEF DemotionsAreOwned, StateOf, Demoting
<1>5. RowsPassTheirCheck'
  BY <1>0 DEF RowsPassTheirCheck
<1> QED BY <1>2, <1>3, <1>4, <1>5 DEF EmbedderInv

\* The calls stay as they are, but for one that ends or goes on with g.
CallGoesOn(g) ==
  /\ calls' \in [Operators -> Call \cup {NoCall}]
  /\ \A o \in Operators : \/ calls'[o] = calls[o]
                          \/ calls'[o].at = "idle"
                          \/ calls'[o].at = "state" /\ calls'[o].generation = g

\* CallGoesOn from the update of one call, or of none.
LEMMA CallUpdate ==
  ASSUME EmbedderTypeOK, NEW g \in Generations, NEW o \in Operators, NEW call \in Call \cup {NoCall},
         call.at = "idle" \/ (call.at = "state" /\ call.generation = g),
         calls' = [calls EXCEPT ![o] = call]
  PROVE  CallGoesOn(g)
BY DEF CallGoesOn, EmbedderTypeOK

\* One row is written, not one that is being demoted, and a call goes on or ends.
LEMMA RowStep ==
  ASSUME EmbedderInv, NEW g \in Generations, NEW row \in Generation, Passes(row),
         generations' = [generations EXCEPT ![g] = row],
         StateOf(g) = "active" => row.state = "active",
         CallGoesOn(g), UNCHANGED <<runtime, caches>>
  PROVE  EmbedderInv'
<1>0. EmbedderTypeOK /\ CallsAreRecorded /\ DemotionsAreOwned /\ RowsPassTheirCheck
  BY DEF EmbedderInv
<1>1. /\ \A h \in Generations : generations'[h] = IF h = g THEN row ELSE generations[h]
      /\ \A p \in Operators : \/ calls'[p] = calls[p]
                              \/ calls'[p].at = "idle"
                              \/ calls'[p].at = "state" /\ calls'[p].generation = g
  BY <1>0 DEF EmbedderTypeOK, CallGoesOn
<1>2. EmbedderTypeOK'
  BY <1>0 DEF EmbedderTypeOK, CallGoesOn
<1>3. row.state # "missing"
  BY DEF Generation
<1>4. \A p \in Operators : calls[p].at # "idle" =>
        calls[p].generation \in Generations /\ calls[p].victims \subseteq Generations
  BY <1>0 DEF EmbedderTypeOK, Call, NoCall
<1>5. CallsAreRecorded'
  BY <1>0, <1>1, <1>3, <1>4, GenerationConstants DEF CallsAreRecorded, StateOf
<1>6. DemotionsAreOwned'
  BY <1>0, <1>1, <1>4 DEF DemotionsAreOwned, StateOf
<1>7. RowsPassTheirCheck'
  BY <1>0, <1>1 DEF RowsPassTheirCheck, Passes
<1> QED BY <1>2, <1>5, <1>6, <1>7 DEF EmbedderInv

\* Opening a call, ending it, and the steps that write no row.
LEMMA CallSteps ==
  ASSUME EmbedderInv, NEW o \in Operators,
         \/ StartGeneration(o) \/ SetPending(o) \/ ClearPending(o) \/ FindActive(o) \/ Demote(o)
         \/ PointActive(o) \/ CallDies(o)
         \/ \E g \in Generations :
              CancelPending(o, g) \/ ManualRetire(o, g) \/ Activate(o, g) \/ GcRequested(o, g)
  PROVE  EmbedderInv'
<1>0. EmbedderTypeOK /\ CallsAreRecorded /\ DemotionsAreOwned /\ RowsPassTheirCheck
  BY DEF EmbedderInv
<1>1. runtime \in Runtime /\ generations[1] \in Generation \cup {Missing}
  BY <1>0, GenerationConstants DEF EmbedderTypeOK
<1>2. calls[o].at # "idle" => calls[o] \in Call
  BY <1>0 DEF EmbedderTypeOK, NoCall
<1>3. ASSUME NEW kind \in {"start", "cancel", "retire", "activate", "gc"}, NEW g \in Generations,
             NEW at \in {"write", "find"}, StateOf(g) # "missing", Open(o, kind, g, at)
      PROVE  EmbedderInv'
  <2> DEFINE call == [kind |-> kind, at |-> at, generation |-> g, victims |-> {}]
  <2>1. call \in Call /\ call.at \in {"write", "find"} /\ call.generation = g
    BY <1>3 DEF Call
  <2>2. calls' = [calls EXCEPT ![o] = call] /\ UNCHANGED <<generations, runtime, caches>>
    BY <1>3 DEF Open
  <2> HIDE DEF call
  <2> QED BY <1>1, <1>3, <2>1, <2>2, CallStep
<1>4. ASSUME End(o), UNCHANGED <<generations, caches>>, runtime' \in Runtime PROVE EmbedderInv'
  <2>1. calls' = [calls EXCEPT ![o] = NoCall]
    BY <1>4 DEF End
  <2> QED BY <1>4, <2>1, CallStep DEF NoCall
<1>5. CASE StartGeneration(o)
  BY <1>0, <1>3, <1>5, GenerationConstants DEF StartGeneration, CallsAreRecorded
<1>6. CASE \E g \in Generations :
             CancelPending(o, g) \/ ManualRetire(o, g) \/ Activate(o, g) \/ GcRequested(o, g)
  BY <1>3, <1>6 DEF CancelPending, ManualRetire, Activate, GcRequested
<1>7. CASE CallDies(o)
  BY <1>1, <1>4, <1>7 DEF CallDies
<1>8. CASE SetPending(o) \/ ClearPending(o) \/ PointActive(o)
  <2> DEFINE g == calls[o].generation
             pending == [runtime EXCEPT !.pending = g]
             cleared == [runtime EXCEPT !.pending = NoGeneration]
             pointed == [runtime EXCEPT !.active = g, !.pending = NoGeneration]
  <2>1. g \in Generations /\ runtime.version < LastConfig
    BY <1>2, <1>8 DEF SetPending, ClearPending, PointActive, MayBump, Call
  <2>2. /\ pending \in Runtime /\ pending.version = runtime.version
        /\ cleared \in Runtime /\ cleared.version = runtime.version
        /\ pointed \in Runtime /\ pointed.version = runtime.version
    BY <1>1, <2>1 DEF Runtime
  <2>3. runtime' = Bumped(pending) \/ runtime' = Bumped(cleared) \/ runtime' = Bumped(pointed)
    BY <1>8 DEF SetPending, ClearPending, PointActive
  <2> HIDE DEF pending, cleared, pointed
  <2>4. runtime' \in Runtime
    BY <2>1, <2>2, <2>3, RuntimeUpdates
  <2> QED BY <1>4, <1>8, <2>4 DEF SetPending, ClearPending, PointActive
<1>9. CASE FindActive(o)
  <2> DEFINE found == {h \in Generations : StateOf(h) = "active" /\ h # calls[o].generation}
             call == [calls[o] EXCEPT !.at = "demote", !.victims = found]
  <2>1. calls' = [calls EXCEPT ![o] = call] /\ UNCHANGED <<generations, runtime, caches>>
    BY <1>0, <1>9 DEF FindActive, EmbedderTypeOK
  <2>2. calls[o] \in Call /\ calls[o].at = "find"
    BY <1>2, <1>9 DEF FindActive
  <2>3. call \in Call /\ call.at = "demote" /\ call.generation = calls[o].generation
    BY <2>2 DEF Call
  <2> HIDE DEF call
  <2> QED BY <1>0, <1>1, <2>1, <2>2, <2>3, CallStep DEF CallsAreRecorded
<1>10. CASE Demote(o)
  <2> DEFINE left == {h \in calls[o].victims : StateOf(h) = "active"}
             call == [calls[o] EXCEPT !.at = "promote", !.victims = left]
  <2>1. calls' = [calls EXCEPT ![o] = call] /\ UNCHANGED <<generations, runtime, caches>>
    BY <1>0, <1>10 DEF Demote, EmbedderTypeOK
  <2>2. calls[o] \in Call /\ calls[o].at = "demote" /\ \A h \in calls[o].victims : ~Demoting(h)
    BY <1>2, <1>10 DEF Demote
  <2>3. call \in Call /\ call.at = "promote" /\ call.generation = calls[o].generation
        /\ call.victims = left
    BY <2>2 DEF Call
  <2> HIDE DEF call
  <2> QED BY <1>0, <1>1, <2>1, <2>2, <2>3, CallStep DEF CallsAreRecorded
<1> QED BY <1>5, <1>6, <1>7, <1>8, <1>9, <1>10

\* The other updates of a row keep its type and its check.
LEMMA RowKept ==
  ASSUME NEW row \in Generation, Passes(row)
  PROVE  LET retired == [row EXCEPT !.state = "retired", !.retired = TRUE]
             collected == [row EXCEPT !.embeddings = FALSE, !.collected = TRUE]
             ended == [row EXCEPT !.state = "ready", !.completed = TRUE, !.embeddings = TRUE]
             failed == [row EXCEPT !.failed = TRUE]
         IN /\ retired \in Generation /\ Passes(retired)
            /\ collected \in Generation /\ Passes(collected) /\ collected.state = row.state
            /\ row.state = "backfilling" => ended \in Generation /\ Passes(ended)
            /\ failed \in Generation /\ Passes(failed) /\ failed.state = row.state
<1> DEFINE retired == [row EXCEPT !.state = "retired", !.retired = TRUE]
           collected == [row EXCEPT !.embeddings = FALSE, !.collected = TRUE]
           ended == [row EXCEPT !.state = "ready", !.completed = TRUE, !.embeddings = TRUE]
           failed == [row EXCEPT !.failed = TRUE]
           same(new) == /\ new.started = row.started /\ new.activated = row.activated
                        /\ new.retired = row.retired
<1>1. retired \in Generation /\ retired.state = "retired" /\ retired.retired
  BY DEF Generation
<1>2. /\ collected \in Generation /\ collected.state = row.state
      /\ same(collected) /\ collected.completed = row.completed
  BY DEF Generation
<1>3. ended \in Generation /\ ended.state = "ready" /\ same(ended) /\ ended.completed
  BY DEF Generation
<1>4. /\ failed \in Generation /\ failed.state = row.state
      /\ same(failed) /\ failed.completed = row.completed
  BY DEF Generation
<1> HIDE DEF retired, collected, ended, failed
<1>5. Passes(retired)
  BY <1>1 DEF Passes
<1>6. Passes(collected)
  BY <1>2 DEF Passes
<1>7. row.state = "backfilling" => Passes(ended)
  BY <1>3 DEF Passes
<1>8. Passes(failed)
  BY <1>4 DEF Passes
<1> QED BY <1>1, <1>2, <1>3, <1>4, <1>5, <1>6, <1>7, <1>8 DEF retired, collected, ended, failed

\* The insertion, the retirement, the collection, and the maintenance of a row.
LEMMA RowSteps ==
  ASSUME EmbedderInv,
         \/ \E o \in Operators : InsertNew(o) \/ TransitionToRetired(o) \/ CollectGarbage(o)
         \/ \E g \in Generations : BackfillEnds(g) \/ ValidationFails(g)
  PROVE  EmbedderInv'
<1>0. EmbedderTypeOK /\ CallsAreRecorded /\ DemotionsAreOwned /\ RowsPassTheirCheck
  BY DEF EmbedderInv
<1>1. \A o \in Operators : calls[o].at # "idle" =>
        /\ calls[o] \in Call /\ calls[o].generation \in Generations
        /\ generations[calls[o].generation] \in Generation
  BY <1>0 DEF EmbedderTypeOK, CallsAreRecorded, StateOf, Call, NoCall, Missing
<1>2. \A g \in Generations : StateOf(g) # "missing" =>
        generations[g] \in Generation /\ Passes(generations[g])
  BY <1>0 DEF EmbedderTypeOK, StateOf, Missing, RowsPassTheirCheck, Passes
<1>3. ASSUME NEW o \in Operators, InsertNew(o) PROVE EmbedderInv'
  <2>1. PICK g \in Generations :
          /\ StateOf(g) = "missing" /\ calls[o].at = "write"
          /\ generations' = [generations EXCEPT ![g] = Fresh]
          /\ calls' = [calls EXCEPT ![o].at = "state", ![o].generation = g]
          /\ UNCHANGED <<runtime, caches>>
    BY <1>3 DEF InsertNew
  <2> DEFINE call == [calls[o] EXCEPT !.at = "state", !.generation = g]
  <2>2. calls' = [calls EXCEPT ![o] = call]
    BY <1>0, <2>1 DEF EmbedderTypeOK
  <2>3. call \in Call /\ call.at = "state" /\ call.generation = g
    BY <1>1, <2>1 DEF Call
  <2>4. Fresh \in Generation /\ Passes(Fresh)
    BY DEF Fresh, Generation, Passes
  <2>5. StateOf(g) = "active" => Fresh.state = "active"
    BY <2>1
  <2>6. call \in Call \cup {NoCall} /\ UNCHANGED <<runtime, caches>>
    BY <2>1, <2>3
  <2> HIDE DEF call
  <2>7. CallGoesOn(g)
    BY <1>0, <2>2, <2>3, <2>6, CallUpdate
  <2> QED BY <2>1, <2>4, <2>5, <2>6, <2>7, RowStep
<1>4. ASSUME NEW o \in Operators, TransitionToRetired(o) PROVE EmbedderInv'
  <2> DEFINE g == calls[o].generation
             row == [generations[g] EXCEPT !.state = "retired", !.retired = TRUE]
             on == [calls[o] EXCEPT !.at = "state"]
  <2>1. calls[o].at = "write" /\ calls[o] \in Call /\ g \in Generations /\ UNCHANGED <<runtime, caches>>
    BY <1>1, <1>4 DEF TransitionToRetired
  <2>2. calls' = [calls EXCEPT ![o] = on] \/ calls' = [calls EXCEPT ![o] = NoCall]
    BY <1>0, <1>4 DEF TransitionToRetired, Step, End, EmbedderTypeOK
  <2>3. NoCall.at = "idle" /\ on \in Call /\ on.at = "state" /\ on.generation = g
    BY <2>1 DEF Call, NoCall
  <2> HIDE DEF on
  <2>4. CallGoesOn(g)
    <3>1. CASE calls' = [calls EXCEPT ![o] = on]
      BY <1>0, <2>1, <2>3, <3>1, CallUpdate
    <3>2. CASE calls' = [calls EXCEPT ![o] = NoCall]
      BY <1>0, <2>3, <3>2 DEF CallGoesOn, EmbedderTypeOK
    <3> QED BY <2>2, <3>1, <3>2
  <2>5. CASE generations' = generations
    <3>1. runtime' \in Runtime /\ StateOf(g) # "missing"
      BY <1>0, <2>1 DEF EmbedderTypeOK, CallsAreRecorded
    <3>2. on.at # "promote" /\ NoCall.at # "promote"
      BY <2>3
    <3> QED BY <2>1, <2>2, <2>3, <2>5, <3>1, <3>2, CallStep
  <2>6. CASE StateOf(g) \in {"backfilling", "ready"} /\ generations' # generations
    <3>1. generations' = [generations EXCEPT ![g] = row]
      BY <1>0, <1>4, <2>1, <2>6 DEF TransitionToRetired, EmbedderTypeOK
    <3>2. row \in Generation /\ Passes(row) /\ StateOf(g) # "active"
      BY <1>2, <2>1, <2>6, RowKept
    <3> HIDE DEF row
    <3> QED BY <2>1, <2>4, <3>1, <3>2, RowStep
  <2> QED BY <1>4, <2>5, <2>6 DEF TransitionToRetired
<1>5. ASSUME NEW o \in Operators, CollectGarbage(o) PROVE EmbedderInv'
  <2> DEFINE g == calls[o].generation
             row == [generations[g] EXCEPT !.embeddings = FALSE, !.collected = TRUE]
  <2>1. /\ g \in Generations /\ StateOf(g) # "missing"
        /\ calls' = [calls EXCEPT ![o] = NoCall] /\ UNCHANGED <<runtime, caches>>
    BY <1>0, <1>1, <1>5 DEF CollectGarbage, End, CallsAreRecorded
  <2>2. generations' = [generations EXCEPT ![g] = row]
    BY <1>0, <1>5, <2>1 DEF CollectGarbage, EmbedderTypeOK
  <2>3. row \in Generation /\ Passes(row) /\ row.state = StateOf(g)
    BY <1>2, <2>1, RowKept DEF StateOf
  <2> HIDE DEF row
  <2>4. StateOf(g) = "active" => row.state = "active"
    BY <2>3
  <2>5. NoCall.at = "idle" /\ NoCall \in Call \cup {NoCall}
    BY DEF NoCall
  <2>6. CallGoesOn(g)
    BY <1>0, <2>1, <2>5 DEF CallGoesOn, EmbedderTypeOK
  <2> QED BY <2>1, <2>2, <2>3, <2>4, <2>6, RowStep
<1>6. ASSUME NEW g \in Generations, BackfillEnds(g) \/ ValidationFails(g) PROVE EmbedderInv'
  <2> DEFINE ended == [generations[g] EXCEPT !.state = "ready", !.completed = TRUE, !.embeddings = TRUE]
             failed == [generations[g] EXCEPT !.failed = TRUE]
  <2>1. /\ StateOf(g) # "missing" /\ UNCHANGED <<runtime, calls, caches>>
        /\ \/ StateOf(g) = "backfilling" /\ generations' = [generations EXCEPT ![g] = ended]
           \/ generations' = [generations EXCEPT ![g] = failed]
    BY <1>0, <1>6 DEF BackfillEnds, ValidationFails, EmbedderTypeOK
  <2>2. /\ failed \in Generation /\ Passes(failed) /\ failed.state = StateOf(g)
        /\ StateOf(g) = "backfilling" => ended \in Generation /\ Passes(ended)
    BY <1>2, <2>1, RowKept DEF StateOf
  <2>3. CallGoesOn(g)
    BY <1>0, <2>1 DEF CallGoesOn, EmbedderTypeOK
  <2> HIDE DEF ended, failed
  <2>4. CASE generations' = [generations EXCEPT ![g] = failed]
    <3>1. StateOf(g) = "active" => failed.state = "active"
      BY <2>2
    <3> QED BY <2>1, <2>2, <2>3, <2>4, <3>1, RowStep
  <2>5. CASE StateOf(g) = "backfilling" /\ generations' = [generations EXCEPT ![g] = ended]
    <3>1. StateOf(g) = "active" => ended.state = "active"
      BY <2>5
    <3> QED BY <2>1, <2>2, <2>3, <2>5, <3>1, RowStep
  <2> QED BY <2>1, <2>4, <2>5
<1> QED BY <1>3, <1>4, <1>5, <1>6

\* The COMMIT of an activation: its target is active, its victims are ready, and the
\* victims of the other activations are untouched.
LEMMA PromoteStep == ASSUME EmbedderInv, NEW o \in Operators, Promote(o) PROVE EmbedderInv'
<1> DEFINE g == calls[o].generation
           victims == calls[o].victims
           call == [calls[o] EXCEPT !.at = "state", !.victims = {}]
<1>0. EmbedderTypeOK /\ CallsAreRecorded /\ DemotionsAreOwned /\ RowsPassTheirCheck
  BY DEF EmbedderInv
<1>1. calls[o] \in Call /\ calls[o].at = "promote" /\ g \in Generations
  BY <1>0 DEF Promote, EmbedderTypeOK, Call, NoCall
<1>2. /\ calls' = [calls EXCEPT ![o] = call] /\ UNCHANGED <<runtime, caches>>
      /\ \A p \in Operators \ {o} : calls[p].at = "promote" => g \notin calls[p].victims
  BY <1>0 DEF Promote, EmbedderTypeOK
<1>3. call \in Call /\ call.at = "state" /\ call.generation = g
  BY <1>1 DEF Call
<1> HIDE DEF call
<1>4. \A h \in Generations : generations'[h] =
        IF h = g THEN Promoted(generations[h])
        ELSE IF h \in victims THEN Demoted(generations[h]) ELSE generations[h]
  BY DEF Promote
<1>5. \A h \in Generations : StateOf(h) # "missing" =>
        generations[h] \in Generation /\ Passes(generations[h])
  BY <1>0 DEF EmbedderTypeOK, StateOf, Missing, RowsPassTheirCheck, Passes
<1>6. /\ StateOf(g) # "missing"
      /\ \A h \in victims : StateOf(h) = "active"
  BY <1>0, <1>1 DEF CallsAreRecorded, DemotionsAreOwned
<1>7. /\ generations'[g] \in Generation /\ Passes(generations'[g]) /\ generations'[g].state = "active"
  <2>1. generations[g] \in Generation /\ generations'[g] = Promoted(generations[g])
    BY <1>1, <1>4, <1>5, <1>6
  <2>2. Passes(Promoted(generations[g]))
    BY <2>1, RowUpdates DEF Passes
  <2> QED BY <2>1, <2>2, RowUpdates
<1>8. ASSUME NEW h \in Generations, h \in victims, h # g
      PROVE  generations'[h] \in Generation /\ Passes(generations'[h]) /\ generations'[h].state = "ready"
  <2>1. generations[h] \in Generation /\ ~generations[h].retired
        /\ generations'[h] = Demoted(generations[h])
    BY <1>4, <1>5, <1>6, <1>8 DEF Passes, StateOf
  <2>2. Passes(Demoted(generations[h]))
    BY <2>1, RowUpdates DEF Passes
  <2> QED BY <2>1, <2>2, RowUpdates
<1>9. \A h \in Generations : h \notin victims /\ h # g => generations'[h] = generations[h]
  BY <1>4
<1>10. \A p \in Operators : calls'[p] = IF p = o THEN call ELSE calls[p]
  BY <1>0, <1>2 DEF EmbedderTypeOK
<1>11. EmbedderTypeOK'
  <2>1. \A h \in Generations : generations'[h] \in Generation \cup {Missing}
    BY <1>0, <1>7, <1>8, <1>9 DEF EmbedderTypeOK
  <2>2. generations' \in [Generations -> Generation \cup {Missing}]
    BY <2>1 DEF Promote
  <2> QED BY <1>0, <1>2, <1>3, <2>2 DEF EmbedderTypeOK
<1>12. \A h \in Generations : StateOf(h) # "missing" => StateOf(h)' # "missing"
  BY <1>7, <1>8, <1>9 DEF StateOf
<1>13. \A p \in Operators : calls[p].at # "idle" =>
         calls[p].generation \in Generations /\ calls[p].victims \subseteq Generations
  BY <1>0 DEF EmbedderTypeOK, Call, NoCall
<1>14. CallsAreRecorded'
  BY <1>0, <1>1, <1>3, <1>6, <1>10, <1>12, <1>13, GenerationConstants DEF CallsAreRecorded
<1>15. ASSUME NEW p \in Operators \ {o}, calls[p].at = "promote"
       PROVE  \A h \in calls[p].victims : generations'[h] = generations[h]
  BY <1>0, <1>1, <1>2, <1>9, <1>13, <1>15 DEF DemotionsAreOwned
<1>16. DemotionsAreOwned'
  <2>1. \A p \in Operators : calls'[p].at = "promote" => p # o /\ calls'[p] = calls[p]
    BY <1>3, <1>10
  <2> QED BY <1>0, <1>15, <2>1 DEF DemotionsAreOwned, StateOf
<1>17. RowsPassTheirCheck'
  <2>1. \A h \in Generations : Passes(generations[h])
    BY <1>0 DEF RowsPassTheirCheck, Passes
  <2>2. \A h \in Generations : Passes(generations'[h])
    BY <1>7, <1>8, <1>9, <2>1
  <2> QED BY <2>2 DEF RowsPassTheirCheck, Passes
<1> QED BY <1>11, <1>14, <1>16, <1>17 DEF EmbedderInv

\* EmbedderInv is inductive.
LEMMA EmbedderInvStep == EmbedderInv /\ [EmbedderNext]_embedderVars => EmbedderInv'
<1> SUFFICES ASSUME EmbedderInv, [EmbedderNext]_embedderVars PROVE EmbedderInv'
    OBVIOUS
<1>1. CASE UNCHANGED <<generations, calls>> /\ runtime' \in Runtime /\ caches' \in [Processes -> Runtime]
  BY <1>1 DEF EmbedderInv, EmbedderTypeOK, CallsAreRecorded, DemotionsAreOwned,
              RowsPassTheirCheck, StateOf
<1>2. runtime \in Runtime /\ caches \in [Processes -> Runtime]
  BY DEF EmbedderInv, EmbedderTypeOK
<1>3. ASSUME NEW mode \in {"fallback", "generation_only"}, SetRetrievalMode(mode)
      PROVE  EmbedderInv'
  <2>1. [runtime EXCEPT !.mode = mode] \in Runtime
        /\ [runtime EXCEPT !.mode = mode].version = runtime.version
    BY <1>2 DEF Runtime
  <2>2. runtime' \in Runtime
    BY <1>3, <2>1, RuntimeUpdates DEF SetRetrievalMode, MayBump
  <2> QED BY <1>1, <1>2, <1>3, <2>2 DEF SetRetrievalMode
<1>4. CASE BumpConfigVersion
  BY <1>1, <1>2, <1>4, RuntimeUpdates DEF BumpConfigVersion, MayBump
<1>5. ASSUME NEW p \in Processes, RefreshIfStale(p) PROVE EmbedderInv'
  BY <1>1, <1>2, <1>5 DEF RefreshIfStale
<1>6. CASE UNCHANGED embedderVars
  BY <1>1, <1>2, <1>6 DEF embedderVars
<1> QED BY <1>3, <1>4, <1>5, <1>6, CallSteps, RowSteps, PromoteStep DEF EmbedderNext

\* At the start the seed is active and nobody calls.
LEMMA EmbedderInitInv == EmbedderInit => EmbedderInv
<1> SUFFICES ASSUME EmbedderInit PROVE EmbedderInv
    OBVIOUS
<1>1. Seed \in Generation /\ Passes(Seed) /\ Seed.state = "active"
  BY DEF Seed, Generation, Passes
<1>2. Missing.state = "missing" /\ Passes(Missing)
  BY DEF Missing, Passes
<1>3. runtime \in Runtime
  BY GenerationConstants DEF EmbedderInit, Runtime
<1>4. NoCall.at = "idle"
  BY DEF NoCall
<1>5. EmbedderTypeOK
  BY <1>1, <1>3 DEF EmbedderInit, EmbedderTypeOK
<1>6. CallsAreRecorded /\ DemotionsAreOwned
  BY <1>1, <1>4, GenerationConstants DEF EmbedderInit, CallsAreRecorded, DemotionsAreOwned, StateOf
<1>7. \A g \in Generations : Passes(generations[g])
  BY <1>1, <1>2 DEF EmbedderInit
<1> QED BY <1>5, <1>6, <1>7 DEF EmbedderInv, RowsPassTheirCheck, Passes

\* No row of core.embedding_generations ever violates the CHECK on its timestamps, for
\* any number of operators and generations, whatever calls overlap.
THEOREM RowsPassTheirCheckHolds == EmbedderSpec => []RowsPassTheirCheck
<1>1. EmbedderInv => RowsPassTheirCheck
  BY DEF EmbedderInv
<1> QED BY <1>1, EmbedderInitInv, EmbedderInvStep, PTL DEF EmbedderSpec

\* The generations, the singleton, the open calls and the cached snapshots keep their types:
\* a call only ever names a recorded generation, and config_version stays within its bound.
THEOREM EmbedderTypeCorrect == EmbedderSpec => []EmbedderTypeOK
<1>1. EmbedderInv => EmbedderTypeOK
  BY DEF EmbedderInv
<1> QED BY <1>1, EmbedderInitInv, EmbedderInvStep, PTL DEF EmbedderSpec

\* A snapshot is not younger than the singleton, and equals it under its version.
Snapshots ==
  \A p \in Processes :
    /\ caches[p].version <= runtime.version
    /\ caches[p].version = runtime.version => caches[p] = runtime

\* A process whose config_version is current has the current state cached, for any number
\* of processes: every write of the singleton bumps the version in the same statement.
THEOREM CacheIsItsVersionHolds == EmbedderSpec => []CacheIsItsVersion
<1>1. EmbedderInit => Snapshots
  BY DEF EmbedderInit, Snapshots
<1>2. EmbedderInv /\ Snapshots /\ EmbedderInv' /\ [EmbedderNext]_embedderVars => Snapshots'
  <2> SUFFICES ASSUME EmbedderInv, Snapshots, EmbedderInv', [EmbedderNext]_embedderVars
               PROVE  Snapshots'
      OBVIOUS
  <2>1. /\ runtime \in Runtime /\ runtime' \in Runtime
        /\ caches \in [Processes -> Runtime]
    BY DEF EmbedderInv, EmbedderTypeOK
  <2>2. runtime.version \in Nat /\ \A p \in Processes : caches[p].version \in Nat
    BY <2>1, GenerationConstants DEF Runtime
  <2>3. CASE runtime' = runtime /\ caches' = caches
    BY <2>3 DEF Snapshots
  <2>4. CASE runtime'.version = runtime.version + 1 /\ caches' = caches
    BY <2>2, <2>4 DEF Snapshots
  <2>5. ASSUME NEW p \in Processes, RefreshIfStale(p) PROVE Snapshots'
    BY <2>1, <2>2, <2>5 DEF RefreshIfStale, Snapshots
  <2>6. ASSUME NEW o \in Operators, SetPending(o) \/ ClearPending(o) \/ PointActive(o)
        PROVE  Snapshots'
    BY <2>1, <2>4, <2>6 DEF SetPending, ClearPending, PointActive, Bumped, Runtime
  <2>7. ASSUME NEW mode \in {"fallback", "generation_only"},
               SetRetrievalMode(mode) \/ BumpConfigVersion
        PROVE  Snapshots'
    BY <2>1, <2>4, <2>7 DEF SetRetrievalMode, BumpConfigVersion, Bumped, Runtime
  <2> QED
    BY <2>3, <2>5, <2>6, <2>7
    DEF EmbedderNext, embedderVars, StartGeneration, InsertNew, CancelPending, ManualRetire, Activate,
        GcRequested, Open, TransitionToRetired, FindActive, Demote, Promote, CollectGarbage,
        CallDies, BackfillEnds, ValidationFails
<1>3. Snapshots => CacheIsItsVersion
  BY DEF Snapshots, CacheIsItsVersion
<1> QED BY <1>1, <1>2, <1>3, EmbedderInitInv, EmbedderInvStep, PTL DEF EmbedderSpec

-----------------------------------------------------------------------------
(* Installations *)

Recorded == [enabled : BOOLEAN, archived : BOOLEAN]

\* A repository that was switched off is recorded and disabled.
SwitchedOffRows ==
  /\ repositories \in [Repos -> {NoRow} \cup Recorded]
  /\ switchedOff \in [Repos -> BOOLEAN]
  /\ \A r \in Repos : switchedOff[r] =>
       repositories[r] \in Recorded /\ repositories[r].enabled = FALSE

\* A recorded repository differs from one that was never recorded.
LEMMA RecordedIsNoNoRow == ASSUME NEW row \in Recorded PROVE row # NoRow
<1>1. DOMAIN row = {"enabled", "archived"} /\ DOMAIN NoRow = {"enabled"}
  BY DEF Recorded, NoRow
<1> QED BY <1>1

\* upsertRepository and removeRepository keep a disabled repository disabled.
LEMMA UpsertKeepsOff ==
  ASSUME NEW row \in {NoRow} \cup Recorded
  PROVE  /\ Upserted(row) \in Recorded
         /\ row \in Recorded => Upserted(row).enabled = row.enabled
         /\ Removed(row) \in {NoRow} \cup Recorded
         /\ row \in Recorded => Removed(row) \in Recorded /\ Removed(row).enabled = FALSE
<1>1. CASE row = NoRow
  BY <1>1, RecordedIsNoNoRow DEF Upserted, Removed, Recorded
<1>2. CASE row \in Recorded
  <2>1. row # NoRow
    BY <1>2, RecordedIsNoNoRow
  <2> QED BY <1>2, <2>1 DEF Upserted, Removed, Recorded
<1> QED BY <1>1, <1>2

\* Neither a late webhook nor a repair enables a repository that was switched off.
LEMMA SwitchedOffStep ==
  SwitchedOffRows /\ [InstallationsNext]_installVars => SwitchedOffRows'
<1> SUFFICES ASSUME SwitchedOffRows, [InstallationsNext]_installVars PROVE SwitchedOffRows'
    OBVIOUS
<1>1. CASE UNCHANGED <<repositories, switchedOff>>
  BY <1>1 DEF SwitchedOffRows
<1>2. CASE ReconcileRepositories
  <2> DEFINE x == executions["reconcileRepositories"]
             added(r) == IF r \in x.payload.added THEN Upserted(repositories[r]) ELSE repositories[r]
  <2>1. /\ repositories' = [r \in Repos |->
             IF r \in x.payload.removed THEN Removed(added(r)) ELSE added(r)]
        /\ switchedOff' = [r \in Repos |->
             switchedOff[r] \/ (r \in x.payload.removed /\ added(r) # NoRow)]
    BY <1>2 DEF ReconcileRepositories
  <2>2. ASSUME NEW r \in Repos
        PROVE  /\ added(r) \in {NoRow} \cup Recorded
               /\ switchedOff[r] => added(r) \in Recorded /\ added(r).enabled = FALSE
    BY UpsertKeepsOff DEF SwitchedOffRows
  <2> HIDE DEF added
  <2>3. ASSUME NEW r \in Repos
        PROVE  /\ repositories'[r] \in {NoRow} \cup Recorded
               /\ switchedOff'[r] \in BOOLEAN
               /\ switchedOff'[r] =>
                    repositories'[r] \in Recorded /\ repositories'[r].enabled = FALSE
    BY <2>1, <2>2, UpsertKeepsOff DEF SwitchedOffRows
  <2> QED BY <2>1, <2>3 DEF SwitchedOffRows
<1>3. ASSUME NEW h \in Hydrations, HydrateCommits(h) PROVE SwitchedOffRows'
  <2>1. /\ repositories' = [r \in Repos |->
             IF installation # Unrecorded /\ r \in hydrations[h].repos
               THEN Upserted(repositories[r]) ELSE repositories[r]]
        /\ switchedOff' = switchedOff
    BY <1>3 DEF HydrateCommits, histories
  <2>2. ASSUME NEW r \in Repos
        PROVE  /\ repositories'[r] \in {NoRow} \cup Recorded
               /\ switchedOff[r] =>
                    repositories'[r] \in Recorded /\ repositories'[r].enabled = FALSE
    BY <2>1, UpsertKeepsOff DEF SwitchedOffRows
  <2> QED BY <2>1, <2>2 DEF SwitchedOffRows
<1>4. ASSUME NEW r \in Repos, NEW enabled \in BOOLEAN, SetEnabled(r, enabled)
      PROVE  SwitchedOffRows'
  <2> DEFINE row == [repositories[r] EXCEPT !.enabled = enabled]
  <2>1. /\ repositories' = [repositories EXCEPT ![r] = row]
        /\ switchedOff' = [switchedOff EXCEPT ![r] = ~enabled]
        /\ repositories[r] \in Recorded
    BY <1>4 DEF SetEnabled, SwitchedOffRows
  <2>2. row \in Recorded /\ row.enabled = enabled
    BY <2>1 DEF Recorded
  <2> HIDE DEF row
  <2> QED BY <2>1, <2>2 DEF SwitchedOffRows
<1> QED
  BY <1>1, <1>2, <1>3, <1>4
  DEF InstallationsNext, installVars, tables, histories, AppChanges, RepositoryAdded,
      RepositoryRemoved, PullRequest, Send, CheckWebhook, PersistWebhook, DispatchReconcile,
      RowDies, ReconcileInstallation, ReconcileFails, StartHydration,
      ListInstallationRepositories, MarkBlocked, HydrationFails, HydrationTimesOut,
      RepairFails, CooldownEnds, Unblock

\* The kill switch of a repository holds for any number of repositories, webhooks and
\* attempts: what disables it (an admin, a removal) is undone by an admin only, since
\* neither the upsert of a late webhook nor that of a repair sets the column again.
THEOREM RepositoryStaysOffHolds == InstallationsSpec => []RepositoryStaysOff
<1>1. InstallationsInit => SwitchedOffRows
  BY DEF InstallationsInit, SwitchedOffRows
<1>2. SwitchedOffRows => RepositoryStaysOff
  BY DEF SwitchedOffRows, RepositoryStaysOff
<1> QED BY <1>1, <1>2, SwitchedOffStep, PTL DEF InstallationsSpec

\* The row of cache.repository_repair_state.
RepairStates == [recent : BOOLEAN, blocked : BOOLEAN]

LEMMA RepairStateFields ==
  /\ \A a, b \in BOOLEAN : /\ [recent |-> a, blocked |-> b] \in RepairStates
                          /\ [recent |-> a, blocked |-> b].recent = a
                          /\ [recent |-> a, blocked |-> b].blocked = b
  /\ \A s \in RepairStates, a \in BOOLEAN :
       /\ s.recent \in BOOLEAN /\ s.blocked \in BOOLEAN
       /\ [s EXCEPT !.recent = a] \in RepairStates
       /\ [s EXCEPT !.recent = a].recent = a
       /\ [s EXCEPT !.recent = a].blocked = s.blocked
       /\ s.recent = a => [s EXCEPT !.recent = a] = s
BY DEF RepairStates

\* What a webhook is turned into are rows of the outbox.
LEMMA EmittedRows ==
  ASSUME InstallationsTypeOK, NEW w \in webhooks
  PROVE  /\ ReconcileEmits(w) \subseteq ReconcileRow
         /\ Row(w, "repair", w.says) \in ReconcileRow
<1>1. w.nr \in 1..MaxSent /\ w.says \in Says
  BY DEF InstallationsTypeOK, Webhook
<1>2. [event |-> "installation", suspends |-> FALSE] \in Says
  BY DEF Says, InstallationEvent
<1>3. ASSUME NEW workflow \in WorkflowTypes, NEW payload \in Says
      PROVE  Row(w, workflow, payload) \in ReconcileRow
  BY <1>1 DEF Row, ReconcileRow
<1> QED BY <1>1, <1>2, <1>3 DEF ReconcileEmits, WorkflowTypes

\* The executions of the three workflow ids.
Execution == {NoExecution} \cup [open : {TRUE}, payload : Says,
                                 awaits : Hydrations \cup {NoHydration}]
RepairAttempt == {NoAttempt} \cup [at : {"list", "commit", "block"}, repos : SUBSET Repos]

LEMMA OpenExecution ==
  /\ \A x \in Execution : x.open => x \in [open : {TRUE}, payload : Says,
                                           awaits : Hydrations \cup {NoHydration}]
  /\ \A a \in RepairAttempt : a # NoAttempt =>
       a \in [at : {"list", "commit", "block"}, repos : SUBSET Repos]
<1>1. ASSUME NEW x \in Execution, x.open PROVE x # NoExecution
  BY <1>1 DEF NoExecution
<1> QED BY <1>1 DEF Execution, RepairAttempt

LEMMA CheckedWebhook ==
  \A w \in Webhook, e, b \in BOOLEAN :
    [w EXCEPT !.at = "checked", !.enqueues = e, !.backfills = b] \in Webhook
BY DEF Webhook

\* GitHub sends, the API takes in.
LEMMA WebhookTypeStep ==
  ASSUME InstallationsTypeOK,
         \/ \E app \in {"absent", "installed", "suspended"} : AppChanges(app)
         \/ \E r \in Repos : RepositoryAdded(r) \/ RepositoryRemoved(r) \/ PullRequest(r)
         \/ \E w \in webhooks : CheckWebhook(w) \/ PersistWebhook(w)
  PROVE  InstallationsTypeOK'
<1> USE InstallationConstants
<1>0. sent \in 0..MaxSent /\ webhooks \subseteq Webhook
  BY DEF InstallationsTypeOK
<1>1. ASSUME NEW says \in Says, Send(says) PROVE sent' \in 0..MaxSent /\ webhooks' \subseteq Webhook
  <2>1. sent + 1 \in 1..MaxSent
    BY <1>0, <1>1 DEF Send
  <2>2. [nr |-> sent + 1, says |-> says, at |-> "sent", enqueues |-> FALSE,
         backfills |-> FALSE] \in Webhook
    BY <2>1 DEF Webhook
  <2>3. sent' \in 0..MaxSent
    BY <1>1, <2>1 DEF Send
  <2>4. webhooks' \subseteq Webhook
    BY <1>0, <1>1, <2>2 DEF Send
  <2> QED BY <2>3, <2>4
<1>2. ASSUME NEW app \in {"absent", "installed", "suspended"}, AppChanges(app)
      PROVE  InstallationsTypeOK'
  <2>1. [event |-> "installation", suspends |-> app # "installed"] \in Says
    BY DEF Says, InstallationEvent
  <2>2. sent' \in 0..MaxSent /\ webhooks' \subseteq Webhook
    BY <1>1, <1>2, <2>1 DEF AppChanges
  <2> QED BY <1>2, <2>2 DEF AppChanges, Send, tables, histories, InstallationsTypeOK
<1>3. ASSUME NEW r \in Repos, RepositoryAdded(r) PROVE InstallationsTypeOK'
  <2>1. [event |-> "installation_repositories", added |-> {r}, removed |-> {}] \in Says
    BY DEF Says, RepositoriesEvent
  <2>2. sent' \in 0..MaxSent /\ webhooks' \subseteq Webhook
    BY <1>1, <1>3, <2>1 DEF RepositoryAdded
  <2> QED BY <1>3, <2>2 DEF RepositoryAdded, Send, tables, histories, InstallationsTypeOK
<1>4. ASSUME NEW r \in Repos, RepositoryRemoved(r) PROVE InstallationsTypeOK'
  <2>1. [event |-> "installation_repositories", added |-> {}, removed |-> {r}] \in Says
    BY DEF Says, RepositoriesEvent
  <2>2. sent' \in 0..MaxSent /\ webhooks' \subseteq Webhook
    BY <1>1, <1>4, <2>1 DEF RepositoryRemoved
  <2> QED BY <1>4, <2>2 DEF RepositoryRemoved, Send, tables, histories, InstallationsTypeOK
<1>5. ASSUME NEW r \in Repos, PullRequest(r) PROVE InstallationsTypeOK'
  <2>1. [event |-> "pull_request", repo |-> r] \in Says
    BY DEF Says, PullRequestEvent
  <2>2. sent' \in 0..MaxSent /\ webhooks' \subseteq Webhook
    BY <1>1, <1>5, <2>1 DEF PullRequest
  <2> QED BY <1>5, <2>2 DEF PullRequest, Send, tables, histories, InstallationsTypeOK
<1>6. ASSUME NEW w \in webhooks, CheckWebhook(w) PROVE InstallationsTypeOK'
  <2> DEFINE drift == w.says.event = "pull_request" /\ ~Known(w.says.repo)
             enqueues == drift /\ AllowEnqueue
             backfills == drift /\ installation = Unrecorded
             checked == [w EXCEPT !.at = "checked", !.enqueues = enqueues, !.backfills = backfills]
  <2>1. enqueues \in BOOLEAN /\ backfills \in BOOLEAN
    OBVIOUS
  <2>2. webhooks' = (webhooks \ {w}) \cup {checked}
    BY <1>6 DEF CheckWebhook
  <2> HIDE DEF enqueues, backfills
  <2>3. checked \in Webhook
    BY <1>0, <2>1, CheckedWebhook
  <2> HIDE DEF checked
  <2>4. webhooks' \subseteq Webhook
    BY <1>0, <2>2, <2>3
  <2> QED BY <1>6, <2>4 DEF CheckWebhook, tables, histories, InstallationsTypeOK
<1>7. ASSUME NEW w \in webhooks, PersistWebhook(w) PROVE InstallationsTypeOK'
  <2>1. reconcileRows' \subseteq ReconcileRow
    <3>1. \E appended \in BOOLEAN : reconcileRows' = reconcileRows \cup ReconcileEmits(w) \cup
            (IF appended THEN {Row(w, "repair", w.says)} ELSE {})
      BY <1>7 DEF PersistWebhook
    <3>2. reconcileRows \subseteq ReconcileRow
      BY DEF InstallationsTypeOK
    <3> QED BY <3>1, <3>2, EmittedRows
  <2>2. repairState \in RepairStates
    BY DEF InstallationsTypeOK, RepairStates
  <2>3. repairState' \in RepairStates /\ repairLost' \in BOOLEAN
    <3>1. PICK appended \in BOOLEAN :
            /\ repairState' = [repairState EXCEPT !.recent = @ \/ MarksAttempt(w, appended)]
            /\ repairLost' = (repairLost /\ ~appended)
      BY <1>7 DEF PersistWebhook
    <3>2. (repairState.recent \/ MarksAttempt(w, appended)) \in BOOLEAN
      OBVIOUS
    <3> QED BY <2>2, <3>1, <3>2, RepairStateFields
  <2>4. webhooks' \subseteq Webhook
    BY <1>0, <1>7 DEF PersistWebhook
  <2> QED BY <1>7, <2>1, <2>3, <2>4 DEF PersistWebhook, InstallationsTypeOK, RepairStates
<1> QED BY <1>2, <1>3, <1>4, <1>5, <1>6, <1>7

\* The workflows and their activities.
LEMMA WorkflowTypeStep ==
  ASSUME InstallationsTypeOK,
         \/ \E row \in reconcileRows : DispatchReconcile(row) \/ RowDies(row)
         \/ ReconcileInstallation \/ ReconcileRepositories \/ (\E w \in WorkflowTypes : ReconcileFails(w))
         \/ \E h \in Hydrations : \/ StartHydration(h) \/ ListInstallationRepositories(h)
                                  \/ HydrateCommits(h) \/ MarkBlocked(h) \/ HydrationFails(h)
         \/ HydrationTimesOut \/ RepairFails
  PROVE  /\ executions' \in [WorkflowTypes -> Execution]
         /\ hydrations' \in [Hydrations -> RepairAttempt]
         /\ reconcileRows' \subseteq ReconcileRow
         /\ installation' \in {Unrecorded, "active", "suspended"}
         /\ repairState' \in RepairStates
         /\ repairLost' \in BOOLEAN
         /\ UNCHANGED <<github, webhooks, sent>>
<1> DEFINE Goal == /\ executions' \in [WorkflowTypes -> Execution]
                   /\ hydrations' \in [Hydrations -> RepairAttempt]
                   /\ reconcileRows' \subseteq ReconcileRow
                   /\ installation' \in {Unrecorded, "active", "suspended"}
                   /\ repairState' \in RepairStates
                   /\ repairLost' \in BOOLEAN
                   /\ UNCHANGED <<github, webhooks, sent>>
<1>0. /\ executions \in [WorkflowTypes -> Execution] /\ hydrations \in [Hydrations -> RepairAttempt]
      /\ reconcileRows \subseteq ReconcileRow /\ repairLost \in BOOLEAN
      /\ installation \in {Unrecorded, "active", "suspended"}
      /\ repairState \in RepairStates
      /\ github \in [app : {"absent", "installed", "suspended"}, repos : SUBSET Repos]
  BY DEF InstallationsTypeOK, Execution, RepairAttempt, RepairStates
<1>1. ASSUME NEW w \in WorkflowTypes, Complete(w) PROVE executions' \in [WorkflowTypes -> Execution]
  BY <1>0, <1>1 DEF Complete, Execution
<1>2. ASSUME executions["repair"].open, NEW a \in Hydrations \cup {NoHydration},
             executions' = [executions EXCEPT !["repair"].awaits = a]
      PROVE  executions' \in [WorkflowTypes -> Execution]
  <2>1. executions["repair"] \in Execution
    BY <1>0 DEF WorkflowTypes
  <2>2. [executions["repair"] EXCEPT !.awaits = a] \in Execution
    BY <1>2, <2>1, OpenExecution DEF Execution
  <2> QED BY <1>0, <1>2, <2>2
<1>3. ASSUME NEW row \in reconcileRows, DispatchReconcile(row) PROVE Goal
  <2>1. row \in ReconcileRow
    BY <1>0
  <2>2. row.payload \in Says
    BY <2>1 DEF ReconcileRow
  <2>3. [open |-> TRUE, payload |-> row.payload, awaits |-> NoHydration] \in Execution
    BY <2>2 DEF Execution
  <2> QED BY <1>0, <1>3, <2>3 DEF DispatchReconcile, tables, histories
<1>4. ASSUME NEW row \in reconcileRows, RowDies(row) PROVE Goal
  BY <1>0, <1>4 DEF RowDies, tables
<1>5. CASE ReconcileInstallation \/ ReconcileRepositories
  BY <1>0, <1>1, <1>5
     DEF ReconcileInstallation, ReconcileRepositories, CompletesOrRepeats, histories, WorkflowTypes
<1>6. ASSUME NEW w \in WorkflowTypes, ReconcileFails(w) PROVE Goal
  BY <1>0, <1>1, <1>6 DEF ReconcileFails, tables, histories
<1>7. ASSUME NEW h \in Hydrations, StartHydration(h) PROVE Goal
  <2>1. [at |-> "list", repos |-> {}] \in RepairAttempt
    BY DEF RepairAttempt
  <2> QED BY <1>0, <1>2, <1>7, <2>1 DEF StartHydration, tables, histories
<1>8. ASSUME NEW h \in Hydrations, ListInstallationRepositories(h) PROVE Goal
  <2>1. /\ [at |-> "commit", repos |-> github.repos] \in RepairAttempt
        /\ [at |-> "block", repos |-> {}] \in RepairAttempt
    BY <1>0 DEF RepairAttempt
  <2> QED BY <1>0, <1>8, <2>1 DEF ListInstallationRepositories, tables, histories
<1>9. ASSUME NEW h \in Hydrations, EndHydration(h)
      PROVE  executions' \in [WorkflowTypes -> Execution] /\ hydrations' \in [Hydrations -> RepairAttempt]
  BY <1>0, <1>1, <1>9 DEF EndHydration, RepairAttempt, WorkflowTypes
<1>10. ASSUME NEW h \in Hydrations, HydrateCommits(h) \/ MarkBlocked(h) PROVE Goal
  <2>1. EndHydration(h) /\ UNCHANGED <<github, webhooks, reconcileRows, installation, sent, repairLost>>
    BY <1>10 DEF HydrateCommits, MarkBlocked, histories
  <2>2. repairState' \in RepairStates
    <3>1. \/ repairState' = [recent |-> FALSE, blocked |-> FALSE]
          \/ repairState' = [recent |-> TRUE, blocked |-> TRUE]
      BY <1>10 DEF HydrateCommits, MarkBlocked
    <3>2. \A a \in BOOLEAN : [recent |-> a, blocked |-> a] \in RepairStates
      BY RepairStateFields
    <3> QED BY <3>1, <3>2, Zenon
  <2> QED BY <1>0, <1>9, <2>1, <2>2
<1>11. ASSUME NEW h \in Hydrations, HydrationFails(h) PROVE Goal
  BY <1>0, <1>2, <1>11 DEF HydrationFails, AwaitNobody, RepairAttempt, tables, histories
<1>12. CASE HydrationTimesOut \/ RepairFails
  BY <1>0, <1>1, <1>2, <1>12
     DEF HydrationTimesOut, RepairFails, AwaitNobody, WorkflowTypes, tables, histories
<1> HIDE DEF Goal
<1> QED BY <1>3, <1>4, <1>5, <1>6, <1>7, <1>8, <1>10, <1>11, <1>12 DEF Goal


InstallationsInv == InstallationsTypeOK /\ SwitchedOffRows

LEMMA InstallationsInvStep ==
  InstallationsInv /\ [InstallationsNext]_installVars => InstallationsInv'
<1> SUFFICES ASSUME InstallationsInv, [InstallationsNext]_installVars PROVE InstallationsInv'
  OBVIOUS
<1>0. SwitchedOffRows'
  BY SwitchedOffStep DEF InstallationsInv
<1>1. repositories' \in [Repos -> {NoRow} \cup Recorded] /\ switchedOff' \in [Repos -> BOOLEAN]
  BY <1>0 DEF SwitchedOffRows
<1>2. CASE \/ \E row \in reconcileRows : DispatchReconcile(row) \/ RowDies(row)
           \/ ReconcileInstallation \/ ReconcileRepositories
           \/ (\E w \in WorkflowTypes : ReconcileFails(w))
           \/ \E h \in Hydrations : \/ StartHydration(h) \/ ListInstallationRepositories(h)
                                    \/ HydrateCommits(h) \/ MarkBlocked(h) \/ HydrationFails(h)
           \/ HydrationTimesOut \/ RepairFails
  BY <1>0, <1>1, <1>2, WorkflowTypeStep
     DEF InstallationsInv, InstallationsTypeOK, Execution, RepairAttempt, Recorded, RepairStates
<1>3. CASE \/ CooldownEnds \/ Unblock \/ UNCHANGED installVars
           \/ \E r \in Repos, enabled \in BOOLEAN : SetEnabled(r, enabled)
  <2>1. repairState' \in RepairStates /\ repairLost' \in BOOLEAN
        /\ UNCHANGED <<github, webhooks, reconcileRows, executions, hydrations, installation, sent>>
    <3>1. repairState \in RepairStates /\ repairLost \in BOOLEAN
      BY DEF InstallationsInv, InstallationsTypeOK, RepairStates
    <3>2. CASE CooldownEnds
      BY <3>1, <3>2, RepairStateFields DEF CooldownEnds
    <3>3. CASE Unblock
      BY <3>1, <3>3, RepairStateFields DEF Unblock, histories
    <3>4. CASE UNCHANGED installVars
      BY <3>1, <3>4 DEF installVars, tables, histories
    <3>5. ASSUME NEW r \in Repos, NEW enabled \in BOOLEAN, SetEnabled(r, enabled)
          PROVE  /\ repairState' = repairState /\ repairLost' = repairLost
                 /\ UNCHANGED <<github, webhooks, reconcileRows, executions, hydrations,
                                installation, sent>>
      BY <3>5 DEF SetEnabled
    <3> QED BY <1>3, <3>1, <3>2, <3>3, <3>4, <3>5
  <2> QED BY <1>0, <1>1, <2>1 DEF InstallationsInv, InstallationsTypeOK, Recorded, RepairStates
<1>4. CASE \/ \E app \in {"absent", "installed", "suspended"} : AppChanges(app)
           \/ \E r \in Repos : RepositoryAdded(r) \/ RepositoryRemoved(r) \/ PullRequest(r)
           \/ \E w \in webhooks : CheckWebhook(w) \/ PersistWebhook(w)
  BY <1>0, <1>4, WebhookTypeStep DEF InstallationsInv
<1> QED BY <1>2, <1>3, <1>4 DEF InstallationsNext

LEMMA InstallationsInvInit == InstallationsInit => InstallationsInv
<1> SUFFICES ASSUME InstallationsInit PROVE InstallationsInv
  OBVIOUS
<1>1. repairState \in [recent : BOOLEAN, blocked : BOOLEAN]
  BY RepairStateFields DEF InstallationsInit, RepairStates
<1>2. github \in [app : {"absent", "installed", "suspended"}, repos : SUBSET Repos]
  BY DEF InstallationsInit
<1>3. sent \in 0..MaxSent
  BY InstallationConstants DEF InstallationsInit
<1> QED BY <1>1, <1>2, <1>3
        DEF InstallationsInit, InstallationsInv, InstallationsTypeOK, SwitchedOffRows

\* The installations, their rows and the repairs in flight keep their types (Installations).
THEOREM InstallationsTypeCorrect == InstallationsSpec => []InstallationsTypeOK
<1>1. InstallationsInv => InstallationsTypeOK
  BY DEF InstallationsInv
<1> QED BY <1>1, InstallationsInvInit, InstallationsInvStep, PTL DEF InstallationsSpec

\* A webhook of an unknown repository is turned away only while a repair is on its way
\* or after one was given up: the mark and the outbox row commit together, the row
\* stays until it has started the workflow, and a start that is swallowed found the
\* workflow open.
THEOREM CooldownHasRepairHolds == InstallationsSpec => []CooldownHasRepair
<1>1. InstallationsInit => CooldownHasRepair
  BY DEF InstallationsInit, CooldownHasRepair
<1>2. InstallationsTypeOK /\ CooldownHasRepair /\ [InstallationsNext]_installVars
        => CooldownHasRepair'
  <2> SUFFICES ASSUME InstallationsTypeOK, CooldownHasRepair, [InstallationsNext]_installVars
               PROVE  CooldownHasRepair'
    OBVIOUS
  <2>0. executions \in [WorkflowTypes -> Execution] /\ reconcileRows \subseteq ReconcileRow
        /\ repairState \in RepairStates
    BY DEF InstallationsTypeOK, Execution, RepairStates
  <2>1. ASSUME NEW row \in reconcileRows, DispatchReconcile(row) PROVE CooldownHasRepair'
    <3>1. row.workflow \in WorkflowTypes
      BY <2>0 DEF ReconcileRow
    <3>2. executions["repair"].open => executions'["repair"].open
      BY <2>0, <2>1, <3>1 DEF DispatchReconcile, WorkflowTypes
    <3>3. row.workflow = "repair" => executions'["repair"].open
      BY <2>0, <2>1, <3>1 DEF DispatchReconcile, WorkflowTypes
    <3> QED BY <2>1, <3>2, <3>3 DEF DispatchReconcile, CooldownHasRepair, tables, histories
  <2>2. ASSUME NEW row \in reconcileRows, RowDies(row) PROVE CooldownHasRepair'
    BY <2>2 DEF RowDies, CooldownHasRepair, tables
  <2>3. ASSUME NEW w \in webhooks, PersistWebhook(w) PROVE CooldownHasRepair'
    <3>1. PICK appended \in BOOLEAN :
            /\ appended => w.enqueues
            /\ reconcileRows' = reconcileRows \cup ReconcileEmits(w) \cup
                 (IF appended THEN {Row(w, "repair", w.says)} ELSE {})
            /\ repairState' = [repairState EXCEPT !.recent = @ \/ MarksAttempt(w, appended)]
            /\ repairLost' = (repairLost /\ ~appended)
            /\ executions' = executions
      BY <2>3 DEF PersistWebhook
    <3>2. CASE appended
      <4>1. Row(w, "repair", w.says) \in reconcileRows' /\ Row(w, "repair", w.says).workflow = "repair"
        BY <3>1, <3>2 DEF Row
      <4> QED BY <4>1 DEF CooldownHasRepair
    <3>3. CASE ~appended
      <4>1. repairState' = repairState
        BY <2>0, <3>1, <3>3, RepairStateFields DEF MarksAttempt
      <4> QED BY <3>1, <3>3, <4>1 DEF CooldownHasRepair
    <3> QED BY <3>2, <3>3
  <2>4. CASE ReconcileInstallation \/ ReconcileRepositories
             \/ \E w \in WorkflowTypes : ReconcileFails(w)
    <3>1. executions'["repair"] = executions["repair"]
      BY <2>0, <2>4 DEF ReconcileInstallation, ReconcileRepositories, ReconcileFails,
                        CompletesOrRepeats, Complete, WorkflowTypes
    <3> QED BY <2>4, <3>1 DEF ReconcileInstallation, ReconcileRepositories, ReconcileFails,
                              CooldownHasRepair, tables, histories
  <2>5. ASSUME NEW h \in Hydrations,
               StartHydration(h) \/ HydrationFails(h) \/ HydrationTimesOut
        PROVE  CooldownHasRepair'
    <3>1. executions["repair"].open => executions'["repair"].open
      <4>1. ASSUME executions["repair"].open, NEW a
            PROVE  [executions EXCEPT !["repair"].awaits = a]["repair"].open
        BY <2>0, <4>1, OpenExecution DEF WorkflowTypes
      <4> QED BY <2>5, <4>1 DEF StartHydration, HydrationFails, HydrationTimesOut, AwaitNobody
    <3> QED BY <2>5, <3>1 DEF StartHydration, HydrationFails, HydrationTimesOut,
                              CooldownHasRepair, tables, histories
  <2>6. CASE HydrationTimesOut
    <3>1. Awaited \in Hydrations
      BY <2>0, <2>6, OpenExecution DEF HydrationTimesOut, Awaited, WorkflowTypes
    <3> QED BY <2>5, <2>6, <3>1
  <2>7. CASE \/ \E h \in Hydrations : HydrateCommits(h) \/ MarkBlocked(h)
             \/ RepairFails \/ CooldownEnds \/ Unblock
    <3>1. \/ repairState' = [recent |-> FALSE, blocked |-> FALSE]
          \/ repairState' = [recent |-> TRUE, blocked |-> TRUE]
          \/ repairState' = [repairState EXCEPT !.recent = FALSE]
          \/ repairLost'
      BY <2>7 DEF HydrateCommits, MarkBlocked, RepairFails, CooldownEnds, Unblock
    <3>2. ~repairState'.recent \/ repairState'.blocked \/ repairLost'
      <4>1. CASE repairState' = [recent |-> FALSE, blocked |-> FALSE]
        BY <4>1
      <4>2. CASE repairState' = [recent |-> TRUE, blocked |-> TRUE]
        BY <4>2
      <4>3. CASE repairState' = [repairState EXCEPT !.recent = FALSE]
        BY <2>0, <4>3 DEF RepairStates
      <4> QED BY <3>1, <4>1, <4>2, <4>3
    <3> QED BY <3>2 DEF CooldownHasRepair
  <2>8. CASE UNCHANGED <<reconcileRows, executions, repairState, repairLost>>
    BY <2>8 DEF CooldownHasRepair
  <2> QED
    BY <2>1, <2>2, <2>3, <2>4, <2>5, <2>6, <2>7, <2>8
    DEF InstallationsNext, installVars, tables, histories, AppChanges, RepositoryAdded,
        RepositoryRemoved, PullRequest, Send, CheckWebhook, ListInstallationRepositories,
        SetEnabled
<1> QED BY <1>1, <1>2, InstallationsTypeCorrect, PTL DEF InstallationsSpec

-----------------------------------------------------------------------------
(* LlmCredentials *)

LlmCallType == {NotCalling} \cup Scan \cup Building \cup Ask \cup Keyed

\* What a call knows of the row of its role, whatever was saved since it began.
CallKnows(c) ==
  LET call == llmCalls[c]
      row == settings[call.role]
  IN
  call # NotCalling =>
    /\ call.began.key <= row.key
    /\ call.began.key = row.key => call.began = row
    /\ call.at \in {"scanned", "clientLock", "building"} => call.scan[call.role] = call.began.key
    /\ call.at = "building" =>
         /\ call.began.key <= call.key /\ call.key <= row.key
         /\ call.key = row.key => row.on
    /\ call.at \in {"client", "keyLock", "probed", "refreshing", "sending"} /\ ~call.began.on =>
         row.key > call.began.key

\* A client was built from a row that was on, between its scan and now.
ClientKnows(r) ==
  clients[r] # NotCached =>
    /\ clients[r].scan[r] <= clients[r].key /\ clients[r].key <= settings[r].key
    /\ clients[r].key = settings[r].key => settings[r].on

LlmInv ==
  /\ LlmTypeOK
  /\ \A c \in LlmCalls : CallKnows(c)
  /\ \A r \in LlmRoles : ClientKnows(r)

\* The fields a call has, by where it is.
LEMMA CallFields ==
  ASSUME LlmTypeOK, NEW c \in LlmCalls
  PROVE  /\ llmCalls[c].at \in {"scanned", "clientLock"} => llmCalls[c] \in Scan
         /\ llmCalls[c].at = "building" => llmCalls[c] \in Building
         /\ llmCalls[c].at \in {"client", "keyLock"} => llmCalls[c] \in Ask
         /\ llmCalls[c].at \in {"probed", "refreshing", "sending"} => llmCalls[c] \in Keyed
         /\ llmCalls[c].at = "idle" <=> llmCalls[c] = NotCalling
<1>1. llmCalls[c] \in {NotCalling} \cup Scan \cup Building \cup Ask \cup Keyed
  BY DEF LlmTypeOK
<1>2. CASE llmCalls[c] = NotCalling
  BY <1>2 DEF NotCalling
<1>3. CASE llmCalls[c] \in Scan
  BY <1>3 DEF Scan, NotCalling
<1>4. CASE llmCalls[c] \in Building
  BY <1>4 DEF Building, NotCalling
<1>5. CASE llmCalls[c] \in Ask
  BY <1>5 DEF Ask, NotCalling
<1>6. CASE llmCalls[c] \in Keyed
  BY <1>6 DEF Keyed, NotCalling
<1> QED BY <1>1, <1>2, <1>3, <1>4, <1>5, <1>6

\* Where a call goes keeps its type: it keeps its role and the row it began with.
LEMMA GoesKeepsType ==
  ASSUME LlmTypeOK, NEW c \in LlmCalls, llmCalls[c].at # "idle"
  PROVE  /\ Role(c) \in LlmRoles /\ llmCalls[c].began \in Setting
         /\ \A at \in {"client", "keyLock"} :
              Goes(c, at) => llmCalls' \in [LlmCalls -> LlmCallType]
         /\ \A at \in {"probed", "refreshing", "sending"}, key \in Rotated :
              GoesWith(c, at, key) => llmCalls' \in [LlmCalls -> LlmCallType]
         /\ Throws(c) => llmCalls' \in [LlmCalls -> LlmCallType]
<1>1. llmCalls \in [LlmCalls -> LlmCallType]
  BY DEF LlmTypeOK, LlmCallType
<1>2. Role(c) \in LlmRoles /\ llmCalls[c].began \in Setting
  <2>1. llmCalls[c] \in Scan \cup Building \cup Ask \cup Keyed
    BY CallFields, <1>1 DEF LlmCallType
  <2> QED BY <2>1 DEF Scan, Building, Ask, Keyed, Role
<1>3. ASSUME NEW at \in {"client", "keyLock"}, Goes(c, at)
      PROVE  llmCalls' \in [LlmCalls -> LlmCallType]
  <2>1. [at |-> at, role |-> Role(c), began |-> llmCalls[c].began] \in Ask
    BY <1>2 DEF Ask
  <2> QED BY <1>1, <1>3, <2>1 DEF Goes, LlmCallType
<1>4. ASSUME NEW at \in {"probed", "refreshing", "sending"}, NEW key \in Rotated,
             GoesWith(c, at, key)
      PROVE  llmCalls' \in [LlmCalls -> LlmCallType]
  <2>1. [at |-> at, role |-> Role(c), began |-> llmCalls[c].began, key |-> key] \in Keyed
    BY <1>2 DEF Keyed
  <2> QED BY <1>1, <1>4, <2>1 DEF GoesWith, LlmCallType
<1>5. Throws(c) => llmCalls' \in [LlmCalls -> LlmCallType]
  BY <1>1 DEF Throws, LlmCallType
<1> QED BY <1>2, <1>3, <1>4, <1>5

\* The admin's saves and the passing of time keep the types.
LEMMA SettingsTypeStep ==
  ASSUME LlmTypeOK, NEW r \in LlmRoles,
         \/ \E on \in BOOLEAN : SaveSettings(r, on)
         \/ KeyExpires(r) \/ FailsTooLong(r)
  PROVE  LlmTypeOK'
<1> USE LastRotationIsNat DEF LlmTypeOK
<1>1. ASSUME NEW on \in BOOLEAN, SaveSettings(r, on) PROVE LlmTypeOK'
  <2>1. Saved(r, on) \in Setting
    <3>1. settings[r] \in Setting
      OBVIOUS
    <3> QED BY <1>1, <3>1 DEF SaveSettings, Saved, Setting, Rotated
  <2> QED BY <1>1, <2>1 DEF SaveSettings, clientCache, keyCache
<1>2. CASE KeyExpires(r)
  <2>1. [keys[r] EXCEPT !.fresh = FALSE] \in [key : Rotated, fresh : BOOLEAN]
    BY <1>2 DEF KeyExpires, IsFresh
  <2> QED BY <1>2, <2>1 DEF KeyExpires, clientCache
<1>3. CASE FailsTooLong(r)
  BY <1>3 DEF FailsTooLong, clientCache
<1> QED BY <1>1, <1>2, <1>3

\* forRole keeps the types.
LEMMA ClientTypeStep ==
  ASSUME LlmTypeOK, NEW c \in LlmCalls,
         \/ \E r \in LlmRoles : ReadRotationFingerprint(c, r)
         \/ UseClient(c) \/ ReadClientSettings(c) \/ BuildClient(c) \/ BuildFails(c)
  PROVE  LlmTypeOK'
<1>1. llmCalls \in [LlmCalls -> LlmCallType]
  BY DEF LlmTypeOK, LlmCallType
<1>2. LlmTypeOK' <=>
        /\ settings' \in [LlmRoles -> Setting]
        /\ clients' \in [LlmRoles -> {NotCached} \cup [key : Rotated, scan : Fingerprints]]
        /\ clientQueue' \in Seq(LlmCalls)
        /\ keys' \in [LlmRoles -> {NotCached} \cup [key : Rotated, fresh : BOOLEAN]]
        /\ rotationSeen' \in Fingerprints
        /\ refreshFails' \in [LlmRoles -> {"no", "recently", "hardStale"}]
        /\ keyQueues' \in [LlmRoles -> Seq(LlmCalls)]
        /\ llmCalls' \in [LlmCalls -> LlmCallType]
        /\ storedLate' \in [LlmRoles -> BOOLEAN]
  BY DEF LlmTypeOK, LlmCallType
<1>3. ASSUME NEW r \in LlmRoles, ReadRotationFingerprint(c, r) PROVE LlmTypeOK'
  <2>1. [at |-> "scanned", role |-> r, scan |-> Rotations, began |-> settings[r]] \in Scan
    BY DEF Scan, Rotations, Fingerprints, LlmTypeOK, Setting
  <2>2. llmCalls' \in [LlmCalls -> LlmCallType]
    BY <1>1, <1>3, <2>1 DEF ReadRotationFingerprint, LlmCallType
  <2> QED BY <1>2, <1>3, <2>2 DEF ReadRotationFingerprint, clientCache, keyCache, LlmTypeOK
<1>4. ClientLocked(c) /\ (UNCHANGED clientQueue \/ UnlockClients) =>
        clientQueue' \in Seq(LlmCalls)
  <2>1. clientQueue \in Seq(LlmCalls)
    BY DEF LlmTypeOK
  <2>2. clientQueue # <<>> => Tail(clientQueue) \in Seq(LlmCalls)
    BY <2>1
  <2> QED BY <2>1, <2>2 DEF ClientLocked, UnlockClients
<1>5. CASE UseClient(c)
  <2>1. llmCalls[c] \in Scan
    BY <1>5, CallFields DEF UseClient, At
  <2>2. llmCalls' \in [LlmCalls -> LlmCallType]
    <3>1. CASE Goes(c, "client")
      BY <1>5, <3>1, GoesKeepsType DEF UseClient, At
    <3>2. CASE llmCalls' = [llmCalls EXCEPT ![c].at = "clientLock"]
      <4>1. [llmCalls[c] EXCEPT !.at = "clientLock"] \in Scan
        BY <2>1 DEF Scan
      <4> QED BY <1>1, <3>2, <4>1 DEF LlmCallType
    <3> QED BY <1>5, <3>1, <3>2 DEF UseClient
  <2>3. clientQueue' \in Seq(LlmCalls)
    <3>1. Append(clientQueue, c) \in Seq(LlmCalls) /\ clientQueue \in Seq(LlmCalls)
      BY DEF LlmTypeOK
    <3>2. clientQueue' = Append(clientQueue, c) \/ clientQueue' = clientQueue
      BY <1>5 DEF UseClient
    <3> QED BY <3>1, <3>2
  <2> QED BY <1>2, <1>5, <2>2, <2>3 DEF UseClient, keyCache, LlmTypeOK
<1>6. CASE ReadClientSettings(c)
  <2>1. llmCalls[c] \in Scan
    BY <1>6, CallFields DEF ReadClientSettings, At
  <2>2. llmCalls' \in [LlmCalls -> LlmCallType]
    <3>1. CASE Goes(c, "client")
      BY <1>6, <3>1, GoesKeepsType DEF ReadClientSettings, At
    <3>2. CASE Throws(c)
      BY <1>6, <3>2, GoesKeepsType DEF ReadClientSettings, At
    <3>3. CASE llmCalls' = [llmCalls EXCEPT ![c] =
             [at |-> "building", role |-> Role(c), scan |-> @.scan, began |-> @.began,
              key |-> settings[Role(c)].key]]
      <4>1. [at |-> "building", role |-> Role(c), scan |-> llmCalls[c].scan,
             began |-> llmCalls[c].began, key |-> settings[Role(c)].key] \in Building
        BY <2>1 DEF Scan, Building, Role, LlmTypeOK, Setting
      <4> QED BY <1>1, <3>3, <4>1 DEF LlmCallType
    <3> QED BY <1>6, <3>1, <3>2, <3>3 DEF ReadClientSettings
  <2>3. clientQueue' \in Seq(LlmCalls)
    BY <1>4, <1>6 DEF ReadClientSettings
  <2> QED BY <1>2, <1>6, <2>2, <2>3 DEF ReadClientSettings, keyCache, LlmTypeOK
<1>7. CASE BuildClient(c)
  <2>1. llmCalls[c] \in Building
    BY <1>7, CallFields DEF BuildClient, At
  <2>2. [key |-> llmCalls[c].key, scan |-> BuiltUnder(c)] \in [key : Rotated, scan : Fingerprints]
    BY <2>1 DEF Building, BuiltUnder
  <2>3. clients' \in [LlmRoles -> {NotCached} \cup [key : Rotated, scan : Fingerprints]]
    BY <1>7, <2>2 DEF BuildClient, LlmTypeOK
  <2>4. llmCalls' \in [LlmCalls -> LlmCallType]
    BY <1>7, GoesKeepsType DEF BuildClient, At
  <2>5. clientQueue' \in Seq(LlmCalls)
    BY <1>4, <1>7 DEF BuildClient
  <2> QED BY <1>2, <1>7, <2>3, <2>4, <2>5 DEF BuildClient, keyCache, LlmTypeOK
<1>8. CASE BuildFails(c)
  <2>1. llmCalls' \in [LlmCalls -> LlmCallType]
    BY <1>8, GoesKeepsType DEF BuildFails, At
  <2>2. clientQueue' \in Seq(LlmCalls)
    BY <1>4, <1>8 DEF BuildFails
  <2> QED BY <1>2, <1>8, <2>1, <2>2 DEF BuildFails, keyCache, LlmTypeOK
<1> QED BY <1>3, <1>5, <1>6, <1>7, <1>8

\* current() keeps the types.
LEMMA KeyTypeStep ==
  ASSUME LlmTypeOK, NEW c \in LlmCalls,
         \/ ReadLastRotatedAt(c) \/ CheckRotation(c) \/ ReadKeySettings(c)
         \/ StoreKey(c) \/ RefreshFails(c) \/ ModelAnswers(c)
  PROVE  LlmTypeOK'
<1>1. llmCalls[c].at # "idle"
  BY DEF ReadLastRotatedAt, CheckRotation, ReadKeySettings, StoreKey, RefreshFails,
         ModelAnswers, At
<1>2. Role(c) \in LlmRoles
  BY <1>1, GoesKeepsType
<1>3. settings[Role(c)].key \in Rotated /\ rotationSeen[Role(c)] \in Rotated
  BY <1>2 DEF LlmTypeOK, Setting, Fingerprints
<1>4. keys[Role(c)].key \in Rotated
  <2>1. keys[Role(c)] \in {NotCached} \cup [key : Rotated, fresh : BOOLEAN]
    BY <1>2 DEF LlmTypeOK
  <2> QED BY <2>1, LastRotationIsNat DEF NotCached, Rotated
<1>5. LlmTypeOK' <=>
        /\ settings' \in [LlmRoles -> Setting]
        /\ clients' \in [LlmRoles -> {NotCached} \cup [key : Rotated, scan : Fingerprints]]
        /\ clientQueue' \in Seq(LlmCalls)
        /\ keys' \in [LlmRoles -> {NotCached} \cup [key : Rotated, fresh : BOOLEAN]]
        /\ rotationSeen' \in Fingerprints
        /\ refreshFails' \in [LlmRoles -> {"no", "recently", "hardStale"}]
        /\ keyQueues' \in [LlmRoles -> Seq(LlmCalls)]
        /\ llmCalls' \in [LlmCalls -> LlmCallType]
        /\ storedLate' \in [LlmRoles -> BOOLEAN]
  BY DEF LlmTypeOK, LlmCallType
<1>6. KeyLocked(c) /\ UnlockKey(c) => keyQueues' \in [LlmRoles -> Seq(LlmCalls)]
  <2>1. keyQueues[Role(c)] \in Seq(LlmCalls)
    BY <1>2 DEF LlmTypeOK
  <2>2. keyQueues[Role(c)] # <<>> => Tail(keyQueues[Role(c)]) \in Seq(LlmCalls)
    BY <2>1
  <2> QED BY <2>2 DEF KeyLocked, UnlockKey, LlmTypeOK
<1>7. CASE ReadLastRotatedAt(c)
  <2>1. llmCalls' \in [LlmCalls -> LlmCallType]
    BY <1>1, <1>3, <1>7, GoesKeepsType DEF ReadLastRotatedAt
  <2> QED BY <1>5, <1>7, <2>1 DEF ReadLastRotatedAt, clientCache, keyCache, LlmTypeOK
<1>8. CASE CheckRotation(c)
  <2>1. llmCalls[c].key \in Rotated
    BY <1>8, CallFields DEF CheckRotation, At, Keyed
  <2>2. rotationSeen' \in Fingerprints
    BY <1>2, <1>8, <2>1 DEF CheckRotation, LlmTypeOK, Fingerprints
  <2>3. keys' \in [LlmRoles -> {NotCached} \cup [key : Rotated, fresh : BOOLEAN]]
    BY <1>2, <1>8 DEF CheckRotation, KeyAfterProbe, LlmTypeOK
  <2>4. llmCalls' \in [LlmCalls -> LlmCallType]
    BY <1>1, <1>4, <1>8, GoesKeepsType DEF CheckRotation
  <2>5. keyQueues' \in [LlmRoles -> Seq(LlmCalls)]
    <3>1. keyQueues \in [LlmRoles -> Seq(LlmCalls)]
      BY DEF LlmTypeOK
    <3>2. keyQueues[Role(c)] \in Seq(LlmCalls)
      BY <1>2, <3>1
    <3>3. Append(keyQueues[Role(c)], c) \in Seq(LlmCalls)
      BY <3>2
    <3>4. \/ keyQueues' = keyQueues
          \/ keyQueues' = [keyQueues EXCEPT ![Role(c)] = Append(keyQueues[Role(c)], c)]
      BY <1>8 DEF CheckRotation
    <3> QED BY <3>1, <3>3, <3>4
  <2> QED BY <1>5, <1>8, <2>2, <2>3, <2>4, <2>5 DEF CheckRotation, clientCache, LlmTypeOK
<1>9. CASE ReadKeySettings(c)
  <2>1. llmCalls' \in [LlmCalls -> LlmCallType]
    BY <1>1, <1>3, <1>4, <1>9, GoesKeepsType DEF ReadKeySettings
  <2>2. keyQueues' \in [LlmRoles -> Seq(LlmCalls)]
    <3>1. KeyLocked(c) /\ (UnlockKey(c) \/ UNCHANGED keyQueues)
      BY <1>9 DEF ReadKeySettings
    <3> QED BY <1>6, <3>1 DEF LlmTypeOK
  <2> QED BY <1>5, <1>9, <2>1, <2>2 DEF ReadKeySettings, clientCache, LlmTypeOK
<1>10. CASE StoreKey(c)
  <2>1. llmCalls[c].key \in Rotated
    BY <1>10, CallFields DEF StoreKey, At, Keyed
  <2>2. llmCalls' \in [LlmCalls -> LlmCallType]
    BY <1>1, <1>10, <2>1, GoesKeepsType DEF StoreKey
  <2>3. keyQueues' \in [LlmRoles -> Seq(LlmCalls)]
    BY <1>6, <1>10 DEF StoreKey
  <2>4. [key |-> llmCalls[c].key, fresh |-> TRUE] \in [key : Rotated, fresh : BOOLEAN]
    BY <2>1
  <2>5. keys' \in [LlmRoles -> {NotCached} \cup [key : Rotated, fresh : BOOLEAN]]
    BY <1>10, <2>4 DEF StoreKey, LlmTypeOK
  <2>6. storedLate' \in [LlmRoles -> BOOLEAN]
    <3>1. (llmCalls[c].key < rotationSeen[Role(c)]) \in BOOLEAN
      OBVIOUS
    <3>2. storedLate' = [storedLate EXCEPT ![Role(c)] = llmCalls[c].key < rotationSeen[Role(c)]]
      BY <1>10 DEF StoreKey
    <3> QED BY <3>1, <3>2, Zenon DEF LlmTypeOK
  <2> QED BY <1>5, <1>10, <2>2, <2>3, <2>5, <2>6 DEF StoreKey, clientCache, LlmTypeOK
<1>11. CASE RefreshFails(c)
  <2>1. llmCalls' \in [LlmCalls -> LlmCallType]
    BY <1>1, <1>4, <1>11, GoesKeepsType DEF RefreshFails
  <2>2. keyQueues' \in [LlmRoles -> Seq(LlmCalls)]
    BY <1>6, <1>11 DEF RefreshFails
  <2> QED BY <1>5, <1>11, <2>1, <2>2 DEF RefreshFails, clientCache, LlmTypeOK
<1>12. CASE ModelAnswers(c)
  <2>1. llmCalls' \in [LlmCalls -> LlmCallType]
    BY <1>1, <1>12, GoesKeepsType DEF ModelAnswers
  <2> QED BY <1>5, <1>12, <2>1 DEF ModelAnswers, clientCache, keyCache, LlmTypeOK
<1> QED BY <1>7, <1>8, <1>9, <1>10, <1>11, <1>12

LEMMA LlmTypeStep == LlmTypeOK /\ [LlmNext]_llmVars => LlmTypeOK'
<1> SUFFICES ASSUME LlmTypeOK, [LlmNext]_llmVars PROVE LlmTypeOK'
    OBVIOUS
<1>1. CASE UNCHANGED llmVars
  BY <1>1 DEF llmVars, LlmTypeOK
<1> QED BY <1>1, SettingsTypeStep, ClientTypeStep, KeyTypeStep DEF LlmNext

LEMMA LlmTypeInit == LlmInit => LlmTypeOK
  BY LastRotationIsNat DEF LlmInit, LlmTypeOK, Setting, Rotated, NotCached, Fingerprints,
     NotCalling

\* What is known of a call is kept by a step that keeps the call and the rows.
LEMMA OthersKnow ==
  ASSUME NEW c \in LlmCalls, CallKnows(c), llmCalls'[c] = llmCalls[c], UNCHANGED settings
  PROVE  CallKnows(c)'
  BY DEF CallKnows

\* A save makes the row newer than anything that was read of it.
LEMMA SaveKnows ==
  ASSUME LlmInv, NEW r \in LlmRoles, NEW on \in BOOLEAN, SaveSettings(r, on)
  PROVE  LlmInv'
<1>1. LlmTypeOK'
  BY SettingsTypeStep DEF LlmInv
<1>2. \A s \in LlmRoles :
        /\ settings[s] \in Setting /\ settings'[s] \in Setting
        /\ settings'[s] = settings[s] \/ settings'[s].key > settings[s].key
  BY LastRotationIsNat, <1>1 DEF LlmInv, LlmTypeOK, SaveSettings, Saved, Setting, Rotated
<1>3. ASSUME NEW c \in LlmCalls PROVE CallKnows(c)'
  <2>1. CallKnows(c) /\ llmCalls' = llmCalls
    BY DEF LlmInv, SaveSettings
  <2>2. CASE llmCalls[c] = NotCalling
    BY <2>1, <2>2 DEF CallKnows
  <2>3. CASE llmCalls[c] # NotCalling
    <3> DEFINE call == llmCalls[c]
    <3>1. /\ call \in Scan \cup Building \cup Ask \cup Keyed
          /\ call.at = "building" => call \in Building
      BY <2>3, CallFields DEF LlmInv, LlmTypeOK
    <3>2. call.role \in LlmRoles /\ call.began \in Setting
      BY <3>1 DEF Scan, Building, Ask, Keyed
    <3>3. call.began.key \in Int /\ (call.at = "building" => call.key \in Int)
      BY LastRotationIsNat, <3>1, <3>2 DEF Building, Setting, Rotated
    <3>4. /\ settings[call.role].key \in Int /\ settings'[call.role].key \in Int
          /\ \/ settings'[call.role] = settings[call.role]
             \/ settings'[call.role].key > settings[call.role].key
      BY LastRotationIsNat, <1>2, <3>2 DEF Setting, Rotated
    <3> QED BY <2>1, <2>3, <3>3, <3>4 DEF CallKnows
  <2> QED BY <2>2, <2>3
<1>4. ASSUME NEW s \in LlmRoles PROVE ClientKnows(s)'
  <2>1. ClientKnows(s) /\ clients' = clients
    BY DEF LlmInv, SaveSettings, clientCache
  <2>2. clients[s] # NotCached => clients[s].key \in Int /\ clients[s].scan[s] \in Int
    BY LastRotationIsNat DEF LlmInv, LlmTypeOK, Fingerprints, Rotated
  <2>3. settings[s].key \in Int /\ settings'[s].key \in Int
    BY LastRotationIsNat, <1>2 DEF Setting, Rotated
  <2> QED BY <1>2, <2>1, <2>2, <2>3 DEF ClientKnows
<1> QED BY <1>1, <1>3, <1>4 DEF LlmInv

\* A call that goes on with the row it began with knows what it knew, if the
\* row was saved since it was read off.
LEMMA GoesKnows ==
  ASSUME LlmInv, NEW c \in LlmCalls, llmCalls[c].at # "idle", UNCHANGED settings,
         ~llmCalls[c].began.on => settings[Role(c)].key > llmCalls[c].began.key,
         \/ \E at \in {"client", "keyLock"} : Goes(c, at)
         \/ \E at \in {"probed", "refreshing", "sending"}, key \in Rotated :
              GoesWith(c, at, key)
  PROVE  CallKnows(c)'
<1>1. CallKnows(c) /\ llmCalls[c] # NotCalling
  BY CallFields DEF LlmInv
<1>2. /\ llmCalls'[c].role = Role(c) /\ llmCalls'[c].began = llmCalls[c].began
      /\ llmCalls'[c].at \in {"client", "keyLock", "probed", "refreshing", "sending"}
  BY DEF Goes, GoesWith, LlmInv, LlmTypeOK
<1> QED BY <1>1, <1>2 DEF CallKnows, Role

\* A call that ends knows nothing.
LEMMA ThrowsKnows ==
  ASSUME LlmInv, NEW c \in LlmCalls, Throws(c)
  PROVE  CallKnows(c)'
  BY DEF Throws, CallKnows, LlmInv, LlmTypeOK

\* The other calls and the clients are as they were.
LEMMA CallSuffices ==
  ASSUME LlmInv, LlmTypeOK', NEW c \in LlmCalls, UNCHANGED <<settings, clients>>,
         \A d \in LlmCalls \ {c} : llmCalls'[d] = llmCalls[d],
         CallKnows(c)'
  PROVE  LlmInv'
<1>1. ASSUME NEW d \in LlmCalls PROVE CallKnows(d)'
  <2>1. CASE d # c
    <3>1. CallKnows(d) /\ llmCalls'[d] = llmCalls[d]
      BY <2>1 DEF LlmInv
    <3> QED BY <3>1, OthersKnow
  <2> QED BY <2>1
<1>2. ASSUME NEW r \in LlmRoles PROVE ClientKnows(r)'
  BY DEF LlmInv, ClientKnows
<1> QED BY <1>1, <1>2 DEF LlmInv

LEMMA ScanStep ==
  ASSUME LlmInv, NEW c \in LlmCalls, NEW r \in LlmRoles, ReadRotationFingerprint(c, r)
  PROVE  LlmInv'
<1>1. LlmTypeOK'
  BY ClientTypeStep DEF LlmInv
<1>2. llmCalls'[c] =
        [at |-> "scanned", role |-> r, scan |-> Rotations, began |-> settings[r]]
  BY DEF ReadRotationFingerprint, LlmInv, LlmTypeOK
<1>3. Rotations[r] = settings[r].key /\ settings[r].key \in Int
  BY LastRotationIsNat DEF Rotations, LlmInv, LlmTypeOK, Setting, Rotated
<1>4. CallKnows(c)'
  BY <1>2, <1>3 DEF CallKnows, ReadRotationFingerprint
<1> QED BY <1>1, <1>4, CallSuffices DEF ReadRotationFingerprint, clientCache

\* The client in the slot was built under the same scan: the row was on then.
LEMMA HitKnows ==
  ASSUME LlmInv, NEW c \in LlmCalls, llmCalls[c] \in Scan, HasClient(c), ~llmCalls[c].began.on
  PROVE  settings[Role(c)].key > llmCalls[c].began.key
<1> DEFINE r == Role(c)
<1>1. /\ CallKnows(c) /\ ClientKnows(r) /\ r \in LlmRoles
      /\ llmCalls[c] # NotCalling /\ llmCalls[c].at \in {"scanned", "clientLock"}
  BY DEF LlmInv, Scan, Role, NotCalling
<1>2. llmCalls[c].scan[r] = llmCalls[c].began.key /\ llmCalls[c].began.key <= settings[r].key
  BY <1>1 DEF CallKnows, Role
<1>3. /\ clients[r].scan = llmCalls[c].scan
      /\ clients[r].scan[r] <= clients[r].key /\ clients[r].key <= settings[r].key
      /\ clients[r].key = settings[r].key => settings[r].on
  BY <1>1 DEF HasClient, ClientKnows
<1>4. /\ clients[r].key \in Int /\ settings[r].key \in Int /\ llmCalls[c].began.key \in Int
  BY LastRotationIsNat, <1>1 DEF LlmInv, LlmTypeOK, HasClient, Scan, Setting, Rotated
<1>5. llmCalls[c].began.key # settings[r].key
  <2> SUFFICES ASSUME llmCalls[c].began.key = settings[r].key PROVE FALSE
      OBVIOUS
  <2>1. llmCalls[c].began = settings[r]
    BY <1>1 DEF CallKnows, Role
  <2>2. clients[r].key = settings[r].key
    BY <1>2, <1>3, <1>4
  <2> QED BY <1>3, <2>1, <2>2
<1> QED BY <1>2, <1>4, <1>5

LEMMA UseStep ==
  ASSUME LlmInv, NEW c \in LlmCalls, UseClient(c) \/ ReadClientSettings(c)
  PROVE  LlmInv'
<1>1. LlmTypeOK' /\ LlmTypeOK
  BY ClientTypeStep DEF LlmInv
<1>2. /\ llmCalls[c] \in Scan /\ llmCalls[c].at \in {"scanned", "clientLock"}
      /\ llmCalls[c].at # "idle" /\ CallKnows(c) /\ llmCalls[c] # NotCalling
  BY <1>1, CallFields DEF UseClient, ReadClientSettings, At, LlmInv
<1>3. UNCHANGED <<settings, clients>>
  BY DEF UseClient, ReadClientSettings
<1>4. ASSUME NEW d \in LlmCalls \ {c} PROVE llmCalls'[d] = llmCalls[d]
  BY <1>1 DEF UseClient, ReadClientSettings, Goes, Throws, LlmTypeOK
<1>5. CASE HasClient(c) /\ Goes(c, "client")
  <2>1. CallKnows(c)'
    BY <1>2, <1>3, <1>5, HitKnows, GoesKnows
  <2> QED BY <1>1, <1>3, <1>4, <2>1, CallSuffices
<1>6. CASE Throws(c)
  BY <1>1, <1>3, <1>4, <1>6, ThrowsKnows, CallSuffices
<1>7. CASE llmCalls' = [llmCalls EXCEPT ![c].at = "clientLock"]
  <2>1. /\ llmCalls'[c].role = llmCalls[c].role /\ llmCalls'[c].scan = llmCalls[c].scan
        /\ llmCalls'[c].began = llmCalls[c].began /\ llmCalls'[c].at = "clientLock"
    BY <1>1, <1>2, <1>7 DEF LlmTypeOK, Scan
  <2>2. CallKnows(c)'
    BY <1>2, <1>3, <2>1 DEF CallKnows
  <2> QED BY <1>1, <1>3, <1>4, <2>2, CallSuffices
<1>8. CASE /\ settings[Role(c)].on
           /\ llmCalls' = [llmCalls EXCEPT ![c] =
             [at |-> "building", role |-> Role(c), scan |-> @.scan, began |-> @.began,
              key |-> settings[Role(c)].key]]
  <2>1. llmCalls'[c] = [at |-> "building", role |-> Role(c), scan |-> llmCalls[c].scan,
                        began |-> llmCalls[c].began, key |-> settings[Role(c)].key]
    BY <1>1, <1>8 DEF LlmTypeOK
  <2>2. settings[Role(c)].key \in Int
    BY LastRotationIsNat, <1>1, <1>2 DEF LlmTypeOK, Scan, Role, Setting, Rotated
  <2>3. CallKnows(c)'
    BY <1>2, <1>3, <1>8, <2>1, <2>2 DEF CallKnows, Role
  <2> QED BY <1>1, <1>3, <1>4, <2>3, CallSuffices
<1> QED BY <1>5, <1>6, <1>7, <1>8 DEF UseClient, ReadClientSettings

LEMMA BuildStep ==
  ASSUME LlmInv, NEW c \in LlmCalls, BuildClient(c) \/ BuildFails(c)
  PROVE  LlmInv'
<1>1. LlmTypeOK' /\ LlmTypeOK
  BY ClientTypeStep DEF LlmInv
<1>2. /\ llmCalls[c] \in Building /\ llmCalls[c].at = "building" /\ llmCalls[c].at # "idle"
      /\ CallKnows(c) /\ llmCalls[c] # NotCalling /\ UNCHANGED settings
  BY <1>1, CallFields DEF BuildClient, BuildFails, At, LlmInv
<1>3. ASSUME NEW d \in LlmCalls \ {c} PROVE llmCalls'[d] = llmCalls[d]
  BY <1>1 DEF BuildClient, BuildFails, Goes, Throws, LlmTypeOK
<1>4. CASE BuildFails(c)
  BY <1>1, <1>2, <1>3, <1>4, ThrowsKnows, CallSuffices DEF BuildFails
<1>5. CASE BuildClient(c)
  <2> DEFINE r == Role(c)
  <2>1. /\ r \in LlmRoles /\ llmCalls[c].key \in Int /\ llmCalls[c].began.key \in Int
        /\ settings[r].key \in Int
    BY LastRotationIsNat, <1>1, <1>2 DEF LlmTypeOK, Building, Role, Setting, Rotated
  <2>2. /\ llmCalls[c].scan[r] = llmCalls[c].began.key
        /\ llmCalls[c].began.key <= llmCalls[c].key /\ llmCalls[c].key <= settings[r].key
        /\ llmCalls[c].key = settings[r].key => settings[r].on
        /\ llmCalls[c].began.key = settings[r].key => llmCalls[c].began = settings[r]
    BY <1>2 DEF CallKnows, Role
  <2>3. CallKnows(c)'
    <3>1. ~llmCalls[c].began.on => settings[r].key > llmCalls[c].began.key
      BY <2>1, <2>2
    <3> QED BY <1>2, <1>5, <3>1, GoesKnows DEF BuildClient
  <2>4. ASSUME NEW s \in LlmRoles PROVE ClientKnows(s)'
    <3>1. CASE s = r
      <4>1. clients'[r] = [key |-> llmCalls[c].key, scan |-> llmCalls[c].scan]
        BY <1>1, <1>5, <2>1 DEF BuildClient, BuiltUnder, LlmTypeOK
      <4> QED BY <1>2, <2>2, <3>1, <4>1 DEF ClientKnows
    <3>2. CASE s # r
      <4>1. ClientKnows(s) /\ clients'[s] = clients[s]
        BY <1>1, <1>5, <3>2 DEF BuildClient, LlmInv, LlmTypeOK
      <4> QED BY <1>2, <4>1 DEF ClientKnows
    <3> QED BY <3>1, <3>2
  <2>5. ASSUME NEW d \in LlmCalls PROVE CallKnows(d)'
    BY <1>2, <1>3, <2>3, OthersKnow DEF LlmInv
  <2> QED BY <1>1, <2>4, <2>5 DEF LlmInv
<1> QED BY <1>4, <1>5

LEMMA KeyStep ==
  ASSUME LlmInv, NEW c \in LlmCalls,
         \/ ReadLastRotatedAt(c) \/ CheckRotation(c) \/ ReadKeySettings(c)
         \/ StoreKey(c) \/ RefreshFails(c) \/ ModelAnswers(c)
  PROVE  LlmInv'
<1>1. LlmTypeOK' /\ LlmTypeOK
  BY KeyTypeStep DEF LlmInv
<1>2. /\ llmCalls[c].at \in {"client", "keyLock", "probed", "refreshing", "sending"}
      /\ llmCalls[c].at # "idle" /\ UNCHANGED <<settings, clients>>
  BY DEF ReadLastRotatedAt, CheckRotation, ReadKeySettings, StoreKey, RefreshFails,
         ModelAnswers, At, clientCache
<1>3. ~llmCalls[c].began.on => settings[Role(c)].key > llmCalls[c].began.key
  <2>1. CallKnows(c) /\ llmCalls[c] # NotCalling
    BY <1>1, <1>2, CallFields DEF LlmInv
  <2> QED BY <1>2, <2>1 DEF CallKnows, Role
<1>4. \/ Throws(c)
      \/ \E at \in {"client", "keyLock"} : Goes(c, at)
      \/ \E at \in {"probed", "refreshing", "sending"}, key \in Rotated : GoesWith(c, at, key)
  <2>1. Role(c) \in LlmRoles
    BY <1>1, <1>2, GoesKeepsType
  <2>2. settings[Role(c)].key \in Rotated
    BY <1>1, <2>1 DEF LlmTypeOK, Setting
  <2>3. keys[Role(c)].key \in Rotated
    <3>1. keys[Role(c)] \in {NotCached} \cup [key : Rotated, fresh : BOOLEAN]
      BY <1>1, <2>1 DEF LlmTypeOK
    <3> QED BY <3>1, LastRotationIsNat DEF NotCached, Rotated
  <2>4. llmCalls[c].at = "refreshing" => llmCalls[c].key \in Rotated
    BY <1>1, CallFields DEF Keyed
  <2> QED BY <2>2, <2>3, <2>4 DEF ReadLastRotatedAt, CheckRotation, ReadKeySettings, StoreKey,
             RefreshFails, ModelAnswers, At
<1>5. CallKnows(c)'
  BY <1>2, <1>3, <1>4, GoesKnows, ThrowsKnows
<1>6. ASSUME NEW d \in LlmCalls \ {c} PROVE llmCalls'[d] = llmCalls[d]
  BY <1>1, <1>4 DEF Goes, GoesWith, Throws, LlmTypeOK
<1> QED BY <1>1, <1>2, <1>5, <1>6, CallSuffices

LEMMA LlmInvStep == LlmInv /\ [LlmNext]_llmVars => LlmInv'
<1> SUFFICES ASSUME LlmInv, [LlmNext]_llmVars PROVE LlmInv'
    OBVIOUS
<1>1. LlmTypeOK'
  BY LlmTypeStep DEF LlmInv
<1>2. ASSUME UNCHANGED <<settings, clients, llmCalls>> PROVE LlmInv'
  BY <1>1, <1>2 DEF LlmInv, CallKnows, ClientKnows
<1>3. ASSUME NEW r \in LlmRoles, KeyExpires(r) \/ FailsTooLong(r) PROVE LlmInv'
  BY <1>2, <1>3 DEF KeyExpires, FailsTooLong, clientCache
<1>4. CASE UNCHANGED llmVars
  BY <1>2, <1>4 DEF llmVars
<1> QED BY <1>3, <1>4, SaveKnows, ScanStep, UseStep, BuildStep, KeyStep DEF LlmNext

LEMMA LlmInvInit == LlmInit => LlmInv
  BY LlmTypeInit DEF LlmInit, LlmInv, CallKnows, ClientKnows

LEMMA LlmInvHolds == LlmSpec => []LlmInv
  BY LlmInvInit, LlmInvStep, PTL DEF LlmSpec

\* The rows, both caches and the calls keep their types (LlmCredentials).
THEOREM LlmTypeCorrect == LlmSpec => []LlmTypeOK
<1>1. LlmInv => LlmTypeOK
  BY DEF LlmInv
<1> QED BY <1>1, LlmInvHolds, PTL

\* For any number of roles, calls and saves: a client that forRole takes for
\* current was built from the row as it is now.
THEOREM ClientIsItsFingerprintHolds == LlmSpec => []ClientIsItsFingerprint
<1>1. LlmInv => ClientIsItsFingerprint
  <2> SUFFICES ASSUME LlmInv, NEW r \in LlmRoles, clients[r] # NotCached,
                      clients[r].scan = Rotations
               PROVE  clients[r].key = settings[r].key
      BY DEF ClientIsItsFingerprint
  <2>1. ClientKnows(r) /\ clients[r].scan[r] = settings[r].key
    BY DEF LlmInv, Rotations
  <2>2. clients[r].key \in Int /\ settings[r].key \in Int
    BY LastRotationIsNat DEF LlmInv, LlmTypeOK, Setting, Rotated
  <2> QED BY <2>1, <2>2 DEF ClientKnows
<1> QED BY <1>1, LlmInvHolds, PTL

\* For any number of roles, calls and saves: a call that began after its role
\* was switched off reaches the model only if the row was saved again.
THEOREM DisabledRoleIsSilentHolds == LlmSpec => []DisabledRoleIsSilent
<1>1. LlmInv => DisabledRoleIsSilent
  <2> SUFFICES ASSUME LlmInv, NEW c \in LlmCalls, llmCalls[c].at = "sending",
                      ~llmCalls[c].began.on
               PROVE  settings[Role(c)].key > llmCalls[c].began.key
      BY DEF DisabledRoleIsSilent, At
  <2>1. CallKnows(c) /\ llmCalls[c] # NotCalling
    BY DEF LlmInv, NotCalling
  <2> QED BY <2>1 DEF CallKnows, Role
<1> QED BY <1>1, LlmInvHolds, PTL

\* For any number of roles, calls and saves: a key older than the rotation that
\* current() has seen was stored by a refresh that the rotation overtook.
THEOREM OldKeyWasStoredLateHolds == LlmSpec => []OldKeyWasStoredLate
<1> DEFINE Old(r) == keys[r] # NotCached /\ keys[r].key < rotationSeen[r] => storedLate[r]
<1>1. LlmInit => OldKeyWasStoredLate
  BY DEF LlmInit, OldKeyWasStoredLate
<1>2. LlmTypeOK /\ OldKeyWasStoredLate /\ [LlmNext]_llmVars => OldKeyWasStoredLate'
  <2> SUFFICES ASSUME LlmTypeOK, OldKeyWasStoredLate, [LlmNext]_llmVars, NEW s \in LlmRoles
               PROVE  Old(s)'
      BY DEF OldKeyWasStoredLate
  <2>1. Old(s)
    BY DEF OldKeyWasStoredLate
  <2>2. ASSUME UNCHANGED <<keys, rotationSeen, storedLate>> PROVE Old(s)'
    BY <2>1, <2>2
  <2>3. ASSUME NEW c \in LlmCalls, CheckRotation(c) PROVE Old(s)'
    <3>1. CASE s = Role(c)
      <4>1. keys'[s] = NotCached \/ (keys'[s] = keys[s] /\ rotationSeen'[s] = rotationSeen[s])
        BY <2>3, <3>1 DEF CheckRotation, KeyAfterProbe, LlmTypeOK, Fingerprints
      <4> QED BY <2>1, <2>3, <4>1 DEF CheckRotation
    <3>2. CASE s # Role(c)
      <4>1. keys'[s] = keys[s] /\ rotationSeen'[s] = rotationSeen[s]
        BY <2>3, <3>2 DEF CheckRotation, LlmTypeOK, Fingerprints
      <4> QED BY <2>1, <2>3, <4>1 DEF CheckRotation
    <3> QED BY <3>1, <3>2
  <2>4. ASSUME NEW c \in LlmCalls, StoreKey(c) PROVE Old(s)'
    <3>1. CASE s = Role(c)
      <4>1. /\ keys'[s].key = llmCalls[c].key /\ rotationSeen' = rotationSeen
            /\ storedLate'[s] = (llmCalls[c].key < rotationSeen[s])
        BY <2>4, <3>1 DEF StoreKey, LlmTypeOK
      <4> QED BY <4>1
    <3>2. CASE s # Role(c)
      <4>1. keys'[s] = keys[s] /\ storedLate'[s] = storedLate[s] /\ rotationSeen' = rotationSeen
        BY <2>4, <3>2 DEF StoreKey, LlmTypeOK
      <4> QED BY <2>1, <4>1
    <3> QED BY <3>1, <3>2
  <2>5. ASSUME NEW r \in LlmRoles, KeyExpires(r) PROVE Old(s)'
    <3>1. /\ keys[s] # NotCached \/ keys'[s] = keys[s]
          /\ keys'[s].key = keys[s].key
      BY <2>5 DEF KeyExpires, IsFresh, LlmTypeOK
    <3>2. UNCHANGED <<rotationSeen, storedLate>>
      BY <2>5 DEF KeyExpires
    <3> QED BY <2>1, <3>1, <3>2
  <2> QED BY <2>2, <2>3, <2>4, <2>5 DEF LlmNext, llmVars, SaveSettings, FailsTooLong,
             ReadRotationFingerprint, UseClient, ReadClientSettings, BuildClient, BuildFails,
             ReadLastRotatedAt, ReadKeySettings, RefreshFails, ModelAnswers, clientCache, keyCache
<1> QED BY <1>1, <1>2, LlmTypeCorrect, PTL DEF LlmSpec

-----------------------------------------------------------------------------
(* GitHubClient *)

ApiCall == [at : {"get", "wait", "mint", "minted", "send"}, account : Accounts, tries : Nat,
            latched : BOOLEAN, exchanges : Nat, signed : BOOLEAN, token : Nat]

\* The part of the types that the argument about the locks needs.
MintTypes ==
  /\ issued \in [Accounts -> Nat]
  /\ tokens \in [Accounts -> [token : Nat, fresh : BOOLEAN]]
  /\ mintQueues \in [Accounts -> Seq(Requests)]
  /\ apiCalls \in [Requests -> {NoRequestMade} \cup ApiCall]

Minting(q) == apiCalls[q].at \in {"mint", "minted"}

\* Who mints holds the lock and no token of the installation is fresh; what
\* was minted or is fresh is the newest token.
MintInv ==
  /\ MintTypes
  /\ \A q \in Requests : Minting(q) => HoldsMint(q) /\ ~IsCached(Account(q))
  /\ \A q \in Requests : Doing(q, "minted") => apiCalls[q].token = issued[Account(q)]
  /\ FreshTokenIsNewest

LEMMA ApiCallType ==
  ASSUME MintTypes, NEW q \in Requests, apiCalls[q].at # "idle"
  PROVE  apiCalls[q] \in ApiCall /\ Account(q) \in Accounts
  BY DEF MintTypes, NoRequestMade, ApiCall, Account

\* A turn more of a retry loop.
LEMMA RetryTypes ==
  ASSUME NEW c \in ApiCall
  PROVE  [c EXCEPT !.exchanges = @ + 1] \in ApiCall /\ [c EXCEPT !.tries = @ + 1] \in ApiCall
  BY DEF ApiCall

LEMMA QueueTypes ==
  ASSUME MintTypes, NEW q \in Requests, NEW a \in Accounts
  PROVE  /\ mintQueues' = [mintQueues EXCEPT ![a] = Append(@, q)] =>
              mintQueues' \in [Accounts -> Seq(Requests)]
         /\ HoldsMint(q) /\ ReleaseMint(q) /\ Account(q) = a =>
              mintQueues' \in [Accounts -> Seq(Requests)]
<1>1. mintQueues[a] \in Seq(Requests) /\ mintQueues \in [Accounts -> Seq(Requests)]
  BY DEF MintTypes
<1>2. Append(mintQueues[a], q) \in Seq(Requests)
  BY <1>1
<1>3. mintQueues[a] # <<>> => Tail(mintQueues[a]) \in Seq(Requests)
  BY <1>1
<1> QED BY <1>1, <1>2, <1>3 DEF HoldsMint, ReleaseMint

\* A step after which the request does not mint, and that stores nothing: it may
\* queue up, and the holder of the lock may release it, with a token lost.
LEMMA KeepsMint ==
  ASSUME MintInv, MintTypes', NEW q \in Requests, UNCHANGED tokens,
         UNCHANGED issued \/ (Minting(q) /\ Issue(q)),
         \A p \in Requests \ {q} : apiCalls'[p] = apiCalls[p],
         ~Minting(q)',
         \/ UNCHANGED mintQueues
         \/ \E a \in Accounts : mintQueues' = [mintQueues EXCEPT ![a] = Append(@, q)]
         \/ HoldsMint(q) /\ Account(q) \in Accounts /\ ReleaseMint(q)
  PROVE  MintInv'
<1>0. \A a \in Accounts :
        issued'[a] = issued[a] \/ (Minting(q) /\ HoldsMint(q) /\ a = Account(q) /\ ~IsCached(a))
  BY ApiCallType DEF Issue, MintInv, MintTypes, Minting
<1>1. FreshTokenIsNewest'
  BY <1>0 DEF MintInv, FreshTokenIsNewest, IsCached
<1>2. ASSUME NEW p \in Requests, Minting(p)'
      PROVE  /\ HoldsMint(p)' /\ ~IsCached(Account(p))'
             /\ Doing(p, "minted")' => apiCalls'[p].token = issued'[Account(p)']
  <2>1. /\ p # q /\ apiCalls'[p] = apiCalls[p] /\ Minting(p) /\ HoldsMint(p)
        /\ ~IsCached(Account(p)) /\ Account(p)' = Account(p)
        /\ Doing(p, "minted") => apiCalls[p].token = issued[Account(p)]
    BY <1>2 DEF MintInv, Minting, Account
  <2>2. Account(p) \in Accounts /\ mintQueues[Account(p)] \in Seq(Requests)
    BY <2>1, ApiCallType DEF MintInv, MintTypes, Minting
  <2>3. HoldsMint(p)'
    <3>1. CASE UNCHANGED mintQueues
      BY <2>1, <3>1 DEF HoldsMint
    <3>2. ASSUME NEW a \in Accounts, mintQueues' = [mintQueues EXCEPT ![a] = Append(@, q)]
          PROVE  HoldsMint(p)'
      <4>1. CASE a = Account(p)
        <5>1. mintQueues'[Account(p)] = Append(mintQueues[Account(p)], q)
          BY <2>2, <3>2, <4>1 DEF MintInv, MintTypes
        <5>2. mintQueues[Account(p)] # <<>> /\ Head(mintQueues[Account(p)]) = p
          BY <2>1 DEF HoldsMint
        <5> QED BY <2>1, <2>2, <5>1, <5>2 DEF HoldsMint
      <4>2. CASE a # Account(p)
        BY <2>1, <2>2, <3>2, <4>2 DEF HoldsMint, MintInv, MintTypes
      <4> QED BY <4>1, <4>2
    <3>3. CASE HoldsMint(q) /\ Account(q) \in Accounts /\ ReleaseMint(q)
      <4>1. Account(p) # Account(q)
        BY <2>1, <3>3 DEF HoldsMint
      <4>2. mintQueues'[Account(p)] = mintQueues[Account(p)]
        BY <2>2, <3>3, <4>1 DEF ReleaseMint, MintInv, MintTypes
      <4> QED BY <2>1, <4>2 DEF HoldsMint
    <3> QED BY <3>1, <3>2, <3>3
  <2>4. issued'[Account(p)] = issued[Account(p)]
    BY <1>0, <2>1, <2>2 DEF HoldsMint
  <2> QED BY <2>1, <2>3, <2>4 DEF IsCached, Doing
<1>3. ASSUME NEW p \in Requests, Doing(p, "minted")' PROVE Minting(p)'
  BY <1>3 DEF Doing, Minting
<1> QED BY <1>1, <1>2, <1>3 DEF MintInv

\* GitHub issues a token to who mints: the tokens of the others are of other
\* installations.
LEMMA IssueMint ==
  ASSUME MintInv, MintTypes', NEW q \in Requests, Minting(q), MayIssue(q),
         UNCHANGED <<tokens, mintQueues>>,
         \A p \in Requests \ {q} : apiCalls'[p] = apiCalls[p],
         Minting(q)', Account(q)' = Account(q),
         Doing(q, "minted")' => apiCalls'[q].token = issued'[Account(q)]
  PROVE  MintInv'
<1>1. Account(q) \in Accounts /\ HoldsMint(q) /\ ~IsCached(Account(q))
  BY ApiCallType DEF MintInv, Minting
<1>2. \A a \in Accounts \ {Account(q)} : issued'[a] = issued[a]
  BY <1>1 DEF MayIssue, Issue, MintInv, MintTypes
<1>3. FreshTokenIsNewest'
  BY <1>1, <1>2 DEF MintInv, FreshTokenIsNewest, IsCached
<1>4. ASSUME NEW p \in Requests \ {q}, Minting(p)'
      PROVE  /\ HoldsMint(p)' /\ ~IsCached(Account(p))'
             /\ Doing(p, "minted")' => apiCalls'[p].token = issued'[Account(p)']
  <2>1. /\ Minting(p) /\ HoldsMint(p) /\ ~IsCached(Account(p)) /\ Account(p)' = Account(p)
        /\ Doing(p, "minted") => apiCalls[p].token = issued[Account(p)]
    BY <1>4 DEF MintInv, Minting, Account
  <2>2. Account(p) # Account(q) /\ Account(p) \in Accounts
    BY <1>1, <2>1, ApiCallType DEF HoldsMint, MintInv, Minting
  <2> QED BY <1>2, <2>1, <2>2 DEF HoldsMint, IsCached, Doing
<1>5. HoldsMint(q)' /\ ~IsCached(Account(q))'
  BY <1>1 DEF HoldsMint, IsCached
<1>6. ASSUME NEW p \in Requests, Doing(p, "minted")' PROVE Minting(p)'
  BY <1>6 DEF Doing, Minting
<1> QED BY <1>3, <1>4, <1>5, <1>6 DEF MintInv

\* A step keeps the types.
LEMMA MintTypeStep ==
  ASSUME MintInv, [GitHubClientNext]_githubVars
  PROVE  MintTypes'
<1> USE DEF tokenCache
<1>1. /\ issued \in [Accounts -> Nat]
      /\ tokens \in [Accounts -> [token : Nat, fresh : BOOLEAN]]
      /\ mintQueues \in [Accounts -> Seq(Requests)]
      /\ apiCalls \in [Requests -> {NoRequestMade} \cup ApiCall]
      /\ MintTypes
  BY DEF MintInv, MintTypes
<1>2. \A q \in Requests : apiCalls[q].at # "idle" =>
        apiCalls[q] \in ApiCall /\ Account(q) \in Accounts
  BY <1>1, ApiCallType
<1>3. \A q \in Requests : Ends(q) => apiCalls' \in [Requests -> {NoRequestMade} \cup ApiCall]
  BY <1>1 DEF Ends
<1>4. \A q \in Requests : apiCalls[q].at # "idle" /\ Sends(q, tokens[Account(q)].token) =>
        apiCalls' \in [Requests -> {NoRequestMade} \cup ApiCall]
  <2> SUFFICES ASSUME NEW q \in Requests, apiCalls[q].at # "idle",
                      Sends(q, tokens[Account(q)].token)
               PROVE  apiCalls' \in [Requests -> {NoRequestMade} \cup ApiCall]
      OBVIOUS
  <2>1. tokens[Account(q)].token \in Nat
    BY <1>1, <1>2
  <2>2. [[[[apiCalls[q] EXCEPT !.at = "send"] EXCEPT !.token = tokens[Account(q)].token]
           EXCEPT !.exchanges = 0] EXCEPT !.signed = FALSE] \in ApiCall
    BY <1>2, <2>1 DEF ApiCall
  <2> QED BY <1>1, <1>2, <2>1, <2>2 DEF Sends, ApiCall
<1>5. \A q \in Requests : apiCalls[q].at \in {"mint"} /\ MayIssue(q) =>
        issued' \in [Accounts -> Nat]
  <2> SUFFICES ASSUME NEW q \in Requests, apiCalls[q].at = "mint", MayIssue(q)
               PROVE  issued' \in [Accounts -> Nat]
      OBVIOUS
  <2>1. Account(q) \in Accounts /\ issued[Account(q)] + 1 \in Nat
    BY <1>1, <1>2
  <2> QED BY <1>1, <2>1 DEF MayIssue, Issue
<1>6. ASSUME NEW q \in Requests, NEW a \in Accounts, StartRequest(q, a) PROVE MintTypes'
  <2>1. [at |-> "get", account |-> a, tries |-> 0, latched |-> FALSE,
         exchanges |-> 0, signed |-> FALSE, token |-> 0] \in ApiCall
    BY DEF ApiCall
  <2> QED BY <1>1, <1>6, <2>1 DEF StartRequest, MintTypes
<1>7. ASSUME NEW q \in Requests, GetToken(q) PROVE MintTypes'
  <2>1. apiCalls' \in [Requests -> {NoRequestMade} \cup ApiCall]
    <3>1. CASE apiCalls' = [apiCalls EXCEPT ![q].at = "wait"]
      <4>1. [apiCalls[q] EXCEPT !.at = "wait"] \in ApiCall
        BY <1>2, <1>7 DEF GetToken, Doing, ApiCall
      <4> QED BY <1>1, <3>1, <4>1
    <3> QED BY <1>3, <1>4, <1>7, <3>1 DEF GetToken, Doing
  <2>2. mintQueues' \in [Accounts -> Seq(Requests)]
    <3>1. Account(q) \in Accounts
      BY <1>2, <1>7 DEF GetToken, Doing
    <3> QED BY <1>1, <1>7, <3>1, QueueTypes DEF GetToken
  <2> QED BY <1>1, <1>7, <2>1, <2>2 DEF GetToken, Touch, MintTypes
<1>8. ASSUME NEW q \in Requests, TakeMint(q) PROVE MintTypes'
  <2>1. apiCalls' \in [Requests -> {NoRequestMade} \cup ApiCall]
    <3>1. CASE apiCalls' = [apiCalls EXCEPT ![q].at = "mint"]
      <4>1. [apiCalls[q] EXCEPT !.at = "mint"] \in ApiCall
        BY <1>2, <1>8 DEF TakeMint, Doing, ApiCall
      <4> QED BY <1>1, <3>1, <4>1
    <3> QED BY <1>4, <1>8, <3>1 DEF TakeMint, Doing
  <2>2. mintQueues' \in [Accounts -> Seq(Requests)]
    <3>1. Account(q) \in Accounts
      BY <1>2, <1>8 DEF TakeMint, Doing
    <3> QED BY <1>1, <1>8, <3>1, QueueTypes DEF TakeMint
  <2> QED BY <1>1, <1>8, <2>1, <2>2 DEF TakeMint, Touch, MintTypes
<1>9. ASSUME NEW q \in Requests, ExchangeAnswers(q) PROVE MintTypes'
  <2>1. issued' \in [Accounts -> Nat]
    BY <1>5, <1>9 DEF ExchangeAnswers, Doing, MayIssue
  <2>2. issued'[Account(q)] \in Nat
    BY <1>2, <1>9, <2>1 DEF ExchangeAnswers, Doing
  <2>3. [[apiCalls[q] EXCEPT !.at = "minted"] EXCEPT !.token = issued'[Account(q)]] \in ApiCall
    BY <1>2, <1>9, <2>2 DEF ExchangeAnswers, Doing, ApiCall
  <2>4. apiCalls' = [apiCalls EXCEPT ![q] =
          [[apiCalls[q] EXCEPT !.at = "minted"] EXCEPT !.token = issued'[Account(q)]]]
    BY <1>1, <1>2, <1>9 DEF ExchangeAnswers, Doing, ApiCall
  <2> QED BY <1>1, <1>9, <2>1, <2>3, <2>4 DEF ExchangeAnswers, MintTypes
<1>10. \A q \in Requests : apiCalls[q].at \in {"mint", "minted"} /\ ReleaseMint(q) =>
         mintQueues' \in [Accounts -> Seq(Requests)]
  BY <1>1, <1>2, QueueTypes DEF MintInv, Minting
<1>11. ASSUME NEW q \in Requests, ExchangeFails(q) PROVE MintTypes'
  <2>1. issued' \in [Accounts -> Nat]
    BY <1>5, <1>11 DEF ExchangeFails, Doing
  <2>2. CASE MintEnds(q)
    BY <1>1, <1>3, <1>10, <1>11, <2>1, <2>2 DEF ExchangeFails, Doing, MintEnds, MintTypes
  <2>3. CASE apiCalls' = [apiCalls EXCEPT ![q].exchanges = @ + 1] /\ UNCHANGED mintQueues
    <3>1. [apiCalls[q] EXCEPT !.exchanges = @ + 1] \in ApiCall
      BY <1>2, <1>11 DEF ExchangeFails, Doing, ApiCall
    <3> QED BY <1>1, <1>11, <2>1, <2>3, <3>1 DEF ExchangeFails, MintTypes
  <2> QED BY <1>11, <2>2, <2>3 DEF ExchangeFails
<1>12. ASSUME NEW q \in Requests, ExchangeUnauthorized(q) PROVE MintTypes'
  <2>1. CASE MintEnds(q)
    BY <1>1, <1>3, <1>10, <1>12, <2>1 DEF ExchangeUnauthorized, Doing, MintEnds, MintTypes
  <2>2. CASE /\ apiCalls' = [apiCalls EXCEPT ![q].signed = TRUE, ![q].exchanges = @ + 1]
             /\ UNCHANGED mintQueues
    <3>1. [[apiCalls[q] EXCEPT !.signed = TRUE] EXCEPT !.exchanges = @ + 1] \in ApiCall
      <4>1. apiCalls[q] \in ApiCall
        BY <1>2, <1>12 DEF ExchangeUnauthorized, Doing
      <4>2. [apiCalls[q] EXCEPT !.signed = TRUE] \in ApiCall
        BY <4>1 DEF ApiCall
      <4> QED BY <4>2, RetryTypes
    <3>2. apiCalls' = [apiCalls EXCEPT ![q] =
            [[apiCalls[q] EXCEPT !.signed = TRUE] EXCEPT !.exchanges = @ + 1]]
      BY <1>1, <1>2, <1>12, <2>2 DEF ExchangeUnauthorized, Doing, ApiCall
    <3> QED BY <1>1, <1>12, <2>2, <3>1, <3>2 DEF ExchangeUnauthorized, MintTypes
  <2> QED BY <1>12, <2>1, <2>2 DEF ExchangeUnauthorized
<1>13. ASSUME NEW q \in Requests, ExchangeRefused(q) PROVE MintTypes'
  <2>1. issued' \in [Accounts -> Nat]
    BY <1>5, <1>13 DEF ExchangeRefused, Doing
  <2> QED BY <1>1, <1>3, <1>10, <1>13, <2>1 DEF ExchangeRefused, Doing, MintEnds, MintTypes
<1>14. ASSUME NEW q \in Requests, CachePut(q) PROVE MintTypes'
  <2>1. apiCalls[q] \in ApiCall /\ apiCalls[q].token \in Nat
    BY <1>2, <1>14 DEF CachePut, Doing, ApiCall
  <2>2. apiCalls' \in [Requests -> {NoRequestMade} \cup ApiCall]
    <3>1. [[[[apiCalls[q] EXCEPT !.at = "send"] EXCEPT !.token = apiCalls[q].token]
             EXCEPT !.exchanges = 0] EXCEPT !.signed = FALSE] \in ApiCall
      BY <2>1 DEF ApiCall
    <3> QED BY <1>1, <1>14, <2>1, <3>1 DEF CachePut, Sends, ApiCall
  <2>3. tokens' \in [Accounts -> [token : Nat, fresh : BOOLEAN]]
    BY <1>1, <1>14, <2>1 DEF CachePut, StoreToken, NoToken
  <2>4. mintQueues' \in [Accounts -> Seq(Requests)]
    BY <1>10, <1>14 DEF CachePut, Doing
  <2> QED BY <1>1, <1>14, <2>2, <2>3, <2>4 DEF CachePut, MintTypes
<1>15. ASSUME NEW q \in Requests, RequestEnds(q) \/ LoopExits(q) PROVE MintTypes'
  BY <1>1, <1>3, <1>15 DEF RequestEnds, LoopExits, MintTypes
<1>16. ASSUME NEW q \in Requests, Unavailable(q) PROVE MintTypes'
  <2>1. [apiCalls[q] EXCEPT !.tries = @ + 1] \in ApiCall
    BY <1>2, <1>16 DEF Unavailable, Doing, ApiCall
  <2> QED BY <1>1, <1>16, <2>1 DEF Unavailable, MintTypes
<1>17. ASSUME NEW q \in Requests, Unauthorized(q) PROVE MintTypes'
  <2> DEFINE next == [[[[apiCalls[q] EXCEPT !.at = "get"] EXCEPT !.latched = TRUE]
                        EXCEPT !.token = 0] EXCEPT !.tries = @ + 1]
  <2>1. next \in ApiCall
    <3>1. apiCalls[q] \in ApiCall
      BY <1>2, <1>17 DEF Unauthorized, Doing
    <3>2. [[[apiCalls[q] EXCEPT !.at = "get"] EXCEPT !.latched = TRUE] EXCEPT !.token = 0]
            \in ApiCall
      BY <3>1 DEF ApiCall
    <3> QED BY <3>2, RetryTypes
  <2>2. apiCalls' = [apiCalls EXCEPT ![q] = next]
    BY <1>1, <1>2, <1>17 DEF Unauthorized, Doing, ApiCall
  <2> QED BY <1>1, <1>17, <2>1, <2>2 DEF Unauthorized, MintTypes
<1>18. ASSUME NEW a \in Accounts, TokenAges(a) \/ RefusalExpires(a) PROVE MintTypes'
  BY <1>1, <1>18 DEF TokenAges, RefusalExpires, MintTypes
<1>19. CASE UNCHANGED githubVars
  BY <1>1, <1>19 DEF githubVars, MintTypes
<1> QED BY <1>6, <1>7, <1>8, <1>9, <1>11, <1>12, <1>13, <1>14, <1>15, <1>16, <1>17, <1>18, <1>19
        DEF GitHubClientNext

\* Whoever mints still holds the lock and finds nothing fresh.
LEMMA MintStep ==
  ASSUME MintInv, [GitHubClientNext]_githubVars
  PROVE  MintInv'
<1> USE DEF tokenCache
<1>1. MintTypes /\ MintTypes'
  BY MintTypeStep DEF MintInv
<1>2. \A q \in Requests : apiCalls[q].at # "idle" =>
        apiCalls[q] \in ApiCall /\ Account(q) \in Accounts
  BY <1>1, ApiCallType
<1>3. apiCalls \in [Requests -> {NoRequestMade} \cup ApiCall]
  BY <1>1 DEF MintTypes
<1>4. \A q \in Requests : Ends(q) =>
        ~Minting(q)' /\ \A p \in Requests \ {q} : apiCalls'[p] = apiCalls[p]
  BY <1>3 DEF Ends, Minting, NoRequestMade
<1>5. ASSUME NEW q \in Requests, NEW token, apiCalls[q] \in ApiCall, Sends(q, token)
      PROVE  ~Minting(q)' /\ \A p \in Requests \ {q} : apiCalls'[p] = apiCalls[p]
  BY <1>3, <1>5 DEF Sends, Minting, ApiCall
<1>6. ASSUME NEW q \in Requests, NEW a \in Accounts, StartRequest(q, a) PROVE MintInv'
  <2>1. ~Minting(q)' /\ \A p \in Requests \ {q} : apiCalls'[p] = apiCalls[p]
    BY <1>3, <1>6 DEF StartRequest, Minting
  <2> QED BY <1>1, <1>6, <2>1, KeepsMint DEF StartRequest
<1>7. ASSUME NEW q \in Requests, GetToken(q) PROVE MintInv'
  <2>1. apiCalls[q] \in ApiCall /\ Account(q) \in Accounts
    BY <1>2, <1>7 DEF GetToken, Doing
  <2>2. ~Minting(q)' /\ \A p \in Requests \ {q} : apiCalls'[p] = apiCalls[p]
    <3>1. CASE apiCalls' = [apiCalls EXCEPT ![q].at = "wait"]
      BY <1>3, <2>1, <3>1 DEF Minting, ApiCall
    <3> QED BY <1>4, <1>5, <1>7, <2>1, <3>1 DEF GetToken
  <2> QED BY <1>1, <1>7, <2>1, <2>2, KeepsMint DEF GetToken, Touch
<1>8. ASSUME NEW q \in Requests, TakeMint(q) PROVE MintInv'
  <2>1. apiCalls[q] \in ApiCall /\ Account(q) \in Accounts /\ HoldsMint(q)
    BY <1>2, <1>8 DEF TakeMint, Doing
  <2>2. CASE Reread(Account(q))
    <3>1. /\ Sends(q, tokens[Account(q)].token) /\ ReleaseMint(q)
          /\ UNCHANGED <<tokens, issued>>
      BY <1>8, <2>2 DEF TakeMint, Touch
    <3> QED BY <1>1, <1>5, <2>1, <3>1, KeepsMint
  <2>3. CASE ~Reread(Account(q))
    <3>1. /\ apiCalls' = [apiCalls EXCEPT ![q].at = "mint"]
          /\ UNCHANGED <<tokens, issued, mintQueues>> /\ ~IsCached(Account(q))
      BY <1>8, <2>3 DEF TakeMint, Reread
    <3>2. /\ apiCalls'[q].at = "mint" /\ Account(q)' = Account(q)
          /\ \A p \in Requests \ {q} : apiCalls'[p] = apiCalls[p]
      BY <1>3, <2>1, <3>1 DEF Account, ApiCall
    <3>3. ASSUME NEW p \in Requests, Minting(p)'
          PROVE  /\ HoldsMint(p)' /\ ~IsCached(Account(p))'
                 /\ Doing(p, "minted")' => apiCalls'[p].token = issued'[Account(p)']
      <4>1. CASE p = q
        BY <2>1, <3>1, <3>2, <4>1 DEF HoldsMint, IsCached, Doing
      <4>2. CASE p # q
        BY <3>1, <3>2, <3>3, <4>2 DEF MintInv, Minting, HoldsMint, IsCached, Doing, Account
      <4> QED BY <4>1, <4>2
    <3>4. ASSUME NEW p \in Requests, Doing(p, "minted")' PROVE Minting(p)'
      BY <3>4 DEF Doing, Minting
    <3>5. FreshTokenIsNewest'
      BY <3>1 DEF MintInv, FreshTokenIsNewest, IsCached
    <3> QED BY <1>1, <3>3, <3>4, <3>5 DEF MintInv
  <2> QED BY <2>2, <2>3
<1>9. ASSUME NEW q \in Requests, ExchangeAnswers(q) PROVE MintInv'
  <2>1. apiCalls[q] \in ApiCall /\ Minting(q)
    BY <1>2, <1>9 DEF ExchangeAnswers, Doing, Minting
  <2>2. apiCalls' = [apiCalls EXCEPT ![q] =
          [[apiCalls[q] EXCEPT !.at = "minted"] EXCEPT !.token = issued'[Account(q)]]]
    BY <1>3, <1>9, <2>1 DEF ExchangeAnswers, ApiCall
  <2>3. /\ Minting(q)' /\ Account(q)' = Account(q) /\ apiCalls'[q].token = issued'[Account(q)]
        /\ \A p \in Requests \ {q} : apiCalls'[p] = apiCalls[p]
    BY <1>3, <2>1, <2>2 DEF ApiCall, Minting, Account
  <2> QED BY <1>1, <1>9, <2>1, <2>3, IssueMint DEF ExchangeAnswers, MayIssue
<1>10. ASSUME NEW q \in Requests, Doing(q, "mint"), MayIssue(q), MintEnds(q), UNCHANGED tokens
       PROVE  MintInv'
  <2>1. Minting(q) /\ HoldsMint(q) /\ Account(q) \in Accounts
    BY <1>2, <1>10 DEF Doing, Minting, MintInv
  <2> QED BY <1>1, <1>4, <1>10, <2>1, KeepsMint DEF MintEnds, MayIssue
<1>11. ASSUME NEW q \in Requests, ExchangeFails(q) PROVE MintInv'
  <2>1. CASE apiCalls' = [apiCalls EXCEPT ![q].exchanges = @ + 1] /\ UNCHANGED mintQueues
    <3>1. apiCalls[q] \in ApiCall /\ Minting(q) /\ apiCalls[q].at = "mint"
      BY <1>2, <1>11 DEF ExchangeFails, Doing, Minting
    <3>2. /\ apiCalls'[q].at = "mint" /\ Account(q)' = Account(q)
          /\ \A p \in Requests \ {q} : apiCalls'[p] = apiCalls[p]
      BY <1>3, <2>1, <3>1 DEF ApiCall, Account
    <3>3. Minting(q)' /\ ~Doing(q, "minted")'
      BY <3>2 DEF Minting, Doing
    <3> QED BY <1>1, <1>11, <2>1, <3>1, <3>2, <3>3, IssueMint DEF ExchangeFails
  <2> QED BY <1>10, <1>11, <2>1 DEF ExchangeFails
<1>12. ASSUME NEW q \in Requests, ExchangeUnauthorized(q) PROVE MintInv'
  <2>1. CASE /\ apiCalls' = [apiCalls EXCEPT ![q].signed = TRUE, ![q].exchanges = @ + 1]
             /\ UNCHANGED mintQueues
    <3>1. apiCalls[q] \in ApiCall /\ Minting(q) /\ apiCalls[q].at = "mint"
      BY <1>2, <1>12 DEF ExchangeUnauthorized, Doing, Minting
    <3>2. /\ apiCalls'[q].at = "mint" /\ Account(q)' = Account(q)
          /\ \A p \in Requests \ {q} : apiCalls'[p] = apiCalls[p]
      BY <1>3, <2>1, <3>1 DEF ApiCall, Account
    <3>3. Minting(q)' /\ ~Doing(q, "minted")'
      BY <3>2 DEF Minting, Doing
    <3> QED BY <1>1, <1>12, <2>1, <3>1, <3>2, <3>3, IssueMint DEF ExchangeUnauthorized, MayIssue
  <2> QED BY <1>10, <1>12, <2>1 DEF ExchangeUnauthorized, MayIssue
<1>13. ASSUME NEW q \in Requests, ExchangeRefused(q) PROVE MintInv'
  BY <1>10, <1>13 DEF ExchangeRefused
<1>14. ASSUME NEW q \in Requests, CachePut(q) PROVE MintInv'
  <2>1. /\ apiCalls[q] \in ApiCall /\ Account(q) \in Accounts /\ HoldsMint(q)
        /\ apiCalls[q].token = issued[Account(q)]
    BY <1>2, <1>14 DEF CachePut, Doing, Minting, MintInv
  <2>2. ~Minting(q)' /\ \A p \in Requests \ {q} : apiCalls'[p] = apiCalls[p]
    BY <1>5, <1>14, <2>1 DEF CachePut
  <2>3. \A a \in Accounts :
          \/ tokens'[a] = NoToken \/ tokens'[a] = tokens[a]
          \/ a = Account(q) /\ tokens'[a] = [token |-> issued[a], fresh |-> TRUE]
    <3> DEFINE evicted == IF Len(UsedLast(Account(q))) > MaxCacheEntries
                            THEN {Head(UsedLast(Account(q)))} ELSE {}
    <3>1. tokens' = [b \in Accounts |->
            IF b \in evicted THEN NoToken
            ELSE IF b = Account(q) THEN [token |-> apiCalls[q].token, fresh |-> TRUE]
            ELSE tokens[b]]
      BY <1>14 DEF CachePut, StoreToken
    <3> HIDE DEF evicted
    <3>2. ASSUME NEW a \in Accounts
          PROVE  \/ tokens'[a] = NoToken \/ tokens'[a] = tokens[a]
                 \/ a = Account(q) /\ tokens'[a] = [token |-> issued[a], fresh |-> TRUE]
      <4>1. CASE a \in evicted
        BY <3>1, <4>1
      <4>2. CASE a \notin evicted /\ a = Account(q)
        <5>1. tokens'[a] = [token |-> apiCalls[q].token, fresh |-> TRUE]
          BY <3>1, <4>2
        <5> QED BY <2>1, <4>2, <5>1
      <4>3. CASE a \notin evicted /\ a # Account(q)
        BY <3>1, <4>3
      <4> QED BY <4>1, <4>2, <4>3
    <3> QED BY <3>2
  <2>4. FreshTokenIsNewest'
    <3>1. issued' = issued
      BY <1>14 DEF CachePut
    <3>2. ASSUME NEW a \in Accounts, tokens'[a].fresh PROVE tokens'[a].token = issued[a]
      <4>1. CASE tokens'[a] = tokens[a]
        BY <3>2, <4>1 DEF MintInv, FreshTokenIsNewest, IsCached
      <4>2. tokens'[a] # NoToken
        BY <3>2 DEF NoToken
      <4>3. CASE tokens'[a] = [token |-> issued[a], fresh |-> TRUE]
        BY <4>3
      <4> QED BY <2>3, <4>1, <4>2, <4>3
    <3> QED BY <3>1, <3>2 DEF FreshTokenIsNewest, IsCached
  <2>5. ASSUME NEW p \in Requests, Minting(p)'
        PROVE  /\ HoldsMint(p)' /\ ~IsCached(Account(p))'
               /\ Doing(p, "minted")' => apiCalls'[p].token = issued'[Account(p)']
    <3>1. /\ p # q /\ Minting(p) /\ HoldsMint(p) /\ Account(p)' = Account(p)
          /\ ~IsCached(Account(p)) /\ apiCalls'[p] = apiCalls[p]
          /\ Doing(p, "minted") => apiCalls[p].token = issued[Account(p)]
      BY <2>2, <2>5 DEF MintInv, Minting, Account
    <3>2. Account(p) \in Accounts /\ Account(p) # Account(q)
      BY <1>2, <2>1, <3>1 DEF Minting, HoldsMint
    <3>3. mintQueues'[Account(p)] = mintQueues[Account(p)]
      BY <1>1, <1>14, <3>2 DEF CachePut, ReleaseMint, MintTypes
    <3>4. ~tokens'[Account(p)].fresh
      <4>1. ~tokens[Account(p)].fresh
        BY <3>1 DEF IsCached
      <4>2. tokens'[Account(p)] = NoToken \/ tokens'[Account(p)] = tokens[Account(p)]
        BY <2>3, <3>2
      <4> QED BY <4>1, <4>2 DEF NoToken
    <3> QED BY <1>14, <3>1, <3>3, <3>4 DEF CachePut, HoldsMint, IsCached, Doing
  <2>6. ASSUME NEW p \in Requests, Doing(p, "minted")' PROVE Minting(p)'
    BY <2>6 DEF Doing, Minting
  <2> QED BY <1>1, <2>4, <2>5, <2>6 DEF MintInv
<1>15. ASSUME NEW q \in Requests, RequestEnds(q) \/ LoopExits(q) PROVE MintInv'
  BY <1>1, <1>4, <1>15, KeepsMint DEF RequestEnds, LoopExits
<1>16. ASSUME NEW q \in Requests, Unavailable(q) PROVE MintInv'
  <2>1. ~Minting(q)' /\ \A p \in Requests \ {q} : apiCalls'[p] = apiCalls[p]
    BY <1>2, <1>3, <1>16 DEF Unavailable, Minting, Doing, ApiCall
  <2> QED BY <1>1, <1>16, <2>1, KeepsMint DEF Unavailable
<1>17. ASSUME NEW q \in Requests, Unauthorized(q) PROVE MintInv'
  <2>1. ~Minting(q)' /\ \A p \in Requests \ {q} : apiCalls'[p] = apiCalls[p]
    BY <1>2, <1>3, <1>17 DEF Unauthorized, Minting, Doing, ApiCall
  <2> QED BY <1>1, <1>17, <2>1, KeepsMint DEF Unauthorized
<1>18. ASSUME \/ \E a \in Accounts : TokenAges(a) \/ RefusalExpires(a)
              \/ UNCHANGED githubVars
       PROVE  MintInv'
  <2>1. /\ UNCHANGED <<issued, mintQueues, apiCalls>>
        /\ \A a \in Accounts : tokens'[a] = tokens[a]
                               \/ ~tokens'[a].fresh
    BY <1>1, <1>18 DEF TokenAges, RefusalExpires, githubVars, MintTypes
  <2>2. FreshTokenIsNewest'
    BY <2>1 DEF MintInv, FreshTokenIsNewest, IsCached
  <2>3. \A q \in Requests : Minting(q)' => HoldsMint(q)' /\ ~IsCached(Account(q))'
    BY <1>2, <2>1 DEF MintInv, Minting, HoldsMint, IsCached, Account
  <2> QED BY <1>1, <2>1, <2>2, <2>3 DEF MintInv, Doing, Account
<1> QED BY <1>6, <1>7, <1>8, <1>9, <1>11, <1>12, <1>13, <1>14, <1>15, <1>16, <1>17, <1>18
        DEF GitHubClientNext

\* What the token provider's cache serves (token_provider.ts getToken, cacheLookup)
\* is the newest token of the installation: the lock lets one request mint, and the
\* second look keeps who waited for it from minting over a fresh token.
THEOREM FreshTokenIsNewestHolds == GitHubClientSpec => []FreshTokenIsNewest
<1>1. GitHubClientInit => MintInv
  <2> SUFFICES ASSUME GitHubClientInit PROVE MintInv
      OBVIOUS
  <2>1. MintTypes
    BY DEF GitHubClientInit, MintTypes, NoToken
  <2>2. \A q \in Requests : apiCalls[q].at = "idle"
    BY DEF GitHubClientInit, NoRequestMade
  <2>3. \A a \in Accounts : ~IsCached(a)
    BY DEF GitHubClientInit, NoToken, IsCached
  <2> QED BY <2>1, <2>2, <2>3 DEF MintInv, Minting, Doing, FreshTokenIsNewest
<1>2. MintInv /\ [GitHubClientNext]_githubVars => MintInv'
  BY MintStep
<1>3. MintInv => FreshTokenIsNewest
  BY DEF MintInv
<1> QED BY <1>1, <1>2, <1>3, PTL DEF GitHubClientSpec
-----------------------------------------------------------------------------
(* ConfluenceCorpus *)

\* A step of the ingest's cycle keeps the types.
LEMMA CycleTypeStep ==
  ASSUME CorpusTypeOK,
         Cycle \/ ListFails \/ DeletionsFail \/ \E alive \in SUBSET Pages : LateReconcile(alive)
  PROVE  CorpusTypeOK'
<1> USE CorpusConstants DEF CorpusTypeOK, WikiPage, NoCycle
<1>1. CASE StartCycle
  BY <1>1 DEF StartCycle
<1>2. CASE ListPages
  BY <1>2 DEF ListPages
<1>3. CASE PagesDone
  BY <1>3 DEF PagesDone
<1>4. ASSUME NEW alive \in SUBSET Pages
      PROVE  Swept(alive) \in [Pages \X Versions -> Chunk \cup {NoChunk}]
  <2>1. ASSUME NEW c \in Chunk
        PROVE  [c EXCEPT !.deleted = TRUE] \in Chunk
    BY ONLY <2>1 DEF Chunk
  <2>2. \A k \in Pages \X Versions :
          chunks[k] \in Chunk \/ chunks[k] = NoChunk
    OBVIOUS
  <2> HIDE DEF CorpusTypeOK, WikiPage, NoCycle, Versions
  <2> QED BY ONLY <2>1, <2>2 DEF Swept
<1>5. CASE ReconcileDeletions
  <2>1. sync.live \in SUBSET Pages
    OBVIOUS
  <2> QED BY <1>4, <1>5, <2>1 DEF ReconcileDeletions
<1>6. CASE ListFails
  BY <1>6 DEF ListFails
<1>7. CASE DeletionsFail
  BY <1>7 DEF DeletionsFail
<1>8. ASSUME NEW alive \in SUBSET Pages, LateReconcile(alive)
      PROVE  CorpusTypeOK'
  BY <1>4, <1>8 DEF LateReconcile
<1> QED BY <1>1, <1>2, <1>3, <1>5, <1>6, <1>7, <1>8 DEF Cycle

\* A step of a writer keeps the types.
LEMMA WriterTypeStep ==
  ASSUME CorpusTypeOK, NEW w \in Writers,
         PageStep(w) \/ PageFails(w) \/ \E o \in Others : UpsertTimesOut(w, o)
  PROVE  CorpusTypeOK'
<1> USE CorpusConstants DEF CorpusTypeOK, Writers, Finish, Idle
<1>1. CASE FetchPageBody(w)
  <2>1. tasks[w] \in Task
    BY <1>1 DEF FetchPageBody, NoTask
  <2> DEFINE p == tasks[w].page
  <2>2. p \in Pages /\ wiki[p].at \in Versions /\ wiki[p].default \in BOOLEAN
    BY <2>1 DEF Task, WikiPage
  <2>3. \E kept \in BOOLEAN : tasks' = [tasks EXCEPT ![w] =
          [at |-> "limits", page |-> p, version |-> wiki[p].at, default |-> kept]]
    BY <1>1, <2>2 DEF FetchPageBody
  <2> HIDE DEF p
  <2>4. tasks' \in [Writers -> Task \cup {NoTask}]
    BY <2>2, <2>3 DEF Task
  <2> QED BY <1>1, <2>4 DEF FetchPageBody
<1>2. ASSUME NEW at \in {"limits", "approval", "write"}, tasks[w] # NoTask, MoveOn(w, at),
             UNCHANGED <<wiki, approved, chunks, sync, sweeps, changes, lateness>>
      PROVE  CorpusTypeOK'
  BY <1>2 DEF MoveOn, Task
<1>3. CASE CheckLimits(w)
  BY <1>2, <1>3 DEF CheckLimits, NoTask
<1>4. CASE GetActiveApproval(w)
  BY <1>2, <1>4 DEF GetActiveApproval, NoTask
<1>5. CASE UpsertChunks(w)
  <2>1. tasks[w] \in Task
    BY <1>5 DEF UpsertChunks, NoTask
  <2> DEFINE k == <<tasks[w].page, tasks[w].version>>
  <2>2. k \in Pages \X Versions /\ tasks[w].default \in BOOLEAN
    BY <2>1 DEF Task
  <2>3. [default |-> tasks[w].default, deleted |-> Indexed(k[1], k[2]) /\ chunks[k].deleted]
          \in Chunk
    BY <2>2 DEF Chunk, NoChunk, Indexed
  <2> HIDE DEF k
  <2>4. chunks' \in [Pages \X Versions -> Chunk \cup {NoChunk}]
    BY <1>5, <2>2, <2>3 DEF UpsertChunks, k
  <2> QED BY <1>5, <2>4 DEF UpsertChunks
<1>6. CASE PageFails(w)
  BY <1>6 DEF PageFails
<1>7. ASSUME NEW o \in Others, UpsertTimesOut(w, o) PROVE CorpusTypeOK'
  <2>1. tasks[w] \in Task
    BY <1>7 DEF UpsertTimesOut, NoTask
  <2> QED BY <1>7, <2>1 DEF UpsertTimesOut, Task
<1> QED BY <1>1, <1>3, <1>4, <1>5, <1>6, <1>7 DEF PageStep

\* A step of Confluence, of an admin or to the next page keeps the types.
LEMMA PageTypeStep ==
  ASSUME CorpusTypeOK, NEW p \in Pages,
         \/ EditPage(p) \/ HideOrShowPage(p) \/ CreatePageApproval(p)
         \/ RevokePageApproval(p) \/ NextPage(p)
  PROVE  CorpusTypeOK'
<1> USE CorpusConstants DEF CorpusTypeOK, Writers, Idle, WikiPage, Versions
<1>1. ASSUME NEW w \in Writers
      PROVE  Begin(w, p) => tasks' \in [Writers -> Task \cup {NoTask}]
  <2>1. [at |-> "fetch", page |-> p, version |-> 1, default |-> FALSE] \in Task
    BY DEF Task
  <2> QED BY <2>1 DEF Begin
<1>2. CASE EditPage(p)
  BY <1>2 DEF EditPage
<1>3. CASE HideOrShowPage(p)
  <2>1. [wiki[p] EXCEPT !.shown = ~wiki[p].shown] \in WikiPage
    <3>1. wiki[p] \in WikiPage
      OBVIOUS
    <3>2. (~wiki[p].shown) \in BOOLEAN
      OBVIOUS
    <3> QED BY ONLY <3>1, <3>2 DEF WikiPage
  <2>2. wiki' \in [Pages -> WikiPage]
    BY <1>3, <2>1 DEF HideOrShowPage
  <2> QED BY <1>3, <2>2 DEF HideOrShowPage
<1>4. CASE CreatePageApproval(p)
  BY <1>4 DEF CreatePageApproval
<1>5. CASE RevokePageApproval(p)
  BY <1>1, <1>5 DEF RevokePageApproval
<1>6. CASE NextPage(p)
  BY <1>1, <1>6 DEF NextPage
<1> QED BY <1>2, <1>3, <1>4, <1>5, <1>6

\* Every step of the corpus keeps the types.
LEMMA CorpusTypeStep == CorpusTypeOK /\ [CorpusNext]_corpusVars => CorpusTypeOK'
<1> SUFFICES ASSUME CorpusTypeOK, [CorpusNext]_corpusVars PROVE CorpusTypeOK'
    OBVIOUS
<1>1. CASE UNCHANGED corpusVars
  BY <1>1 DEF corpusVars, CorpusTypeOK
<1> QED BY <1>1, CycleTypeStep, WriterTypeStep, PageTypeStep DEF CorpusNext

\* The sets that are counted are finite.
LEMMA CountsAreNaturals ==
  /\ IsFiniteSet(DefaultChunks) /\ Cardinality(DefaultChunks) \in Nat
  /\ IsFiniteSet(Admitted) /\ Cardinality(Admitted) \in Nat
  /\ IsFiniteSet(Writers) /\ Cardinality(Writers) = Cardinality(Others) + 1
  /\ Cardinality(Others) \in Nat
<1>1. IsFiniteSet(Versions)
  BY CorpusConstants, FS_Interval DEF Versions
<1>2. IsFiniteSet(Pages \X Versions)
  BY <1>1, CorpusConstants, FS_Product
<1>3. DefaultChunks \in SUBSET (Pages \X Versions)
  BY DEF DefaultChunks
<1>4. IsFiniteSet(DefaultChunks)
  BY <1>2, <1>3, FS_Subset
<1>5. IsFiniteSet(Writers) /\ Cardinality(Writers) = Cardinality(Others) + 1
  BY CorpusConstants, FS_AddElement DEF Writers
<1>6. Admitted \in SUBSET Writers
  BY DEF Admitted
<1>7. IsFiniteSet(Admitted)
  BY <1>5, <1>6, FS_Subset
<1> QED BY <1>4, <1>5, <1>7, CorpusConstants, FS_CardinalityType

\* What has passed the limits and what is there stay within them together, one page
\* for each writer beside the one that passed last.
AdmittedFit ==
  Cardinality(DefaultChunks) + Cardinality(Admitted) <= Cap + Cardinality(Others)

\* A step after which no chunk is counted and no writer admitted that was not before.
LEMMA Shrinks ==
  ASSUME AdmittedFit, DefaultChunks' \subseteq DefaultChunks, Admitted' \subseteq Admitted
  PROVE  AdmittedFit'
<1>1. Cardinality(DefaultChunks') <= Cardinality(DefaultChunks)
  BY CountsAreNaturals, FS_Subset
<1>2. Cardinality(Admitted') <= Cardinality(Admitted)
  BY CountsAreNaturals, FS_Subset
<1>3. Cardinality(DefaultChunks') \in Nat /\ Cardinality(Admitted') \in Nat
  BY CountsAreNaturals, FS_Subset, FS_CardinalityType
<1> QED BY <1>1, <1>2, <1>3, CountsAreNaturals, CorpusConstants DEF AdmittedFit

\* One element more makes a finite set larger by one at most.
LEMMA OneMore ==
  ASSUME NEW S, NEW x, IsFiniteSet(S)
  PROVE  IsFiniteSet(S \cup {x}) /\ Cardinality(S \cup {x}) <= Cardinality(S) + 1
<1>1. Cardinality(S) \in Nat
  BY FS_CardinalityType
<1>2. IsFiniteSet(S \cup {x})
      /\ Cardinality(S \cup {x}) = IF x \in S THEN Cardinality(S) ELSE Cardinality(S) + 1
  BY FS_AddElement
<1> QED BY <1>1, <1>2

\* What becomes of the other writers, and of its own, when w goes on or is done.
LEMMA Moves ==
  ASSUME CorpusTypeOK, NEW w \in Writers
  PROVE  /\ \A at \in {"limits", "approval", "write"} : tasks[w] \in Task /\ MoveOn(w, at) =>
              tasks'[w].at = at /\ tasks'[w].default = tasks[w].default
         /\ Finish(w) => tasks'[w].at = "idle"
         /\ \A at \in {"limits", "approval", "write"} : Finish(w) \/ MoveOn(w, at) =>
              \A x \in Writers \ {w} : tasks'[x] = tasks[x]
BY DEF CorpusTypeOK, MoveOn, Finish, Task, NoTask

\* A writer that goes on from its limits read a count below the cap.
LEMMA LimitsAdmit ==
  ASSUME CorpusTypeOK, AdmittedFit, NEW w \in Writers, CheckLimits(w)
  PROVE  AdmittedFit'
<1>1. DefaultChunks' = DefaultChunks
  BY DEF CheckLimits, DefaultChunks
<1>2. CASE tasks[w].default /\ Cardinality(DefaultChunks) + 1 <= Cap
  <2>1. Admitted' \in SUBSET Writers
    BY DEF Admitted
  <2>2. Cardinality(Admitted') <= Cardinality(Others) + 1 /\ Cardinality(Admitted') \in Nat
    BY <2>1, CountsAreNaturals, FS_Subset, FS_CardinalityType
  <2> QED BY <1>1, <1>2, <2>2, CountsAreNaturals, CorpusConstants DEF AdmittedFit
<1>3. CASE ~(tasks[w].default /\ Cardinality(DefaultChunks) + 1 <= Cap)
  <2>1. Admitted' \subseteq Admitted
    <3>1. tasks[w] \in Task
      BY DEF CheckLimits, CorpusTypeOK, NoTask
    <3>2. Finish(w) \/ (~tasks[w].default /\ MoveOn(w, "write"))
      BY <1>3, CountsAreNaturals, CorpusConstants DEF CheckLimits
    <3> QED BY <3>1, <3>2, Moves DEF Admitted
  <2> QED BY <1>1, <2>1, Shrinks
<1> QED BY <1>2, <1>3

\* An upsert takes its writer from the admitted and adds one chunk at most.
LEMMA UpsertFits ==
  ASSUME CorpusTypeOK, AdmittedFit, NEW w \in Writers, UpsertChunks(w)
  PROVE  AdmittedFit'
<1> DEFINE k == <<tasks[w].page, tasks[w].version>>
<1>1. tasks[w] \in Task
  BY DEF CorpusTypeOK, UpsertChunks, NoTask
<1>2. k \in Pages \X Versions
  BY <1>1 DEF Task
<1>3. chunks' = [chunks EXCEPT ![k] = [default |-> tasks[w].default,
                   deleted |-> Indexed(k[1], k[2]) /\ chunks[k].deleted]]
  BY DEF UpsertChunks
<1> HIDE DEF k
<1>4. DefaultChunks' \subseteq DefaultChunks \cup {k}
  BY <1>2, <1>3 DEF DefaultChunks, CorpusTypeOK
<1>5. Admitted' = Admitted \ {w}
  BY DEF UpsertChunks, Finish, NoTask, Admitted, CorpusTypeOK
<1>6. CASE tasks[w].default
  <2>1. w \in Admitted
    BY <1>6 DEF Admitted, UpsertChunks
  <2>2. Cardinality(Admitted') = Cardinality(Admitted) - 1
    BY <1>5, <2>1, CountsAreNaturals, FS_RemoveElement
  <2>3. IsFiniteSet(DefaultChunks \cup {k})
        /\ Cardinality(DefaultChunks \cup {k}) <= Cardinality(DefaultChunks) + 1
    BY CountsAreNaturals, OneMore
  <2>4. Cardinality(DefaultChunks') <= Cardinality(DefaultChunks \cup {k})
        /\ Cardinality(DefaultChunks') \in Nat
    BY <1>4, <2>3, FS_Subset, FS_CardinalityType
  <2>5. Cardinality(DefaultChunks') <= Cardinality(DefaultChunks) + 1
    BY <2>3, <2>4, CountsAreNaturals, FS_AddElement
  <2> QED BY <2>2, <2>4, <2>5, CountsAreNaturals, CorpusConstants DEF AdmittedFit
<1>7. CASE ~tasks[w].default
  <2>1. DefaultChunks' \subseteq DefaultChunks
    BY <1>2, <1>3, <1>7 DEF DefaultChunks, CorpusTypeOK
  <2> QED BY <1>5, <2>1, Shrinks
<1> QED BY <1>6, <1>7

\* An attempt that is given up goes on in another writer's place.
LEMMA GivenUpFits ==
  ASSUME CorpusTypeOK, AdmittedFit, NEW w \in Writers, NEW o \in Others, UpsertTimesOut(w, o)
  PROVE  AdmittedFit'
<1> USE DEF CorpusTypeOK, Writers, UpsertTimesOut, Idle, NoTask
<1>1. DefaultChunks' = DefaultChunks
  BY DEF DefaultChunks
<1>2. w # o /\ o \notin Admitted
  BY DEF Admitted
<1>3. CASE w \in Admitted
  <2>1. Admitted' = (Admitted \ {w}) \cup {o}
    BY <1>2, <1>3 DEF Admitted
  <2>2. IsFiniteSet(Admitted \ {w})
        /\ Cardinality(Admitted \ {w}) = Cardinality(Admitted) - 1
    BY <1>3, CountsAreNaturals, FS_RemoveElement
  <2>3. Cardinality(Admitted') = Cardinality(Admitted \ {w}) + 1
    BY <1>2, <2>1, <2>2, FS_AddElement
  <2> QED BY <1>1, <2>2, <2>3, CountsAreNaturals DEF AdmittedFit
<1>4. CASE w \notin Admitted
  <2>1. Admitted' \subseteq Admitted
    BY <1>2, <1>4 DEF Admitted
  <2> QED BY <1>1, <2>1, Shrinks
<1> QED BY <1>3, <1>4

\* No other step admits a writer or adds a chunk.
LEMMA OtherStepsFit ==
  ASSUME CorpusTypeOK, AdmittedFit,
         \/ \E p \in Pages : \/ EditPage(p) \/ HideOrShowPage(p) \/ CreatePageApproval(p)
                             \/ RevokePageApproval(p) \/ NextPage(p)
         \/ Cycle \/ ListFails \/ DeletionsFail
         \/ \E alive \in SUBSET Pages : LateReconcile(alive)
         \/ \E w \in Writers : FetchPageBody(w) \/ GetActiveApproval(w) \/ PageFails(w)
  PROVE  AdmittedFit'
<1>1. ASSUME NEW alive PROVE chunks' = Swept(alive) => DefaultChunks' \subseteq DefaultChunks
  BY DEF Swept, DefaultChunks, CorpusTypeOK
<1>2. DefaultChunks' \subseteq DefaultChunks
  <2>1. chunks' = chunks \/ \E alive : chunks' = Swept(alive)
    BY DEF EditPage, HideOrShowPage, CreatePageApproval, RevokePageApproval, NextPage, Cycle,
       StartCycle, ListPages, PagesDone, ReconcileDeletions, ListFails, DeletionsFail,
       LateReconcile, FetchPageBody, GetActiveApproval, PageFails
  <2> QED BY <1>1, <2>1 DEF DefaultChunks
<1>3. ASSUME NEW w \in Writers, NEW p \in Pages
      PROVE  Begin(w, p) => Admitted' \subseteq Admitted
  BY DEF Begin, Admitted, CorpusTypeOK
<1>4. Admitted' \subseteq Admitted
  <2>1. CASE tasks' = tasks
    BY <2>1 DEF Admitted
  <2>2. ASSUME NEW p \in Pages, RevokePageApproval(p) \/ NextPage(p)
        PROVE  Admitted' \subseteq Admitted
    BY <1>3, <2>1, <2>2 DEF RevokePageApproval, NextPage, Writers
  <2>3. ASSUME NEW w \in Writers, FetchPageBody(w) \/ GetActiveApproval(w) \/ PageFails(w)
        PROVE  Admitted' \subseteq Admitted
    <3>1. CASE FetchPageBody(w)
      BY <3>1 DEF FetchPageBody, Admitted, CorpusTypeOK
    <3>2. CASE PageFails(w)
      BY <3>2, Moves DEF PageFails, Admitted
    <3>3. CASE GetActiveApproval(w)
      <4>1. tasks[w] \in Task /\ tasks[w].at = "approval"
        BY <3>3 DEF GetActiveApproval, CorpusTypeOK, NoTask
      <4> QED BY <3>3, <4>1, Moves DEF GetActiveApproval, Admitted
    <3> QED BY <2>3, <3>1, <3>2, <3>3
  <2> QED BY <2>1, <2>2, <2>3 DEF EditPage, HideOrShowPage, CreatePageApproval, Cycle,
         StartCycle, ListPages, PagesDone, ReconcileDeletions, ListFails, DeletionsFail,
         LateReconcile
<1> QED BY <1>2, <1>4, Shrinks

\* The rows, the cycle and the writers keep their types (ConfluenceCorpus).
THEOREM CorpusTypeCorrect == CorpusSpec => []CorpusTypeOK
<1>1. CorpusInit => CorpusTypeOK
  <2> SUFFICES ASSUME CorpusInit PROVE CorpusTypeOK
      OBVIOUS
  <2>1. 1 \in Versions
    BY CorpusConstants DEF Versions
  <2>2. wiki \in [Pages -> WikiPage]
    BY <2>1 DEF CorpusInit, WikiPage
  <2> QED BY <2>2, CorpusConstants DEF CorpusInit, CorpusTypeOK, NoCycle
<1> QED BY <1>1, CorpusTypeStep, PTL DEF CorpusSpec

\* However many syncs, resyncs and abandoned attempts overlap, the default corpus
\* passes its cap by at most one page for each writer beside the first: every writer
\* has read a count below the cap (upsertChunks reads it outside of its transaction).
THEOREM DefaultCorpusIsBoundedHolds == CorpusSpec => []DefaultCorpusIsBounded
<1>1. CorpusInit => AdmittedFit
  <2> SUFFICES ASSUME CorpusInit PROVE AdmittedFit
      OBVIOUS
  <2>1. DefaultChunks = {} /\ Admitted = {}
    BY DEF CorpusInit, NoChunk, NoTask, DefaultChunks, Admitted
  <2> QED BY <2>1, CountsAreNaturals, FS_EmptySet, CorpusConstants DEF AdmittedFit
<1>2. CorpusTypeOK /\ AdmittedFit /\ [CorpusNext]_corpusVars => AdmittedFit'
  <2> SUFFICES ASSUME CorpusTypeOK, AdmittedFit, [CorpusNext]_corpusVars PROVE AdmittedFit'
      OBVIOUS
  <2>1. CASE UNCHANGED corpusVars
    <3>1. DefaultChunks' = DefaultChunks /\ Admitted' = Admitted
      BY <2>1 DEF corpusVars, DefaultChunks, Admitted
    <3> QED BY <3>1 DEF AdmittedFit
  <2> QED BY <2>1, LimitsAdmit, UpsertFits, GivenUpFits, OtherStepsFit DEF CorpusNext, PageStep
<1>3. AdmittedFit => DefaultCorpusIsBounded
  BY CountsAreNaturals, CorpusConstants DEF AdmittedFit, DefaultCorpusIsBounded
<1> QED BY <1>1, <1>2, <1>3, CorpusTypeCorrect, PTL DEF CorpusSpec

-----------------------------------------------------------------------------
(* WorkspaceLease *)

\* A lease that a release has moved on is never allocated again.
Left == {"RELEASE_REQUESTED", "FAILED_CLEANUP", "RELEASED", "purged"}

\* What an attempt knows: an allocation that resolves its path has a lease, a release that
\* hops has read a lease to hop from, and one past the hop has left the allocated states.
Sound(a) ==
  /\ a \in Attempt
  /\ a.at = "resolve" => a.ws \in Leases
  /\ a.at = "hop" => a.from \in {"ALLOCATED", "ORPHANED"}
  /\ a.at \in {"rm", "fail", "flip"} =>
       /\ a.ws \in Leases /\ a.from \in {"RELEASE_REQUESTED", "FAILED_CLEANUP"}
       /\ lease[a.ws].state \in Left

FlowRow == [at : Stages, call : Attempt \cup {None}, tries : 0 .. Tries,
            handle : Leases \cup {None}]

\* A workflow that has a workspace to use or to release knows its id.
Handled(r) ==
  /\ r \in FlowRow
  /\ r.at \in {"allocated", "clone", "review", "cleanup"} => r.handle \in Leases
  /\ r.call # None /\ r.call.op = "clone" => r.at = "clone"

\* The attempts there are.
Calls == {flow[o].call : o \in Workflows} \ {None}
Running == late \cup Calls

OneActive ==
  \A w, x \in Leases : lease[w].state \in Active /\ lease[x].state \in Active => w = x

\* A clone that was written under a lease has a lease whose release has yet to remove it.
Unfinished == {"ALLOCATED", "ORPHANED", "RELEASE_REQUESTED", "FAILED_CLEANUP"}
TreeHasLease ==
  /\ dir = "cloned" => written # "never"
  /\ dir = "cloned" /\ written = "held" =>
       \E w \in Leases : /\ lease[w].state \in Unfinished
                         /\ \A a \in Running : a.at = "flip" => a.ws # w

Tables ==
  /\ lease \in [Leases -> LeaseRow]
  /\ dir \in {"absent", "empty", "cloned"} /\ written \in {"never", "held", "stale"}
  /\ todo \subseteq Leases

Flows ==
  /\ flow \in [Workflows -> FlowRow]
  /\ \A o \in Workflows : Handled(flow[o])

LeaseInv ==
  /\ Tables /\ Flows /\ OneActive /\ TreeHasLease
  /\ \A a \in Running : Sound(a)

\* The first step of an activity: it has read nothing yet.
Begins(a) == a = Allocation \/ \E w \in Leases : a = CloneOf(w) \/ a = ReleaseOf(w)

LEMMA BeginsIs ==
  ASSUME NEW a, Begins(a)
  PROVE  a \in Attempt /\ a.at \in {"mkdir", "assert", "read"}
  BY DEF Begins, Allocation, CloneOf, ReleaseOf, Attempt

LEMMA EnterIs ==
  ASSUME NEW o \in Workflows, Handled(flow[o]), NEW s \in Stages, NEW c,
         c = None \/ c \in Attempt
  PROVE  /\ Enter(o, s, c) \in FlowRow
         /\ Enter(o, s, c).at = s /\ Enter(o, s, c).call = c
         /\ s # "ended" => Enter(o, s, c).handle = flow[o].handle
  BY LeaseAssumption DEF Enter, Handled, FlowRow

\* An answer moves the workflow on with a call that begins, or with none.
LEMMA AnswerIs ==
  ASSUME NEW o \in Workflows, Handled(flow[o]), NEW a, a = flow[o].call, Sound(a), a # None,
         a.op = "allocate" => a.at = "resolve"
  PROVE  /\ Handled(AfterAnswer(o, a))
         /\ AfterAnswer(o, a).call = None \/ Begins(AfterAnswer(o, a).call)
<1>1. a \in Attempt /\ a.op \in {"allocate", "clone", "release"}
    BY DEF Sound, Attempt
<1>2. CASE a.op = "allocate"
  <2>1. a.ws \in Leases
      BY <1>2 DEF Sound
  <2>2. Enter(o, "allocated", None) \in FlowRow /\ Enter(o, "allocated", None).at = "allocated"
        /\ Enter(o, "allocated", None).call = None
      BY EnterIs DEF Stages
  <2>3. AfterAnswer(o, a) = [Enter(o, "allocated", None) EXCEPT !.handle = a.ws]
      BY <1>2 DEF AfterAnswer
  <2> QED BY <2>1, <2>2, <2>3 DEF Handled, FlowRow
<1>3. CASE a.op = "clone"
  <2>1. flow[o].at = "clone" /\ flow[o].handle \in Leases
      BY <1>3 DEF Handled
  <2>2. Enter(o, "review", None) \in FlowRow /\ Enter(o, "review", None).at = "review"
        /\ Enter(o, "review", None).call = None
        /\ Enter(o, "review", None).handle = flow[o].handle
      BY EnterIs DEF Stages
  <2>3. AfterAnswer(o, a) = Enter(o, "review", None)
      BY <1>3 DEF AfterAnswer
  <2> QED BY <2>1, <2>2, <2>3 DEF Handled
<1>4. CASE a.op = "release"
  <2>1. /\ Enter(o, "reap", None) \in FlowRow /\ Enter(o, "reap", None).at = "reap"
        /\ Enter(o, "reap", None).call = None
        /\ Enter(o, "ended", None) \in FlowRow /\ Enter(o, "ended", None).at = "ended"
        /\ Enter(o, "ended", None).call = None
      BY EnterIs DEF Stages
  <2>2. CASE o # Retention /\ flow[o].at = "cleanup"
    <3>1. Begins(ReleaseOf(flow[o].handle)) /\ ReleaseOf(flow[o].handle).op = "release"
        BY <2>2 DEF Handled, Begins, ReleaseOf
    <3>2. /\ Enter(o, "finally", ReleaseOf(flow[o].handle)) \in FlowRow
          /\ Enter(o, "finally", ReleaseOf(flow[o].handle)).at = "finally"
          /\ Enter(o, "finally", ReleaseOf(flow[o].handle)).call = ReleaseOf(flow[o].handle)
        BY <3>1, BeginsIs, EnterIs DEF Stages
    <3>3. AfterAnswer(o, a) = Enter(o, "finally", ReleaseOf(flow[o].handle))
        BY <1>4, <2>2 DEF AfterAnswer
    <3> QED BY <3>1, <3>2, <3>3 DEF Handled
  <2>3. CASE ~(o # Retention /\ flow[o].at = "cleanup")
    <3>1. \/ AfterAnswer(o, a) = Enter(o, "reap", None)
          \/ AfterAnswer(o, a) = Enter(o, "ended", None)
        BY <1>4, <2>3 DEF AfterAnswer
    <3> QED BY <2>1, <3>1 DEF Handled
  <2> QED BY <2>2, <2>3
<1> QED BY <1>1, <1>2, <1>3, <1>4

LEMMA FirstBegins ==
  ASSUME NEW a \in Attempt
  PROVE  Begins(First(a)) /\ First(a).op = a.op
  BY DEF First, Begins, Attempt, Allocation, CloneOf, ReleaseOf

\* A failure does too, with the same activity or the one that follows.
LEMMA FailureIs ==
  ASSUME NEW o \in Workflows, Handled(flow[o]), NEW a, a = flow[o].call, Sound(a), a # None
  PROVE  /\ Handled(AfterFailure(o, a))
         /\ AfterFailure(o, a).call = None \/ Begins(AfterFailure(o, a).call)
<1>1. a \in Attempt /\ a.op \in {"allocate", "clone", "release"}
    BY DEF Sound, Attempt
<1>2. CASE flow[o].tries < Tries
  <2>1. Begins(First(a)) /\ First(a).op = a.op /\ First(a) \in Attempt
      BY <1>1, FirstBegins, BeginsIs
  <2>2. AfterFailure(o, a) = [flow[o] EXCEPT !.call = First(a), !.tries = @ + 1]
      BY <1>2 DEF AfterFailure
  <2>3. flow[o].tries + 1 \in 0 .. Tries
      BY <1>2, LeaseAssumption DEF Handled, FlowRow
  <2>4. /\ AfterFailure(o, a) \in FlowRow /\ AfterFailure(o, a).call = First(a)
        /\ AfterFailure(o, a).at = flow[o].at /\ AfterFailure(o, a).handle = flow[o].handle
      BY <2>1, <2>2, <2>3 DEF Handled, FlowRow
  <2> QED BY <2>1, <2>4 DEF Handled
<1>3. CASE ~(flow[o].tries < Tries)
  <2>1. CASE a.op = "allocate"
    <3>1. AfterFailure(o, a) = Enter(o, "ended", None)
        BY <1>3, <2>1 DEF AfterFailure
    <3>2. Enter(o, "ended", None) \in FlowRow /\ Enter(o, "ended", None).at = "ended"
          /\ Enter(o, "ended", None).call = None
        BY EnterIs DEF Stages
    <3> QED BY <3>1, <3>2 DEF Handled
  <2>2. CASE a.op = "clone"
    <3>1. Begins(ReleaseOf(flow[o].handle)) /\ ReleaseOf(flow[o].handle).op = "release"
        BY <2>2 DEF Handled, Begins, ReleaseOf
    <3>2. /\ Enter(o, "finally", ReleaseOf(flow[o].handle)) \in FlowRow
          /\ Enter(o, "finally", ReleaseOf(flow[o].handle)).at = "finally"
          /\ Enter(o, "finally", ReleaseOf(flow[o].handle)).call = ReleaseOf(flow[o].handle)
        BY <3>1, BeginsIs, EnterIs DEF Stages
    <3>3. AfterFailure(o, a) = Enter(o, "finally", ReleaseOf(flow[o].handle))
        BY <1>3, <2>2 DEF AfterFailure
    <3> QED BY <3>1, <3>2, <3>3 DEF Handled
  <2>3. CASE a.op = "release"
    <3>1. AfterFailure(o, a) = AfterAnswer(o, a)
        BY <1>3, <2>3 DEF AfterFailure
    <3> QED BY <2>3, <3>1, AnswerIs
  <2> QED BY <1>1, <2>1, <2>2, <2>3
<1> QED BY <1>2, <1>3

\* Attempt a, awaited by o, or nobody's.
Acting(o, a) ==
  \/ o \in Workflows /\ flow[o].call = a /\ a # None
  \/ o = Late /\ a \in late

LEMMA ActingIs ==
  ASSUME NEW o, NEW a, Acting(o, a)
  PROVE  a \in Running /\ (o \in Workflows => o # Late)
  BY LeaseAssumption DEF Acting, Running, Calls, Workflows

LEMMA CallsMove ==
  ASSUME Flows, NEW o \in Workflows, NEW r, Handled(r), flow' = [flow EXCEPT ![o] = r],
         late' \subseteq late \cup {flow[o].call}, flow[o].call # None \/ late' \subseteq late
  PROVE  Flows' /\ \A x \in Running' : x \in Running \/ (x = r.call /\ x # None)
<1>1. flow'[o] = r /\ \A p \in Workflows \ {o} : flow'[p] = flow[p]
    BY DEF Flows
<1>2. flow' \in [Workflows -> FlowRow]
    BY DEF Flows, Handled
<1>3. \A p \in Workflows : Handled(flow'[p])
    BY <1>1 DEF Flows
<1>4. ASSUME NEW x \in Running' PROVE x \in Running \/ (x = r.call /\ x # None)
    BY <1>1 DEF Running, Calls
<1> QED BY <1>2, <1>3, <1>4 DEF Flows

LEMMA LateMove ==
  ASSUME Flows, UNCHANGED flow, NEW S, late' \subseteq late \cup S
  PROVE  Flows' /\ \A x \in Running' : x \in Running \/ x \in S
  BY DEF Flows, Running, Calls

\* An attempt that goes on adds what it goes on as, one that ends only what begins.
LEMMA AttemptGoesOn ==
  ASSUME Flows, NEW o, NEW a \in Attempt, Acting(o, a), NEW b \in Attempt, b.op = a.op,
         Goto(o, a, b)
  PROVE  Flows' /\ \A x \in Running' : x \in Running \/ x = b
<1>1. CASE o = Late
  <2>1. UNCHANGED flow /\ late' \subseteq late \cup {b}
      BY <1>1 DEF Goto
  <2> QED BY <2>1, LateMove
<1>2. CASE o # Late
  <2>1. o \in Workflows /\ flow[o].call = a /\ a # None /\ UNCHANGED late
      BY <1>2 DEF Acting, Goto
  <2> DEFINE r == [flow[o] EXCEPT !.call = b]
  <2>2. flow' = [flow EXCEPT ![o] = r]
      BY <1>2 DEF Goto
  <2>3. Handled(r) /\ r.call = b
      BY <2>1 DEF Flows, Handled, FlowRow
  <2> HIDE DEF r
  <2> QED BY <2>1, <2>2, <2>3, CallsMove
<1> QED BY <1>1, <1>2

LEMMA AttemptIsOver ==
  ASSUME Flows, NEW o, NEW a, Acting(o, a), Sound(a),
         Throw(o, a) \/ (Return(o, a) /\ (a.op = "allocate" => a.at = "resolve"))
  PROVE  Flows' /\ \A x \in Running' : x \in Running \/ Begins(x)
<1>1. CASE o = Late
  <2>1. UNCHANGED flow /\ late' \subseteq late \cup {}
      BY <1>1 DEF Throw, Return
  <2> QED BY <2>1, LateMove
<1>2. CASE o # Late
  <2>1. o \in Workflows /\ flow[o].call = a /\ a # None /\ UNCHANGED late /\ Handled(flow[o])
      BY <1>2 DEF Acting, Throw, Return, Flows
  <2>2. PICK r \in {AfterAnswer(o, a), AfterFailure(o, a)} :
          /\ flow' = [flow EXCEPT ![o] = r] /\ Handled(r)
          /\ r.call = None \/ Begins(r.call)
      BY <1>2, <2>1, AnswerIs, FailureIs DEF Throw, Return
  <2> QED BY <2>1, <2>2, CallsMove
<1> QED BY <1>1, <1>2

\* What keeps the invariant: nobody new is about to flip, what a release moved on stays so,
\* and an unfinished lease is finished only by a flip.
LEMMA Settles ==
  ASSUME LeaseInv, Flows', Tables', OneActive',
         \A x \in Running' : x \in Running \/ Begins(x) \/ (Sound(x)' /\ x.at # "flip"),
         \A w \in Leases : lease[w].state \in Left => lease'[w].state \in Left,
         \A w \in Leases :
           lease[w].state \in Unfinished /\ (\A a \in Running : a.at = "flip" => a.ws # w) =>
             lease'[w].state \in Unfinished,
         dir' = "cloned" => dir = "cloned" /\ written' = written
  PROVE  LeaseInv'
<1>1. ASSUME NEW x \in Running' PROVE Sound(x)'
  <2>1. CASE x \in Running
    <3>1. Sound(x)
        BY <2>1 DEF LeaseInv
    <3> QED BY <3>1 DEF Sound
  <2>2. CASE Begins(x)
      BY <2>2, BeginsIs DEF Sound
  <2> QED BY <1>1, <2>1, <2>2
<1>2. TreeHasLease'
  <2> SUFFICES ASSUME dir' = "cloned"
               PROVE  /\ written' # "never"
                      /\ written' = "held" =>
                           \E w \in Leases :
                             /\ lease'[w].state \in Unfinished
                             /\ \A a \in Running' : a.at = "flip" => a.ws # w
      BY DEF TreeHasLease
  <2>1. written' # "never"
      BY DEF LeaseInv, TreeHasLease
  <2>2. ASSUME written' = "held"
        PROVE  \E w \in Leases : /\ lease'[w].state \in Unfinished
                                 /\ \A a \in Running' : a.at = "flip" => a.ws # w
    <3>1. PICK w \in Leases : /\ lease[w].state \in Unfinished
                              /\ \A a \in Running : a.at = "flip" => a.ws # w
        BY <2>2 DEF LeaseInv, TreeHasLease
    <3>2. \A a \in Running' : a.at = "flip" => a.ws # w
        BY <3>1, BeginsIs
    <3> QED BY <3>1, <3>2
  <2> QED BY <2>1, <2>2
<1> QED BY <1>1, <1>2 DEF LeaseInv

LEMMA DirectoryMade ==
  ASSUME LeaseInv, NEW o, NEW a, Acting(o, a), MakeDirectory(o, a)
  PROVE  LeaseInv'
<1> DEFINE b == [a EXCEPT !.at = "insert"]
<1>1. a \in Running /\ Sound(a) /\ a \in Attempt
    BY ActingIs DEF LeaseInv, Sound
<1>2. b \in Attempt /\ b.op = a.op /\ b.at = "insert"
    BY <1>1 DEF MakeDirectory, Attempt
<1>3. Flows' /\ \A x \in Running' : x \in Running \/ x = b
    BY <1>1, <1>2, AttemptGoesOn DEF MakeDirectory, LeaseInv
<1>4. Sound(b)' /\ b.at # "flip"
    BY <1>2 DEF Sound
<1>5. Tables' /\ OneActive' /\ (dir' = "cloned" => dir = "cloned" /\ written' = written)
    BY DEF MakeDirectory, LeaseInv, Tables, OneActive
<1> HIDE DEF b
<1> QED BY <1>3, <1>4, <1>5, Settles DEF MakeDirectory

LEMMA LeaseInserted ==
  ASSUME LeaseInv, NEW o, NEW a, Acting(o, a), InsertLease(o, a)
  PROVE  LeaseInv'
<1>1. a \in Running /\ Sound(a) /\ a \in Attempt
    BY ActingIs DEF LeaseInv, Sound
<1>2. PICK w \in Leases :
        /\ \/ UNCHANGED lease
           \/ /\ \A x \in Leases : lease[x].state \notin Active
              /\ lease[w].state = "none"
              /\ lease' = [lease EXCEPT ![w].state = "ALLOCATED"]
        /\ Goto(o, a, [a EXCEPT !.at = "resolve", !.ws = w])
    BY DEF InsertLease
<1> DEFINE b == [a EXCEPT !.at = "resolve", !.ws = w]
<1>3. b \in Attempt /\ b.op = a.op /\ b.at = "resolve" /\ b.ws = w
    BY <1>1 DEF InsertLease, Attempt
<1> HIDE DEF b
<1>4. Flows' /\ \A x \in Running' : x \in Running \/ x = b
  <2>1. Goto(o, a, b)
      BY <1>2 DEF b
  <2> QED BY <1>1, <1>3, <2>1, AttemptGoesOn DEF LeaseInv
<1>5. Sound(b)' /\ b.at # "flip"
    BY ONLY <1>3, w \in Leases DEF Sound
<1>6. /\ lease \in [Leases -> LeaseRow] /\ lease' \in [Leases -> LeaseRow]
      /\ \A x \in Leases : lease'[x].state = lease[x].state
                           \/ (x = w /\ lease[x].state = "none" /\ lease'[x].state = "ALLOCATED"
                               /\ \A y \in Leases : lease[y].state \notin Active)
    BY <1>2 DEF LeaseInv, Tables, LeaseRow, States
<1>7. Tables' /\ (dir' = "cloned" => dir = "cloned" /\ written' = written)
    BY <1>6 DEF InsertLease, LeaseInv, Tables
<1>8. OneActive'
    BY <1>6 DEF LeaseInv, OneActive
<1>9. \A x \in Leases : /\ lease[x].state \in Left => lease'[x].state \in Left
                        /\ lease[x].state \in Unfinished => lease'[x].state \in Unfinished
    BY <1>6 DEF Left, Unfinished
<1> QED BY <1>4, <1>5, <1>7, <1>8, <1>9, Settles

\* The steps that only end an attempt, or that only read.
LEMMA AttemptEnds ==
  ASSUME LeaseInv, NEW o, NEW a, Acting(o, a),
         ResolvePath(o, a) \/ FinishClone(o, a)
  PROVE  LeaseInv'
<1>1. a \in Running /\ Sound(a)
    BY ActingIs DEF LeaseInv
<1>2. UNCHANGED <<lease, dir, written, todo>>
    BY DEF ResolvePath, FinishClone
<1>3. Throw(o, a) \/ (Return(o, a) /\ (a.op = "allocate" => a.at = "resolve"))
    BY DEF ResolvePath, FinishClone
<1>4. Flows' /\ \A x \in Running' : x \in Running \/ Begins(x)
    BY <1>1, <1>3, AttemptIsOver DEF LeaseInv
<1>5. Tables' /\ OneActive'
    BY <1>2 DEF LeaseInv, Tables, OneActive
<1> QED BY <1>2, <1>4, <1>5, Settles

LEMMA Asserted ==
  ASSUME LeaseInv, NEW o, NEW a, Acting(o, a), AssertAllocated(o, a)
  PROVE  LeaseInv'
<1> DEFINE b == [a EXCEPT !.at = "write"]
<1>1. a \in Running /\ Sound(a) /\ a \in Attempt
    BY ActingIs DEF LeaseInv, Sound
<1>2. b \in Attempt /\ b.op = a.op /\ b.at = "write"
    BY <1>1 DEF AssertAllocated, Attempt
<1>3. Goto(o, a, b) \/ Throw(o, a)
    BY DEF AssertAllocated
<1>4. Flows' /\ \A x \in Running' : x \in Running \/ x = b \/ Begins(x)
    BY <1>1, <1>2, <1>3, AttemptGoesOn, AttemptIsOver DEF LeaseInv
<1>5. Sound(b)' /\ b.at # "flip"
    BY <1>2 DEF Sound
<1>6. Tables' /\ OneActive' /\ UNCHANGED <<lease, dir, written>>
    BY DEF AssertAllocated, LeaseInv, Tables, OneActive
<1> HIDE DEF b
<1> QED BY <1>4, <1>5, <1>6, Settles

\* What git clone writes under an allocated lease has that lease, and nobody flips it: who is
\* past the hop of a release has moved its lease on.
LEMMA Cloned ==
  ASSUME LeaseInv, NEW o, NEW a, Acting(o, a), GitClone(o, a)
  PROVE  LeaseInv'
<1> DEFINE b == [a EXCEPT !.at = "finish"]
<1>1. a \in Running /\ Sound(a) /\ a \in Attempt /\ a.ws \in Leases
    BY ActingIs DEF LeaseInv, Sound, GitClone, Attempt
<1>2. b \in Attempt /\ b.op = a.op /\ b.at = "finish"
    BY <1>1 DEF GitClone, Attempt
<1>3. Goto(o, a, b) \/ Throw(o, a)
    BY DEF GitClone
<1>4. Flows' /\ \A x \in Running' : x \in Running \/ x = b \/ Begins(x)
    BY <1>1, <1>2, <1>3, AttemptGoesOn, AttemptIsOver DEF LeaseInv
<1>5. Sound(b)' /\ b.at # "flip"
    BY <1>2 DEF Sound
<1>6. Tables' /\ OneActive' /\ UNCHANGED lease
    BY DEF GitClone, LeaseInv, Tables, OneActive
<1> HIDE DEF b
<1>7. CASE dir' = "cloned" => dir = "cloned" /\ written' = written
    BY <1>4, <1>5, <1>6, <1>7, Settles
<1>8. CASE written' = IF lease[a.ws].state = "ALLOCATED" THEN "held" ELSE "stale"
  <2>1. ASSUME NEW x \in Running' PROVE Sound(x)' /\ (x.at = "flip" => x \in Running)
    <3>1. CASE x \in Running
      <4>1. Sound(x)
          BY <3>1 DEF LeaseInv
      <4> QED BY <1>6, <3>1, <4>1 DEF Sound
    <3>2. CASE Begins(x)
        BY <3>2, BeginsIs DEF Sound
    <3> QED BY <1>4, <1>5, <2>1, <3>1, <3>2
  <2>2. ASSUME lease[a.ws].state = "ALLOCATED", NEW x \in Running', x.at = "flip"
        PROVE  x.ws # a.ws
      BY <1>6, <2>1, <2>2 DEF Sound, Left
  <2>3. TreeHasLease'
      BY <1>1, <1>6, <1>8, <2>2 DEF TreeHasLease, Unfinished
  <2> QED BY <1>4, <1>6, <2>1, <2>3 DEF LeaseInv
<1> QED BY <1>7, <1>8 DEF GitClone

LEMMA LeaseRead ==
  ASSUME LeaseInv, NEW o, NEW a, Acting(o, a), ReadLease(o, a)
  PROVE  LeaseInv'
<1>1. /\ a \in Running /\ Sound(a) /\ a \in Attempt /\ a.ws \in Leases
      /\ lease[a.ws].state \in States \cup {"none", "purged"} /\ a.op = "release"
    BY ActingIs DEF LeaseInv, Sound, ReadLease, Attempt, Tables, LeaseRow
<1>2. UNCHANGED <<lease, dir, written, todo>>
    BY DEF ReadLease
<1>3. Tables' /\ OneActive'
    BY <1>2 DEF LeaseInv, Tables, OneActive
<1>4. CASE lease[a.ws].state \in {"none", "purged", "RELEASED"}
  <2>1. Flows' /\ \A x \in Running' : x \in Running \/ Begins(x)
      BY <1>1, <1>4, AttemptIsOver DEF LeaseInv, ReadLease
  <2> QED BY <1>2, <1>3, <2>1, Settles
<1>5. CASE lease[a.ws].state \notin {"none", "purged", "RELEASED"}
  <2>1. PICK at \in {"hop", "rm"}, s \in States :
          /\ s = lease[a.ws].state
          /\ IF s \in {"ALLOCATED", "ORPHANED"} THEN at = "hop" ELSE at = "rm"
          /\ Goto(o, a, [a EXCEPT !.at = at, !.from = s])
      BY <1>1, <1>5 DEF ReadLease
  <2> DEFINE b == [a EXCEPT !.at = at, !.from = s]
  <2>2. b \in Attempt /\ b.op = a.op /\ b.ws = a.ws /\ b.from = s /\ b.at = at
      BY <1>1, <2>1 DEF Attempt
  <2>3. Flows' /\ \A x \in Running' : x \in Running \/ x = b
      BY <1>1, <2>1, <2>2, AttemptGoesOn DEF LeaseInv
  <2>4. Sound(b)' /\ b.at # "flip"
      BY <1>1, <1>2, <1>5, <2>1, <2>2 DEF Sound, States, Left
  <2> HIDE DEF b
  <2> QED BY <1>2, <1>3, <2>3, <2>4, Settles
<1> QED BY <1>4, <1>5

LEMMA ReleaseRequested ==
  ASSUME LeaseInv, NEW o, NEW a, Acting(o, a), RequestRelease(o, a)
  PROVE  LeaseInv'
<1> DEFINE b == [a EXCEPT !.at = "rm", !.from = "RELEASE_REQUESTED"]
<1>1. /\ a \in Running /\ Sound(a) /\ a \in Attempt /\ a.ws \in Leases
      /\ a.from \in {"ALLOCATED", "ORPHANED"} /\ a.op = "release"
    BY ActingIs DEF LeaseInv, Sound, RequestRelease, Attempt
<1>2. UNCHANGED <<dir, written, todo>> /\ lease \in [Leases -> LeaseRow]
    BY DEF RequestRelease, LeaseInv, Tables
<1>3. CASE Throw(o, a) /\ UNCHANGED lease
  <2>1. Flows' /\ \A x \in Running' : x \in Running \/ Begins(x)
      BY <1>1, <1>3, AttemptIsOver DEF LeaseInv
  <2>2. Tables' /\ OneActive'
      BY <1>2, <1>3 DEF LeaseInv, Tables, OneActive
  <2> QED BY <1>2, <1>3, <2>1, <2>2, Settles
<1>4. CASE TransitionLease(a.ws, a.from, "RELEASE_REQUESTED") /\ Goto(o, a, b)
  <2>1. b \in Attempt /\ b.op = a.op /\ b.ws = a.ws /\ b.from = "RELEASE_REQUESTED" /\ b.at = "rm"
      BY <1>1 DEF Attempt, States
  <2>2. Flows' /\ \A x \in Running' : x \in Running \/ x = b
      BY <1>1, <1>4, <2>1, AttemptGoesOn DEF LeaseInv
  <2>3. /\ lease' \in [Leases -> LeaseRow]
        /\ lease[a.ws].state \in {"ALLOCATED", "ORPHANED", "RELEASE_REQUESTED"}
        /\ lease'[a.ws].state = "RELEASE_REQUESTED"
        /\ \A x \in Leases \ {a.ws} : lease'[x] = lease[x] /\ lease[x].state \notin Active
      BY <1>1, <1>2, <1>4
         DEF TransitionLease, CanTransition, Drifted, IndexAllows, LeaseRow, States, Active
  <2>4. Tables'
      BY <1>2, <2>3 DEF LeaseInv, Tables
  <2>5. OneActive'
      BY <2>3 DEF OneActive
  <2>6. Sound(b)' /\ b.at # "flip"
      BY <1>1, <2>1, <2>3 DEF Sound, Left
  <2>7. \A x \in Leases : /\ lease[x].state \in Left => lease'[x].state \in Left
                          /\ lease[x].state \in Unfinished => lease'[x].state \in Unfinished
      BY <1>1, <2>3 DEF Left, Unfinished
  <2> HIDE DEF b
  <2> QED BY <1>2, <2>2, <2>4, <2>5, <2>6, <2>7, Settles
<1> QED BY <1>3, <1>4 DEF RequestRelease

\* The rm is done before anybody flips a lease.
LEMMA DirectoryRemoved ==
  ASSUME LeaseInv, NEW o, NEW a, Acting(o, a), RemoveDirectory(o, a)
  PROVE  LeaseInv'
<1>1. a \in Running /\ Sound(a) /\ a \in Attempt /\ a.op = "release" /\ a.at = "rm"
    BY ActingIs DEF LeaseInv, Sound, RemoveDirectory
<1>2. PICK at \in {"flip", "fail"} :
        /\ Goto(o, a, [a EXCEPT !.at = at])
        /\ \/ at = "flip" /\ dir' = "absent" /\ written' = "never"
           \/ at = "fail" /\ UNCHANGED <<dir, written>>
    BY DEF RemoveDirectory
<1> DEFINE b == [a EXCEPT !.at = at]
<1>3. b \in Attempt /\ b.op = a.op /\ b.ws = a.ws /\ b.from = a.from /\ b.at = at
    BY <1>1 DEF Attempt
<1>4. Flows' /\ \A x \in Running' : x \in Running \/ x = b
    BY <1>1, <1>2, <1>3, AttemptGoesOn DEF LeaseInv
<1>5. UNCHANGED lease /\ Sound(b)'
    BY <1>1, <1>3 DEF Sound, RemoveDirectory
<1>6. Tables' /\ OneActive'
    BY <1>2 DEF RemoveDirectory, LeaseInv, Tables, OneActive
<1> HIDE DEF b
<1>7. CASE at = "fail"
    BY <1>2, <1>3, <1>4, <1>5, <1>6, <1>7, Settles
<1>8. CASE at = "flip"
  <2>1. ASSUME NEW x \in Running' PROVE Sound(x)'
    <3>1. CASE x \in Running
      <4>1. Sound(x)
          BY <3>1 DEF LeaseInv
      <4> QED BY <1>5, <4>1 DEF Sound
    <3> QED BY <1>4, <1>5, <3>1
  <2>2. TreeHasLease'
      BY <1>2, <1>8 DEF TreeHasLease
  <2> QED BY <1>4, <1>6, <2>1, <2>2 DEF LeaseInv
<1> QED BY <1>7, <1>8

LEMMA FailureRecorded ==
  ASSUME LeaseInv, NEW o, NEW a, Acting(o, a), RecordCleanupFailure(o, a)
  PROVE  LeaseInv'
<1>1. /\ a \in Running /\ Sound(a) /\ a.ws \in Leases
      /\ a.from \in {"RELEASE_REQUESTED", "FAILED_CLEANUP"}
    BY ActingIs DEF LeaseInv, Sound, RecordCleanupFailure
<1>2. UNCHANGED <<dir, written, todo>> /\ lease \in [Leases -> LeaseRow]
    BY DEF RecordCleanupFailure, LeaseInv, Tables
<1>3. Flows' /\ \A x \in Running' : x \in Running \/ Begins(x)
    BY <1>1, AttemptIsOver DEF LeaseInv, RecordCleanupFailure
<1>4. /\ lease' \in [Leases -> LeaseRow]
      /\ \A x \in Leases :
           \/ lease'[x] = lease[x]
           \/ /\ lease[x].state \in {"RELEASE_REQUESTED", "FAILED_CLEANUP"}
              /\ lease'[x].state = "FAILED_CLEANUP"
  <2>1. CASE UNCHANGED lease
      BY <1>2, <2>1
  <2>2. CASE /\ lease[a.ws].state \in {a.from, "FAILED_CLEANUP"}
             /\ lease[a.ws].attempts < MaxAttempts
             /\ lease' = [lease EXCEPT ![a.ws] =
                  [state |-> "FAILED_CLEANUP", attempts |-> @.attempts + 1, due |-> FALSE]]
    <3>1. lease[a.ws].attempts + 1 \in 0 .. MaxAttempts
        BY <1>1, <1>2, <2>2, LeaseAssumption DEF LeaseRow
    <3>2. lease' \in [Leases -> LeaseRow]
        BY <1>2, <2>2, <3>1 DEF LeaseRow, States
    <3> QED BY <1>1, <1>2, <2>2, <3>2
  <2> QED BY <2>1, <2>2 DEF RecordCleanupFailure, Drifted
<1>5. Tables' /\ OneActive'
    BY <1>2, <1>4 DEF LeaseInv, Tables, OneActive, Active
<1>6. \A x \in Leases : /\ lease[x].state \in Left => lease'[x].state \in Left
                        /\ lease[x].state \in Unfinished => lease'[x].state \in Unfinished
    BY <1>4 DEF Left, Unfinished
<1> QED BY <1>2, <1>3, <1>5, <1>6, Settles

LEMMA Released ==
  ASSUME LeaseInv, NEW o, NEW a, Acting(o, a), MarkReleased(o, a)
  PROVE  LeaseInv'
<1>1. /\ a \in Running /\ Sound(a) /\ a.ws \in Leases /\ a.op = "release" /\ a.at = "flip"
      /\ a.from \in {"RELEASE_REQUESTED", "FAILED_CLEANUP"}
    BY ActingIs DEF LeaseInv, Sound, MarkReleased
<1>2. UNCHANGED <<dir, written, todo>> /\ lease \in [Leases -> LeaseRow]
    BY DEF MarkReleased, LeaseInv, Tables
<1>3. Flows' /\ \A x \in Running' : x \in Running \/ Begins(x)
    BY <1>1, AttemptIsOver DEF LeaseInv, MarkReleased
<1>4. /\ lease' \in [Leases -> LeaseRow]
      /\ \A x \in Leases \ {a.ws} : lease'[x] = lease[x]
      /\ lease'[a.ws] = lease[a.ws] \/ lease'[a.ws].state = "RELEASED"
    BY <1>1, <1>2 DEF MarkReleased, TransitionLease, LeaseRow, States
<1>5. Tables' /\ OneActive'
    BY <1>1, <1>2, <1>4 DEF LeaseInv, Tables, OneActive, Active
<1>6. \A x \in Leases : lease[x].state \in Left => lease'[x].state \in Left
    BY <1>1, <1>4 DEF Left
<1>7. \A x \in Leases : lease[x].state \in Unfinished /\ x # a.ws => lease'[x].state \in Unfinished
    BY <1>4
<1> QED BY <1>1, <1>2, <1>3, <1>5, <1>6, <1>7, Settles

LEMMA AttemptKeeps ==
  ASSUME LeaseInv, NEW o, NEW a, Acting(o, a), AttemptStep(o, a)
  PROVE  LeaseInv'
  BY DirectoryMade, LeaseInserted, AttemptEnds, Asserted, Cloned, LeaseRead, ReleaseRequested,
     DirectoryRemoved, FailureRecorded, Released DEF AttemptStep

\* The steps of a workflow by itself: its call may go on unawaited, and what it calls begins.
LEMMA WorkflowMoves ==
  ASSUME LeaseInv, NEW o \in Workflows, NEW r, Handled(r), r.call = None \/ Begins(r.call),
         flow' = [flow EXCEPT ![o] = r], UNCHANGED <<lease, dir, written>>, todo' \subseteq Leases,
         late' = late \/ (flow[o].call # None /\ late' = late \cup {flow[o].call})
  PROVE  LeaseInv'
<1>1. Flows' /\ \A x \in Running' : x \in Running \/ Begins(x)
    BY CallsMove DEF LeaseInv
<1>2. Tables' /\ OneActive'
    BY DEF LeaseInv, Tables, OneActive
<1> QED BY <1>1, <1>2, Settles

LEMMA AttemptGivenUp ==
  ASSUME LeaseInv, NEW o \in Workflows, AttemptFails(o)
  PROVE  LeaseInv'
<1>1. flow[o].call # None /\ Handled(flow[o]) /\ Sound(flow[o].call)
    BY DEF AttemptFails, LeaseInv, Flows, Running, Calls
<1>2. /\ Handled(AfterFailure(o, flow[o].call))
      /\ \/ AfterFailure(o, flow[o].call).call = None
         \/ Begins(AfterFailure(o, flow[o].call).call)
    BY <1>1, FailureIs
<1> QED BY <1>1, <1>2, WorkflowMoves DEF AttemptFails, LeaseInv, Tables

LEMMA Died ==
  ASSUME LeaseInv, NEW a, LateDies(a)
  PROVE  LeaseInv'
<1>1. Flows' /\ \A x \in Running' : x \in Running
    BY DEF LateDies, LeaseInv, Flows, Running, Calls
<1>2. Tables' /\ OneActive' /\ UNCHANGED <<lease, dir, written>>
    BY DEF LateDies, LeaseInv, Tables, OneActive
<1> QED BY <1>1, <1>2, Settles

\* A workflow enters a stage with a call that begins, or with none.
LEMMA Entered ==
  ASSUME LeaseInv, NEW o \in Workflows, NEW s \in Stages, NEW c, c = None \/ Begins(c),
         c # None /\ c.op = "clone" => s = "clone",
         s \in {"allocated", "clone", "review", "cleanup"} => flow[o].handle \in Leases,
         flow' = [flow EXCEPT ![o] = Enter(o, s, c)], UNCHANGED <<lease, dir, written>>,
         todo' \subseteq Leases,
         late' = late \/ (flow[o].call # None /\ late' = late \cup {flow[o].call})
  PROVE  LeaseInv'
<1>1. Handled(flow[o]) /\ (c = None \/ c \in Attempt)
    BY BeginsIs DEF LeaseInv, Flows
<1>2. /\ Enter(o, s, c) \in FlowRow /\ Enter(o, s, c).at = s /\ Enter(o, s, c).call = c
      /\ s # "ended" => Enter(o, s, c).handle = flow[o].handle
    BY <1>1, EnterIs
<1>3. Handled(Enter(o, s, c))
    BY <1>2 DEF Handled
<1> QED BY <1>2, <1>3, WorkflowMoves

LEMMA ExecutionMoves ==
  ASSUME LeaseInv, NEW e \in Executions, StartExecution(e) \/ Proceed(e) \/ Terminate(e)
  PROVE  LeaseInv'
<1>1. e \in Workflows /\ todo \subseteq Leases /\ Handled(flow[e])
    BY DEF Workflows, LeaseInv, Tables, Flows
<1>2. CASE StartExecution(e)
  <2>1. Begins(Allocation) /\ Allocation.op # "clone" /\ "allocate" \in Stages
      BY DEF Begins, Allocation, Stages
  <2> QED BY <1>1, <1>2, <2>1, Entered DEF StartExecution
<1>3. CASE Proceed(e)
  <2>1. flow[e].handle \in Leases /\ {"clone", "finally", "cleanup"} \subseteq Stages
      BY <1>1, <1>3 DEF Proceed, Handled, Stages
  <2>2. Begins(CloneOf(flow[e].handle)) /\ Begins(ReleaseOf(flow[e].handle))
        /\ ReleaseOf(flow[e].handle).op # "clone"
      BY <2>1 DEF Begins, ReleaseOf
  <2>3. CASE flow' = [flow EXCEPT ![e] = Enter(e, "clone", CloneOf(flow[e].handle))]
      BY <1>1, <1>3, <2>1, <2>2, <2>3, Entered DEF Proceed
  <2>4. CASE flow' = [flow EXCEPT ![e] = Enter(e, "finally", ReleaseOf(flow[e].handle))]
      BY <1>1, <1>3, <2>1, <2>2, <2>4, Entered DEF Proceed
  <2>5. CASE flow' = [flow EXCEPT ![e] = Enter(e, "cleanup", ReleaseOf(flow[e].handle))]
      BY <1>1, <1>3, <2>1, <2>2, <2>5, Entered DEF Proceed
  <2> QED BY <1>3, <2>3, <2>4, <2>5 DEF Proceed
<1>4. CASE Terminate(e)
  <2>1. "ended" \in Stages
      BY DEF Stages
  <2> QED BY <1>1, <1>4, <2>1, Entered DEF Terminate
<1> QED BY <1>2, <1>3, <1>4

\* What the sweep, the purge and the clock do to the rows: no lease is released or allocated.
LEMMA RowsMove ==
  ASSUME LeaseInv, NEW S, lease' \in [Leases -> LeaseRow], UNCHANGED <<dir, written, late>>,
         todo' \subseteq Leases,
         \A w \in Leases :
           \/ lease'[w].state = lease[w].state
           \/ lease[w].state = "ALLOCATED" /\ lease'[w].state = "ORPHANED"
           \/ lease[w].state = "RELEASED" /\ lease'[w].state = "purged",
         NEW s \in {"swept", "reap", "idle"},
         \/ flow' = flow
         \/ /\ flow[Retention].call = None \/ flow[Retention].call.op # "clone"
            /\ flow' = [flow EXCEPT ![Retention].at = s]
  PROVE  LeaseInv'
<1>1. Flows' /\ \A x \in Running' : x \in Running
  <2>1. CASE flow' = flow
      BY <2>1 DEF LeaseInv, Flows, Running, Calls
  <2>2. CASE /\ flow[Retention].call = None \/ flow[Retention].call.op # "clone"
             /\ flow' = [flow EXCEPT ![Retention].at = s]
    <3> DEFINE r == [flow[Retention] EXCEPT !.at = s]
    <3>1. Retention \in Workflows /\ Handled(flow[Retention])
        BY DEF Workflows, LeaseInv, Flows
    <3>2. Handled(r) /\ r.call = flow[Retention].call /\ flow' = [flow EXCEPT ![Retention] = r]
        BY <2>2, <3>1 DEF Handled, FlowRow, Stages
    <3> HIDE DEF r
    <3>3. Flows' /\ \A x \in Running' : x \in Running \/ (x = r.call /\ x # None)
        BY <3>1, <3>2, CallsMove DEF LeaseInv
    <3> QED BY <3>1, <3>2, <3>3 DEF Running, Calls
  <2> QED BY <2>1, <2>2
<1>2. Tables' /\ OneActive'
    BY DEF LeaseInv, Tables, OneActive, Active
<1>3. \A w \in Leases : /\ lease[w].state \in Left => lease'[w].state \in Left
                        /\ lease[w].state \in Unfinished => lease'[w].state \in Unfinished
    BY DEF Left, Unfinished
<1> QED BY <1>1, <1>2, <1>3, Settles

LEMMA RetentionMoves ==
  ASSUME LeaseInv, (\E w \in Leases : GraceEnds(w)) \/ OrphanSweep \/ Reap \/ ReleaseNext
                   \/ PurgeReleased
  PROVE  LeaseInv'
<1>1. /\ Retention \in Workflows /\ Handled(flow[Retention]) /\ todo \subseteq Leases
      /\ lease \in [Leases -> LeaseRow]
    BY DEF Workflows, LeaseInv, Flows, Tables
<1>2. flow[Retention].at # "clone" => flow[Retention].call = None \/ flow[Retention].call.op # "clone"
    BY <1>1 DEF Handled
<1>3. ASSUME NEW w \in Leases, GraceEnds(w) PROVE LeaseInv'
  <2>1. /\ lease' \in [Leases -> LeaseRow]
        /\ \A x \in Leases : lease'[x].state = lease[x].state
      BY <1>1, <1>3 DEF GraceEnds, LeaseRow
  <2> QED BY <1>1, <1>3, <2>1, RowsMove DEF GraceEnds
<1>4. CASE OrphanSweep
  <2>1. PICK S \in SUBSET {w \in Leases : lease[w].state = "ALLOCATED" /\ HeartbeatsWritten} :
          lease' = [w \in Leases |-> IF w \in S THEN [lease[w] EXCEPT !.state = "ORPHANED"] ELSE lease[w]]
      BY <1>4 DEF OrphanSweep
  <2>2. /\ lease' \in [Leases -> LeaseRow]
        /\ \A x \in Leases : \/ lease'[x].state = lease[x].state
                             \/ lease[x].state = "ALLOCATED" /\ lease'[x].state = "ORPHANED"
    <3>1. ASSUME NEW w \in Leases
          PROVE  [lease[w] EXCEPT !.state = "ORPHANED"] \in LeaseRow
        BY <1>1 DEF LeaseRow, States
    <3>2. lease' \in [Leases -> LeaseRow]
        BY <1>1, <2>1, <3>1
    <3> QED BY <1>1, <2>1, <3>2 DEF LeaseRow
  <2> QED BY <1>1, <1>2, <1>4, <2>2, RowsMove DEF OrphanSweep
<1>5. CASE PurgeReleased
  <2>1. PICK S \in SUBSET {w \in Leases : lease[w].state = "RELEASED"} :
          lease' = [w \in Leases |-> IF w \in S THEN [lease[w] EXCEPT !.state = "purged"] ELSE lease[w]]
      BY <1>5 DEF PurgeReleased
  <2>2. /\ lease' \in [Leases -> LeaseRow]
        /\ \A x \in Leases : \/ lease'[x].state = lease[x].state
                             \/ lease[x].state = "RELEASED" /\ lease'[x].state = "purged"
    <3>1. ASSUME NEW w \in Leases
          PROVE  [lease[w] EXCEPT !.state = "purged"] \in LeaseRow
        BY <1>1 DEF LeaseRow, States
    <3>2. lease' \in [Leases -> LeaseRow]
        BY <1>1, <2>1, <3>1
    <3> QED BY <1>1, <2>1, <3>2 DEF LeaseRow
  <2> QED BY <1>1, <1>2, <1>5, <2>2, RowsMove DEF PurgeReleased
<1>6. CASE Reap
  <2>1. todo' \subseteq Leases /\ lease' = lease
      BY <1>6 DEF Reap
  <2> QED BY <1>1, <1>2, <1>6, <2>1, RowsMove DEF Reap
<1>7. CASE ReleaseNext
  <2>1. PICK w \in todo : /\ todo' = todo \ {w}
                          /\ flow' = [flow EXCEPT ![Retention] = Enter(Retention, "reap", ReleaseOf(w))]
      BY <1>7 DEF ReleaseNext
  <2>2. Begins(ReleaseOf(w)) /\ ReleaseOf(w).op # "clone" /\ "reap" \in Stages
      BY <1>1 DEF Begins, ReleaseOf, Stages
  <2> QED BY <1>1, <1>7, <2>1, <2>2, Entered DEF ReleaseNext
<1> QED BY <1>3, <1>4, <1>5, <1>6, <1>7

LEMMA LeaseInvInit == Init => LeaseInv
<1> SUFFICES ASSUME Init PROVE LeaseInv
    OBVIOUS
<1>1. Tables /\ OneActive /\ TreeHasLease
    BY LeaseAssumption DEF Init, Tables, LeaseRow, OneActive, Active, TreeHasLease
<1>2. \A o \in Workflows : Handled(flow[o]) /\ flow[o].call = None
    BY LeaseAssumption DEF Init, Handled, FlowRow, Stages
<1>3. Flows
    BY <1>2 DEF Init, Flows, Handled
<1>4. Running = {}
    BY <1>2 DEF Init, Running, Calls
<1> QED BY <1>1, <1>3, <1>4 DEF LeaseInv

LEMMA LeaseInvStep == LeaseInv /\ [Next]_vars => LeaseInv'
<1> SUFFICES ASSUME LeaseInv, [Next]_vars PROVE LeaseInv'
    OBVIOUS
<1>1. ASSUME NEW o \in Workflows, AwaitedStep(o) PROVE LeaseInv'
    BY <1>1, AttemptKeeps DEF AwaitedStep, Acting
<1>2. ASSUME NEW a \in late, AttemptStep(Late, a) PROVE LeaseInv'
    BY <1>2, AttemptKeeps DEF Acting
<1>3. CASE UNCHANGED vars
  <2>1. UNCHANGED <<lease, dir, written, flow, todo, late>>
      BY <1>3 DEF vars
  <2>2. Flows' /\ Tables' /\ OneActive' /\ \A x \in Running' : x \in Running
      BY <2>1 DEF LeaseInv, Flows, Tables, OneActive, Running, Calls
  <2> QED BY <2>1, <2>2, Settles
<1> QED BY <1>1, <1>2, <1>3, ExecutionMoves, AttemptGivenUp, Died, RetentionMoves DEF Next

LEMMA LeaseInvHolds == Spec => []LeaseInv
<1>1. Init /\ [][Next]_vars => []LeaseInv
    BY LeaseInvInit, LeaseInvStep, PTL
<1> QED BY <1>1, PTL DEF Spec

\* The rows, the directory and what the workflows and the attempts know of them keep their types.
THEOREM LeasesTypeCorrect == Spec => []TypeOK
<1>1. LeaseInv => TypeOK
  <2> SUFFICES ASSUME LeaseInv PROVE TypeOK
      OBVIOUS
  <2>1. late \subseteq Attempt
      BY DEF LeaseInv, Running, Sound
  <2> QED BY <2>1 DEF LeaseInv, Tables, Flows, FlowRow, TypeOK
<1> QED BY <1>1, LeaseInvHolds, PTL

\* When no release is left to run and no lease is left to release, a tree that is still there
\* was cloned by an attempt whose lease had been released under it: releaseWorkspace removes
\* the directory before it flips the lease, so no lease is RELEASED over a tree of its own.
THEOREM LeftoverIsStaleHolds == Spec => []LeftoverIsStale
<1>1. LeaseInv => LeftoverIsStale
  <2> SUFFICES ASSUME LeaseInv, dir = "cloned",
                      \A w \in Leases : lease[w].state \in {"none", "RELEASED", "purged"}
               PROVE  written = "stale"
      BY DEF LeftoverIsStale
  <2> QED BY DEF LeaseInv, Tables, TreeHasLease, Unfinished
<1> QED BY <1>1, LeaseInvHolds, PTL

LEMMA RemovalIsRm ==
  ASSUME LeaseInv, Next, dir = "cloned", dir' = "absent"
  PROVE  \E a \in Running : a.at = "rm"
<1>1. ASSUME NEW o, NEW a, AttemptStep(o, a)
      PROVE  a.at = "rm"
    BY <1>1 DEF AttemptStep, MakeDirectory, InsertLease, ResolvePath, AssertAllocated, GitClone,
                FinishClone, ReadLease, RequestRelease, RemoveDirectory, RecordCleanupFailure,
                MarkReleased
<1>2. ASSUME NEW o \in Workflows, AwaitedStep(o) PROVE \E a \in Running : a.at = "rm"
    BY <1>1, <1>2 DEF AwaitedStep, Running, Calls
<1>3. ASSUME NEW a \in late, AttemptStep(Late, a) PROVE \E b \in Running : b.at = "rm"
    BY <1>1, <1>3 DEF Running
<1>4. dir' # dir
    OBVIOUS
<1> QED
    BY <1>2, <1>3, <1>4
       DEF Next, StartExecution, Proceed, Terminate, AttemptFails, LateDies, GraceEnds,
           OrphanSweep, Reap, ReleaseNext, PurgeReleased

\* The rm that takes the tree of a running review away is for another lease of the run, and
\* that lease has left the active set: a release looks at its own lease before it removes.
THEOREM RemovalIsForOldLeaseHolds == Spec => RemovalIsForOldLease
<1>1. LeaseInv /\ [Next]_vars =>
        [(dir = "cloned" /\ dir' = "absent") =>
           \A e \in Executions : Reviewing(e) =>
             \E a \in late \cup {flow[o].call : o \in Workflows} :
                /\ a # None /\ a.at = "rm" /\ a.ws # flow[e].handle
                /\ lease[a.ws].state \in {"RELEASED", "FAILED_CLEANUP", "purged"}]_vars
  <2> SUFFICES ASSUME LeaseInv, [Next]_vars, ~UNCHANGED vars, dir = "cloned", dir' = "absent",
                      NEW e \in Executions, Reviewing(e)
               PROVE  \E a \in late \cup {flow[o].call : o \in Workflows} :
                        /\ a # None /\ a.at = "rm" /\ a.ws # flow[e].handle
                        /\ lease[a.ws].state \in {"RELEASED", "FAILED_CLEANUP", "purged"}
      OBVIOUS
  <2>1. PICK a \in Running : a.at = "rm"
      BY RemovalIsRm
  <2>2. Sound(a) /\ a \in Attempt /\ a # None /\ a.ws \in Leases /\ lease[a.ws].state \in Left
      BY <2>1, NoneAssumption DEF LeaseInv, Sound
  <2>3. flow[e].handle \in Leases /\ lease[flow[e].handle].state = "ALLOCATED"
      BY DEF Reviewing, LeaseInv, Flows, Handled, Workflows
  <2>4. a.ws # flow[e].handle /\ lease[a.ws].state # "RELEASE_REQUESTED"
      BY <2>2, <2>3 DEF Left, LeaseInv, OneActive, Active
  <2> QED BY <2>1, <2>2, <2>4 DEF Left, Running, Calls
<1> QED BY <1>1, LeaseInvHolds, PTL DEF Spec, RemovalIsForOldLease
=============================================================================
