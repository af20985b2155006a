--------------------------- MODULE LlmCredentials ---------------------------
(***************************************************************************)
(* The model credentials of one worker process.  The admin API writes the  *)
(* row of a role in core.llm_provider_settings; a call resolves the client *)
(* of its role through LlmClientCache, which compares the rotation times   *)
(* of all rows, and then, in the SDK adapter, its key through              *)
(* LlmCredentialsProvider, which compares the rotation time of its own     *)
(* row.  Every await is a step: saves and other calls come in between.     *)
(***************************************************************************)
EXTENDS Integers, Sequences

CONSTANTS LlmRoles,     \* primary, secondary
          LlmCalls,     \* calls that may run at once
          LastRotation  \* bound on the saves of one role

ASSUME LastRotationIsNat == LastRotation \in Nat

VARIABLES settings,     \* core.llm_provider_settings; key 0 is no row
          clients,      \* LlmClientCache.cache
          clientQueue,  \* its one lock: the holder and the waiters
          keys,         \* LlmCredentialsProvider.cached
          rotationSeen, \* .fingerprints; 0 is never probed or no row
          refreshFails, \* .lastRefreshFailedAt against hardStaleSeconds
          keyQueues,    \* .locks
          llmCalls,     \* the calls in flight
          storedLate    \* history: the key was stored after its rotation was seen

llmVars == <<settings, clients, clientQueue, keys, rotationSeen, refreshFails, keyQueues,
             llmCalls, storedLate>>
clientCache == <<clients, clientQueue>>
keyCache == <<keys, rotationSeen, refreshFails, keyQueues, storedLate>>

\* last_rotated_at names the version of a row: every save writes a new one.
Rotated == 0..LastRotation
Setting == [key : Rotated, on : BOOLEAN]
Fingerprints == [LlmRoles -> Rotated]
NotCached == [key |-> 0]
NotCalling == [at |-> "idle"]

Scan == [at : {"scanned", "clientLock"}, role : LlmRoles, scan : Fingerprints, began : Setting]
Building == [at : {"building"}, role : LlmRoles, scan : Fingerprints, began : Setting,
             key : Rotated]
Ask == [at : {"client", "keyLock"}, role : LlmRoles, began : Setting]
Keyed == [at : {"probed", "refreshing", "sending"}, role : LlmRoles, began : Setting,
          key : Rotated]

LlmTypeOK ==
  /\ settings \in [LlmRoles -> Setting]
  /\ clients \in [LlmRoles -> {NotCached} \cup [key : Rotated, scan : Fingerprints]]
  /\ clientQueue \in Seq(LlmCalls)
  /\ keys \in [LlmRoles -> {NotCached} \cup [key : Rotated, fresh : BOOLEAN]]
  /\ rotationSeen \in Fingerprints
  /\ refreshFails \in [LlmRoles -> {"no", "recently", "hardStale"}]
  /\ keyQueues \in [LlmRoles -> Seq(LlmCalls)]
  /\ llmCalls \in [LlmCalls -> {NotCalling} \cup Scan \cup Building \cup Ask \cup Keyed]
  /\ storedLate \in [LlmRoles -> BOOLEAN]

LlmInit ==
  /\ settings = [r \in LlmRoles |-> [key |-> 0, on |-> FALSE]]
  /\ clients = [r \in LlmRoles |-> NotCached] /\ clientQueue = <<>>
  /\ keys = [r \in LlmRoles |-> NotCached]
  /\ rotationSeen = [r \in LlmRoles |-> 0]
  /\ refreshFails = [r \in LlmRoles |-> "no"]
  /\ keyQueues = [r \in LlmRoles |-> <<>>]
  /\ llmCalls = [c \in LlmCalls |-> NotCalling]
  /\ storedLate = [r \in LlmRoles |-> FALSE]

At(c, at) == llmCalls[c].at = at
Role(c) == llmCalls[c].role

\* The call goes on with its role and the row it began with.
Goes(c, at) == llmCalls' = [llmCalls EXCEPT ![c] =
  [at |-> at, role |-> Role(c), began |-> llmCalls[c].began]]
GoesWith(c, at, key) == llmCalls' = [llmCalls EXCEPT ![c] =
  [at |-> at, role |-> Role(c), began |-> llmCalls[c].began, key |-> key]]
Throws(c) == llmCalls' = [llmCalls EXCEPT ![c] = NotCalling]

(***************************************************************************)
(* PUT /api/admin/llm-provider-config.                                     *)
(***************************************************************************)

\* Fault: a save that only switches the role off keeps last_rotated_at.
SavedQuietly(r, on) == [key |-> settings[r].key + (IF on THEN 1 ELSE 0), on |-> on]

\* writeSettings: one upsert.
Saved(r, on) == [key |-> settings[r].key + 1, on |-> on]

SaveSettings(r, on) ==
  /\ settings[r].key < LastRotation
  /\ settings' = [settings EXCEPT ![r] = Saved(r, on)]
  /\ UNCHANGED <<clientCache, keyCache, llmCalls>>

(***************************************************************************)
(* LlmClientCache.forRole.                                                 *)
(***************************************************************************)
Rotations == [r \in LlmRoles |-> settings[r].key]

ReadRotationFingerprint(c, r) ==
  /\ At(c, "idle")
  /\ llmCalls' = [llmCalls EXCEPT ![c] =
       [at |-> "scanned", role |-> r, scan |-> Rotations, began |-> settings[r]]]
  /\ UNCHANGED <<settings, clientCache, keyCache>>

HasClient(c) ==
  LET entry == clients[Role(c)] IN entry # NotCached /\ entry.scan = llmCalls[c].scan

UseClient(c) ==
  /\ At(c, "scanned")
  /\ IF HasClient(c)
       THEN Goes(c, "client") /\ UNCHANGED clientQueue
       ELSE /\ llmCalls' = [llmCalls EXCEPT ![c].at = "clientLock"]
            /\ clientQueue' = Append(clientQueue, c)
  /\ UNCHANGED <<settings, clients, keyCache>>

ClientLocked(c) == clientQueue # <<>> /\ Head(clientQueue) = c
UnlockClients == clientQueue' = Tail(clientQueue)

\* The slot is read again under the lock, and then the row; a row that is
\* absent or off, or an error of the database, ends the call.
ReadClientSettings(c) ==
  /\ At(c, "clientLock") /\ ClientLocked(c)
  /\ \/ HasClient(c) /\ Goes(c, "client") /\ UnlockClients
     \/ /\ ~HasClient(c) /\ settings[Role(c)].on
        /\ llmCalls' = [llmCalls EXCEPT ![c] =
             [at |-> "building", role |-> Role(c), scan |-> @.scan, began |-> @.began,
              key |-> settings[Role(c)].key]]
        /\ UNCHANGED clientQueue
     \/ ~HasClient(c) /\ Throws(c) /\ UnlockClients
  /\ UNCHANGED <<settings, clients, keyCache>>

\* Fault: the rotation times are read when the client is stored.
ScannedLast(c) == Rotations

\* The rotation times the client is stored under were read first.
BuiltUnder(c) == llmCalls[c].scan

BuildClient(c) ==
  /\ At(c, "building") /\ ClientLocked(c)
  /\ clients' = [clients EXCEPT ![Role(c)] =
       [key |-> llmCalls[c].key, scan |-> BuiltUnder(c)]]
  /\ Goes(c, "client") /\ UnlockClients
  /\ UNCHANGED <<settings, keyCache>>

\* Vault does not decrypt.
BuildFails(c) ==
  /\ At(c, "building") /\ ClientLocked(c)
  /\ Throws(c) /\ UnlockClients
  /\ UNCHANGED <<settings, clients, keyCache>>

(***************************************************************************)
(* LlmCredentialsProvider.current.                                         *)
(***************************************************************************)

\* No try is around this read: an error of the database ends the call.
ReadLastRotatedAt(c) ==
  /\ At(c, "client")
  /\ GoesWith(c, "probed", settings[Role(c)].key) \/ Throws(c)
  /\ UNCHANGED <<settings, clientCache, keyCache>>

\* Fault: the rotation time is recorded and the key is kept.
KeyKept(c) == keys[Role(c)]

\* fingerprintMoved: a rotation time other than the last one seen, be it
\* newer or older, drops the key.
KeyAfterProbe(c) ==
  IF llmCalls[c].key # rotationSeen[Role(c)] THEN NotCached ELSE keys[Role(c)]

IsFresh(entry) == entry # NotCached /\ entry.fresh

CheckRotation(c) ==
  LET r == Role(c) IN
  /\ At(c, "probed")
  /\ rotationSeen' = [rotationSeen EXCEPT ![r] = llmCalls[c].key]
  /\ keys' = [keys EXCEPT ![r] = KeyAfterProbe(c)]
  /\ IF IsFresh(keys'[r])
       THEN GoesWith(c, "sending", keys[r].key) /\ UNCHANGED keyQueues
       ELSE Goes(c, "keyLock") /\ keyQueues' = [keyQueues EXCEPT ![r] = Append(@, c)]
  /\ UNCHANGED <<settings, clientCache, refreshFails, storedLate>>

KeyLocked(c) == keyQueues[Role(c)] # <<>> /\ Head(keyQueues[Role(c)]) = c
UnlockKey(c) == keyQueues' = [keyQueues EXCEPT ![Role(c)] = Tail(@)]

\* Another call may have refreshed the key; a row that is absent or off
\* ends the call and leaves the key where it is.
ReadKeySettings(c) ==
  LET r == Role(c) IN
  /\ At(c, "keyLock") /\ KeyLocked(c)
  /\ IF IsFresh(keys[r]) THEN GoesWith(c, "sending", keys[r].key) /\ UnlockKey(c)
     ELSE IF settings[r].on
       THEN GoesWith(c, "refreshing", settings[r].key) /\ UNCHANGED keyQueues
     ELSE Throws(c) /\ UnlockKey(c)
  /\ UNCHANGED <<settings, clientCache, keys, rotationSeen, refreshFails, storedLate>>

StoreKey(c) ==
  LET r == Role(c) IN
  /\ At(c, "refreshing") /\ KeyLocked(c)
  /\ keys' = [keys EXCEPT ![r] = [key |-> llmCalls[c].key, fresh |-> TRUE]]
  /\ refreshFails' = [refreshFails EXCEPT ![r] = "no"]
  /\ storedLate' = [storedLate EXCEPT ![r] = llmCalls[c].key < rotationSeen[r]]
  /\ GoesWith(c, "sending", llmCalls[c].key) /\ UnlockKey(c)
  /\ UNCHANGED <<settings, clientCache, rotationSeen>>

\* handleRefreshFailure, for the SELECT and for the decryption: the old key is
\* served unless there is none or the failures have gone on for too long.
RefreshFails(c) ==
  LET r == Role(c) IN
  /\ At(c, "refreshing") \/ (At(c, "keyLock") /\ ~IsFresh(keys[r]))
  /\ KeyLocked(c)
  /\ refreshFails' = [refreshFails EXCEPT ![r] = IF @ = "no" THEN "recently" ELSE @]
  /\ IF keys[r] = NotCached \/ refreshFails[r] = "hardStale"
       THEN Throws(c) ELSE GoesWith(c, "sending", keys[r].key)
  /\ UnlockKey(c)
  /\ UNCHANGED <<settings, clientCache, keys, rotationSeen, storedLate>>

\* The model answers, or fails.
ModelAnswers(c) ==
  /\ At(c, "sending")
  /\ Throws(c)
  /\ UNCHANGED <<settings, clientCache, keyCache>>

(***************************************************************************)
(* Time: ttlSeconds after a key was stored, hardStaleSeconds after the     *)
(* first failure.                                                          *)
(***************************************************************************)
KeyExpires(r) ==
  /\ IsFresh(keys[r])
  /\ keys' = [keys EXCEPT ![r].fresh = FALSE]
  /\ UNCHANGED <<settings, clientCache, rotationSeen, refreshFails, keyQueues, llmCalls,
                 storedLate>>

FailsTooLong(r) ==
  /\ refreshFails[r] = "recently"
  /\ refreshFails' = [refreshFails EXCEPT ![r] = "hardStale"]
  /\ UNCHANGED <<settings, clientCache, keys, rotationSeen, keyQueues, llmCalls, storedLate>>

LlmNext ==
  \/ \E r \in LlmRoles :
       \/ \E on \in BOOLEAN : SaveSettings(r, on)
       \/ KeyExpires(r) \/ FailsTooLong(r)
  \/ \E c \in LlmCalls :
       \/ \E r \in LlmRoles : ReadRotationFingerprint(c, r)
       \/ UseClient(c) \/ ReadClientSettings(c) \/ BuildClient(c) \/ BuildFails(c)
       \/ ReadLastRotatedAt(c) \/ CheckRotation(c) \/ ReadKeySettings(c)
       \/ StoreKey(c) \/ RefreshFails(c) \/ ModelAnswers(c)

LlmSpec == LlmInit /\ [][LlmNext]_llmVars

(***************************************************************************)
(* Properties.                                                             *)
(***************************************************************************)

\* A cached client whose rotation times are those of the rows was built from
\* the row as it is now, whatever saves and other rebuilds came between the
\* scan, the wait for the lock and the decryption: forRole never takes a client
\* of the wrong provider for a current one.
ClientIsItsFingerprint ==
  \A r \in LlmRoles :
    clients[r] # NotCached /\ clients[r].scan = Rotations => clients[r].key = settings[r].key

\* A role that an admin switched off is silent: a call that began after the
\* save never reaches the model, unless the row was saved again.  Neither the
\* client that is still cached, nor the key, nor the ladder that serves an old
\* key on failure lets it through.
DisabledRoleIsSilent ==
  \A c \in LlmCalls :
    At(c, "sending") /\ ~llmCalls[c].began.on =>
      settings[Role(c)].key > llmCalls[c].began.key

\* The one way in which current() keeps a key older than a rotation it has
\* seen: a refresh that had read the row before the rotation stores it after.
OldKeyWasStoredLate ==
  \A r \in LlmRoles :
    keys[r] # NotCached /\ keys[r].key < rotationSeen[r] => storedLate[r]

=============================================================================
