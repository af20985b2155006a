------------------------------ MODULE FlagFlips ------------------------------
(***************************************************************************)
(* putFlag, the two-person flip of one row of core.flags.  A PUT reads the *)
(* row, decides whether it is the first or the second approval, and sends  *)
(* one UPDATE; the transaction is READ COMMITTED and takes no lock before  *)
(* the UPDATE, so the row it changes may not be the row it has read.       *)
(***************************************************************************)
EXTENDS Integers

CONSTANTS Owners,       \* users with the platform_owner role
          FlagValues,   \* value_json
          LastVersion,  \* bound on the commits
          NoOwner

ASSUME FlagConstants == NoOwner \notin Owners /\ LastVersion \in Nat

VARIABLES live,    \* value_json and last_changed_at, with who asked for them
          staged,  \* the pending_* columns
          puts     \* the PUT each owner has open

flagVars == <<live, staged, puts>>

Nothing == [by |-> NoOwner]
Staged == [by : Owners, value : FlagValues, version : 0..LastVersion]
Put == [at : {"stage", "commit"}, value : FlagValues, ifMatch : 0..LastVersion]
NoPut == [at |-> "idle"]

FlagsTypeOK ==
  /\ live \in [value : FlagValues, version : 0..LastVersion,
               first : Owners \cup {NoOwner}, second : Owners \cup {NoOwner},
               asked : FlagValues]
  /\ staged \in Staged \cup {Nothing}
  /\ puts \in [Owners -> Put \cup {NoPut}]

FlagsInit ==
  /\ \E v \in FlagValues :
       live = [value |-> v, version |-> 0, first |-> NoOwner, second |-> NoOwner, asked |-> v]
  /\ staged = Nothing
  /\ puts = [o \in Owners |-> NoPut]

Answer(o) == puts' = [puts EXCEPT ![o] = NoPut]

\* The SELECT of putFlag.  If-Match is the last_changed_at the owner has seen
\* at some time; a second approval does not look at it.  An owner who has
\* staged, or who names another value than the staged one, is refused.
OpenPut(o, v, token) ==
  /\ puts[o] = NoPut
  /\ \/ staged = Nothing
     \/ staged # Nothing /\ staged.by # o /\ staged.value = v
  /\ puts' = [puts EXCEPT ![o] =
       [at |-> IF staged = Nothing THEN "stage" ELSE "commit", value |-> v, ifMatch |-> token]]
  /\ UNCHANGED <<live, staged>>

\* Fault: the UPDATE without last_changed_at = If-Match.
MatchesAnyVersion(o) == puts[o].ifMatch \in 0..live.version

MatchesLive(o) == puts[o].ifMatch = live.version

\* First approval: the UPDATE compares last_changed_at, which staging does not
\* change, and not pending_second_approver.
StageFirst(o) ==
  /\ puts[o].at = "stage"
  /\ staged' = IF MatchesLive(o)
                 THEN [by |-> o, value |-> puts[o].value, version |-> puts[o].ifMatch]
                 ELSE staged
  /\ Answer(o)
  /\ UNCHANGED live

\* Second approval: the UPDATE moves whatever is staged by now; if nothing is,
\* value_json would become NULL and the statement fails.
CommitSecond(o) ==
  /\ puts[o].at = "commit"
  /\ live.version < LastVersion
  /\ IF staged = Nothing
       THEN UNCHANGED <<live, staged>>
       ELSE /\ live' = [value |-> staged.value, version |-> live.version + 1,
                        first |-> staged.by, second |-> o, asked |-> puts[o].value]
            /\ staged' = Nothing
  /\ Answer(o)

FlagsNext ==
  \E o \in Owners :
    \/ \E v \in FlagValues, token \in 0..live.version : OpenPut(o, v, token)
    \/ StageFirst(o)
    \/ CommitSecond(o)

FlagsSpec == FlagsInit /\ [][FlagsNext]_flagVars

(***************************************************************************)
(* Properties.                                                             *)
(***************************************************************************)

\* A staged value was asked for against the value that is live now: a PUT with
\* an old If-Match is never staged, also if a flip was committed between its
\* SELECT and its UPDATE.
StagedOnLiveValue == staged # Nothing => staged.version = live.version

\* "Two-person kill-switch flip": the value that went live was named by two
\* owners, the one who staged it and the one whose PUT committed it.
FlipHasTwoApprovers ==
  live.version > 0 => live.first # live.second /\ live.asked = live.value

=============================================================================
