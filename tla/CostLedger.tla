----------------------------- MODULE CostLedger -----------------------------
(***************************************************************************)
(* What an LLM call may spend: LlmClient.invokeModel, the cost enforcer    *)
(* with its rows in telemetry.cost_daily, and the invocation ledger.       *)
(*                                                                         *)
(* A call is made by attempts of an activity.  Temporal starts the next    *)
(* attempt when one has failed or is given up, and an attempt that is      *)
(* given up goes on.  The transactions of the enforcer run at the grain of *)
(* their row locks; what they write shows when they commit.                *)
(***************************************************************************)
EXTENDS Integers, FiniteSets, FiniteSetsExt

CONSTANTS
  Calls,       \* the LLM calls, each with one idempotency key
  Tries,       \* Tries[c]: attempts Temporal makes of call c
  Orgs,        \* installations
  Global,      \* the global scope, and the scope of a platform call
  OrgOf,       \* OrgOf[c]: the installation of call c, or Global
  Est,         \* Est[c]: estimateCentsPreCall
  Act,         \* Act[c]: finalCents of the answer
  InitialCap,  \* InitialCap[s]: the cap of scope s at first
  Caps,        \* caps an administrator may set
  LastDay,     \* bound: days
  MaxEvents    \* bound: midnights and cap changes together

Scopes == {Global} \cup Orgs
Days == 1 .. LastDay
Attempts == UNION {{c} \X (1 .. Tries[c]) : c \in Calls}

ASSUME CostAssumption ==
  /\ Global \notin Orgs /\ IsFiniteSet(Calls)
  /\ Tries \in [Calls -> Nat \ {0}]
  /\ OrgOf \in [Calls -> Scopes]
  /\ Est \in [Calls -> Nat] /\ Act \in [Calls -> Nat]
  /\ Caps \subseteq Nat /\ InitialCap \in [Scopes -> Nat]
  /\ LastDay \in Nat \ {0} /\ MaxEvents \in Nat

VARIABLES
  day,      \* the date in UTC
  setting,  \* setting[s]: what resolveEffectiveCap finds for scope s
  changes,  \* history: the approved cap changes
  row,      \* row[d][s]: the committed row of telemetry.cost_daily
  att,      \* att[p]: attempt p of invokeModel
  ledger    \* the calls whose provider response is stored

ledgerVars == <<day, setting, changes, row, att, ledger>>

\* The places of invokeModel, and the steps of a transaction of the enforcer.
InTransaction == {"check", "recheck", "record", "release"}
Ended == {"done", "failed", "refused"}
Places == InTransaction \cup Ended \cup {"idle", "sdk", "observe"}
Steps == {"insertGlobal", "insertOrg", "refreshGlobal", "refreshOrg", "lockFirst", "lockLast"}

\* holds: row locks; fresh: rows among them this transaction inserted or gave a new cap;
\* seen: the global total it read; booked, settled: history, the days of the committed
\* reservation and of the committed difference; paid: history, the provider answered.
NoTransaction == [step |-> "none", caps |-> [s \in Scopes |-> 0], holds |-> {}, fresh |-> {},
                  seen |-> 0]
Idle == [at |-> "idle", tx |-> NoTransaction, date |-> 0, replay |-> FALSE, paid |-> FALSE,
         booked |-> 0, settled |-> 0]

LedgerTypeOK ==
  /\ day \in Days
  /\ setting \in [Scopes -> Nat]
  /\ changes \subseteq [scope : Scopes, from : Nat, to : Nat, day : Days]
  /\ row \in [Days -> [Scopes -> [exists : BOOLEAN, total : Nat, cap : Nat]]]
  /\ att \in [Attempts ->
       [at : Places, date : Days \cup {0}, replay : BOOLEAN, paid : BOOLEAN,
        booked : Days \cup {0}, settled : Days \cup {0},
        tx : [step : Steps \cup {"none"}, caps : [Scopes -> Nat], holds : SUBSET Scopes,
              fresh : SUBSET Scopes, seen : Nat]]]
  /\ ledger \subseteq Calls

LedgerInit ==
  /\ day = 1
  /\ setting = InitialCap
  /\ changes = {}
  /\ row = [d \in Days |-> [s \in Scopes |-> [exists |-> FALSE, total |-> 0, cap |-> 0]]]
  /\ att = [p \in Attempts |-> Idle]
  /\ ledger = {}

-----------------------------------------------------------------------------
(* Rows and locks. *)

Org(p) == OrgOf[p[1]]
ScopesOf(p) == {Global, Org(p)}
Platform(p) == Org(p) = Global

\* No other transaction holds the row of scope s of the day p works on.
Free(p, s) == \A q \in Attempts \ {p} : s \in att[q].tx.holds => att[q].date # att[p].date

\* The row as p's transaction sees it: committed, or inserted by itself.
Visible(p, s) == row[att[p].date][s].exists \/ s \in att[p].tx.holds
CapSeen(p, s) == IF s \in att[p].tx.fresh THEN att[p].tx.caps[s] ELSE row[att[p].date][s].cap

\* resolveEffectiveCap for both scopes of p.
Resolved(p) == [s \in Scopes |-> IF s \in ScopesOf(p) THEN setting[s] ELSE 0]

Begin(p, place) ==
  IF place \in {"check", "recheck"} THEN [NoTransaction EXCEPT !.step = "insertGlobal"]
  ELSE [NoTransaction EXCEPT !.step = "refreshGlobal", !.caps = Resolved(p)]

\* p goes to a place; a transaction begins there with the date that it works on.
GoOn(p, place) == [att[p] EXCEPT !.at = place, !.tx = NoTransaction, !.date = 0, !.replay = FALSE]
Enter(p, place, d) == [GoOn(p, place) EXCEPT !.tx = Begin(p, place), !.date = d]

InStep(p, place, step) == att[p].at \in place /\ att[p].tx.step = step
SetTx(p, tx) == att' = [att EXCEPT ![p].tx = tx]

\* p's transaction takes the lock of s, when it is free.
Take(p, s, tx) == [tx EXCEPT !.holds = @ \cup {s}]

-----------------------------------------------------------------------------
(* checkOrRaise and recordCallCost. *)

\* INSERT ... ON CONFLICT DO NOTHING: waits for an uncommitted row, not for a locked one.
Insert(p, s, tx) ==
  IF row[att[p].date][s].exists THEN SetTx(p, tx)
  ELSE Free(p, s) /\ SetTx(p, [Take(p, s, tx) EXCEPT !.fresh = @ \cup {s}])

InsertGlobal(p) ==
  /\ InStep(p, {"check", "recheck"}, "insertGlobal")
  /\ Insert(p, Global, [att[p].tx EXCEPT !.step = "insertOrg"])
  /\ UNCHANGED <<day, setting, changes, row, ledger>>

\* A platform call has no row of its own.  The caps are resolved next.
InsertOrg(p) ==
  /\ InStep(p, {"check", "recheck"}, "insertOrg")
  /\ LET tx == [att[p].tx EXCEPT !.step = "refreshGlobal", !.caps = Resolved(p)] IN
       IF Platform(p) THEN SetTx(p, tx) ELSE Insert(p, Org(p), tx)
  /\ UNCHANGED <<day, setting, changes, row, ledger>>

\* refreshCapCents: the row is written, and locked, only when its cap differs.
RefreshCap(p, s, from, to) ==
  /\ InStep(p, InTransaction, from)
  /\ LET tx == [att[p].tx EXCEPT !.step = to] IN
       IF Visible(p, s) /\ CapSeen(p, s) # att[p].tx.caps[s]
         THEN Free(p, s) /\ SetTx(p, [Take(p, s, tx) EXCEPT !.fresh = @ \cup {s}])
         ELSE SetTx(p, tx)
  /\ UNCHANGED <<day, setting, changes, row, ledger>>

\* Fault: the row of the installation is locked first.
OrgFirst(p) == Org(p)

\* The order of the two SELECT ... FOR UPDATE.
FirstLocked(p) == Global
LastLocked(p) == IF FirstLocked(p) = Global THEN Org(p) ELSE Global

\* Fault: the total is read without FOR UPDATE.
ReadFirst(p) ==
  /\ InStep(p, InTransaction, "lockFirst")
  /\ SetTx(p, [att[p].tx EXCEPT !.step = "lockLast", !.seen = row[att[p].date][Global].total])
  /\ UNCHANGED <<day, setting, changes, row, ledger>>

\* The first FOR UPDATE, and the total read there; a row that is absent locks nothing.
LockFirst(p) ==
  /\ InStep(p, InTransaction, "lockFirst")
  /\ LET s  == FirstLocked(p)
         tx == [att[p].tx EXCEPT !.step = "lockLast", !.seen = row[att[p].date][Global].total]
     IN IF Visible(p, s) THEN Free(p, s) /\ SetTx(p, Take(p, s, tx)) ELSE SetTx(p, tx)
  /\ UNCHANGED <<day, setting, changes, row, ledger>>

\* The second one is granted: nothing is to be locked, or it is free.
LastReady(p) == Platform(p) \/ ~Visible(p, LastLocked(p)) \/ Free(p, LastLocked(p))

\* The commit: caps that were refreshed and the relative UPDATE of both totals.
Commit(p, cents) ==
  row' = [row EXCEPT ![att[p].date] =
            [s \in Scopes |->
               IF s \in ScopesOf(p) /\ Visible(p, s)
                 THEN [exists |-> TRUE, total |-> @[s].total + cents, cap |-> CapSeen(p, s)]
                 ELSE @[s]]]

OverBudget(p) ==
  \/ att[p].tx.seen + Est[p[1]] > CapSeen(p, Global)
  \/ ~Platform(p) /\ row[att[p].date][Org(p)].total + Est[p[1]] > CapSeen(p, Org(p))

\* The rest of checkOrRaise: the second FOR UPDATE, the two budget
\* checks, and the reservation, or a refusal that rolls everything back.
Reserve(p) ==
  /\ InStep(p, {"check", "recheck"}, "lockLast")
  /\ LastReady(p)
  /\ \/ /\ OverBudget(p)
        /\ att' = [att EXCEPT ![p] = GoOn(p, "refused")]
        /\ UNCHANGED row
     \/ /\ ~OverBudget(p)
        /\ Commit(p, Est[p[1]])
        /\ att' = [att EXCEPT ![p] = [GoOn(p, "sdk") EXCEPT !.booked = att[p].date]]
  /\ UNCHANGED <<day, setting, changes, ledger>>

\* Where a recordCallCost leads: after a payment, or after a failed call (its failure is
\* swallowed there, and the call fails for what the provider did).
Difference(p) == (IF att[p].at = "record" THEN Act[p[1]] ELSE 0) - Est[p[1]]
Recorded(p) == IF att[p].at = "record" THEN "done" ELSE "failed"

\* The CHECK daily_total_cents >= 0 of every row that is updated.
StaysPositive(p) ==
  \A s \in ScopesOf(p) : Visible(p, s) => row[att[p].date][s].total + Difference(p) >= 0

\* The rest of recordCallCost.
SettleCost(p) ==
  /\ InStep(p, {"record", "release"}, "lockLast")
  /\ LastReady(p)
  /\ StaysPositive(p)
  /\ Commit(p, Difference(p))
  /\ att' = [att EXCEPT ![p] = [GoOn(p, Recorded(p)) EXCEPT !.settled = att[p].date]]
  /\ UNCHANGED <<day, setting, changes, ledger>>

TransactionStep(p) ==
  \/ InsertGlobal(p) \/ InsertOrg(p)
  \/ RefreshCap(p, Global, "refreshGlobal", "refreshOrg")
  \/ RefreshCap(p, Org(p), "refreshOrg", "lockFirst")
  \/ LockFirst(p) \/ Reserve(p) \/ SettleCost(p)

\* The row that p's next step locks, if any.
Wanted(p) ==
  LET tx == att[p].tx
      d  == att[p].date
  IN CASE tx.step = "insertGlobal"  -> {s \in {Global} : ~row[d][s].exists}
       [] tx.step = "insertOrg"     -> {s \in {Org(p)} : ~row[d][s].exists}
       [] tx.step = "refreshGlobal" -> {s \in {Global} : Visible(p, s) /\ CapSeen(p, s) # tx.caps[s]}
       [] tx.step = "refreshOrg"    -> {s \in {Org(p)} : Visible(p, s) /\ CapSeen(p, s) # tx.caps[s]}
       [] tx.step = "lockFirst"     -> {s \in {FirstLocked(p)} : Visible(p, s)}
       [] tx.step = "lockLast"      -> {s \in {LastLocked(p)} : Visible(p, s)}
       [] OTHER -> {}
WaitsFor(p, q) ==
  /\ p # q /\ att[q].tx.holds # {} /\ att[p].date = att[q].date
  /\ Wanted(p) \cap att[q].tx.holds # {}

-----------------------------------------------------------------------------
(* invokeModel. *)

\* The ledger is looked up first; a hit skips the check, the archive and the record.
Lookup(p) ==
  /\ att[p].at = "idle"
  /\ p[2] > 1 => att[<<p[1], p[2] - 1>>].at \notin {"idle", "done", "refused"}
  /\ att' = [att EXCEPT ![p] =
       IF p[1] \in ledger THEN [GoOn(p, "observe") EXCEPT !.replay = TRUE]
                          ELSE Enter(p, "check", day)]
  /\ UNCHANGED <<day, setting, changes, row, ledger>>

\* 55P03 after two seconds: the check is tried once more, on the same date, and then
\* fails closed; a record throws; a release is swallowed.
LockTimeout(p) ==
  /\ \E q \in Attempts : WaitsFor(p, q)
  /\ att' = [att EXCEPT ![p] = 
       CASE att[p].at = "check"   -> Enter(p, "recheck", att[p].date)
         [] att[p].at = "recheck" -> GoOn(p, "refused")
         [] OTHER                 -> GoOn(p, "failed")]
  /\ UNCHANGED <<day, setting, changes, row, ledger>>

\* The worker dies, or a statement, an archive or an observer throws: the attempt has
\* failed and its transaction, if any, is rolled back.
Fail(p) ==
  /\ att[p].at \notin Ended \cup {"idle", "sdk"}
  /\ att' = [att EXCEPT ![p] = GoOn(p, "failed")]
  /\ UNCHANGED <<day, setting, changes, row, ledger>>

\* The request is archived and the provider called.  It answers, and is paid: the answer is
\* stored (ON CONFLICT DO NOTHING, a failure is swallowed).  It throws: the reservation is
\* released, on the date it is by then.  Or the archive throws or the worker dies.
Invoke(p) ==
  /\ att[p].at = "sdk"
  /\ \/ /\ att' = [att EXCEPT ![p] = [GoOn(p, "observe") EXCEPT !.paid = TRUE]]
        /\ ledger' \in {ledger, ledger \cup {p[1]}}
     \/ /\ att' = [att EXCEPT ![p] = Enter(p, "release", day)]
        /\ UNCHANGED ledger
     \/ /\ \E b \in BOOLEAN : att' = [att EXCEPT ![p] = [GoOn(p, "failed") EXCEPT !.paid = b]]
        /\ UNCHANGED ledger
  /\ UNCHANGED <<day, setting, changes, row>>

\* Fault: a replay records the cost too.
ObserveAndRecord(p) ==
  /\ att[p].at = "observe"
  /\ att' = [att EXCEPT ![p] =
       IF Act[p[1]] = Est[p[1]] THEN GoOn(p, "done") ELSE Enter(p, "record", day)]
  /\ UNCHANGED <<day, setting, changes, row, ledger>>

\* The response archive, output safety and telemetry; then the cost is recorded unless the
\* response was replayed, or is what was estimated.
Observe(p) ==
  /\ att[p].at = "observe"
  /\ att' = [att EXCEPT ![p] =
       IF att[p].replay \/ Act[p[1]] = Est[p[1]]
         THEN GoOn(p, "done") ELSE Enter(p, "record", day)]
  /\ UNCHANGED <<day, setting, changes, row, ledger>>

-----------------------------------------------------------------------------

Events == (day - 1) + Cardinality(changes)

Midnight ==
  /\ day < LastDay /\ Events < MaxEvents
  /\ day' = day + 1
  /\ UNCHANGED <<setting, changes, row, att, ledger>>

\* approveCostCapChange: the new cap is mirrored to the settings at once, whatever the
\* applied_at that computeAppliedAt gives.
ChangeCap(s, c) ==
  /\ Events < MaxEvents
  /\ c # setting[s]
  /\ setting' = [setting EXCEPT ![s] = c]
  /\ changes' = changes \cup {[scope |-> s, from |-> setting[s], to |-> c, day |-> day]}
  /\ UNCHANGED <<day, row, att, ledger>>

LedgerNext ==
  \/ \E p \in Attempts :
       \/ Lookup(p) \/ TransactionStep(p) \/ LockTimeout(p) \/ Fail(p)
       \/ Invoke(p) \/ Observe(p)
  \/ Midnight
  \/ \E s \in Scopes, c \in Caps : ChangeCap(s, c)

LedgerSpec == LedgerInit /\ [][LedgerNext]_ledgerVars

-----------------------------------------------------------------------------
(***************************************************************************)
(* Properties.                                                             *)
(***************************************************************************)

\* The sum of amount[p] over S, counted cent by cent.
Cents(amount, S) == UNION {{p} \X (1 .. amount[p]) : p \in S}
SumOf(amount, S) == Cardinality(Cents(amount, S))
Spending(d, s) == {p \in Attempts : s \in ScopesOf(p) /\ att[p].booked = d}

\* A difference that was settled on another day than the one its estimate was reserved on.
Foreign(d) == \E p \in Attempts : att[p].settled = d /\ att[p].booked \notin {0, d}
Paid(p) == IF att[p].paid THEN Act[p[1]] ELSE 0
Least == [p \in Attempts |-> IF att[p].settled # 0 THEN Paid(p) ELSE Min({Est[p[1]], Paid(p)})]
Most == [p \in Attempts |->
           IF att[p].settled # 0 /\ att[p].settled = att[p].booked THEN Paid(p)
           ELSE Max({Est[p[1]], Act[p[1]]})]

\* The daily total of a scope counts every paid answer once, at its cost when settled and
\* at least the smaller of cost and estimate before, and nothing that was not reserved;
\* through retries, replays, attempts that go on beside their retry, and crashes.  Days on
\* which a call that began before midnight was settled are not accounted for.
DayIsAccounted ==
  \A d \in Days, s \in Scopes :
    row[d][s].exists /\ ~Foreign(d) =>
      /\ row[d][s].total <= SumOf(Most, Spending(d, s))
      /\ (\A p \in Spending(d, s) : att[p].settled \in {0, d}) =>
           row[d][s].total >= SumOf(Least, Spending(d, s))

\* However checks, settlements and cap changes interleave, a day's total exceeds the
\* highest cap there was only by what answers cost beyond their estimate.
CapsOf(s) == {InitialCap[s]} \cup {c.to : c \in {x \in changes : x.scope = s}}
Excess == [p \in Attempts |-> Max({0, Act[p[1]] - Est[p[1]]})]
SettledOn(d, s) == {p \in Attempts : s \in ScopesOf(p) /\ att[p].settled = d}
CapBoundsTheDay ==
  \A d \in Days, s \in Scopes :
    row[d][s].exists => row[d][s].total <= Max(CapsOf(s)) + SumOf(Excess, SettledOn(d, s))

\* Two transactions wait for each other only when one of them has written the cap of its
\* installation and not yet locked the global row, as it does after a cap change.
DeadlockNeedsCapChange ==
  \A p, q \in Attempts :
    WaitsFor(p, q) /\ WaitsFor(q, p) =>
      \E x \in {p, q} : Org(x) \in att[x].tx.fresh /\ Global \notin att[x].tx.holds /\ changes # {}

\* What api/admin/cost_caps_write.ts:7 says: a lowered cap waits for midnight at least.
LoweringWaits ==
  \A c \in changes :
    c.to < c.from /\ row[c.day][c.scope].exists => row[c.day][c.scope].cap >= c.from
=============================================================================
