--------------------------- MODULE PrMutex_proofs ---------------------------
(***************************************************************************)
(* Theorems about PrMutex for any number of executions, pull requests and  *)
(* mutex ids and any lease.  The invariant ties the executions' handles to *)
(* the rows: distinct executions have distinct rows, and the lease of a    *)
(* confirmed claim lasts at least as long as the execution believes.       *)
(***************************************************************************)
EXTENDS PrMutex, TLAPS

USE PrOfAssumption, TTLAssumption, NullsAssumption

\* A mutex id that was not minted yet is not released.
UnusedRows == \A m \in Mutexes : rowPr[m] = NoPr => ~released[m]

\* The gate hands every execution a row of its own, on its own pull request.
Handles ==
  /\ \A w \in Workflows : handle[w] # NoMutex => rowPr[handle[w]] = PrOf[w]
  /\ \A w, x \in Workflows : handle[w] = handle[x] /\ handle[w] # NoMutex => w = x
  /\ \A w \in Workflows :
       pc[w] \in {"held", "posting", "zombie", "cleanup"} => handle[w] # NoMutex

\* A confirmed claim is covered by a live row whose lease is at least as long.
Covered ==
  \A w \in Workflows : Confirmed(w) =>
    ~released[handle[w]] /\ granted[w] <= lease[handle[w]]

Inv == TypeOK /\ OneLiveRow /\ UnusedRows /\ Handles /\ Covered

-----------------------------------------------------------------------------
\* The initial state satisfies the inductive invariant.
LEMMA InitInv == Init => Inv
<1> SUFFICES ASSUME Init PROVE Inv
  OBVIOUS
<1> USE DEF Init
<1>1. TypeOK
  BY DEF TypeOK, Places
<1>2. OneLiveRow /\ UnusedRows
  BY DEF OneLiveRow, LiveRows, UnusedRows
<1>3. Handles /\ Covered
  BY DEF Handles, Covered, Confirmed
<1> QED
  BY <1>1, <1>2, <1>3 DEF Inv

\* What an acquire does to the rows, whether or not its answer arrives: the only
\* row it releases has an expired lease, so no confirmed claim is touched.
LEMMA AcquireRows ==
  ASSUME Inv, NEW p \in Prs, NEW w \in Workflows, NEW m \in Mutexes,
         ReclaimAndInsert(p, w, m)
  PROVE  /\ rowPr' \in [Mutexes -> Prs \cup {NoPr}]
         /\ holder' \in [Mutexes -> Workflows \cup {Nobody}]
         /\ released' \in [Mutexes -> BOOLEAN]
         /\ lease' \in [Mutexes -> -1..TTL]
         /\ OneLiveRow'
         /\ UnusedRows'
         /\ rowPr'[m] = p /\ ~released'[m] /\ lease'[m] = TTL
         /\ \A n \in Mutexes \ {m} : rowPr'[n] = rowPr[n] /\ lease'[n] = lease[n]
         /\ \A n \in Mutexes \ {m} : ~released[n] /\ lease[n] > 0 => ~released'[n]
         /\ \A x \in Workflows : handle[x] # m
<1>0. /\ rowPr[m] = NoPr
      /\ \A old \in LiveRows(p) : lease[old] <= 0
      /\ rowPr' = [rowPr EXCEPT ![m] = p]
      /\ holder' = [holder EXCEPT ![m] = w]
      /\ lease' = [lease EXCEPT ![m] = TTL]
  BY DEF ReclaimAndInsert
<1>1. /\ rowPr' \in [Mutexes -> Prs \cup {NoPr}]
      /\ holder' \in [Mutexes -> Workflows \cup {Nobody}]
      /\ lease' \in [Mutexes -> -1..TTL]
  BY <1>0 DEF Inv, TypeOK
<1>2. /\ released' \in [Mutexes -> BOOLEAN]
      /\ \A n \in Mutexes : released[n] => released'[n]
      /\ \A n \in Mutexes : n \notin LiveRows(p) => released'[n] = released[n]
      /\ \A n \in LiveRows(p) : released'[n]
  <2>1. CASE LiveRows(p) = {} /\ UNCHANGED released
    BY <2>1 DEF Inv, TypeOK
  <2>2. CASE \E old \in LiveRows(p) : released' = [released EXCEPT ![old] = TRUE]
    <3> PICK old \in LiveRows(p) : released' = [released EXCEPT ![old] = TRUE]
      BY <2>2
    <3>1. \A n \in LiveRows(p) : n = old
      BY DEF Inv, OneLiveRow
    <3> QED
      BY <3>1 DEF Inv, TypeOK, LiveRows
  <2> QED
    BY <2>1, <2>2 DEF ReclaimAndInsert
<1>3. rowPr'[m] = p /\ lease'[m] = TTL
  BY <1>0 DEF Inv, TypeOK
<1>4. ~released'[m]
  BY <1>0, <1>2 DEF Inv, UnusedRows, LiveRows
<1>5. \A n \in Mutexes \ {m} : rowPr'[n] = rowPr[n] /\ lease'[n] = lease[n]
  BY <1>0 DEF Inv, TypeOK
<1>6. \A n \in Mutexes \ {m} : ~released[n] /\ lease[n] > 0 => ~released'[n]
  <2>1. \A n \in LiveRows(p) : ~(lease[n] > 0)
    BY <1>0 DEF LiveRows, Inv, TypeOK
  <2> QED
    BY <1>2, <2>1
<1>7. \A x \in Workflows : handle[x] # m
  BY <1>0 DEF Inv, Handles
<1>8. UnusedRows'
  <2> SUFFICES ASSUME NEW n \in Mutexes, rowPr'[n] = NoPr PROVE ~released'[n]
    BY DEF UnusedRows
  <2>1. n # m /\ rowPr[n] = NoPr
    BY <1>3, <1>5
  <2> QED
    BY <2>1, <1>2 DEF Inv, UnusedRows, LiveRows
<1>9. OneLiveRow'
  <2> SUFFICES ASSUME NEW q \in Prs, NEW n \in Mutexes, NEW o \in Mutexes,
                      rowPr'[n] = q, ~released'[n], rowPr'[o] = q, ~released'[o]
               PROVE  n = o
    BY DEF OneLiveRow, LiveRows
  <2>1. ASSUME NEW k \in Mutexes \ {m}, ~released'[k], rowPr'[k] = q
        PROVE  k \in LiveRows(q) /\ q # p
    <3>1. rowPr[k] = q /\ ~released[k]
      BY <2>1, <1>2, <1>5
    <3> QED
      BY <2>1, <3>1, <1>2 DEF LiveRows
  <2>2. CASE n # m /\ o # m
    BY <2>1, <2>2 DEF Inv, OneLiveRow
  <2>3. CASE n = m \/ o = m
    BY <2>1, <2>3, <1>3
  <2> QED
    BY <2>2, <2>3
<1> QED
  BY <1>1, <1>2, <1>3, <1>4, <1>5, <1>6, <1>7, <1>8, <1>9

\* The gate preserves the invariant when its answer arrives.
LEMMA GateAcceptedInv ==
  ASSUME Inv, NEW w \in Workflows, NEW m \in Mutexes, GateAccepted(w, m)
  PROVE  Inv'
<1>0. /\ pc[w] = "gate"
      /\ pc' = [pc EXCEPT ![w] = "held"]
      /\ handle' = [handle EXCEPT ![w] = m]
      /\ granted' = [granted EXCEPT ![w] = TTL]
      /\ UNCHANGED busyWith
      /\ PrOf[w] \in Prs
      /\ ReclaimAndInsert(PrOf[w], w, m)
  BY DEF GateAccepted
<1>1. TypeOK'
  BY <1>0, AcquireRows DEF Inv, TypeOK, Places
<1>2. OneLiveRow' /\ UnusedRows'
  BY <1>0, AcquireRows
<1>3. Handles'
  <2>1. /\ rowPr'[m] = PrOf[w]
        /\ \A n \in Mutexes \ {m} : rowPr'[n] = rowPr[n]
        /\ \A x \in Workflows : handle[x] # m
    BY <1>0, AcquireRows
  <2>2. /\ handle'[w] = m
        /\ \A x \in Workflows \ {w} : handle'[x] = handle[x] /\ pc'[x] = pc[x]
        /\ \A x \in Workflows : handle[x] \in Mutexes \cup {NoMutex}
    BY <1>0 DEF Inv, TypeOK
  <2> QED
    BY <2>1, <2>2 DEF Inv, Handles
<1>4. Covered'
  <2>1. /\ ~released'[m] /\ lease'[m] = TTL
        /\ \A n \in Mutexes \ {m} : lease'[n] = lease[n]
        /\ \A n \in Mutexes \ {m} : ~released[n] /\ lease[n] > 0 => ~released'[n]
        /\ \A x \in Workflows : handle[x] # m
    BY <1>0, AcquireRows
  <2> SUFFICES ASSUME NEW x \in Workflows, Confirmed(x)'
               PROVE  ~released'[handle'[x]] /\ granted'[x] <= lease'[handle'[x]]
    BY DEF Covered
  <2>2. CASE x = w
    BY <2>1, <2>2, <1>0 DEF Inv, TypeOK
  <2>3. CASE x # w
    <3>1. handle'[x] = handle[x] /\ granted'[x] = granted[x] /\ pc'[x] = pc[x]
      BY <2>3, <1>0 DEF Inv, TypeOK
    <3>2. Confirmed(x)
      BY <3>1 DEF Confirmed
    <3>3. handle[x] \in Mutexes \ {m}
      BY <2>1, <3>2 DEF Inv, TypeOK, Handles, Confirmed
    <3>4. ~released[handle[x]] /\ granted[x] <= lease[handle[x]] /\ granted[x] > 0
      BY <3>2 DEF Inv, Covered, Confirmed
    <3>5. granted[x] \in Int /\ lease[handle[x]] \in Int
      BY <3>3 DEF Inv, TypeOK
    <3>6. lease[handle[x]] > 0
      BY <3>4, <3>5
    <3> QED
      BY <2>1, <3>1, <3>3, <3>4, <3>6
  <2> QED
    BY <2>2, <2>3
<1> QED
  BY <1>1, <1>2, <1>3, <1>4 DEF Inv

\* The gate preserves the invariant when its answer is lost.
LEMMA GateAckLostInv ==
  ASSUME Inv, NEW w \in Workflows, NEW m \in Mutexes, GateAckLost(w, m)
  PROVE  Inv'
<1>0. /\ UNCHANGED <<pc, handle, granted, busyWith>>
      /\ PrOf[w] \in Prs
      /\ ReclaimAndInsert(PrOf[w], w, m)
  BY DEF GateAckLost
<1>1. TypeOK'
  BY <1>0, AcquireRows DEF Inv, TypeOK
<1>2. OneLiveRow' /\ UnusedRows'
  BY <1>0, AcquireRows
<1>a. /\ \A n \in Mutexes \ {m} : rowPr'[n] = rowPr[n] /\ lease'[n] = lease[n]
      /\ \A n \in Mutexes \ {m} : ~released[n] /\ lease[n] > 0 => ~released'[n]
      /\ \A x \in Workflows : handle[x] # m
  BY <1>0, AcquireRows
<1>3. Handles'
  BY <1>0, <1>a DEF Inv, TypeOK, Handles
<1>4. Covered'
  <2> SUFFICES ASSUME NEW x \in Workflows, Confirmed(x)
               PROVE  ~released'[handle[x]] /\ granted[x] <= lease'[handle[x]]
    BY <1>0 DEF Covered, Confirmed
  <2>1. handle[x] \in Mutexes \ {m}
    BY <1>a DEF Inv, TypeOK, Handles, Confirmed
  <2>2. ~released[handle[x]] /\ granted[x] <= lease[handle[x]] /\ granted[x] > 0
    BY DEF Inv, Covered, Confirmed
  <2>3. granted[x] \in Int /\ lease[handle[x]] \in Int
    BY <2>1 DEF Inv, TypeOK
  <2>4. lease[handle[x]] > 0
    BY <2>2, <2>3
  <2> QED
    BY <1>a, <2>1, <2>2, <2>4
<1> QED
  BY <1>1, <1>2, <1>3, <1>4 DEF Inv

\* Claim checks preserve the invariant, whatever they report.
LEMMA ClaimCheckInv ==
  ASSUME Inv, NEW w \in Workflows,
         ClaimConfirmed(w) \/ ClaimFailsOpen(w) \/ ClaimLost(w)
  PROVE  Inv'
<1>0. /\ pc[w] = "held"
      /\ UNCHANGED <<rowPr, holder, released, handle, busyWith>>
      /\ handle[w] \in Mutexes
      /\ lease' = lease \/ (~released[handle[w]] /\ lease' = [lease EXCEPT ![handle[w]] = TTL])
      /\ \E next \in {"held", "posting", "cleanup"} : pc' = [pc EXCEPT ![w] = next]
      /\ \/ granted' = granted
         \/ /\ ~released[handle[w]]
            /\ granted' = [granted EXCEPT ![w] = TTL]
            /\ lease' = [lease EXCEPT ![handle[w]] = TTL]
  BY DEF ClaimConfirmed, ClaimFailsOpen, ClaimLost, RenewLease, rows, Inv, TypeOK, Handles
<1>1. TypeOK'
  BY <1>0 DEF Inv, TypeOK, Places
<1>2. OneLiveRow' /\ UnusedRows'
  BY <1>0 DEF Inv, OneLiveRow, UnusedRows, LiveRows
<1>3. Handles'
  BY <1>0 DEF Inv, TypeOK, Handles
<1>4. Covered'
  <2> SUFFICES ASSUME NEW x \in Workflows, Confirmed(x)'
               PROVE  ~released[handle[x]] /\ granted'[x] <= lease'[handle[x]]
    BY <1>0 DEF Covered
  <2>0. handle[x] \in Mutexes /\ pc[x] \in {"held", "posting", "zombie"}
    BY <1>0 DEF Inv, TypeOK, Handles, Confirmed
  <2>1. CASE granted' = granted
    <3>1. Confirmed(x)
      BY <2>0, <2>1 DEF Confirmed
    <3>2. ~released[handle[x]] /\ granted[x] <= lease[handle[x]]
      BY <3>1 DEF Inv, Covered
    <3>3. lease[handle[x]] \in Int /\ granted[x] \in Int /\ lease[handle[x]] <= TTL
      BY <2>0 DEF Inv, TypeOK
    <3>4. lease'[handle[x]] = lease[handle[x]] \/ lease'[handle[x]] = TTL
      BY <1>0, <2>0 DEF Inv, TypeOK
    <3> QED
      BY <2>1, <3>2, <3>3, <3>4
  <2>2. CASE /\ ~released[handle[w]]
             /\ granted' = [granted EXCEPT ![w] = TTL]
             /\ lease' = [lease EXCEPT ![handle[w]] = TTL]
    <3>1. CASE x = w
      BY <1>0, <2>2, <3>1 DEF Inv, TypeOK
    <3>2. CASE x # w
      <4>1. granted'[x] = granted[x] /\ Confirmed(x)
        BY <2>0, <2>2, <3>2 DEF Confirmed, Inv, TypeOK
      <4>2. handle[x] # handle[w]
        BY <2>0, <3>2 DEF Inv, Handles
      <4> QED
        BY <2>0, <2>2, <4>1, <4>2 DEF Inv, Covered, TypeOK
    <3> QED
      BY <3>1, <3>2
  <2> QED
    BY <1>0, <2>1, <2>2
<1> QED
  BY <1>1, <1>2, <1>3, <1>4 DEF Inv

\* Steps of an execution that touch no row preserve the invariant.
LEMMA LocalStepInv ==
  ASSUME Inv, NEW w \in Workflows,
         GateBusy(w) \/ StagesEnd(w) \/ Terminate(w) \/ ZombieEnds(w)
  PROVE  Inv'
<1>0. /\ UNCHANGED <<rowPr, holder, released, lease, handle, granted>>
      /\ busyWith' \in [Workflows -> Workflows \cup {Nobody}]
      /\ \/ pc[w] = "posting" /\ pc' = [pc EXCEPT ![w] = "zombie"]
         \/ pc[w] \in {"held", "posting"} /\ pc' = [pc EXCEPT ![w] = "cleanup"]
         \/ pc' = [pc EXCEPT ![w] = "done"]
         \/ pc' = [pc EXCEPT ![w] = "skipped"]
  <2>1. CASE GateBusy(w)
    BY <2>1 DEF GateBusy, rows, Inv, TypeOK, LiveRows
  <2>2. CASE StagesEnd(w) \/ Terminate(w) \/ ZombieEnds(w)
    BY <2>2 DEF StagesEnd, Terminate, ZombieEnds, rows, Inv, TypeOK
  <2> QED
    BY <2>1, <2>2
<1>1. TypeOK'
  BY <1>0 DEF Inv, TypeOK, Places
<1>2. OneLiveRow' /\ UnusedRows'
  BY <1>0 DEF Inv, OneLiveRow, UnusedRows, LiveRows
<1>3. Handles'
  BY <1>0 DEF Inv, TypeOK, Handles
<1>4. Covered'
  BY <1>0 DEF Inv, TypeOK, Covered, Confirmed
<1> QED
  BY <1>1, <1>2, <1>3, <1>4 DEF Inv

\* Releasing rows preserves the invariant if none of them backs a confirmed claim.
LEMMA ReleaseRowsInv ==
  ASSUME Inv, UNCHANGED <<rowPr, holder, lease, handle, granted, busyWith>>,
         pc' \in [Workflows -> Places],
         \A w \in Workflows : pc'[w] \in {pc[w], "done"},
         released' \in [Mutexes -> BOOLEAN],
         \A m \in Mutexes : released[m] => released'[m],
         \A m \in Mutexes : rowPr[m] = NoPr => released'[m] = released[m],
         \A w \in Workflows : Confirmed(w)' => released'[handle[w]] = released[handle[w]]
  PROVE  Inv'
<1>1. TypeOK'
  BY DEF Inv, TypeOK
<1>2. OneLiveRow' /\ UnusedRows'
  BY DEF Inv, OneLiveRow, UnusedRows, LiveRows
<1>3. Handles'
  BY DEF Inv, Handles
<1>4. Covered'
  <2> SUFFICES ASSUME NEW w \in Workflows, Confirmed(w)'
               PROVE  ~released'[handle[w]] /\ granted[w] <= lease[handle[w]]
    BY DEF Covered
  <2>1. Confirmed(w)
    BY DEF Confirmed
  <2> QED
    BY <2>1 DEF Inv, Covered
<1> QED
  BY <1>1, <1>2, <1>3, <1>4 DEF Inv

\* The release in the workflow's finally preserves the invariant.
LEMMA ReleaseInv ==
  ASSUME Inv, NEW w \in Workflows, Release(w)
  PROVE  Inv'
<1>0. /\ pc[w] = "cleanup" /\ handle[w] \in Mutexes /\ rowPr[handle[w]] # NoPr
      /\ pc' = [pc EXCEPT ![w] = "done"]
      /\ released' = [released EXCEPT ![handle[w]] = TRUE] \/ released' = released
      /\ UNCHANGED <<rowPr, holder, lease, handle, granted, busyWith>>
  BY DEF Release, Inv, TypeOK, Handles
<1>1. /\ pc' \in [Workflows -> Places]
      /\ \A x \in Workflows : pc'[x] \in {pc[x], "done"}
      /\ released' \in [Mutexes -> BOOLEAN]
      /\ \A m \in Mutexes : released[m] => released'[m]
      /\ \A m \in Mutexes : rowPr[m] = NoPr => released'[m] = released[m]
  BY <1>0 DEF Inv, TypeOK, Places
<1>2. ASSUME NEW x \in Workflows, Confirmed(x)'
      PROVE  released'[handle[x]] = released[handle[x]]
  <2>1. x # w /\ handle[x] \in Mutexes
    BY <1>0, <1>2 DEF Confirmed, Inv, TypeOK, Handles
  <2>2. handle[x] # handle[w]
    BY <1>0, <2>1 DEF Inv, TypeOK, Handles
  <2> QED
    BY <1>0, <2>1, <2>2 DEF Inv, TypeOK
<1> QED
  BY <1>0, <1>1, <1>2, ReleaseRowsInv

\* The janitor's sweep preserves the invariant: it takes expired rows only.
LEMMA JanitorInv ==
  ASSUME Inv, JanitorSweep
  PROVE  Inv'
<1> PICK swept \in SUBSET ExpiredRows :
      released' = [m \in Mutexes |-> released[m] \/ m \in swept]
  BY DEF JanitorSweep
<1>0. UNCHANGED <<rowPr, holder, lease, pc, handle, granted, busyWith>>
  BY DEF JanitorSweep
<1>1. /\ pc' \in [Workflows -> Places]
      /\ \A x \in Workflows : pc'[x] \in {pc[x], "done"}
      /\ released' \in [Mutexes -> BOOLEAN]
      /\ \A m \in Mutexes : released[m] => released'[m]
  BY <1>0 DEF Inv, TypeOK
<1>2. \A m \in Mutexes : rowPr[m] = NoPr => released'[m] = released[m]
  BY DEF ExpiredRows, Inv, TypeOK
<1>3. ASSUME NEW x \in Workflows, Confirmed(x)'
      PROVE  released'[handle[x]] = released[handle[x]]
  <2>1. Confirmed(x)
    BY <1>0, <1>3 DEF Confirmed
  <2>2. handle[x] \in Mutexes
    BY <2>1 DEF Confirmed, Inv, TypeOK, Handles
  <2>3. granted[x] > 0 /\ granted[x] <= lease[handle[x]]
    BY <2>1 DEF Inv, Covered, Confirmed
  <2>4. granted[x] \in Int /\ lease[handle[x]] \in Int
    BY <2>2 DEF Inv, TypeOK
  <2>5. handle[x] \notin swept
    BY <2>3, <2>4 DEF ExpiredRows
  <2> QED
    BY <2>2, <2>5 DEF Inv, TypeOK
<1> QED
  BY <1>0, <1>1, <1>2, <1>3, ReleaseRowsInv

\* The passing of time preserves the invariant: both sides count down together.
LEMMA TickInv ==
  ASSUME Inv, Tick
  PROVE  Inv'
<1>0. /\ lease' = [m \in Mutexes |-> Elapse(lease[m])]
      /\ granted' = [w \in Workflows |-> Elapse(granted[w])]
      /\ UNCHANGED <<rowPr, holder, released, pc, handle, busyWith>>
  BY DEF Tick
<1>1. TypeOK'
  BY <1>0 DEF Inv, TypeOK, Elapse
<1>2. OneLiveRow' /\ UnusedRows' /\ Handles'
  BY <1>0 DEF Inv, OneLiveRow, UnusedRows, Handles, LiveRows
<1>3. Covered'
  <2> SUFFICES ASSUME NEW w \in Workflows, Confirmed(w)'
               PROVE  ~released[handle[w]] /\ granted'[w] <= lease'[handle[w]]
    BY <1>0 DEF Covered
  <2>1. granted[w] \in -1..TTL
    BY DEF Inv, TypeOK
  <2>2. Confirmed(w)
    BY <1>0, <2>1 DEF Confirmed, Elapse
  <2>3. handle[w] \in Mutexes
    BY <2>2 DEF Confirmed, Inv, TypeOK, Handles
  <2>4. lease[handle[w]] \in -1..TTL
    BY <2>3 DEF Inv, TypeOK
  <2>5. ~released[handle[w]] /\ granted[w] <= lease[handle[w]]
    BY <2>2 DEF Inv, Covered
  <2> QED
    BY <1>0, <2>1, <2>3, <2>4, <2>5 DEF Elapse
<1> QED
  BY <1>1, <1>2, <1>3 DEF Inv

\* Every step preserves the invariant.
LEMMA NextInv == Inv /\ [Next]_vars => Inv'
<1> SUFFICES ASSUME Inv, [Next]_vars PROVE Inv'
  OBVIOUS
<1>1. CASE UNCHANGED vars
  <2> USE <1>1 DEF vars, Inv
  <2>1. TypeOK' /\ OneLiveRow' /\ UnusedRows'
    BY DEF TypeOK, OneLiveRow, UnusedRows, LiveRows
  <2>2. Handles' /\ Covered'
    BY DEF Handles, Covered, Confirmed
  <2> QED
    BY <2>1, <2>2
<1>2. CASE Next
  BY <1>2, GateAcceptedInv, GateAckLostInv, ClaimCheckInv, LocalStepInv, ReleaseInv,
     JanitorInv, TickInv DEF Next
<1> QED
  BY <1>1, <1>2

-----------------------------------------------------------------------------
\* The inductive invariant holds in every reachable state.
THEOREM Invariance == Spec => []Inv
<1>1. Init => Inv
  BY InitInv
<1>2. Inv /\ [Next]_vars => Inv'
  BY NextInv
<1> QED
  BY <1>1, <1>2, PTL DEF Spec

\* The mutex rows, the places of the executions and the handles they were given
\* keep their types, and no lease runs for longer than it was granted.
THEOREM TypeCorrect == Spec => []TypeOK
<1>1. Inv => TypeOK
  BY DEF Inv
<1> QED
  BY <1>1, Invariance, PTL

\* Whatever the number of executions and lost answers, a pull request has at
\* most one live mutex row.
THEOREM AtMostOneLiveRow == Spec => []OneLiveRow
<1>1. Inv => OneLiveRow
  BY DEF Inv
<1> QED
  BY <1>1, Invariance, PTL

\* A claim confirmed less than one lease ago is never reclaimed or swept.
THEOREM ConfirmedClaimsKept == Spec => []ConfirmedClaimIsLive
<1>1. Inv => ConfirmedClaimIsLive
  BY DEF Inv, Covered, ConfirmedClaimIsLive
<1> QED
  BY <1>1, Invariance, PTL

\* Two executions never both rely on a confirmed claim on one pull request.
THEOREM MutualExclusion == Spec => []ConfirmedClaimIsExclusive
<1>1. ASSUME Inv, NEW w \in Workflows, NEW x \in Workflows,
             Confirmed(w), Confirmed(x), PrOf[w] = PrOf[x]
      PROVE  w = x
  <2>1. handle[w] \in Mutexes /\ handle[x] \in Mutexes
    BY <1>1 DEF Confirmed, Inv, TypeOK, Handles
  <2>2. handle[w] \in LiveRows(PrOf[w]) /\ handle[x] \in LiveRows(PrOf[w])
    BY <1>1, <2>1 DEF Inv, Covered, Handles, LiveRows
  <2>3. handle[w] = handle[x]
    BY <1>1, <2>2 DEF Inv, OneLiveRow
  <2> QED
    BY <1>1, <2>1, <2>3 DEF Inv, Handles
<1>2. Inv => ConfirmedClaimIsExclusive
  BY <1>1 DEF ConfirmedClaimIsExclusive
<1> QED
  BY <1>2, Invariance, PTL
=============================================================================
