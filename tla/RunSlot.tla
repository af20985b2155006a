------------------------------ MODULE RunSlot ------------------------------
(***************************************************************************)
(* What the tables of ReviewRuns promise about a pull request, seen from   *)
(* outside: it has one slot, held by the run of the newest push.  A push   *)
(* takes the slot whatever the run in it was doing; only the holder is     *)
(* ever started, only the holder, once started, writes findings, and it    *)
(* ends at most once.  Runs that have lost the slot do nothing any more.   *)
(***************************************************************************)
CONSTANTS Reviews, Runs, NoRun

VARIABLES
  newest,  \* the run that holds the slot of a review
  phase,   \* what has become of that run
  used,    \* the runs that have been allocated
  writer   \* the run that wrote a review's findings last

vars == <<newest, phase, used, writer>>

Init ==
  /\ newest = [v \in Reviews |-> NoRun]
  /\ phase = [v \in Reviews |-> "none"]
  /\ used = {}
  /\ writer = [v \in Reviews |-> NoRun]

Push(v, r) ==
  /\ r \notin used
  /\ used' = used \cup {r}
  /\ newest' = [newest EXCEPT ![v] = r]
  /\ phase' = [phase EXCEPT ![v] = "queued"]
  /\ UNCHANGED writer

Begin(v) ==
  /\ phase[v] = "queued"
  /\ phase' = [phase EXCEPT ![v] = "running"]
  /\ UNCHANGED <<newest, used, writer>>

Finish(ended) ==
  /\ \A v \in ended : phase[v] = "running"
  /\ phase' = [v \in Reviews |-> IF v \in ended THEN "over" ELSE phase[v]]
  /\ UNCHANGED <<newest, used, writer>>

Write(v) ==
  /\ phase[v] \in {"running", "over"}
  /\ writer' = [writer EXCEPT ![v] = newest[v]]
  /\ UNCHANGED <<newest, phase, used>>

Next ==
  \/ \E v \in Reviews : (\E r \in Runs : Push(v, r)) \/ Begin(v) \/ Write(v)
  \/ \E ended \in SUBSET Reviews : Finish(ended)

Spec == Init /\ [][Next]_vars
=============================================================================
