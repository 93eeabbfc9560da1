------------------------------ MODULE TaskPool ------------------------------
(***************************************************************************)
(* What the server expects of its thread pool, with no mutex, condition    *)
(* variable or queue in sight: connections are served in the order they    *)
(* were handed over, each exactly once, at most Capacity at a time, and    *)
(* the pool is gone only when every connection handed over was served.     *)
(***************************************************************************)
EXTENDS Naturals, Sequences, FiniteSets

CONSTANTS
  Tasks,        \* the connections that may be handed over
  Capacity      \* how many are served at once

VARIABLES
  submitted,    \* the connections handed over so far, in order
  begun,        \* how many of them were started: the first `begun' ones
  finished,     \* those whose handler returned
  phase         \* "open", then "closing", then "gone"

vars == <<submitted, begun, finished, phase>>

Submitted == {submitted[i] : i \in DOMAIN submitted}
Begun     == {submitted[i] : i \in 1..begun}

Init ==
  /\ submitted = <<>>
  /\ begun = 0
  /\ finished = {}
  /\ phase = "open"

Submit(t) ==
  /\ phase = "open"
  /\ t \notin Submitted
  /\ submitted' = Append(submitted, t)
  /\ UNCHANGED <<begun, finished, phase>>

\* First come, first served, and only while fewer than Capacity are running.
Begin ==
  /\ phase # "gone"
  /\ begun < Len(submitted)
  /\ Cardinality(Begun \ finished) < Capacity
  /\ begun' = begun + 1
  /\ UNCHANGED <<submitted, finished, phase>>

Finish(t) ==
  /\ t \in Begun \ finished
  /\ finished' = finished \cup {t}
  /\ UNCHANGED <<submitted, begun, phase>>

Close ==
  /\ phase = "open"
  /\ phase' = "closing"
  /\ UNCHANGED <<submitted, begun, finished>>

Vanish ==
  /\ phase = "closing"
  /\ finished = Submitted
  /\ phase' = "gone"
  /\ UNCHANGED <<submitted, begun, finished>>

Next ==
  \/ \E t \in Tasks : Submit(t) \/ Finish(t)
  \/ Begin
  \/ Close
  \/ Vanish

Spec == Init /\ [][Next]_vars
=============================================================================
