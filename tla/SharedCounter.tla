---------------------------- MODULE SharedCounter ----------------------------
(***************************************************************************)
(* What lab2_add promises about the variable its threads share: each       *)
(* thread alternately adds 1 and -1, and when one of the synchronization   *)
(* options is in force every one of these adds is a single indivisible     *)
(* step on the counter.  Without one, an add still counts as done exactly  *)
(* once, and leaves a value one off a total that its thread has seen since *)
(* its last add, which may have been overtaken.                            *)
(***************************************************************************)
EXTENDS Integers

VARIABLES
  total,        \* the shared counter
  ups,          \* ups[t]: how many times thread t has added 1
  downs,        \* downs[t]: how many times thread t has added -1
  seen,         \* seen[t]: the total that thread t has seen, if any, as a set
  indivisible   \* whether a synchronization option is in force

vars == <<total, ups, downs, seen, indivisible>>

Init ==
  /\ total = 0
  /\ \A t \in DOMAIN ups : ups[t] = 0
  /\ \A t \in DOMAIN downs : downs[t] = 0
  /\ \A t \in DOMAIN seen : seen[t] = {}
  /\ indivisible \in BOOLEAN

Look(t) ==
  /\ seen' = [seen EXCEPT ![t] = {total}]
  /\ UNCHANGED <<total, ups, downs, indivisible>>

\* What has been seen is given up, and must be looked at again.
Forget(t) ==
  /\ seen' = [seen EXCEPT ![t] = {}]
  /\ UNCHANGED <<total, ups, downs, indivisible>>

\* An add of v is to the total when adds are indivisible, and otherwise to what the
\* thread has seen of it; another add must look again.
Apply(t, v) ==
  /\ total' \in {value + v : value \in IF indivisible THEN {total} ELSE seen[t]}
  /\ seen' = [seen EXCEPT ![t] = {}]

Up(t) ==
  /\ ups[t] = downs[t]
  /\ ups' = [ups EXCEPT ![t] = @ + 1]
  /\ Apply(t, 1)
  /\ UNCHANGED <<downs, indivisible>>

Down(t) ==
  /\ ups[t] = downs[t] + 1
  /\ downs' = [downs EXCEPT ![t] = @ + 1]
  /\ Apply(t, -1)
  /\ UNCHANGED <<ups, indivisible>>

Next == \E t \in DOMAIN ups : Look(t) \/ Forget(t) \/ Up(t) \/ Down(t)

Spec == Init /\ [][Next]_vars
=============================================================================
