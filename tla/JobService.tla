------------------------------ MODULE JobService ------------------------------
(***************************************************************************)
(* What the scheduler promises of its jobs, with no clock, no messages and *)
(* no policy: one job at a time is served, a job is finished once, when it *)
(* has had exactly the service it asked for, and never served again.       *)
(***************************************************************************)
EXTENDS Integers

CONSTANT Jobs

VARIABLES state,   \* "none", "READY", "RUNNING" or "FINISHED"
          left     \* service still owed

vars == <<state, left>>

Init ==
    /\ state = [j \in Jobs |-> "none"]
    /\ left = [j \in Jobs |-> 0]

Moves(j, from, to) ==
    /\ state[j] = from
    /\ state' = [state EXCEPT ![j] = to]

Admit(j) ==
    /\ Moves(j, "none", "READY")
    /\ left'[j] \in Nat
    /\ left' = [left EXCEPT ![j] = left'[j]]

Start(j) ==
    /\ \A k \in Jobs : state[k] # "RUNNING"
    /\ Moves(j, "READY", "RUNNING")
    /\ UNCHANGED left

Preempt(j) ==
    /\ Moves(j, "RUNNING", "READY")
    /\ UNCHANGED left

Serve(j) ==
    /\ state[j] = "RUNNING"
    /\ left[j] > 0
    /\ left' = [left EXCEPT ![j] = @ - 1]
    /\ UNCHANGED state

Finish(j) ==
    /\ left[j] = 0
    /\ Moves(j, "RUNNING", "FINISHED")
    /\ UNCHANGED left

Next == \E j \in Jobs : Admit(j) \/ Start(j) \/ Preempt(j) \/ Serve(j) \/ Finish(j)

Spec == Init /\ [][Next]_vars
=============================================================================
