--------------------------------- MODULE Clk ---------------------------------
(* The clock process: runClk counts a shared word up once a second and     *)
(* then signals the whole process group.                                   *)
EXTENDS KernelIPC

VARIABLE clkStep   \* "sleep", or "signal" between the increment and killpg

ClkInit == clkStep = "sleep"

ClkTypeOK == clkStep \in {"sleep", "signal"}

(* Who receives SIGUSR2: the clock ignores it, and so does a child once it *)
(* is armed; a forked child still has the generator's handler.             *)
SignalTargets ==
    (IF schedulerStage = "alive" THEN {PG, Scheduler} ELSE {PG})
        \cup {p \in Procs : stage[p] = "forked"}

(* sleep(1); clkShmAddr is incremented.                                    *)
IncrementClk ==
    /\ clkAlive
    /\ clkStep = "sleep"
    /\ clk < MaxClk
    /\ clk' = clk + 1
    /\ clkStep' = "signal"
    /\ UNCHANGED <<clkAlive, semVars, msgVars, procVars, sigVars, schedulerStage>>

(* killpg(getpgrp(), SIGUSR2): a signal already pending is not queued twice. *)
SignalGroup ==
    /\ clkAlive
    /\ clkStep = "signal"
    /\ clkStep' = "sleep"
    /\ usr2' = usr2 \cup SignalTargets
    /\ UNCHANGED <<clkWord, semVars, msgVars, procVars, sigchld, schedulerStage>>
=============================================================================
