------------------------------- MODULE Process -------------------------------
(* A child: the code between fork and execv in forkProcess, then           *)
(* ./process, which spins on its remaining-time word until that is zero.   *)
EXTENDS KernelIPC

Goes(p, from) == stage[p] = from /\ p \notin stopped

(* Mutant: the loop ends a tick early.                                     *)
WorkNearlyDone(p) == remainingTime[p] <= 1

WorkDone(p) == remainingTime[p] <= 0

(* The child still has the generator's SIGUSR2 handler: a tick raises the  *)
(* generator's semaphore from the child.                                   *)
InheritedClkHandler(p) ==
    /\ Goes(p, "forked")
    /\ p \in usr2
    /\ usr2' = usr2 \ {p}
    /\ pgSem' = pgSem + 1
    /\ UNCHANGED <<clkWord, schedulerSem, pgSchedulerSem, msgVars, procVars,
                   sigchld, schedulerStage>>

(* signal(SIGUSR2, SIG_IGN), which also discards a pending one.            *)
IgnoreClk(p) ==
    /\ Goes(p, "forked")
    /\ stage' = [stage EXCEPT ![p] = "armed"]
    /\ usr2' = usr2 \ {p}
    /\ UNCHANGED <<clkWord, semVars, msgVars, stopped, remainingTime,
                   sigchld, schedulerStage>>

(* kill(getpid(), SIGSTOP): the child stops whether or not the scheduler   *)
(* has already sent its SIGCONT.                                           *)
Park(p) ==
    /\ Goes(p, "armed")
    /\ stage' = [stage EXCEPT ![p] = "parked"]
    /\ stopped' = stopped \cup {p}
    /\ UNCHANGED <<clkWord, semVars, msgVars, remainingTime, sigVars, schedulerStage>>

(* execv, then main attaches the remaining-time word.                      *)
Exec(p) ==
    /\ Goes(p, "parked")
    /\ stage' = [stage EXCEPT ![p] = "execed"]
    /\ UNCHANGED <<clkWord, semVars, msgVars, stopped, remainingTime,
                   sigVars, schedulerStage>>

(* The loop ends when the word is no longer positive; the SIGINT handler   *)
(* detaches and exits, and the kernel sends SIGCHLD to the generator.      *)
Terminate(p) ==
    /\ Goes(p, "execed")
    /\ WorkDone(p)
    /\ stage' = [stage EXCEPT ![p] = "zombie"]
    /\ sigchld' = TRUE
    /\ UNCHANGED <<clkWord, semVars, msgVars, stopped, remainingTime,
                   usr2, schedulerStage>>

ProcessStep(p) ==
    \/ InheritedClkHandler(p)
    \/ IgnoreClk(p)
    \/ Park(p)
    \/ Exec(p)
    \/ Terminate(p)
=============================================================================
