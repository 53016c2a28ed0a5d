-------------------------------- MODULE Defs --------------------------------
(* What the programs share before they run: the sizes of defs.h.           *)
EXTENDS Integers

CONSTANTS
    MaxProcs,     \* no input file has more entries
    TotalMemory   \* TOTAL_MEMORY

Procs == 1..MaxProcs
NULL  == 0

(* -s rr, srtn, hpf                                                        *)
RR   == 0
SRTN == 1
HPF  == 2

(* The powers of 2.                                                        *)
Two[e \in Nat] == IF e = 0 THEN 1 ELSE 2 * Two[e - 1]
=============================================================================
