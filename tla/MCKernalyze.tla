----------------------------- MODULE MCKernalyze -----------------------------
(* Instances of Kernalyze for TLC.                                         *)
EXTENDS Kernalyze

Entry(i, a, r, pr, m) ==
    [id |-> i, arriveTime |-> a, runningTime |-> r, priority |-> pr, memsize |-> m]

(* Sorted files of up to three entries: arrivals together and apart, empty *)
(* running times, priorities against the order of arrival, sizes that fill *)
(* the memory of four or must wait for it, and the largest id for which    *)
(* the factor in the heap key is enough.                                   *)
TimelyWorkloads ==
    {<<Entry(1, a, r, 2, m), Entry(2, b, s, 1, 2)>> :
        a \in {0, 1}, b \in {1, 2}, r \in {1, 3}, s \in {0, 2}, m \in {1, 3}}
    \cup {<<Entry(2, 0, 2, 3, 2), Entry(9999, b, 1, 1, 1), Entry(3, c, 2, 2, 2)>> :
            b \in {0, 1}, c \in {1, 2}}

(* Preemption, a wait for memory, and an empty running time.               *)
FewWorkloads ==
    {<<Entry(1, 0, 3, 2, 1), Entry(2, 1, 1, 1, 2)>>,
     <<Entry(1, 0, 2, 2, 3), Entry(2, 0, 1, 1, 2), Entry(3, 1, 0, 1, 2)>>}

(* Two entries, for ticks that come at any moment.                         *)
OverrunWorkloads ==
    {<<Entry(1, 0, 2, 2, 2), Entry(2, 0, 1, 1, 1)>>,
     <<Entry(1, 0, 1, 2, 2), Entry(2, 1, 0, 1, 3)>>}

(* Files that come to an end within the few ticks an overrun run has: an   *)
(* exit, and an arrival behind it or none.                                 *)
ShortWorkloads ==
    {<<Entry(1, 0, 1, 2, 2)>>, <<Entry(1, 0, 1, 2, 2), Entry(2, 1, 0, 1, 3)>>}

AllQuanta == {-1, 1, 2}
NoQuantum == {-1}
=============================================================================
