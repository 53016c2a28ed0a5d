----------------------------- MODULE LoopProofs -------------------------------
(*****************************************************************************)
(* Lemmas about loops, for proofs about operations that run to their end in  *)
(* one step: a loop of Loops has a run, and what its rounds hand on to each  *)
(* other holds at the end.  Induction is by the least counterexample.        *)
(*****************************************************************************)
EXTENDS Loops, SequenceTheorems, WellFoundedInduction, TLAPS

(* The order of the numbers, as a relation.                                *)
Below == {d \in Nat \X Nat : d[1] < d[2]}

(* A set of numbers has a least one.                                       *)
LEMMA LeastNumber ==
    ASSUME NEW T, T \subseteq Nat, T # {}
    PROVE  \E n \in T : \A m \in T : n <= m
  <1>1. OpToRel(<, Nat) = Below
    BY Zenon DEF OpToRel, Below
  <1>2. IsWellFoundedOn(Below, Nat)
    BY <1>1, NatLessThanWellFounded, Zenon
  <1>3. PICK n \in T : \A m \in T : <<m, n>> \notin Below
    BY <1>2, WFMin, Zenon
  <1>4. ASSUME NEW m \in T
        PROVE  n <= m
    <2>1. <<m, n>>[1] = m /\ <<m, n>>[2] = n /\ <<m, n>> \in Nat \X Nat
      OBVIOUS
    <2>2. ~(m < n)
      BY <1>3, <2>1, Zenon DEF Below
    <2> QED
      BY <2>2
  <1> QED
    BY <1>4

(* f is the run of n rounds of step from x.                                *)
IsRun(f, step, x, n) == f = [k \in 0..n |-> IF k = 0 THEN x ELSE step[f[k - 1]]]

(* Whatever a round does, there is a run of n rounds.                      *)
LEMMA RunExists ==
    ASSUME NEW step, NEW x, NEW n \in Nat
    PROVE  \E f : IsRun(f, step, x, n)
  <1> DEFINE T == {m \in Nat : ~ \E f : IsRun(f, step, x, m)}
  <1>1. SUFFICES T = {}
    OBVIOUS
  <1>2. SUFFICES ASSUME T # {} PROVE FALSE
    BY <1>2
  <1>3. PICK m \in T : \A k \in T : m <= k
    BY <1>2, LeastNumber
  <1>4. CASE m = 0
    <2>1. IsRun([k \in 0..0 |-> x], step, x, 0)
      BY DEF IsRun
    <2> QED
      BY <1>3, <1>4, <2>1
  <1>5. CASE m # 0
    <2>1. m - 1 \in Nat /\ m - 1 \notin T
      BY <1>3, <1>5
    <2>2. PICK f : IsRun(f, step, x, m - 1)
      BY <2>1
    <2> DEFINE g == [k \in 0..m |-> IF k = m THEN step[f[m - 1]] ELSE f[k]]
    <2>3. \A k \in 0..m : g[k] = IF k = 0 THEN x ELSE step[g[k - 1]]
      BY <2>1, <2>2, <1>3 DEF IsRun
    <2>4. IsRun(g, step, x, m)
      BY <2>3 DEF IsRun
    <2> QED
      BY <1>3, <2>4
  <1> QED
    BY <1>4, <1>5

(* The rule for loops: what each round hands on to the next holds at the   *)
(* end.                                                                    *)
LEMMA RunStays ==
    ASSUME NEW f, NEW n \in Nat, NEW T,
           f[0] \in T[0],
           \A k \in 1..n : f[k - 1] \in T[k - 1] => f[k] \in T[k]
    PROVE  \A k \in 0..n : f[k] \in T[k]
  <1> DEFINE U == {k \in 0..n : f[k] \notin T[k]}
  <1>1. SUFFICES ASSUME U # {} PROVE FALSE
    BY <1>1
  <1>a. U \subseteq Nat
    OBVIOUS
  <1>2. PICK k \in U : \A j \in U : k <= j
    BY <1>1, <1>a, LeastNumber, Zenon
  <1>3. k \in 1..n /\ k - 1 \in 0..n /\ k - 1 \notin U
    BY <1>2
  <1> QED
    BY <1>2, <1>3

(* Both together, for the rounds of one loop: step need do the round only  *)
(* on what T says the rounds hand on.                                      *)
LEMMA LoopRuns ==
    ASSUME NEW step, NEW x, NEW n \in Nat, NEW T,
           x \in T[0],
           \A k \in 1..n : \A w \in T[k - 1] : step[w] \in T[k]
    PROVE  \E f : IsRun(f, step, x, n) /\ \A k \in 0..n : f[k] \in T[k]
  <1>1. PICK f : IsRun(f, step, x, n)
    BY RunExists
  <1>2. f[0] = x /\ \A k \in 1..n : f[k] = step[f[k - 1]]
    BY <1>1 DEF IsRun
  <1>3. \A k \in 1..n : f[k - 1] \in T[k - 1] => f[k] \in T[k]
    BY <1>2
  <1>4. \A k \in 0..n : f[k] \in T[k]
    BY <1>2, <1>3, RunStays
  <1> QED
    BY <1>1, <1>4

-----------------------------------------------------------------------------
(* A sequence with an element put in behind its first i.                   *)
PutIn(q, i, e) == SubSeq(q, 1, i) \o <<e>> \o SubSeq(q, i + 1, Len(q))

Shaped(q, i, e) ==
    [k \in 1..(Len(q) + 1) |-> IF k <= i THEN q[k] ELSE IF k = i + 1 THEN e ELSE q[k - 1]]

LEMMA InsertedShape ==
    ASSUME NEW S, NEW q \in Seq(S), NEW e \in S, NEW i \in 0..Len(q)
    PROVE  /\ PutIn(q, i, e) \in Seq(S)
           /\ DOMAIN PutIn(q, i, e) = 1..(Len(q) + 1)
           /\ \A k \in DOMAIN PutIn(q, i, e) :
                PutIn(q, i, e)[k] = IF k <= i THEN q[k]
                                    ELSE IF k = i + 1 THEN e ELSE q[k - 1]
           /\ PutIn(q, i, e) = Shaped(q, i, e)
  <1> DEFINE s == PutIn(q, i, e)
  <1> DEFINE A == SubSeq(q, 1, i)
             B == SubSeq(q, i + 1, Len(q))
             C == A \o <<e>>
  <1>1. Len(q) \in Nat /\ i \in Nat /\ i <= Len(q) /\ \A k \in 1..Len(q) : q[k] \in S
    BY LenProperties
  <1>2. A \in Seq(S) /\ Len(A) = i /\ \A k \in 1..i : A[k] = q[k]
    <2>1. \A k \in 1..i : q[k] \in S
      BY <1>1
    <2>2. /\ A \in Seq(S) /\ Len(A) = IF 1 <= i THEN i - 1 + 1 ELSE 0
          /\ \A k \in 1..(i - 1 + 1) : A[k] = q[1 + k - 1]
      BY <1>1, <2>1, SubSeqProperties
    <2> HIDE DEF A
    <2> QED
      BY <1>1, <2>2
  <1>3. /\ B \in Seq(S) /\ Len(B) = Len(q) - i
        /\ \A k \in 1..(Len(q) - i) : B[k] = q[i + k]
    <2>1. \A k \in (i + 1)..Len(q) : q[k] \in S
      BY <1>1
    <2>2. i + 1 \in Int /\ Len(q) \in Int
      BY <1>1
    <2>3. /\ B \in Seq(S) /\ Len(B) = IF i + 1 <= Len(q) THEN Len(q) - (i + 1) + 1 ELSE 0
          /\ \A k \in 1..(Len(q) - (i + 1) + 1) : B[k] = q[i + 1 + k - 1]
      BY <2>1, <2>2, SubSeqProperties
    <2> HIDE DEF B
    <2> QED
      BY <1>1, <2>3
  <1>4. <<e>> \in Seq(S) /\ Len(<<e>>) = 1 /\ <<e>>[1] = e
    OBVIOUS
  <1>6. s = C \o B
    BY DEF PutIn
  <1> HIDE DEF A, B, s
  <1>5. /\ C \in Seq(S) /\ Len(C) = i + 1
        /\ \A k \in 1..(i + 1) : C[k] = IF k <= i THEN A[k] ELSE <<e>>[k - i]
    BY <1>2, <1>4, ConcatProperties
  <1> HIDE DEF C
  <1>7. /\ s \in Seq(S) /\ Len(s) = Len(q) + 1
        /\ \A k \in 1..(Len(q) + 1) : s[k] = IF k <= i + 1 THEN C[k] ELSE B[k - (i + 1)]
    <2>1. /\ C \o B \in Seq(S) /\ Len(C \o B) = Len(C) + Len(B)
          /\ \A k \in 1..(Len(C) + Len(B)) :
               (C \o B)[k] = IF k <= Len(C) THEN C[k] ELSE B[k - Len(C)]
      BY <1>3, <1>5, ConcatProperties
    <2>2. Len(C) = i + 1 /\ Len(C) + Len(B) = Len(q) + 1
      BY <1>1, <1>3, <1>5
    <2> QED
      BY <1>6, <2>1, <2>2, Zenon
  <1>8. DOMAIN s = 1..(Len(q) + 1)
    BY <1>7, LenProperties, Zenon
  <1>9. ASSUME NEW k \in 1..(Len(q) + 1)
        PROVE  s[k] = IF k <= i THEN q[k] ELSE IF k = i + 1 THEN e ELSE q[k - 1]
    <2>1. s[k] = IF k <= i + 1 THEN C[k] ELSE B[k - (i + 1)]
      BY <1>7
    <2>2. CASE k <= i
      <3>1. k \in 1..i /\ k \in 1..(i + 1) /\ k <= i + 1
        BY <1>1, <2>2
      <3>2. s[k] = C[k] /\ C[k] = A[k] /\ A[k] = q[k]
        BY <1>2, <1>5, <2>1, <2>2, <3>1, Zenon
      <3> QED
        BY <2>2, <3>2, Zenon
    <2>3. CASE k = i + 1
      <3>1. k \in 1..(i + 1) /\ k <= i + 1 /\ ~(k <= i) /\ k - i = 1
        BY <1>1, <2>3
      <3>2. s[k] = C[k] /\ C[k] = <<e>>[1]
        BY <1>5, <2>1, <3>1, Zenon
      <3> QED
        BY <1>4, <2>3, <3>1, <3>2, Zenon
    <2>4. CASE k > i + 1
      <3>1. /\ k - (i + 1) \in 1..(Len(q) - i) /\ i + (k - (i + 1)) = k - 1
            /\ ~(k <= i + 1) /\ ~(k <= i) /\ k # i + 1
        BY <1>1, <2>4
      <3>2. s[k] = B[k - (i + 1)] /\ B[k - (i + 1)] = q[k - 1]
        BY <1>3, <2>1, <3>1, Zenon
      <3> QED
        BY <3>1, <3>2, Zenon
    <2>5. k <= i \/ k = i + 1 \/ k > i + 1
      BY <1>1
    <2> QED
      BY <2>2, <2>3, <2>4, <2>5, Zenon
  <1>10. s = Shaped(q, i, e)
    <2>1. s = [k \in 1..(Len(q) + 1) |-> s[k]]
      BY <1>7, <1>8
    <2> QED
      BY <1>9, <2>1, Zenon DEF Shaped
  <1> QED
    BY <1>7, <1>8, <1>9, <1>10, Zenon DEF s
=============================================================================
