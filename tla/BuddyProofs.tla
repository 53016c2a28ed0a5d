----------------------------- MODULE BuddyProofs ------------------------------
(*****************************************************************************)
(* Proofs about BuddyTree: the tree stays whole, canAllocate tells the truth *)
(* and leaves no trace, and the tree implements Memory, the allocator of the *)
(* composition.  For every size of the memory, every number of processes and *)
(* all requests, in any order.                                               *)
(*                                                                           *)
(* The argument: two blocks are apart or one of them is in a half of the     *)
(* other (Nested); freeMemoryHelper carries along that no two halves are     *)
(* both free but the one it stands at and its sibling (Climbing); the        *)
(* descent of allocateHelper is a climb that can be undone (Descending); and *)
(* the calls still to be made stand side by side, from the lowest block that *)
(* may do to the end of the memory (Line).                                   *)
(*****************************************************************************)
EXTENDS BuddyTree, LoopProofs, FiniteSetTheorems, FunctionTheorems

-----------------------------------------------------------------------------
(* Powers of two.                                                          *)

(* Two is what its definition says.                                        *)
LEMMA TwoIs == Two = [e \in Nat |-> IF e = 0 THEN 1 ELSE 2 * Two[e - 1]]
  <1> DEFINE twice == [v \in Nat |-> 2 * v]
             Run(n) == CHOOSE f : IsRun(f, twice, 1, n)
             two == [n \in Nat |-> Run(n)[n]]
  <1>1. ASSUME NEW n \in Nat
        PROVE  IsRun(Run(n), twice, 1, n)
    <2> HIDE DEF twice
    <2> QED
      BY <1>1, RunExists
  <1>2. ASSUME NEW n \in Nat
        PROVE  Run(n)[0] = 1 /\ \A k \in 1..n : Run(n)[k] = twice[Run(n)[k - 1]]
    <2> HIDE DEF twice, Run
    <2> QED
      BY <1>1 DEF IsRun
  <1>3. ASSUME NEW n \in Nat
        PROVE  \A k \in 0..n : Run(n)[k] \in Nat
    <2> DEFINE T == [k \in 0..n |-> Nat]
    <2>1. ASSUME NEW k \in 1..n, Run(n)[k - 1] \in T[k - 1]
          PROVE  Run(n)[k] \in T[k]
      <3>1. Run(n)[k] = twice[Run(n)[k - 1]]
        <4> HIDE DEF twice, Run
        <4> QED
          BY <1>2, <1>3
      <3>2. Run(n)[k - 1] \in Nat
        <4> HIDE DEF Run
        <4> QED
          BY <1>3, <2>1
      <3>3. T[k] = Nat
        BY <1>3
      <3> HIDE DEF Run, T
      <3> QED
        BY <3>1, <3>2, <3>3
    <2>2. Run(n)[0] \in T[0]
      <3>1. Run(n)[0] = 1
        <4> HIDE DEF twice, Run
        <4> QED
          BY <1>2, <1>3
      <3>2. T[0] = Nat
        BY <1>3
      <3> HIDE DEF Run, T
      <3> QED
        BY <3>1, <3>2
    <2>3. \A k \in 0..n : Run(n)[k] \in T[k]
      <3> HIDE DEF T, Run
      <3> QED
        BY <1>3, <2>1, <2>2, RunStays
    <2> HIDE DEF Run
    <2> QED
      BY <1>3, <2>3
  <1>4. ASSUME NEW n \in Nat, n # 0
        PROVE  n - 1 \in Nat /\ Run(n)[n - 1] = Run(n - 1)[n - 1]
    <2> DEFINE T == [k \in 0..(n - 1) |-> {Run(n - 1)[k]}]
    <2>0. n - 1 \in Nat
      BY <1>4
    <2>1. \A k \in 1..(n - 1) : Run(n)[k - 1] \in T[k - 1] => Run(n)[k] \in T[k]
      <3> HIDE DEF twice, Run
      <3> QED
        BY <1>2, <2>0
    <2>2. Run(n)[0] \in T[0]
      <3> HIDE DEF twice, Run
      <3> QED
        BY <1>2, <2>0
    <2>3. \A k \in 0..(n - 1) : Run(n)[k] \in T[k]
      <3> HIDE DEF T, Run, twice
      <3> QED
        BY <2>0, <2>1, <2>2, RunStays
    <2>4. n - 1 \in 0..(n - 1)
      BY <2>0
    <2> HIDE DEF Run
    <2> QED
      BY <2>0, <2>3, <2>4
  <1>5. ASSUME NEW n \in Nat
        PROVE  two[n] = IF n = 0 THEN 1 ELSE 2 * two[n - 1]
    <2>1. CASE n = 0
      BY <1>2, <2>1
    <2>2. CASE n # 0
      <3>1. Run(n)[n] = twice[Run(n)[n - 1]] /\ Run(n)[n - 1] \in Nat
        <4> HIDE DEF twice, Run
        <4> QED
          BY <1>2, <1>3, <2>2
      <3>2. two[n] = Run(n)[n] /\ two[n - 1] = Run(n - 1)[n - 1]
        BY <1>4, <2>2
      <3> HIDE DEF Run, two
      <3> QED
        BY <1>4, <2>2, <3>1, <3>2
    <2> QED
      BY <2>1, <2>2
  <1>6. two = [e \in Nat |-> IF e = 0 THEN 1 ELSE 2 * two[e - 1]]
    <2>1. two = [n \in Nat |-> two[n]]
      OBVIOUS
    <2> HIDE DEF two
    <2> QED
      BY <1>5, <2>1, Zenon
  <1>7. \E f : f = [e \in Nat |-> IF e = 0 THEN 1 ELSE 2 * f[e - 1]]
    <2> HIDE DEF two
    <2> QED
      BY <1>6
  <1> QED
    BY <1>7 DEF Two

(* Each is twice the one before.                                           *)
LEMMA TwoDoubles ==
    /\ Two[0] = 1
    /\ \A e \in Nat : Two[e] \in Nat /\ Two[e] >= 1 /\ Two[e + 1] = 2 * Two[e]
  <1>1. Two[0] = 1 /\ \A e \in Nat : Two[e + 1] = 2 * Two[e]
    BY TwoIs
  <1> DEFINE U == {e \in Nat : ~(Two[e] \in Nat /\ Two[e] >= 1)}
  <1>2. ASSUME U # {} PROVE FALSE
    <2>1. PICK m \in U : \A k \in U : m <= k
      BY <1>2, LeastNumber
    <2>2. CASE m = 0
      BY <1>1, <2>1, <2>2
    <2>3. CASE m # 0
      <3>1. m - 1 \in Nat /\ m - 1 \notin U /\ (m - 1) + 1 = m
        BY <2>1, <2>3
      <3> QED
        BY <1>1, <2>1, <3>1
    <2> QED
      BY <2>2, <2>3
  <1> QED
    BY <1>1, <1>2

(* A larger exponent gives a multiple.                                     *)
LEMMA TwoGrows ==
    ASSUME NEW d \in Nat, NEW e \in Nat, d <= e
    PROVE  /\ Two[d] <= Two[e]
           /\ \E m \in Nat : m >= 1 /\ Two[e] = m * Two[d]
           /\ d < e => 2 * Two[d] <= Two[e]
  <1> DEFINE Good(f) == /\ Two[d] <= Two[f]
                        /\ \E m \in Nat : m >= 1 /\ Two[f] = m * Two[d]
                        /\ d < f => 2 * Two[d] <= Two[f]
             U == {f \in Nat : d <= f /\ ~Good(f)}
  <1>1. ASSUME U # {} PROVE FALSE
    <2>1. PICK f \in U : \A k \in U : f <= k
      BY <1>1, LeastNumber
    <2>2. CASE f = d
      <3>1. Two[f] = 1 * Two[d]
        BY <2>2, TwoDoubles
      <3> QED
        BY <2>1, <2>2, <3>1, TwoDoubles
    <2>3. CASE f # d
      <3>1. f - 1 \in Nat /\ d <= f - 1 /\ (f - 1) + 1 = f /\ Good(f - 1)
        BY <2>1, <2>3
      <3>2. PICK m \in Nat : m >= 1 /\ Two[f - 1] = m * Two[d]
        BY <3>1
      <3>3. Two[f] = 2 * Two[f - 1] /\ Two[f - 1] \in Nat /\ Two[d] \in Nat
        BY <3>1, TwoDoubles
      <3>4. Two[f] = (2 * m) * Two[d]
        BY <3>2, <3>3
      <3>5. 2 * m \in Nat /\ 2 * m >= 1
        BY <3>2
      <3>6. 2 * Two[d] <= Two[f] /\ Two[d] <= Two[f]
        BY <3>1, <3>3
      <3> QED
        BY <2>1, <3>4, <3>5, <3>6
    <2> QED
      BY <2>2, <2>3
  <1> QED
    BY <1>1

(* The powers of two that fit into a word.                                 *)
LEMMA PowerFacts ==
    ASSUME NEW a \in Powers
    PROVE  /\ a \in Nat /\ a >= 1
           /\ a > 1 => a \div 2 \in Powers /\ a = 2 * (a \div 2)
           /\ \A b \in Powers :
                /\ a < b => 2 * a <= b
                /\ a <= b => \E m \in Nat : m >= 1 /\ b = m * a
  <1>1. PICK d \in 0..(WordBits - 2) : a = Two[d]
    BY DEF Powers
  <1>2. WordBits \in Nat /\ d \in Nat
    BY SizesAssumption, <1>1
  <1>3. a \in Nat /\ a >= 1
    BY <1>1, <1>2, TwoDoubles
  <1>4. ASSUME a > 1
        PROVE  a \div 2 \in Powers /\ a = 2 * (a \div 2)
    <2>1. d # 0
      BY <1>1, <1>4, TwoDoubles
    <2>2. d - 1 \in 0..(WordBits - 2) /\ d - 1 \in Nat /\ (d - 1) + 1 = d
      BY <1>1, <1>2, <2>1
    <2>3. a = 2 * Two[d - 1] /\ Two[d - 1] \in Nat
      BY <1>1, <2>2, TwoDoubles
    <2>4. a \div 2 = Two[d - 1]
      BY <2>3
    <2> QED
      BY <2>2, <2>3, <2>4 DEF Powers
  <1>5. ASSUME NEW b \in Powers
        PROVE  /\ a < b => 2 * a <= b
               /\ a <= b => \E m \in Nat : m >= 1 /\ b = m * a
    <2>1. PICK e \in 0..(WordBits - 2) : b = Two[e]
      BY DEF Powers
    <2>2. e \in Nat /\ b \in Nat
      BY <1>2, <2>1, TwoDoubles
    <2>3. CASE d <= e
      <3>1. a < b => d < e
        BY <1>1, <1>2, <2>1, <2>2, <2>3
      <3> QED
        BY <1>1, <1>2, <2>1, <2>2, <2>3, <3>1, TwoGrows
    <2>4. CASE e < d
      <3>1. 2 * b <= a
        BY <1>1, <1>2, <2>1, <2>2, <2>4, TwoGrows
      <3>2. b >= 1
        BY <2>1, <2>2, TwoDoubles
      <3> QED
        BY <1>3, <2>2, <3>1, <3>2
    <2> QED
      BY <1>2, <2>2, <2>3, <2>4
  <1> QED
    BY <1>3, <1>4, <1>5

(* Rounding up gives the least power of two that is not smaller.           *)
LEMMA RoundsUp ==
    ASSUME NEW n \in 1..MaxSize
    PROVE  nextPowerOfTwo(n) \in Powers /\ n <= nextPowerOfTwo(n) /\ nextPowerOfTwo(n) < 2 * n
  <1> DEFINE W == WordBits
             z == clz(n)
  <1>0. W \in Nat /\ W > 1 /\ n \in Nat /\ n >= 1 /\ n <= Two[W - 2] /\ W - 2 \in Nat
        /\ Two[W - 2] \in Nat
    <2>1. W \in Nat /\ W > 1 /\ MaxSize \in 1..Two[W - 2]
      BY SizesAssumption
    <2>2. W - 2 \in Nat
      BY <2>1
    <2>3. Two[W - 2] \in Nat
      BY <2>2, TwoDoubles
    <2> QED
      BY <2>1, <2>2, <2>3
  <1>1. CASE n \in Powers
    <2>1. nextPowerOfTwo(n) = n
      BY <1>1 DEF nextPowerOfTwo
    <2> QED
      BY <1>0, <1>1, <2>1
  <1>2. CASE n \notin Powers
    <2>1. \A e \in 0..(W - 2) : n # Two[e] /\ Two[e] \in Nat
      BY <1>0, <1>2, TwoDoubles DEF Powers
    <2> DEFINE U == {e \in 0..(W - 2) : n < Two[e]}
    <2>2. PICK e \in U : \A f \in U : e <= f
      <3>1. W - 2 \in U
        BY <1>0, <2>1
      <3>2. U # {} /\ U \subseteq Nat
        BY <3>1
      <3> HIDE DEF U
      <3> QED
        BY <3>2, LeastNumber
    <2>3. e # 0
      BY <1>0, <2>2, TwoDoubles
    <2>4. e - 1 \in 0..(W - 2) /\ e - 1 \notin U /\ Two[e - 1] <= n /\ n < Two[e]
      BY <1>0, <2>1, <2>2, <2>3
    <2>5. z \in 0..(W - 1) /\ Two[W - 1 - z] <= n /\ n < Two[W - z]
      <3>1. W - e \in 0..(W - 1) /\ W - 1 - (W - e) = e - 1 /\ W - (W - e) = e
        BY <1>0, <2>2, <2>3
      <3>2. \E y \in 0..(W - 1) : Two[W - 1 - y] <= n /\ n < Two[W - y]
        BY <2>4, <3>1
      <3> QED
        BY <3>2 DEF clz
    <2>6. W - 1 - z \in Nat /\ W - z = (W - 1 - z) + 1 /\ Two[W - z] = 2 * Two[W - 1 - z]
          /\ Two[W - 1 - z] \in Nat /\ W - z \in Nat
      <3> HIDE DEF z
      <3> QED
        BY <1>0, <2>5, TwoDoubles
    <2>7. W - 1 - z <= W - 3
      <3>1. CASE W - 1 - z >= W - 2
        <4>1. Two[W - 2] <= Two[W - 1 - z]
          BY <1>0, <2>6, <3>1, TwoGrows
        <4>2. n = Two[W - 2]
          BY <1>0, <2>5, <2>6, <4>1
        <4> QED
          BY <1>0, <2>1, <4>2
      <3> QED
        BY <1>0, <2>6, <3>1
    <2>8. W - z \in 0..(W - 2) /\ W - 1 - z \in 0..(W - 2) /\ z - 1 \in Nat
      <3> HIDE DEF z
      <3> QED
        BY <1>0, <2>5, <2>6, <2>7
    <2>9. nextPowerOfTwo(n) = Two[W - z]
      <3> DEFINE x == Two[W - 1]
                 m == z - 1
                 T == [k \in 0..m |-> {Two[W - 1 - k]}]
                 step == [v \in Nat |-> Half(v)]
      <3>1. x \in T[0]
        <4>1. 0 \in 0..m /\ W - 1 - 0 = W - 1
          BY <1>0, <2>8
        <4> HIDE DEF z, m
        <4> QED
          BY <4>1
      <3>2. \A k \in 1..m : \A w \in T[k - 1] : Half(w) \in T[k] /\ step[w] = Half(w)
        <4> TAKE k \in 1..m
        <4>1. /\ T[k - 1] = {Two[W - k]} /\ T[k] = {Two[W - 1 - k]}
          <5>1. k - 1 \in 0..m /\ k \in 0..m /\ W - 1 - (k - 1) = W - k
            BY <1>0, <2>8
          <5> HIDE DEF z, m
          <5> QED
            BY <5>1
        <4>2. W - 1 - k \in Nat /\ W - k = (W - 1 - k) + 1
          <5> HIDE DEF z
          <5> QED
            BY <1>0, <2>5, <2>8
        <4>3. Two[W - k] \in Nat /\ Two[W - 1 - k] \in Nat /\ Half(Two[W - k]) = Two[W - 1 - k]
          BY <4>2, TwoDoubles DEF Half
        <4> HIDE DEF T, m, z
        <4>4. step[Two[W - k]] = Half(Two[W - k])
          BY <4>3
        <4> HIDE DEF step
        <4> QED
          BY <4>1, <4>3, <4>4
      <3>3. \E f : f = [k \in 0..m |-> IF k = 0 THEN x ELSE Half(f[k - 1])]
        <4> HIDE DEF T, x, step, m
        <4>a. \A k \in 1..m : \A w \in T[k - 1] : step[w] \in T[k]
          BY <3>2
        <4>0. m \in Nat
          BY <2>8 DEF m
        <4>1. PICK f : IsRun(f, step, x, m) /\ \A k \in 0..m : f[k] \in T[k]
          BY <4>0, <3>1, <4>a, LoopRuns
        <4>2. \A k \in 1..m : step[f[k - 1]] = Half(f[k - 1])
          BY <4>0, <3>2, <4>1
        <4>3. \A k \in 0..m : (IF k = 0 THEN x ELSE step[f[k - 1]])
                               = (IF k = 0 THEN x ELSE Half(f[k - 1]))
          BY <4>0, <4>2
        <4>4. f = [k \in 0..m |-> IF k = 0 THEN x ELSE Half(f[k - 1])]
          BY <4>1, <4>3, Zenon DEF IsRun
        <4> QED
          BY <4>4
      <3>4. ASSUME NEW f, f = [k \in 0..m |-> IF k = 0 THEN x ELSE Half(f[k - 1])]
            PROVE  f[m] \in T[m]
        <4>0. m \in Nat
          BY <2>8
        <4> HIDE DEF T, x, m
        <4>1. f[0] = x /\ \A k \in 1..m : f[k] = Half(f[k - 1])
          BY <4>0, <3>4
        <4>2. \A k \in 1..m : f[k - 1] \in T[k - 1] => f[k] \in T[k]
          BY <3>2, <4>1
        <4> QED
          BY <4>0, <3>1, <4>1, <4>2, RunStays
      <3>5. Iterate(Half, x, m) \in T[m]
        <4> HIDE DEF T, x, m
        <4> QED
          BY <3>3, <3>4 DEF Iterate
      <3>6. T[m] = {Two[W - z]}
        <4>1. m \in 0..m /\ W - 1 - m = W - z
          <5> HIDE DEF z
          <5> QED
            BY <1>0, <2>5, <2>8
        <4> HIDE DEF z, m
        <4> QED
          BY <4>1
      <3>7. nextPowerOfTwo(n) = Iterate(Half, x, m)
        BY <1>2 DEF nextPowerOfTwo
      <3> HIDE DEF T, x, m, z
      <3> QED
        BY <3>5, <3>6, <3>7
    <2>10. Two[W - 1 - z] < n
      <3> HIDE DEF z
      <3> QED
        BY <1>0, <2>1, <2>5, <2>6, <2>8
    <2> HIDE DEF z
    <2> QED
      BY <1>0, <2>1, <2>5, <2>6, <2>8, <2>9, <2>10 DEF Powers
  <1> QED
    BY <1>1, <1>2

-----------------------------------------------------------------------------
(* Ranges.                                                                 *)

(* What halving the memory can give: a power of two in size, at one of its *)
(* multiples.                                                              *)
Ranges ==
    {b \in [start : Nat, end : 0..(TotalMemory - 1)] :
        /\ allocationSize(b) \in Powers
        /\ \E k \in Nat : b.start = k * allocationSize(b)}

(* A range is never empty and lies in the memory.                          *)
LEMMA RangeFacts ==
    ASSUME NEW b \in Ranges
    PROVE  /\ b.start \in Nat /\ b.end \in Nat /\ b.start <= b.end
           /\ b = [start |-> b.start, end |-> b.end]
           /\ allocationSize(b) \in Powers /\ allocationSize(b) \in Nat /\ allocationSize(b) >= 1
           /\ allocationSize(b) = b.end - b.start + 1
           /\ b # Nowhere
           /\ b.end <= TotalMemory - 1 /\ allocationSize(b) <= TotalMemory
  <1>0. TotalMemory \in Nat
    BY SizesAssumption, PowerFacts
  <1>1. b \in [start : Nat, end : 0..(TotalMemory - 1)] /\ allocationSize(b) \in Powers
    BY DEF Ranges
  <1>2. allocationSize(b) \in Nat /\ allocationSize(b) >= 1
    BY <1>1, PowerFacts
  <1> QED
    BY <1>0, <1>1, <1>2 DEF allocationSize, Nowhere

(* The halves of a range are ranges of half its size, side by side.        *)
LEMMA HalfFacts ==
    ASSUME NEW b \in Ranges, allocationSize(b) > 1
    PROVE  /\ LowerHalf(b) \in Ranges /\ UpperHalf(b) \in Ranges
           /\ Mid(b) \in Nat /\ b.start <= Mid(b) /\ Mid(b) < b.end
           /\ LowerHalf(b).start = b.start /\ LowerHalf(b).end = Mid(b)
           /\ UpperHalf(b).start = Mid(b) + 1 /\ UpperHalf(b).end = b.end
           /\ 2 * allocationSize(LowerHalf(b)) = allocationSize(b)
           /\ allocationSize(UpperHalf(b)) = allocationSize(LowerHalf(b))
           /\ LowerHalf(b) # UpperHalf(b) /\ LowerHalf(b) # b /\ UpperHalf(b) # b
  <1> DEFINE s == allocationSize(b)
             h == s \div 2
             low == LowerHalf(b)
             high == UpperHalf(b)
  <1>1. b.start \in Nat /\ b.end \in Nat /\ b.start <= b.end /\ s = b.end - b.start + 1
        /\ s \in Powers /\ s \in Nat /\ b.end <= TotalMemory - 1
    BY RangeFacts
  <1>2. h \in Powers /\ s = 2 * h /\ h \in Nat /\ h >= 1
    BY <1>1, PowerFacts
  <1> HIDE DEF s, h
  <1>3. Mid(b) = b.start + h - 1
    <2>1. b.end - b.start = 2 * h - 1
      BY <1>1, <1>2
    <2>2. (2 * h - 1) \div 2 = h - 1
      BY <1>2
    <2> QED
      BY <1>1, <1>2, <2>1, <2>2 DEF Mid
  <1>4. low = [start |-> b.start, end |-> b.start + h - 1]
        /\ high = [start |-> b.start + h, end |-> b.end]
    BY <1>1, <1>2, <1>3 DEF LowerHalf, UpperHalf
  <1>5. allocationSize(low) = h /\ allocationSize(high) = h
    BY <1>1, <1>2, <1>4 DEF allocationSize
  <1>6. PICK k \in Nat : b.start = k * s
    BY DEF Ranges, s
  <1>7. b.start = (2 * k) * h /\ b.start + h = (2 * k + 1) * h
        /\ 2 * k \in Nat /\ 2 * k + 1 \in Nat
    BY <1>1, <1>2, <1>6
  <1>8. /\ low \in [start : Nat, end : 0..(TotalMemory - 1)]
        /\ high \in [start : Nat, end : 0..(TotalMemory - 1)]
    <2>1. TotalMemory \in Nat
      BY SizesAssumption, PowerFacts
    <2> QED
      BY <1>1, <1>2, <1>4, <2>1
  <1>9. \E j \in Nat : low.start = j * h
    BY <1>4, <1>7
  <1>10. \E j \in Nat : high.start = j * h
    BY <1>4, <1>7
  <1>11. low \in Ranges /\ high \in Ranges
    BY <1>2, <1>5, <1>8, <1>9, <1>10 DEF Ranges
  <1>12. low # b /\ high # b /\ low # high
    BY <1>1, <1>2, <1>4
  <1> HIDE DEF low, high
  <1>13. /\ Mid(b) \in Nat /\ b.start <= Mid(b) /\ Mid(b) < b.end
         /\ low.start = b.start /\ low.end = Mid(b)
         /\ high.start = Mid(b) + 1 /\ high.end = b.end
    BY <1>1, <1>2, <1>3, <1>4
  <1> QED
    BY <1>2, <1>5, <1>11, <1>12, <1>13 DEF low, high, s

(* The whole memory is one.                                                *)
LEMMA RootRange == Root \in Ranges
  <1>1. TotalMemory \in Powers /\ TotalMemory \in Nat /\ TotalMemory >= 1
    BY SizesAssumption, PowerFacts
  <1>2. Root \in [start : Nat, end : 0..(TotalMemory - 1)] /\ allocationSize(Root) = TotalMemory
    BY <1>1 DEF Root, allocationSize
  <1>3. Root.start = 0 * TotalMemory
    BY <1>1 DEF Root
  <1> QED
    BY <1>1, <1>2, <1>3 DEF Ranges

-----------------------------------------------------------------------------
(* The shape of the tree.                                                  *)

(* The values the fields of a block can have.                              *)
Pointers == [start : Int, end : Int]
MemoryBlocks == [pid : Int, isFree : BOOLEAN, left : Pointers, right : Pointers, parent : Pointers]

(* Where two blocks lie.                                                   *)
Inside(b, c) == c.start <= b.start /\ b.end <= c.end
Disjoint(b, c) == b.end < c.start \/ c.end < b.start

(* b is split into halves that know it.                                    *)
Divided(t, b) ==
    /\ allocationSize(b) > 1
    /\ t[b].left = LowerHalf(b) /\ t[b].right = UpperHalf(b)
    /\ t[b].left \in DOMAIN t /\ t[t[b].left].parent = b
    /\ t[b].right \in DOMAIN t /\ t[t[b].right].parent = b
    /\ ~t[b].isFree /\ t[b].pid = NoPid

(* b is somewhere below c.                                                 *)
Under(t, b, c) == Divided(t, c) /\ (Inside(b, LowerHalf(c)) \/ Inside(b, UpperHalf(c)))

(* How two blocks of a tree can lie to each other.                         *)
Nested(t, b, c) == b = c \/ Disjoint(b, c) \/ Under(t, b, c) \/ Under(t, c, b)

(* The tree is a function from ranges to blocks.                           *)
BlocksOK(t) ==
    /\ t = [b \in DOMAIN t |-> t[b]]
    /\ DOMAIN t \subseteq Ranges
    /\ \A b \in DOMAIN t : t[b] \in MemoryBlocks

(* b is a half of its parent, or the root.                                 *)
KnownByParent(t, b) ==
    LET p == t[b].parent
    IN  IF b = Root THEN p = Nowhere
        ELSE p \in DOMAIN t /\ Divided(t, p) /\ b \in {LowerHalf(p), UpperHalf(p)}

(* b is not split, and free when nobody holds it.                          *)
LeafOK(t, b) == IsLeaf(t[b]) /\ (t[b].isFree <=> t[b].pid = NoPid)

(* All but what only holds between two calls.                              *)
Shape(t) ==
    /\ BlocksOK(t)
    /\ Root \in DOMAIN t
    /\ \A b \in DOMAIN t : LeafOK(t, b) \/ Divided(t, b)
    /\ \A b \in DOMAIN t : KnownByParent(t, b)
    /\ \A b, c \in DOMAIN t : Nested(t, b, c)

(* No block is both.                                                       *)
LEMMA DividedOrLeaf ==
    ASSUME NEW t, DOMAIN t \subseteq Ranges, NEW b \in DOMAIN t
    PROVE  ~(IsLeaf(t[b]) /\ Divided(t, b))
  <1>1. SUFFICES ASSUME IsLeaf(t[b]), Divided(t, b) PROVE FALSE
    OBVIOUS
  <1>2. b \in Ranges /\ t[b].left \in Ranges /\ t[b].left = Nowhere
    BY <1>1 DEF IsLeaf, Divided
  <1> QED
    BY <1>2, RangeFacts, Zenon

(* Different leaves do not overlap.                                        *)
LEMMA LeavesApart ==
    ASSUME NEW t, Shape(t), NEW b \in DOMAIN t, NEW c \in DOMAIN t,
           IsLeaf(t[b]), IsLeaf(t[c]), b # c
    PROVE  Disjoint(b, c)
  <1>1. ~Divided(t, b) /\ ~Divided(t, c)
    BY DividedOrLeaf DEF Shape, BlocksOK
  <1> QED
    BY <1>1 DEF Shape, Nested, Under

(* No block is below itself or below one that is below it.                 *)
LEMMA LeafIsLowest ==
    ASSUME NEW t, Shape(t), NEW b \in DOMAIN t, NEW c \in DOMAIN t,
           IsLeaf(t[b]), Inside(c, b)
    PROVE  b = c
  <1>1. ~Divided(t, b)
    BY DividedOrLeaf DEF Shape, BlocksOK
  <1>2. b \in Ranges /\ c \in Ranges
    BY DEF Shape, BlocksOK
  <1>3. /\ b.start \in Nat /\ b.end \in Nat /\ b.start <= b.end
        /\ c.start \in Nat /\ c.end \in Nat /\ c.start <= c.end
    BY <1>2, RangeFacts
  <1>4. ~Disjoint(b, c)
    BY <1>3 DEF Disjoint, Inside
  <1>5. ~Under(t, b, c)
    <2>1. SUFFICES ASSUME Under(t, b, c) PROVE FALSE
      OBVIOUS
    <2>2. allocationSize(c) > 1
      BY <2>1 DEF Under, Divided
    <2>3. /\ Mid(c) \in Nat /\ c.start <= Mid(c) /\ Mid(c) < c.end
          /\ LowerHalf(c).start = c.start /\ LowerHalf(c).end = Mid(c)
          /\ UpperHalf(c).start = Mid(c) + 1 /\ UpperHalf(c).end = c.end
      BY <1>2, <2>2, HalfFacts
    <2> QED
      BY <1>3, <2>1, <2>3 DEF Under, Inside
  <1>6. Nested(t, b, c)
    BY DEF Shape
  <1> QED
    BY <1>1, <1>4, <1>5, <1>6 DEF Nested, Under

-----------------------------------------------------------------------------
(* Splits, merges and marks.                                               *)

(* createEmptyBlock gives a block.                                         *)
LEMMA EmptyBlock ==
    ASSUME NEW p \in Pointers
    PROVE  /\ createEmptyBlock(p) \in MemoryBlocks /\ FreeLeaf(createEmptyBlock(p))
           /\ createEmptyBlock(p).pid = NoPid /\ createEmptyBlock(p).parent = p
           /\ createEmptyBlock(p).isFree = TRUE
           /\ createEmptyBlock(p).left = Nowhere /\ createEmptyBlock(p).right = Nowhere
  BY DEF createEmptyBlock, MemoryBlocks, FreeLeaf, IsLeaf, Nowhere, Pointers, NoPid

(* The fields left, right and parent hold ranges or NULL.                  *)
LEMMA RangeIsPointer == Ranges \subseteq Pointers /\ Nowhere \in Pointers
  BY DEF Ranges, Pointers, Nowhere

(* A free leaf is as createEmptyBlock made it.                             *)
LEMMA FreeLeafIs ==
    ASSUME NEW t, BlocksOK(t), NEW b \in DOMAIN t, LeafOK(t, b), t[b].isFree
    PROVE  t[b] = createEmptyBlock(t[b].parent)
  BY DEF BlocksOK, LeafOK, IsLeaf, MemoryBlocks, createEmptyBlock

(* What a split writes into the block.                                     *)
Written(r, low, high) ==
    [[[r EXCEPT !.isFree = FALSE] EXCEPT !.left = low] EXCEPT !.right = high]

(* A split leaves pid and parent of the block alone.                       *)
LEMMA RecordSplit ==
    ASSUME NEW r \in MemoryBlocks, NEW low \in Pointers, NEW high \in Pointers
    PROVE  LET s == Written(r, low, high) IN
           /\ s \in MemoryBlocks /\ ~s.isFree /\ s.left = low /\ s.right = high
           /\ s.pid = r.pid /\ s.parent = r.parent
  <1> DEFINE a == [r EXCEPT !.isFree = FALSE]
             c == [a EXCEPT !.left = low]
             s == [c EXCEPT !.right = high]
  <1>1. a \in MemoryBlocks /\ ~a.isFree /\ a.pid = r.pid /\ a.parent = r.parent
    BY DEF MemoryBlocks
  <1> HIDE DEF a
  <1>2. /\ c \in MemoryBlocks /\ c.isFree = a.isFree /\ c.pid = a.pid /\ c.parent = a.parent
        /\ c.left = low
    BY <1>1 DEF MemoryBlocks
  <1> HIDE DEF c
  <1>3. /\ s \in MemoryBlocks /\ s.isFree = c.isFree /\ s.pid = c.pid /\ s.parent = c.parent
        /\ s.left = c.left /\ s.right = high
    BY <1>2 DEF MemoryBlocks
  <1> HIDE DEF s
  <1>4. s \in MemoryBlocks /\ ~s.isFree /\ s.left = low /\ s.right = high
           /\ s.pid = r.pid /\ s.parent = r.parent
    BY <1>1, <1>2, <1>3
  <1> QED
    BY <1>4 DEF s, a, c, Written

(* What a split changes: the block and its two halves.                     *)
LEMMA SplitIs ==
    ASSUME NEW t, BlocksOK(t), NEW b \in DOMAIN t, allocationSize(b) > 1
    PROVE  LET u == Split(t, b)
               low == LowerHalf(b)
               high == UpperHalf(b)
           IN  /\ DOMAIN u = DOMAIN t \cup {low, high}
               /\ u = [c \in DOMAIN u |-> u[c]]
               /\ u[low] = createEmptyBlock(b) /\ u[high] = createEmptyBlock(b)
               /\ \A c \in DOMAIN t \ {b, low, high} : u[c] = t[c]
               /\ u[b] \in MemoryBlocks /\ ~u[b].isFree /\ u[b].left = low /\ u[b].right = high
               /\ u[b].pid = t[b].pid /\ u[b].parent = t[b].parent
  <1> DEFINE u == Split(t, b)
             low == LowerHalf(b)
             high == UpperHalf(b)
             D == DOMAIN t
             r == Written(t[b], low, high)
             t1 == [t EXCEPT ![b].isFree = FALSE, ![b].left = low, ![b].right = high]
             t2 == Put(t1, low, createEmptyBlock(b))
             t3 == Put(t2, high, createEmptyBlock(b))
  <1>1. low # b /\ high # b /\ low # high
    BY HalfFacts DEF BlocksOK
  <1>2. DOMAIN t1 = D /\ t1[b] = r /\ \A c \in D \ {b} : t1[c] = t[c]
    <2>1. t1 = [[[t EXCEPT ![b].isFree = FALSE] EXCEPT ![b].left = low] EXCEPT ![b].right = high]
      OBVIOUS
    <2> DEFINE a1 == [t EXCEPT ![b].isFree = FALSE]
               a2 == [a1 EXCEPT ![b].left = low]
               a3 == [a2 EXCEPT ![b].right = high]
    <2>2. /\ DOMAIN a1 = D /\ a1[b] = [t[b] EXCEPT !.isFree = FALSE]
          /\ \A c \in D \ {b} : a1[c] = t[c]
      BY DEF BlocksOK
    <2> HIDE DEF a1, low, high
    <2>3. /\ DOMAIN a2 = D /\ a2[b] = [a1[b] EXCEPT !.left = low]
          /\ \A c \in D \ {b} : a2[c] = a1[c]
      BY <2>2
    <2> HIDE DEF a2
    <2>4. /\ DOMAIN a3 = D /\ a3[b] = [a2[b] EXCEPT !.right = high]
          /\ \A c \in D \ {b} : a3[c] = a2[c]
      BY <2>3
    <2>5. t1 = a3
      BY <2>1 DEF a1, a2
    <2> HIDE DEF a3, t1
    <2> QED
      BY <2>2, <2>3, <2>4, <2>5 DEF Written
  <1>3. /\ r \in MemoryBlocks /\ ~r.isFree /\ r.left = low /\ r.right = high
        /\ r.pid = t[b].pid /\ r.parent = t[b].parent
    <2>1. b \in Ranges /\ t[b] \in MemoryBlocks
      BY DEF BlocksOK
    <2>2. low \in Pointers /\ high \in Pointers
      BY <2>1, HalfFacts, RangeIsPointer
    <2> HIDE DEF low, high
    <2> QED
      BY <2>1, <2>2, RecordSplit
  <1>4. u = t3
    BY DEF Split, Halved
  <1> HIDE DEF t1, low, high, r, u
  <1>5. /\ DOMAIN t2 = D \cup {low} /\ t2[low] = createEmptyBlock(b)
        /\ \A c \in D \ {low} : t2[c] = t1[c]
    BY <1>2 DEF Put
  <1> HIDE DEF t2
  <1>6. /\ DOMAIN t3 = D \cup {low, high} /\ t3[high] = createEmptyBlock(b)
        /\ \A c \in (D \cup {low}) \ {high} : t3[c] = t2[c]
        /\ t3 = [c \in DOMAIN t3 |-> t3[c]]
    BY <1>5 DEF Put
  <1> HIDE DEF t3
  <1>7. /\ t3[low] = createEmptyBlock(b) /\ t3[b] = r
        /\ \A c \in D \ {b, low, high} : t3[c] = t[c]
    BY <1>1, <1>2, <1>5, <1>6
  <1> QED
    BY <1>3, <1>4, <1>6, <1>7 DEF low, high, u

(* The halves of a leaf are new blocks.                                    *)
LEMMA HalvesAreNew ==
    ASSUME NEW t, Shape(t), NEW b \in DOMAIN t, IsLeaf(t[b]), allocationSize(b) > 1
    PROVE  LowerHalf(b) \notin DOMAIN t /\ UpperHalf(b) \notin DOMAIN t
  <1>1. /\ LowerHalf(b) # b /\ UpperHalf(b) # b
        /\ LowerHalf(b).start = b.start /\ LowerHalf(b).end = Mid(b)
        /\ UpperHalf(b).start = Mid(b) + 1 /\ UpperHalf(b).end = b.end
        /\ Mid(b) \in Nat /\ b.start <= Mid(b) /\ Mid(b) < b.end
        /\ b.start \in Nat /\ b.end \in Nat
    BY HalfFacts, RangeFacts DEF Shape, BlocksOK
  <1>2. Inside(LowerHalf(b), b) /\ Inside(UpperHalf(b), b)
    BY <1>1 DEF Inside
  <1> QED
    BY <1>1, <1>2, LeafIsLowest

(* Splitting a free leaf keeps the shape, and merging undoes it.           *)
LEMMA SplitHolds ==
    ASSUME NEW t, Shape(t), NEW b \in DOMAIN t, FreeLeaf(t[b]), allocationSize(b) > 1
    PROVE  /\ Shape(Split(t, b))
           /\ Divided(Split(t, b), b)
           /\ FreeLeaf(Split(t, b)[LowerHalf(b)]) /\ FreeLeaf(Split(t, b)[UpperHalf(b)])
           /\ Merge(Split(t, b), b) = t
  <1> DEFINE u == Split(t, b)
             low == LowerHalf(b)
             high == UpperHalf(b)
             D == DOMAIN t
  <1>1. /\ DOMAIN u = D \cup {low, high}
        /\ u = [c \in DOMAIN u |-> u[c]]
        /\ u[low] = createEmptyBlock(b) /\ u[high] = createEmptyBlock(b)
        /\ \A c \in D \ {b, low, high} : u[c] = t[c]
        /\ u[b] \in MemoryBlocks /\ ~u[b].isFree /\ u[b].left = low /\ u[b].right = high
        /\ u[b].pid = t[b].pid /\ u[b].parent = t[b].parent
    BY SplitIs DEF Shape
  <1> HIDE DEF u
  <1>2. low \notin D /\ high \notin D
    BY HalvesAreNew DEF FreeLeaf
  <1>3. /\ low \in Ranges /\ high \in Ranges /\ b \in Ranges
        /\ Mid(b) \in Nat /\ b.start <= Mid(b) /\ Mid(b) < b.end
        /\ low.start = b.start /\ low.end = Mid(b)
        /\ high.start = Mid(b) + 1 /\ high.end = b.end
        /\ low # high /\ low # b /\ high # b
        /\ b.start \in Nat /\ b.end \in Nat
    BY HalfFacts, RangeFacts DEF Shape, BlocksOK
  <1>4. /\ FreeLeaf(u[low]) /\ FreeLeaf(u[high]) /\ u[low].pid = NoPid /\ u[high].pid = NoPid
        /\ u[low] \in MemoryBlocks /\ u[high] \in MemoryBlocks
        /\ u[low].parent = b /\ u[high].parent = b
    <2>1. b \in Pointers
      BY <1>3, RangeIsPointer
    <2> HIDE DEF low, high
    <2> QED
      BY <1>1, <2>1, EmptyBlock
  <1>5. t[b] \in MemoryBlocks /\ LeafOK(t, b) /\ t[b].pid = NoPid /\ t[b].isFree
    <2>1. ~Divided(t, b) /\ t[b].isFree
      BY DEF Divided, FreeLeaf
    <2> QED
      BY <2>1 DEF Shape, BlocksOK, LeafOK
  <1>6. u[b] \in MemoryBlocks /\ ~u[b].isFree /\ u[b].pid = NoPid
        /\ u[b].left = low /\ u[b].right = high /\ u[b].parent = t[b].parent
    BY <1>1, <1>5
  <1>7. Divided(u, b)
    BY <1>1, <1>4, <1>6 DEF Divided
  <1>8. \A c \in D \ {b} : u[c] = t[c]
    BY <1>1, <1>2
  <1>9. BlocksOK(u)
    <2>1. DOMAIN u \subseteq Ranges
      BY <1>1, <1>3 DEF Shape, BlocksOK
    <2>2. ASSUME NEW c \in DOMAIN u
          PROVE  u[c] \in MemoryBlocks
      BY <1>1, <1>4, <1>6, <1>8 DEF Shape, BlocksOK
    <2> QED
      BY <1>1, <2>1, <2>2 DEF BlocksOK
  <1>10. ASSUME NEW c \in D, Divided(t, c)
         PROVE  c # b /\ Divided(u, c)
    <2>1. c # b
      BY <1>5, <1>10 DEF Divided
    <2>2. u[c] = t[c]
      BY <1>8, <2>1
    <2>3. ASSUME NEW d \in D
          PROVE  d \in DOMAIN u /\ u[d].parent = t[d].parent
      BY <1>1, <1>6, <1>8
    <2>4. t[c].left \in D /\ t[c].right \in D
      BY <1>10 DEF Divided
    <2>5. /\ t[c].left \in DOMAIN u /\ u[t[c].left].parent = c
          /\ t[c].right \in DOMAIN u /\ u[t[c].right].parent = c
      BY <1>10, <2>3, <2>4 DEF Divided
    <2> QED
      BY <1>10, <2>1, <2>2, <2>5 DEF Divided
  <1>11. ASSUME NEW c \in DOMAIN u
         PROVE  LeafOK(u, c) \/ Divided(u, c)
    <2>1. CASE c \in {low, high}
      BY <1>4, <2>1 DEF LeafOK, FreeLeaf
    <2>2. CASE c = b
      BY <1>7, <2>2
    <2>3. CASE c \in D \ {b}
      <3>1. LeafOK(t, c) \/ Divided(t, c)
        BY <2>3 DEF Shape
      <3> QED
        BY <1>8, <1>10, <2>3, <3>1 DEF LeafOK
    <2> QED
      BY <1>1, <2>1, <2>2, <2>3
  <1>12. ASSUME NEW c \in DOMAIN u
         PROVE  KnownByParent(u, c)
    <2>1. CASE c \in {low, high}
      <3>1. c # Root
        BY <1>2, <2>1 DEF Shape
      <3> QED
        BY <1>1, <1>4, <1>7, <2>1, <3>1 DEF KnownByParent
    <2>2. CASE c \in D
      <3>1. KnownByParent(t, c) /\ u[c].parent = t[c].parent
        BY <1>6, <1>8, <2>2 DEF Shape
      <3> QED
        BY <1>1, <1>10, <3>1 DEF KnownByParent
    <2> QED
      BY <1>1, <2>1, <2>2
  <1>13. ASSUME NEW c \in D
         PROVE  Nested(u, low, c) /\ Nested(u, c, low) /\ Nested(u, high, c) /\ Nested(u, c, high)
    <2>1. CASE c = b
      <3>1. Under(u, low, c) /\ Under(u, high, c)
        BY <1>3, <1>7, <2>1 DEF Under, Inside
      <3> QED
        BY <3>1 DEF Nested
    <2>2. CASE c # b
      <3>1. ~Under(t, c, b)
        BY <1>5 DEF Under, Divided
      <3>2. Disjoint(b, c) \/ Under(t, b, c)
        BY <2>2, <3>1 DEF Shape, Nested
      <3>3. CASE Disjoint(b, c)
        <4>1. c.start \in Nat /\ c.end \in Nat /\ c.start <= c.end
          BY RangeFacts DEF Shape, BlocksOK
        <4>2. /\ Disjoint(low, c) /\ Disjoint(c, low)
              /\ Disjoint(high, c) /\ Disjoint(c, high)
          BY <1>3, <3>3, <4>1 DEF Disjoint
        <4> QED
          BY <4>2 DEF Nested
      <3>4. CASE Under(t, b, c)
        <4>1. c \in Ranges /\ allocationSize(c) > 1
          BY <3>4 DEF Shape, BlocksOK, Under, Divided
        <4>2. LowerHalf(c) \in Ranges /\ UpperHalf(c) \in Ranges
          BY <4>1, HalfFacts
        <4>3. /\ LowerHalf(c).start \in Nat /\ LowerHalf(c).end \in Nat
              /\ UpperHalf(c).start \in Nat /\ UpperHalf(c).end \in Nat
          BY <4>2, RangeFacts
        <4>4. Under(u, low, c) /\ Under(u, high, c)
          BY <1>3, <1>10, <3>4, <4>3 DEF Under, Inside
        <4> QED
          BY <4>4 DEF Nested
      <3> QED
        BY <3>2, <3>3, <3>4
    <2> QED
      BY <2>1, <2>2
  <1>14. ASSUME NEW c \in D, NEW d \in D
         PROVE  Nested(u, c, d)
    BY <1>10 DEF Shape, Nested, Under
  <1>15. Disjoint(low, high) /\ Disjoint(high, low)
    BY <1>3 DEF Disjoint
  <1>16. \A c, d \in DOMAIN u : Nested(u, c, d)
    <2>1. \A c, d \in {low, high} : Nested(u, c, d)
      BY <1>15 DEF Nested
    <2> QED
      BY <1>1, <1>13, <1>14, <2>1
  <1>17. Shape(u)
    <2>1. Root \in DOMAIN u
      BY <1>1 DEF Shape
    <2> QED
      BY <1>9, <1>11, <1>12, <1>16, <2>1 DEF Shape
  <1>18. Merge(u, b) = t
    <2>1. DOMAIN u \ {u[b].left, u[b].right} = D
      BY <1>1, <1>2, <1>6
    <2>2. t[b] = createEmptyBlock(u[b].parent)
      BY <1>5, <1>6, FreeLeafIs DEF Shape
    <2>3. \A c \in D : (IF c = b THEN createEmptyBlock(u[b].parent) ELSE u[c]) = t[c]
      BY <1>8, <2>2
    <2>4. t = [c \in D |-> t[c]]
      BY DEF Shape, BlocksOK
    <2> HIDE DEF D
    <2> QED
      BY <2>1, <2>3, <2>4, Zenon DEF Merge
  <1> QED
    BY <1>4, <1>7, <1>17, <1>18 DEF u

(* Merging two free halves keeps the shape.                                *)
LEMMA MergeHolds ==
    ASSUME NEW t, Shape(t), NEW p \in DOMAIN t, Divided(t, p),
           FreeLeaf(t[LowerHalf(p)]), FreeLeaf(t[UpperHalf(p)])
    PROVE  /\ Shape(Merge(t, p))
           /\ DOMAIN Merge(t, p) = DOMAIN t \ {LowerHalf(p), UpperHalf(p)}
           /\ p \in DOMAIN Merge(t, p) /\ FreeLeaf(Merge(t, p)[p])
           /\ Merge(t, p)[p].pid = NoPid /\ Merge(t, p)[p].parent = t[p].parent
           /\ \A c \in DOMAIN Merge(t, p) \ {p} : Merge(t, p)[c] = t[c]
  <1> DEFINE u == Merge(t, p)
             low == LowerHalf(p)
             high == UpperHalf(p)
             D == DOMAIN t
  <1>1. /\ p \in Ranges /\ low # p /\ high # p
        /\ t[p].left = low /\ t[p].right = high /\ low \in D /\ high \in D
        /\ t[low].parent = p /\ t[high].parent = p
    BY HalfFacts DEF Shape, BlocksOK, Divided
  <1>2. /\ DOMAIN u = D \ {low, high}
        /\ u = [c \in DOMAIN u |-> u[c]]
        /\ u[p] = createEmptyBlock(t[p].parent)
        /\ \A c \in DOMAIN u \ {p} : u[c] = t[c]
    BY <1>1 DEF Merge
  <1> HIDE DEF u
  <1>3. p \in DOMAIN u
    BY <1>1, <1>2
  <1>4. t[p].parent \in Pointers
    BY DEF Shape, BlocksOK, MemoryBlocks
  <1>5. /\ u[p] \in MemoryBlocks /\ FreeLeaf(u[p]) /\ u[p].pid = NoPid
        /\ u[p].parent = t[p].parent
    BY <1>2, <1>4, EmptyBlock
  <1>6. BlocksOK(u)
    BY <1>2, <1>5 DEF Shape, BlocksOK
  <1>7. Root \in DOMAIN u
    <2>1. p # Nowhere
      BY <1>1, RangeFacts
    <2>2. t[Root].parent = Nowhere /\ Root \in D
      BY DEF Shape, KnownByParent
    <2> QED
      BY <1>1, <1>2, <2>1, <2>2
  <1>8. ~Divided(t, low) /\ ~Divided(t, high)
    BY <1>1, DividedOrLeaf DEF Shape, BlocksOK, FreeLeaf
  <1>9. ASSUME NEW c \in DOMAIN u, c # p, Divided(t, c)
        PROVE  Divided(u, c)
    <2>1. u[c] = t[c]
      BY <1>2, <1>9
    <2>2. /\ t[c].left \in D /\ t[t[c].left].parent = c
          /\ t[c].right \in D /\ t[t[c].right].parent = c
      BY <1>9 DEF Divided
    <2>3. t[c].left \in DOMAIN u /\ t[c].right \in DOMAIN u
      BY <1>1, <1>2, <1>9, <2>2
    <2>4. u[t[c].left].parent = c /\ u[t[c].right].parent = c
      BY <1>2, <1>5, <2>2, <2>3
    <2> QED
      BY <1>9, <2>1, <2>3, <2>4 DEF Divided
  <1>10. ASSUME NEW c \in DOMAIN u
         PROVE  LeafOK(u, c) \/ Divided(u, c)
    <2>1. CASE c = p
      BY <1>5, <2>1 DEF LeafOK, FreeLeaf
    <2>2. CASE c # p
      <3>1. c \in D /\ u[c] = t[c]
        BY <1>2, <2>2
      <3>2. LeafOK(t, c) \/ Divided(t, c)
        BY <3>1 DEF Shape
      <3> QED
        BY <1>9, <2>2, <3>1, <3>2 DEF LeafOK
    <2> QED
      BY <2>1, <2>2
  <1>11. ASSUME NEW c \in DOMAIN u
         PROVE  KnownByParent(u, c)
    <2>1. c \in D /\ u[c].parent = t[c].parent /\ KnownByParent(t, c)
      BY <1>2, <1>5 DEF Shape
    <2> DEFINE q == t[c].parent
    <2>2. CASE c = Root
      BY <2>1, <2>2 DEF KnownByParent
    <2>3. CASE c # Root
      <3>1. q \in D /\ Divided(t, q) /\ c \in {LowerHalf(q), UpperHalf(q)}
        BY <2>1, <2>3 DEF KnownByParent
      <3>2. q # p /\ q # low /\ q # high
        BY <1>2, <1>8, <3>1
      <3>3. q \in DOMAIN u /\ Divided(u, q)
        BY <1>2, <1>9, <3>1, <3>2
      <3> QED
        BY <2>1, <2>3, <3>1, <3>3 DEF KnownByParent
    <2> QED
      BY <2>2, <2>3
  <1>12. ASSUME NEW c \in DOMAIN u, NEW d \in DOMAIN u, Under(t, c, d)
         PROVE  Under(u, c, d)
    <2>1. CASE d = p
      <3>1. c = low \/ c = high
        BY <1>1, <1>2, <1>12, <2>1, LeafIsLowest DEF Under, FreeLeaf
      <3> QED
        BY <1>2, <3>1
    <2>2. CASE d # p
      BY <1>9, <1>12, <2>2 DEF Under
    <2> QED
      BY <2>1, <2>2
  <1>13. \A c, d \in DOMAIN u : Nested(u, c, d)
    <2> TAKE c, d \in DOMAIN u
    <2>1. Nested(t, c, d)
      BY <1>2 DEF Shape
    <2> QED
      BY <1>12, <2>1 DEF Nested
  <1>14. Shape(u)
    BY <1>6, <1>7, <1>10, <1>11, <1>13 DEF Shape
  <1> QED
    BY <1>2, <1>3, <1>5, <1>14 DEF u

(* Taking a free leaf or giving it back keeps the shape.                   *)
LEMMA LeafWritten ==
    ASSUME NEW t, Shape(t), NEW b \in DOMAIN t, IsLeaf(t[b]),
           NEW u, u = [c \in DOMAIN t |-> u[c]],
           u[b] \in MemoryBlocks, IsLeaf(u[b]), u[b].isFree <=> u[b].pid = NoPid,
           u[b].parent = t[b].parent,
           \A c \in DOMAIN t \ {b} : u[c] = t[c]
    PROVE  Shape(u)
  <1>0. DOMAIN u = DOMAIN t
    OBVIOUS
  <1>1. ASSUME NEW c \in DOMAIN t
        PROVE  u[c].parent = t[c].parent /\ u[c] \in MemoryBlocks
    BY DEF Shape, BlocksOK
  <1>2. BlocksOK(u)
    BY <1>0, <1>1 DEF Shape, BlocksOK
  <1>3. ASSUME NEW c \in DOMAIN t, Divided(t, c)
        PROVE  Divided(u, c)
    <2>1. c # b
      BY <1>3, DividedOrLeaf DEF Shape, BlocksOK
    <2>2. u[c] = t[c]
      BY <2>1
    <2>3. t[c].left \in DOMAIN t /\ t[c].right \in DOMAIN t
      BY <1>3 DEF Divided
    <2> QED
      BY <1>0, <1>1, <1>3, <2>2, <2>3 DEF Divided
  <1>4. ASSUME NEW c \in DOMAIN u
        PROVE  (LeafOK(u, c) \/ Divided(u, c)) /\ KnownByParent(u, c)
    <2>1. (LeafOK(t, c) \/ Divided(t, c)) /\ KnownByParent(t, c)
      BY <1>0 DEF Shape
    <2>2. LeafOK(u, c) \/ Divided(u, c)
      BY <1>0, <1>3, <2>1 DEF LeafOK
    <2>3. KnownByParent(u, c)
      BY <1>0, <1>1, <1>3, <2>1 DEF KnownByParent
    <2> QED
      BY <2>2, <2>3
  <1>5. \A c, d \in DOMAIN u : Nested(u, c, d)
    BY <1>0, <1>3 DEF Shape, Nested, Under
  <1>6. Root \in DOMAIN u
    BY <1>0 DEF Shape
  <1> QED
    BY <1>2, <1>4, <1>5, <1>6 DEF Shape

(* What taking a block changes.                                            *)
LEMMA MarkIs ==
    ASSUME NEW t, BlocksOK(t), NEW b \in DOMAIN t, NEW pid \in Int
    PROVE  /\ DOMAIN Marked(t, b, pid) = DOMAIN t
           /\ Marked(t, b, pid) = [c \in DOMAIN t |-> Marked(t, b, pid)[c]]
           /\ \A c \in DOMAIN t \ {b} : Marked(t, b, pid)[c] = t[c]
           /\ Marked(t, b, pid)[b] \in MemoryBlocks
           /\ Marked(t, b, pid)[b].pid = pid /\ ~Marked(t, b, pid)[b].isFree
           /\ Marked(t, b, pid)[b].left = t[b].left /\ Marked(t, b, pid)[b].right = t[b].right
           /\ Marked(t, b, pid)[b].parent = t[b].parent
  <1> DEFINE a == [t EXCEPT ![b].pid = pid]
             u == [a EXCEPT ![b].isFree = FALSE]
  <1>1. u = Marked(t, b, pid)
    BY DEF Marked
  <1>2. /\ DOMAIN a = DOMAIN t /\ a = [c \in DOMAIN t |-> a[c]]
        /\ a[b] = [t[b] EXCEPT !.pid = pid] /\ \A c \in DOMAIN t \ {b} : a[c] = t[c]
    BY DEF BlocksOK
  <1>3. /\ a[b] \in MemoryBlocks /\ a[b].pid = pid /\ a[b].left = t[b].left
        /\ a[b].right = t[b].right /\ a[b].parent = t[b].parent
    BY <1>2 DEF BlocksOK, MemoryBlocks
  <1> HIDE DEF a
  <1>4. /\ DOMAIN u = DOMAIN t /\ u = [c \in DOMAIN t |-> u[c]]
        /\ u[b] = [a[b] EXCEPT !.isFree = FALSE] /\ \A c \in DOMAIN t \ {b} : u[c] = t[c]
    BY <1>2
  <1>5. /\ u[b] \in MemoryBlocks /\ ~u[b].isFree /\ u[b].pid = pid /\ u[b].left = t[b].left
        /\ u[b].right = t[b].right /\ u[b].parent = t[b].parent
    BY <1>3, <1>4 DEF MemoryBlocks
  <1> HIDE DEF u
  <1> QED
    BY <1>1, <1>4, <1>5

(* What giving a block back changes.                                       *)
LEMMA UnmarkIs ==
    ASSUME NEW t, BlocksOK(t), NEW b \in DOMAIN t
    PROVE  /\ DOMAIN Unmarked(t, b) = DOMAIN t
           /\ Unmarked(t, b) = [c \in DOMAIN t |-> Unmarked(t, b)[c]]
           /\ \A c \in DOMAIN t \ {b} : Unmarked(t, b)[c] = t[c]
           /\ Unmarked(t, b)[b] \in MemoryBlocks
           /\ Unmarked(t, b)[b].pid = NoPid /\ Unmarked(t, b)[b].isFree
           /\ Unmarked(t, b)[b].left = t[b].left /\ Unmarked(t, b)[b].right = t[b].right
           /\ Unmarked(t, b)[b].parent = t[b].parent
  <1> DEFINE a == [t EXCEPT ![b].isFree = TRUE]
             u == [a EXCEPT ![b].pid = NoPid]
  <1>1. u = Unmarked(t, b)
    BY DEF Unmarked
  <1>2. /\ DOMAIN a = DOMAIN t /\ a = [c \in DOMAIN t |-> a[c]]
        /\ a[b] = [t[b] EXCEPT !.isFree = TRUE] /\ \A c \in DOMAIN t \ {b} : a[c] = t[c]
    BY DEF BlocksOK
  <1>3. /\ a[b] \in MemoryBlocks /\ a[b].isFree /\ a[b].left = t[b].left
        /\ a[b].right = t[b].right /\ a[b].parent = t[b].parent
    BY <1>2 DEF BlocksOK, MemoryBlocks
  <1> HIDE DEF a
  <1>4. /\ DOMAIN u = DOMAIN t /\ u = [c \in DOMAIN t |-> u[c]]
        /\ u[b] = [a[b] EXCEPT !.pid = NoPid] /\ \A c \in DOMAIN t \ {b} : u[c] = t[c]
    BY <1>2
  <1>5. /\ u[b] \in MemoryBlocks /\ u[b].isFree /\ u[b].pid = NoPid /\ u[b].left = t[b].left
        /\ u[b].right = t[b].right /\ u[b].parent = t[b].parent
    BY <1>3, <1>4 DEF MemoryBlocks, NoPid
  <1> HIDE DEF u
  <1> QED
    BY <1>1, <1>4, <1>5

(* A leaf that is taken stays a leaf.                                      *)
LEMMA MarkHolds ==
    ASSUME NEW t, Shape(t), NEW b \in DOMAIN t, IsLeaf(t[b]), NEW pid \in Int, pid # NoPid
    PROVE  Shape(Marked(t, b, pid)) /\ IsLeaf(Marked(t, b, pid)[b])
  <1> DEFINE u == Marked(t, b, pid)
  <1>1. /\ DOMAIN u = DOMAIN t /\ u = [c \in DOMAIN t |-> u[c]]
        /\ \A c \in DOMAIN t \ {b} : u[c] = t[c]
        /\ u[b] \in MemoryBlocks /\ u[b].pid = pid /\ ~u[b].isFree
        /\ u[b].left = t[b].left /\ u[b].right = t[b].right /\ u[b].parent = t[b].parent
    BY MarkIs DEF Shape
  <1>2. IsLeaf(u[b]) /\ (u[b].isFree <=> u[b].pid = NoPid)
    BY <1>1 DEF IsLeaf
  <1> HIDE DEF u
  <1>3. Shape(u)
    BY <1>1, <1>2, LeafWritten
  <1> QED
    BY <1>2, <1>3 DEF u

(* A leaf that is given back is a free leaf.                               *)
LEMMA UnmarkHolds ==
    ASSUME NEW t, Shape(t), NEW b \in DOMAIN t, IsLeaf(t[b])
    PROVE  Shape(Unmarked(t, b)) /\ FreeLeaf(Unmarked(t, b)[b])
  <1> DEFINE u == Unmarked(t, b)
  <1>1. /\ DOMAIN u = DOMAIN t /\ u = [c \in DOMAIN t |-> u[c]]
        /\ \A c \in DOMAIN t \ {b} : u[c] = t[c]
        /\ u[b] \in MemoryBlocks /\ u[b].pid = NoPid /\ u[b].isFree
        /\ u[b].left = t[b].left /\ u[b].right = t[b].right /\ u[b].parent = t[b].parent
    BY UnmarkIs DEF Shape
  <1>2. IsLeaf(u[b]) /\ (u[b].isFree <=> u[b].pid = NoPid)
    BY <1>1 DEF IsLeaf
  <1> HIDE DEF u
  <1>3. Shape(u)
    BY <1>1, <1>2, LeafWritten
  <1> QED
    BY <1>1, <1>2, <1>3 DEF u, FreeLeaf

-----------------------------------------------------------------------------
(* What a call leaves to be merged, and who holds a block.                 *)

(* p has two free halves, which freeMemoryHelper would merge.              *)
TwoFree(t, p) == Divided(t, p) /\ FreeLeaf(t[LowerHalf(p)]) /\ FreeLeaf(t[UpperHalf(p)])

(* All that can be merged has been.                                        *)
NoneTwoFree(t) == \A p \in DOMAIN t : ~TwoFree(t, p)

(* Nobody got or lost a block.                                             *)
SameHolders(t, u) == \A pid \in Int \ {NoPid} : Holders(u, pid) = Holders(t, pid)

(* A merge takes no block from anybody.                                    *)
LEMMA MergeHolders ==
    ASSUME NEW t, Shape(t), NEW p \in DOMAIN t, TwoFree(t, p)
    PROVE  SameHolders(t, Merge(t, p))
  <1> DEFINE u == Merge(t, p)
  <1>1. /\ DOMAIN u = DOMAIN t \ {LowerHalf(p), UpperHalf(p)}
        /\ p \in DOMAIN u /\ u[p].pid = NoPid
        /\ \A c \in DOMAIN u \ {p} : u[c] = t[c]
    BY MergeHolds DEF TwoFree
  <1>2. /\ t[LowerHalf(p)].isFree /\ t[UpperHalf(p)].isFree /\ t[p].pid = NoPid
    BY DEF TwoFree, Divided, FreeLeaf
  <1> HIDE DEF u
  <1>3. ASSUME NEW pid \in Int \ {NoPid}, NEW c
        PROVE  c \in Holders(u, pid) <=> c \in Holders(t, pid)
    BY <1>1, <1>2 DEF Holders
  <1>4. \A pid \in Int \ {NoPid} : Holders(u, pid) = Holders(t, pid)
    BY <1>3
  <1> QED
    BY <1>4 DEF u, SameHolders

(* Nor does a split.                                                       *)
LEMMA SplitHolders ==
    ASSUME NEW t, Shape(t), NEW b \in DOMAIN t, FreeLeaf(t[b]), allocationSize(b) > 1
    PROVE  SameHolders(t, Split(t, b))
  <1> DEFINE u == Split(t, b)
             low == LowerHalf(b)
             high == UpperHalf(b)
  <1>1. /\ DOMAIN u = DOMAIN t \cup {low, high}
        /\ u[low] = createEmptyBlock(b) /\ u[high] = createEmptyBlock(b)
        /\ \A c \in DOMAIN t \ {b, low, high} : u[c] = t[c]
        /\ u[b].pid = t[b].pid
    BY SplitIs DEF Shape
  <1> HIDE DEF u
  <1>2. low \notin DOMAIN t /\ high \notin DOMAIN t
    BY HalvesAreNew DEF FreeLeaf
  <1>3. u[low].pid = NoPid /\ u[high].pid = NoPid
    BY <1>1 DEF createEmptyBlock
  <1>4. t[b].pid = NoPid
    BY DEF Shape, LeafOK, Divided, FreeLeaf
  <1> HIDE DEF low, high
  <1>5. ASSUME NEW pid \in Int \ {NoPid}, NEW c
        PROVE  c \in Holders(u, pid) <=> c \in Holders(t, pid)
    BY <1>1, <1>2, <1>3, <1>4 DEF Holders
  <1>6. \A pid \in Int \ {NoPid} : Holders(u, pid) = Holders(t, pid)
    BY <1>5
  <1> QED
    BY <1>6 DEF u, SameHolders

(* What is known of the halves of a block that is split.                   *)
LEMMA LeafHalves ==
    ASSUME NEW t, Shape(t), NEW p \in DOMAIN t, Divided(t, p)
    PROVE  /\ LowerHalf(p) \in DOMAIN t /\ t[LowerHalf(p)].parent = p
           /\ UpperHalf(p) \in DOMAIN t /\ t[UpperHalf(p)].parent = p
           /\ LowerHalf(p) # UpperHalf(p)
           /\ t[p].left = LowerHalf(p) /\ t[p].right = UpperHalf(p)
           /\ 2 * allocationSize(LowerHalf(p)) = allocationSize(p)
           /\ 2 * allocationSize(UpperHalf(p)) = allocationSize(p)
           /\ p # Nowhere /\ p \in Ranges
  <1>1. p \in Ranges /\ allocationSize(p) > 1
    BY DEF Shape, BlocksOK, Divided
  <1> QED
    BY <1>1, HalfFacts, RangeFacts DEF Divided

-----------------------------------------------------------------------------
(* freeMemoryHelper.                                                       *)

(* Between two calls: the halves that are both free, if there are any, are *)
(* the block the next call is for and its sibling.                         *)
Climbing(t, w) ==
    /\ Shape(w.tree) /\ w.at \in DOMAIN w.tree /\ FreeLeaf(w.tree[w.at])
    /\ \A p \in DOMAIN w.tree : TwoFree(w.tree, p) => w.at \in {LowerHalf(p), UpperHalf(p)}
    /\ SameHolders(t, w.tree)

(* Whatever a tree can be, and what Climb and SplitDown work on.           *)
Trees == UNION {[D -> MemoryBlocks] : D \in SUBSET Ranges}

Spots == [tree : Trees, at : Ranges]

(* What has the shape is a tree.                                           *)
LEMMA ShapeIsTree ==
    ASSUME NEW t, Shape(t)
    PROVE  t \in Trees
  BY DEF Shape, BlocksOK, Trees

(* One call of freeMemoryHelper merges a block that is twice as large, or  *)
(* there was nothing to merge.                                             *)
LEMMA ClimbStep ==
    ASSUME NEW t, NEW w \in Spots, Climbing(t, w)
    PROVE  /\ Climb(w) \in Spots /\ Climbing(t, Climb(w))
           /\ \/ Climb(w) = w /\ NoneTwoFree(w.tree)
              \/ /\ ~NoneTwoFree(w.tree)
                 /\ allocationSize(Climb(w).at) = 2 * allocationSize(w.at)
  <1> DEFINE u == w.tree
             a == w.at
             p == u[a].parent
             sibling == IF u[p].left = a THEN u[p].right ELSE u[p].left
  <1>1. Shape(u) /\ a \in DOMAIN u /\ FreeLeaf(u[a]) /\ KnownByParent(u, a)
    BY DEF Climbing, Shape
  <1>2. ASSUME NEW q \in DOMAIN u, TwoFree(u, q)
        PROVE  p = q /\ a \in {LowerHalf(q), UpperHalf(q)}
    <2>1. a \in {LowerHalf(q), UpperHalf(q)} /\ Divided(u, q)
      BY <1>2 DEF Climbing, TwoFree
    <2> QED
      BY <1>1, <2>1, LeafHalves
  <1>3. CASE p = Nowhere
    <2>1. Climb(w) = w
      BY <1>3 DEF Climb
    <2>2. \A q \in DOMAIN u : q # Nowhere
      BY <1>1, RangeFacts DEF Shape, BlocksOK
    <2>3. NoneTwoFree(u)
      BY <1>2, <1>3, <2>2 DEF NoneTwoFree
    <2> QED
      BY <2>1, <2>3
  <1>4. CASE p # Nowhere
    <2>1. p \in DOMAIN u /\ Divided(u, p) /\ a \in {LowerHalf(p), UpperHalf(p)}
      BY <1>1, <1>4 DEF KnownByParent
    <2>2. /\ LowerHalf(p) # UpperHalf(p)
          /\ u[p].left = LowerHalf(p) /\ u[p].right = UpperHalf(p)
          /\ 2 * allocationSize(a) = allocationSize(p) /\ p \in Ranges
      BY <1>1, <2>1, LeafHalves
    <2>3. sibling \in {LowerHalf(p), UpperHalf(p)} /\ sibling # a
          /\ {sibling, a} = {LowerHalf(p), UpperHalf(p)}
      BY <2>1, <2>2
    <2>4. FreeLeaf(u[sibling]) <=> TwoFree(u, p)
      BY <1>1, <2>1, <2>2, <2>3 DEF TwoFree
    <2>5. CASE FreeLeaf(u[sibling])
      <3> DEFINE m == Merge(u, p)
      <3>1. Climb(w) = [tree |-> m, at |-> p]
        BY <1>4, <2>5 DEF Climb
      <3>2. TwoFree(u, p)
        BY <2>4, <2>5
      <3>3. /\ Shape(m) /\ p \in DOMAIN m /\ FreeLeaf(m[p])
            /\ DOMAIN m = DOMAIN u \ {LowerHalf(p), UpperHalf(p)}
            /\ \A c \in DOMAIN m \ {p} : m[c] = u[c]
        BY <1>1, <2>1, <3>2, MergeHolds DEF TwoFree
      <3>4. SameHolders(t, m)
        BY <1>1, <2>1, <3>2, MergeHolders DEF SameHolders, Climbing
      <3> HIDE DEF m
      <3>5. ASSUME NEW q \in DOMAIN m, TwoFree(m, q), p \notin {LowerHalf(q), UpperHalf(q)}
            PROVE  FALSE
        <4>1. Divided(m, q) /\ q \in DOMAIN u /\ q # p
          <5>1. ~Divided(m, p)
            BY <3>3, DividedOrLeaf DEF Shape, BlocksOK, FreeLeaf
          <5> QED
            BY <3>3, <3>5, <5>1 DEF TwoFree
        <4>2. /\ LowerHalf(q) \in DOMAIN m /\ UpperHalf(q) \in DOMAIN m
              /\ m[LowerHalf(q)].parent = q /\ m[UpperHalf(q)].parent = q
          BY <3>3, <4>1, LeafHalves
        <4>3. u[LowerHalf(q)] = m[LowerHalf(q)] /\ u[UpperHalf(q)] = m[UpperHalf(q)]
              /\ u[q] = m[q] /\ LowerHalf(q) \in DOMAIN u /\ UpperHalf(q) \in DOMAIN u
          BY <3>3, <3>5, <4>1, <4>2
        <4>4. TwoFree(u, q)
          BY <3>5, <4>1, <4>3 DEF TwoFree, Divided
        <4> QED
          BY <1>2, <4>1, <4>4
      <3>6. Climbing(t, Climb(w))
        BY <3>1, <3>3, <3>4, <3>5 DEF Climbing
      <3>7. Climb(w) \in Spots
        BY <2>2, <3>1, <3>3, ShapeIsTree DEF Spots
      <3>8. ~NoneTwoFree(u)
        BY <2>1, <3>2 DEF NoneTwoFree
      <3> QED
        BY <2>2, <3>1, <3>6, <3>7, <3>8
    <2>6. CASE ~FreeLeaf(u[sibling])
      <3>1. Climb(w) = w
        BY <1>4, <2>6 DEF Climb
      <3>2. NoneTwoFree(u)
        BY <1>2, <2>4, <2>6 DEF NoneTwoFree
      <3> QED
        BY <3>1, <3>2
    <2> QED
      BY <2>5, <2>6
  <1> QED
    BY <1>3, <1>4

(* The climb ends with no two free halves left.                            *)
LEMMA ClimbEnds ==
    ASSUME NEW t, NEW x \in Spots, Climbing(t, x)
    PROVE  LET w == Iterate(Climb, x, TotalMemory) IN
           w \in Spots /\ Climbing(t, w) /\ NoneTwoFree(w.tree)
  <1> DEFINE n == TotalMemory
             T == [k \in 0..n |-> {w \in Spots :
                     /\ Climbing(t, w)
                     /\ NoneTwoFree(w.tree) \/ allocationSize(w.at) > k}]
             step == [w \in Spots |-> Climb(w)]
  <1>0. n \in Nat
    BY SizesAssumption, PowerFacts
  <1>a. \A w \in Spots : allocationSize(w.at) \in Nat /\ allocationSize(w.at) >= 1
                         /\ allocationSize(w.at) <= n
    BY RangeFacts DEF Spots
  <1>1. x \in T[0]
    BY <1>0, <1>a
  <1>2. \A k \in 1..n : \A w \in T[k - 1] : Climb(w) \in T[k] /\ step[w] = Climb(w)
    <2> TAKE k \in 1..n
    <2> TAKE w \in T[k - 1]
    <2>1. k - 1 \in 0..n /\ k \in 0..n
      BY <1>0
    <2>2. w \in Spots /\ Climbing(t, w) /\ (NoneTwoFree(w.tree) \/ allocationSize(w.at) > k - 1)
      BY <2>1
    <2>3. step[w] = Climb(w)
      BY <2>2
    <2> DEFINE v == Climb(w)
    <2>4. /\ v \in Spots /\ Climbing(t, v)
          /\ \/ v = w /\ NoneTwoFree(w.tree)
             \/ ~NoneTwoFree(w.tree) /\ allocationSize(v.at) = 2 * allocationSize(w.at)
      BY <2>2, ClimbStep
    <2> HIDE DEF v, step
    <2>5. NoneTwoFree(v.tree) \/ allocationSize(v.at) > k
      BY <1>a, <2>1, <2>2, <2>4
    <2>6. v \in T[k]
      BY <2>1, <2>4, <2>5
    <2> QED
      BY <2>3, <2>6 DEF v
  <1>3. \E f : f = [k \in 0..n |-> IF k = 0 THEN x ELSE Climb(f[k - 1])]
    <2> HIDE DEF T, step, n
    <2>a. \A k \in 1..n : \A w \in T[k - 1] : step[w] \in T[k]
      BY <1>2
    <2>1. PICK f : IsRun(f, step, x, n) /\ \A k \in 0..n : f[k] \in T[k]
      BY <1>0, <1>1, <2>a, LoopRuns
    <2>2. \A k \in 1..n : step[f[k - 1]] = Climb(f[k - 1])
      BY <1>0, <1>2, <2>1
    <2>3. \A k \in 0..n : (IF k = 0 THEN x ELSE step[f[k - 1]])
                           = (IF k = 0 THEN x ELSE Climb(f[k - 1]))
      BY <1>0, <2>2
    <2>4. f = [k \in 0..n |-> IF k = 0 THEN x ELSE Climb(f[k - 1])]
      BY <2>1, <2>3, Zenon DEF IsRun
    <2> QED
      BY <2>4
  <1>4. ASSUME NEW f, f = [k \in 0..n |-> IF k = 0 THEN x ELSE Climb(f[k - 1])]
        PROVE  f[n] \in T[n]
    <2> HIDE DEF T
    <2>1. f[0] = x /\ \A k \in 1..n : f[k] = Climb(f[k - 1])
      BY <1>0, <1>4
    <2>2. \A k \in 1..n : f[k - 1] \in T[k - 1] => f[k] \in T[k]
      BY <1>2, <2>1
    <2> QED
      BY <1>0, <1>1, <2>1, <2>2, RunStays
  <1>5. Iterate(Climb, x, n) \in T[n]
    <2> HIDE DEF T
    <2> QED
      BY <1>3, <1>4 DEF Iterate
  <1> DEFINE w == Iterate(Climb, x, n)
  <1> HIDE DEF w
  <1>6. w \in Spots /\ Climbing(t, w) /\ (NoneTwoFree(w.tree) \/ allocationSize(w.at) > n)
    BY <1>0, <1>5 DEF w
  <1>7. NoneTwoFree(w.tree)
    BY <1>0, <1>a, <1>6
  <1> QED
    BY <1>6, <1>7 DEF w

(* freeMemoryHelper from w on comes to y after m calls.                    *)
Back(w, y, m) == \E c : c[0] = w /\ c[m] = y /\ \A k \in 1..m : c[k] = Climb(c[k - 1])

(* The loop gives what any run of it gives.                                *)
LEMMA RunIs ==
    ASSUME NEW x, NEW n \in Nat, NEW e, e[0] = x, \A k \in 1..n : e[k] = Climb(e[k - 1])
    PROVE  Iterate(Climb, x, n) = e[n]
  <1> DEFINE g == [k \in 0..n |-> e[k]]
             T == [k \in 0..n |-> {e[k]}]
  <1>1. \A k \in 0..n : g[k] = IF k = 0 THEN x ELSE Climb(g[k - 1])
    OBVIOUS
  <1>2. g = [k \in 0..n |-> IF k = 0 THEN x ELSE Climb(g[k - 1])]
    <2>1. g = [k \in 0..n |-> g[k]]
      OBVIOUS
    <2> HIDE DEF g
    <2> QED
      BY <1>1, <2>1, Zenon
  <1>3. \E f : f = [k \in 0..n |-> IF k = 0 THEN x ELSE Climb(f[k - 1])]
    <2> HIDE DEF g
    <2> QED
      BY <1>2
  <1>4. ASSUME NEW f, f = [k \in 0..n |-> IF k = 0 THEN x ELSE Climb(f[k - 1])]
        PROVE  f[n] \in {e[n]}
    <2>1. f[0] = x /\ \A k \in 1..n : f[k] = Climb(f[k - 1])
      BY <1>4
    <2>2. \A k \in 1..n : f[k - 1] \in T[k - 1] => f[k] \in T[k]
      BY <2>1
    <2>3. f[0] \in T[0]
      BY <2>1
    <2>4. \A k \in 0..n : f[k] \in T[k]
      <3> HIDE DEF T
      <3> QED
        BY <2>2, <2>3, RunStays
    <2> QED
      BY <2>4
  <1>5. Iterate(Climb, x, n) \in {e[n]}
    BY <1>3, <1>4 DEF Iterate
  <1> QED
    BY <1>5

(* One more call in front.                                                 *)
LEMMA BackStep ==
    ASSUME NEW w, NEW y, NEW m \in Nat, Back(w, y, m), NEW v, Climb(v) = w
    PROVE  Back(v, y, m + 1)
  <1>1. PICK c : c[0] = w /\ c[m] = y /\ \A k \in 1..m : c[k] = Climb(c[k - 1])
    BY DEF Back
  <1> DEFINE e == [k \in 0..(m + 1) |-> IF k = 0 THEN v ELSE c[k - 1]]
  <1>2. e[0] = v /\ e[m + 1] = y
    BY <1>1
  <1>3. ASSUME NEW k \in 1..(m + 1)
        PROVE  e[k] = Climb(e[k - 1])
    <2>1. CASE k = 1
      BY <1>1, <2>1
    <2>2. CASE k # 1
      <3>1. k - 1 \in 1..m /\ e[k] = c[k - 1] /\ e[k - 1] = c[(k - 1) - 1]
        BY <2>2
      <3>2. c[k - 1] = Climb(c[(k - 1) - 1])
        BY <1>1, <3>1
      <3> HIDE DEF e
      <3> QED
        BY <3>1, <3>2
    <2> QED
      BY <2>1, <2>2
  <1> HIDE DEF e
  <1> QED
    BY <1>2, <1>3 DEF Back

(* Once at a place where the climb ends, it stays there.                   *)
LEMMA BackAll ==
    ASSUME NEW w, NEW y, NEW n \in Nat, NEW m \in 0..n, Back(w, y, m), Climb(y) = y
    PROVE  Iterate(Climb, w, n) = y
  <1>1. PICK c : c[0] = w /\ c[m] = y /\ \A k \in 1..m : c[k] = Climb(c[k - 1])
    BY DEF Back
  <1> DEFINE e == [k \in 0..n |-> IF k <= m THEN c[k] ELSE y]
  <1>2. e[0] = w /\ e[n] = y
    BY <1>1
  <1>3. ASSUME NEW k \in 1..n
        PROVE  e[k] = Climb(e[k - 1])
    <2>1. k - 1 \in 0..n /\ k \in 0..n
      OBVIOUS
    <2>2. CASE k <= m
      <3>1. k \in 1..m /\ e[k] = c[k] /\ e[k - 1] = c[k - 1]
        BY <2>1, <2>2
      <3> HIDE DEF e
      <3> QED
        BY <1>1, <3>1
    <2>3. CASE k > m
      <3>1. e[k] = y /\ e[k - 1] = y
        BY <1>1, <2>1, <2>3
      <3> HIDE DEF e
      <3> QED
        BY <3>1
    <2> QED
      BY <2>2, <2>3
  <1> HIDE DEF e
  <1> QED
    BY <1>2, <1>3, RunIs

-----------------------------------------------------------------------------
(* The descent of allocateHelper from a leaf.                              *)

(* It can be undone, and it has not come further than to size.             *)
Descending(t, b, size, w) ==
    /\ Climbing(t, w)
    /\ w.at.start = b.start /\ w.at.end <= b.end
    /\ allocationSize(w.at) >= size
    /\ \E m \in Nat : /\ m + allocationSize(w.at) <= allocationSize(b)
                      /\ Back(w, [tree |-> t, at |-> b], m)

(* One split is one step down that the climb would undo.                   *)
LEMMA SplitDownStep ==
    ASSUME NEW t, NEW b \in Ranges, NEW size \in Powers, NEW w \in Spots,
           Descending(t, b, size, w), allocationSize(w.at) > size
    PROVE  /\ SplitDown(w, size) \in Spots /\ Descending(t, b, size, SplitDown(w, size))
           /\ 2 * allocationSize(SplitDown(w, size).at) = allocationSize(w.at)
  <1> DEFINE o == w.tree
             a == w.at
             u == Split(o, a)
             low == LowerHalf(a)
             high == UpperHalf(a)
             v == [tree |-> u, at |-> low]
  <1>0. SplitDown(w, size) = v
    BY DEF SplitDown
  <1>1. /\ Shape(o) /\ a \in DOMAIN o /\ FreeLeaf(o[a]) /\ a \in Ranges /\ SameHolders(t, o)
        /\ \A p \in DOMAIN o : TwoFree(o, p) => a \in {LowerHalf(p), UpperHalf(p)}
    BY DEF Descending, Climbing, Spots
  <1>2. /\ allocationSize(a) > 1 /\ 2 * size <= allocationSize(a) /\ size \in Nat
        /\ allocationSize(a) \in Nat
    <2>1. allocationSize(a) \in Powers /\ allocationSize(a) \in Nat
      BY <1>1, RangeFacts
    <2>2. size \in Nat /\ size >= 1 /\ (size < allocationSize(a) => 2 * size <= allocationSize(a))
      BY <2>1, PowerFacts
    <2>3. size < allocationSize(a)
      OBVIOUS
    <2> QED
      BY <2>1, <2>2, <2>3
  <1>3. /\ low \in Ranges /\ high \in Ranges /\ 2 * allocationSize(low) = allocationSize(a)
        /\ low.start = a.start /\ low.end = Mid(a) /\ Mid(a) < a.end /\ Mid(a) \in Nat
        /\ low # a /\ high # a /\ low # high /\ a.end \in Nat /\ b.end \in Nat
    BY <1>1, <1>2, HalfFacts, RangeFacts
  <1>4. /\ Shape(u) /\ Divided(u, a) /\ FreeLeaf(u[low]) /\ FreeLeaf(u[high])
        /\ Merge(u, a) = o
    BY <1>1, <1>2, SplitHolds
  <1>5. /\ DOMAIN u = DOMAIN o \cup {low, high}
        /\ \A c \in DOMAIN o \ {a, low, high} : u[c] = o[c]
        /\ u[a].left = low /\ u[a].right = high /\ ~u[a].isFree /\ u[a].parent = o[a].parent
    <2>1. BlocksOK(o)
      BY <1>1 DEF Shape
    <2> HIDE DEF o, a
    <2> QED
      BY <1>1, <1>2, <2>1, SplitIs
  <1>6. SameHolders(t, u)
    BY <1>1, <1>2, SplitHolders DEF SameHolders
  <1>7. low \notin DOMAIN o /\ high \notin DOMAIN o
    BY <1>1, <1>2, HalvesAreNew DEF FreeLeaf
  <1> HIDE DEF u
  <1>8. ASSUME NEW p \in DOMAIN u, TwoFree(u, p), p # a
        PROVE  FALSE
    <2>1. Divided(u, p) /\ FreeLeaf(u[LowerHalf(p)]) /\ FreeLeaf(u[UpperHalf(p)])
      BY <1>8 DEF TwoFree
    <2>2. p # low /\ p # high
      BY <1>4, <2>1, DividedOrLeaf DEF Shape, BlocksOK, FreeLeaf
    <2>3. p \in DOMAIN o /\ u[p] = o[p]
      BY <1>5, <1>8, <2>2
    <2>4. /\ LowerHalf(p) \in DOMAIN u /\ u[LowerHalf(p)].parent = p
          /\ UpperHalf(p) \in DOMAIN u /\ u[UpperHalf(p)].parent = p
      BY <1>4, <2>1, LeafHalves
    <2>5. u[low].parent = a /\ u[high].parent = a
      BY <1>4, LeafHalves, <1>1, <1>5
    <2>6. LowerHalf(p) # a /\ UpperHalf(p) # a
      BY <1>5, <2>1 DEF FreeLeaf
    <2>7. /\ LowerHalf(p) \in DOMAIN o \ {a, low, high}
          /\ UpperHalf(p) \in DOMAIN o \ {a, low, high}
      <3> HIDE DEF low, high
      <3> QED
        BY <1>5, <1>8, <2>4, <2>5, <2>6
    <2>8. u[LowerHalf(p)] = o[LowerHalf(p)] /\ u[UpperHalf(p)] = o[UpperHalf(p)]
      BY <1>5, <2>7
    <2>9. TwoFree(o, p)
      BY <2>1, <2>3, <2>4, <2>7, <2>8 DEF TwoFree, Divided
    <2> QED
      BY <1>1, <2>3, <2>6, <2>9
  <1>9. Climbing(t, v)
    <2>1. low \in DOMAIN u
      BY <1>5
    <2>2. \A p \in DOMAIN u : TwoFree(u, p) => low \in {LowerHalf(p), UpperHalf(p)}
      BY <1>8
    <2>3. v.tree = u /\ v.at = low
      OBVIOUS
    <2> HIDE DEF v, low
    <2> QED
      BY <1>4, <1>6, <2>1, <2>2, <2>3 DEF Climbing
  <1>10. Climb(v) = w
    <2>1. u[low].parent = a /\ a # Nowhere
      BY <1>1, <1>4, <1>5, LeafHalves, RangeFacts
    <2>2. v.tree = u /\ v.at = low
      OBVIOUS
    <2> HIDE DEF v, low, high
    <2>3. Climb(v) = [tree |-> Merge(u, a), at |-> a]
      BY <1>4, <1>5, <2>1, <2>2 DEF Climb
    <2>4. w = [tree |-> o, at |-> a]
      BY DEF Spots
    <2> QED
      BY <1>4, <2>3, <2>4
  <1>11. v \in Spots
    BY <1>3, <1>4, ShapeIsTree DEF Spots
  <1>12. PICK m \in Nat : /\ m + allocationSize(a) <= allocationSize(b)
                          /\ Back(w, [tree |-> t, at |-> b], m)
    BY DEF Descending
  <1>13. Back(v, [tree |-> t, at |-> b], m + 1)
    <2> HIDE DEF v
    <2> QED
      BY <1>10, <1>12, BackStep
  <1>14. allocationSize(low) \in Nat /\ allocationSize(low) >= 1 /\ allocationSize(b) \in Nat
    BY <1>3, RangeFacts
  <1>15. m + 1 \in Nat /\ (m + 1) + allocationSize(low) <= allocationSize(b)
         /\ allocationSize(low) >= size
    <2> HIDE DEF low
    <2> QED
      BY <1>2, <1>3, <1>12, <1>14
  <1>16. low.start = b.start /\ low.end <= b.end
    <2>1. a.start = b.start /\ a.end <= b.end
      BY DEF Descending
    <2> HIDE DEF low
    <2> QED
      BY <1>3, <2>1
  <1>17. v.at = low
    OBVIOUS
  <1> HIDE DEF v, low
  <1>18. Descending(t, b, size, v)
    BY <1>9, <1>13, <1>15, <1>16, <1>17 DEF Descending
  <1> QED
    BY <1>0, <1>3, <1>11, <1>17, <1>18

(* It ends at a free leaf of the size asked for, in the place of b.        *)
LEMMA DescendEnds ==
    ASSUME NEW t, Shape(t), NoneTwoFree(t), NEW b \in DOMAIN t, FreeLeaf(t[b]),
           NEW size \in Powers, size <= allocationSize(b)
    PROVE  /\ Descend(t, b, size) \in Spots
           /\ Descending(t, b, size, Descend(t, b, size))
           /\ allocationSize(Descend(t, b, size).at) = size
  <1> DEFINE n == allocationSize(b)
             x == [tree |-> t, at |-> b]
             split(w) == SplitDown(w, size)
             T == [k \in 0..n |-> {w \in Spots :
                     /\ Descending(t, b, size, w)
                     /\ allocationSize(w.at) = size \/ allocationSize(w.at) + k <= n}]
             step == [w \in Spots |-> split(w)]
  <1>0. n \in Nat /\ b \in Ranges /\ n >= 1 /\ size \in Nat
    BY RangeFacts, PowerFacts DEF Shape, BlocksOK
  <1>a. \A w \in Spots : allocationSize(w.at) \in Nat /\ allocationSize(w.at) >= 1
                         /\ allocationSize(w.at) \in Powers
    BY RangeFacts DEF Spots
  <1>1. x \in T[0]
    <2>1. x \in Spots
      BY <1>0, ShapeIsTree DEF Spots
    <2>2. Climbing(t, x)
      BY DEF Climbing, NoneTwoFree, SameHolders
    <2>3. Back(x, [tree |-> t, at |-> b], 0)
      <3> DEFINE c == [k \in {0} |-> x]
      <3>1. c[0] = x /\ c[0] = [tree |-> t, at |-> b] /\ \A k \in 1..0 : c[k] = Climb(c[k - 1])
        OBVIOUS
      <3> HIDE DEF c, x
      <3> QED
        BY <3>1 DEF Back
    <2>4. Descending(t, b, size, x)
      <3>1. x.at = b /\ 0 + n <= n /\ 0 \in Nat /\ b.end <= b.end
        BY <1>0, RangeFacts
      <3> HIDE DEF x
      <3> QED
        BY <2>2, <2>3, <3>1 DEF Descending
    <2>5. allocationSize(x.at) + 0 <= n
      BY <1>0
    <2> HIDE DEF x
    <2> QED
      BY <1>0, <2>1, <2>4, <2>5
  <1>2. \A k \in 1..n : \A w \in T[k - 1] : split(w) \in T[k] /\ step[w] = split(w)
    <2> TAKE k \in 1..n
    <2> TAKE w \in T[k - 1]
    <2>1. k - 1 \in 0..n /\ k \in 0..n
      BY <1>0
    <2>2. /\ w \in Spots /\ Descending(t, b, size, w)
          /\ allocationSize(w.at) = size \/ allocationSize(w.at) + (k - 1) <= n
      BY <2>1
    <2>3. step[w] = split(w)
      BY <2>2
    <2> DEFINE v == split(w)
    <2>4. CASE allocationSize(w.at) > size
      <3>1. v \in Spots /\ Descending(t, b, size, v)
            /\ 2 * allocationSize(v.at) = allocationSize(w.at)
        BY <1>0, <2>2, <2>4, SplitDownStep
      <3> HIDE DEF v, step
      <3>2. allocationSize(v.at) + k <= n
        BY <1>0, <1>a, <2>1, <2>2, <2>4, <3>1
      <3>3. v \in T[k]
        BY <2>1, <3>1, <3>2
      <3> QED
        BY <2>3, <3>3 DEF v
    <2>5. CASE ~(allocationSize(w.at) > size)
      <3>1. v = w
        BY <2>5 DEF SplitDown
      <3>2. allocationSize(w.at) = size
        BY <1>0, <1>a, <2>2, <2>5 DEF Descending
      <3> HIDE DEF v, step
      <3>3. v \in T[k]
        BY <2>1, <2>2, <3>1, <3>2
      <3> QED
        BY <2>3, <3>3 DEF v
    <2> QED
      BY <2>4, <2>5
  <1>3. \E f : f = [k \in 0..n |-> IF k = 0 THEN x ELSE split(f[k - 1])]
    <2> HIDE DEF T, x, step, n
    <2>a. \A k \in 1..n : \A w \in T[k - 1] : step[w] \in T[k]
      BY <1>2
    <2>1. PICK f : IsRun(f, step, x, n) /\ \A k \in 0..n : f[k] \in T[k]
      BY <1>0, <1>1, <2>a, LoopRuns
    <2>2. \A k \in 1..n : step[f[k - 1]] = split(f[k - 1])
      BY <1>0, <1>2, <2>1
    <2> HIDE DEF split
    <2>3. \A k \in 0..n : (IF k = 0 THEN x ELSE step[f[k - 1]])
                           = (IF k = 0 THEN x ELSE split(f[k - 1]))
      BY <1>0, <2>2
    <2>4. f = [k \in 0..n |-> IF k = 0 THEN x ELSE split(f[k - 1])]
      BY <2>1, <2>3, Zenon DEF IsRun
    <2> QED
      BY <2>4
  <1>4. ASSUME NEW f, f = [k \in 0..n |-> IF k = 0 THEN x ELSE split(f[k - 1])]
        PROVE  f[n] \in T[n]
    <2> HIDE DEF T, x, split, n
    <2>1. f[0] = x /\ \A k \in 1..n : f[k] = split(f[k - 1])
      BY <1>0, <1>4
    <2>2. \A k \in 1..n : f[k - 1] \in T[k - 1] => f[k] \in T[k]
      BY <1>2, <2>1
    <2> QED
      BY <1>0, <1>1, <2>1, <2>2, RunStays
  <1>5. Iterate(split, x, n) \in T[n]
    <2> HIDE DEF T, x
    <2> QED
      BY <1>3, <1>4 DEF Iterate
  <1>6. Descend(t, b, size) \in T[n]
    <2> HIDE DEF T
    <2> QED
      BY <1>5 DEF Descend
  <1> DEFINE d == Descend(t, b, size)
  <1> HIDE DEF d
  <1>7. /\ d \in Spots /\ Descending(t, b, size, d)
        /\ allocationSize(d.at) = size \/ allocationSize(d.at) + n <= n
    BY <1>0, <1>6 DEF d
  <1>8. allocationSize(d.at) \in Nat /\ allocationSize(d.at) >= 1
    BY <1>a, <1>7
  <1> HIDE DEF n
  <1>9. allocationSize(d.at) = size
    BY <1>0, <1>7, <1>8
  <1> QED
    BY <1>7, <1>9 DEF d

(* A tree has finitely many blocks.                                        *)
LEMMA TreeIsFinite ==
    ASSUME NEW t, BlocksOK(t)
    PROVE  IsFiniteSet(DOMAIN t)
  <1> DEFINE I == 0..(TotalMemory - 1)
             f == [b \in DOMAIN t |-> <<b.start, b.end>>]
  <1>1. TotalMemory \in Nat /\ IsFiniteSet(I)
    <2>1. TotalMemory \in Nat
      BY SizesAssumption, PowerFacts
    <2>2. 0 \in Int /\ TotalMemory - 1 \in Int
      BY <2>1
    <2> QED
      BY <2>1, <2>2, FS_Interval
  <1>2. IsFiniteSet(I \X I)
    BY <1>1, FS_Product
  <1>3. \A b \in DOMAIN t : b.start \in I /\ b.end \in I /\ b = [start |-> b.start, end |-> b.end]
    <2>1. \A b \in DOMAIN t : b \in Ranges
      BY DEF BlocksOK
    <2> QED
      BY <1>1, <2>1, RangeFacts
  <1>4. f \in [DOMAIN t -> I \X I]
    BY <1>3
  <1>5. \A b, c \in DOMAIN t : f[b] = f[c] => b = c
    BY <1>3
  <1>6. f \in Injection(DOMAIN t, I \X I)
    BY <1>4, <1>5, Fun_IsInj
  <1> QED
    BY <1>2, <1>6, FS_Injection

-----------------------------------------------------------------------------
(* The blocks that allocateHelper still has to be called for.              *)

(* They are side by side and end where the memory ends.                    *)
Line(t, q) ==
    /\ q \in Seq(DOMAIN t)
    /\ \A i \in 1..(Len(q) - 1) : q[i + 1].start = q[i].end + 1
    /\ q # <<>> => q[Len(q)].end = TotalMemory - 1

(* The next block is one of the tree.                                      *)
LEMMA LineHead ==
    ASSUME NEW t, NEW q, Line(t, q), q # <<>>
    PROVE  Head(q) = q[1] /\ q[1] \in DOMAIN t /\ Len(q) \in Nat /\ Len(q) >= 1
  BY DEF Line

(* When a block is done, the next one begins where it ends.                *)
LEMMA LineTail ==
    ASSUME NEW t, NEW q, Line(t, q), q # <<>>
    PROVE  /\ Line(t, Tail(q))
           /\ Tail(q) # <<>> => Tail(q)[1].start = q[1].end + 1
           /\ Tail(q) = <<>> => q[1].end = TotalMemory - 1
  <1> DEFINE r == Tail(q)
  <1>1. /\ r \in Seq(DOMAIN t) /\ Len(r) = Len(q) - 1 /\ Len(q) \in Nat /\ Len(q) >= 1
        /\ \A i \in 1..Len(r) : r[i] = q[i + 1]
    BY HeadTailProperties DEF Line
  <1> HIDE DEF r
  <1>2. Len(r) \in Nat /\ (r = <<>> <=> Len(r) = 0)
    BY <1>1, EmptySeq
  <1>3. ASSUME NEW i \in 1..(Len(r) - 1)
        PROVE  r[i + 1].start = r[i].end + 1
    <2>1. i + 1 \in 1..(Len(q) - 1) /\ i \in 1..Len(r) /\ i + 1 \in 1..Len(r)
      BY <1>1, <1>2
    <2>2. q[(i + 1) + 1].start = q[i + 1].end + 1
      BY <2>1 DEF Line
    <2> QED
      BY <1>1, <2>1, <2>2
  <1>4. ASSUME r # <<>>
        PROVE  r[Len(r)].end = TotalMemory - 1 /\ r[1].start = q[1].end + 1
    <2>1. /\ Len(r) \in 1..Len(r) /\ Len(r) + 1 = Len(q)
          /\ 1 \in 1..Len(r) /\ 1 \in 1..(Len(q) - 1)
      BY <1>1, <1>2, <1>4
    <2>2. r[Len(r)] = q[Len(q)] /\ r[1] = q[1 + 1]
      BY <1>1, <2>1
    <2>3. q[1 + 1].start = q[1].end + 1 /\ q[Len(q)].end = TotalMemory - 1
      BY <2>1 DEF Line
    <2> QED
      BY <2>2, <2>3
  <1>5. ASSUME r = <<>>
        PROVE  q[1].end = TotalMemory - 1
    <2>1. Len(q) = 1
      BY <1>1, <1>2, <1>5
    <2> QED
      BY <2>1 DEF Line
  <1> QED
    BY <1>1, <1>3, <1>4, <1>5 DEF r, Line

(* A block with its halves in its place.                                   *)
LEMMA LineDivided ==
    ASSUME NEW t, NEW q, Line(t, q), q # <<>>, NEW low \in DOMAIN t, NEW high \in DOMAIN t,
           high.start = low.end + 1, high.end = q[1].end
    PROVE  /\ Line(t, <<low, high>> \o Tail(q))
           /\ <<low, high>> \o Tail(q) # <<>>
           /\ (<<low, high>> \o Tail(q))[1] = low
  <1> DEFINE r == Tail(q)
             p == <<low, high>>
             s == p \o r
  <1>1. /\ Line(t, r)
        /\ r # <<>> => r[1].start = q[1].end + 1
        /\ r = <<>> => q[1].end = TotalMemory - 1
    BY LineTail
  <1> HIDE DEF r
  <1>2. r \in Seq(DOMAIN t) /\ Len(r) \in Nat /\ (r = <<>> <=> Len(r) = 0)
    <2>1. r \in Seq(DOMAIN t)
      BY <1>1 DEF Line
    <2> QED
      BY <2>1, EmptySeq
  <1>3. p \in Seq(DOMAIN t) /\ Len(p) = 2 /\ p[1] = low /\ p[2] = high
    OBVIOUS
  <1> HIDE DEF p
  <1>4. /\ s \in Seq(DOMAIN t) /\ Len(s) = 2 + Len(r)
        /\ \A i \in 1..(2 + Len(r)) : s[i] = IF i <= 2 THEN p[i] ELSE r[i - 2]
    <2>1. /\ p \o r \in Seq(DOMAIN t) /\ Len(p \o r) = Len(p) + Len(r)
          /\ \A i \in 1..(Len(p) + Len(r)) :
               (p \o r)[i] = IF i <= Len(p) THEN p[i] ELSE r[i - Len(p)]
      BY <1>2, <1>3, ConcatProperties
    <2> QED
      BY <1>3, <2>1
  <1> HIDE DEF s
  <1>5. s[1] = low /\ s[2] = high
    BY <1>2, <1>3, <1>4
  <1>6. \A i \in 1..Len(r) : s[i + 2] = r[i]
    <2> TAKE i \in 1..Len(r)
    <2>1. i + 2 \in 1..(2 + Len(r)) /\ ~(i + 2 <= 2) /\ (i + 2) - 2 = i
      BY <1>2
    <2> QED
      BY <1>4, <2>1
  <1>7. ASSUME NEW i \in 1..(Len(s) - 1)
        PROVE  s[i + 1].start = s[i].end + 1
    <2>1. CASE i = 1
      BY <1>5, <2>1
    <2>2. CASE i = 2
      <3>1. r # <<>> /\ 1 \in 1..Len(r) /\ 1 + 2 = i + 1
        BY <1>2, <1>4, <2>2
      <3>2. s[i + 1] = r[1]
        BY <1>6, <3>1
      <3> QED
        BY <1>1, <1>5, <2>2, <3>1, <3>2
    <2>3. CASE i > 2
      <3> DEFINE j == i - 2
      <3>1. j \in 1..(Len(r) - 1) /\ j \in 1..Len(r) /\ j + 1 \in 1..Len(r)
            /\ j + 2 = i /\ (j + 1) + 2 = i + 1
        BY <1>2, <1>4, <2>3
      <3> HIDE DEF j
      <3>2. s[i] = r[j] /\ s[i + 1] = r[j + 1]
        BY <1>6, <3>1
      <3>3. r[j + 1].start = r[j].end + 1
        BY <1>1, <3>1 DEF Line
      <3> QED
        BY <3>2, <3>3
    <2> QED
      BY <1>2, <1>4, <2>1, <2>2, <2>3
  <1>8. s[Len(s)].end = TotalMemory - 1
    <2>1. CASE r = <<>>
      <3>1. Len(s) = 2
        BY <1>2, <1>4, <2>1
      <3> QED
        BY <1>1, <1>5, <2>1, <3>1
    <2>2. CASE r # <<>>
      <3>1. Len(r) \in 1..Len(r) /\ Len(s) = Len(r) + 2
        BY <1>2, <1>4, <2>2
      <3>2. s[Len(s)] = r[Len(r)]
        BY <1>6, <3>1
      <3> QED
        BY <1>1, <2>2, <3>2 DEF Line
    <2> QED
      BY <2>1, <2>2
  <1>9. s # <<>>
    BY <1>2, <1>4, EmptySeq
  <1> QED
    BY <1>4, <1>5, <1>7, <1>8, <1>9 DEF Line, s, p, r

-----------------------------------------------------------------------------
(* allocateHelper.                                                         *)

(* A block that will do.                                                   *)
Fits(t, c, size) == FreeLeaf(t[c]) /\ size <= allocationSize(c)

(* The lowest such block.                                                  *)
FirstFit(t, b, size) ==
    /\ b \in DOMAIN t /\ Fits(t, b, size)
    /\ \A c \in DOMAIN t : Fits(t, c, size) => b.start <= c.start

(* What a call that returns 0 has done.                                    *)
Placed(t, u, pid, size) ==
    \E b : /\ FirstFit(t, b, size)
           /\ LET d == Descend(t, b, size) IN u = Marked(d.tree, d.at, pid)

(* The blocks that allocateHelper has been called for when h is next.      *)
Before(t, h) == {c \in DOMAIN t : c.start < h.start \/ (c.start = h.start /\ h.end < c.end)}

(* What the loop of allocateHelper works on.                               *)
Visits == [tree : Trees, todo : Seq(Ranges), status : {0, -1}]

(* After k calls.                                                          *)
Searching(t, size, w, k) ==
    /\ w.status = -1 /\ w.tree = t /\ Line(t, w.todo)
    /\ w.todo = <<>> => \A c \in DOMAIN t : ~Fits(t, c, size)
    /\ w.todo # <<>> => /\ \A c \in DOMAIN t : Fits(t, c, size) => w.todo[1].start <= c.start
                        /\ k <= Cardinality(Before(t, w.todo[1]))

(* Going on from h to g, more blocks have been called for.                 *)
LEMMA BeforeGrows ==
    ASSUME NEW t, BlocksOK(t), NEW h \in DOMAIN t, NEW g \in DOMAIN t,
           h.start < g.start \/ (h.start = g.start /\ g.end < h.end)
    PROVE  /\ Cardinality(Before(t, h)) \in Nat
           /\ Cardinality(Before(t, g)) \in Nat
           /\ Cardinality(Before(t, h)) + 1 <= Cardinality(Before(t, g))
           /\ Cardinality(Before(t, h)) < Cardinality(DOMAIN t)
           /\ Cardinality(DOMAIN t) \in Nat
  <1>1. IsFiniteSet(DOMAIN t)
    BY TreeIsFinite
  <1>2. \A c \in DOMAIN t : c.start \in Nat /\ c.end \in Nat
    <2>1. \A c \in DOMAIN t : c \in Ranges
      BY DEF BlocksOK
    <2> QED
      BY <2>1, RangeFacts
  <1> DEFINE H == Before(t, h)
             G == Before(t, g)
  <1>3. H \cup {h} \subseteq G /\ h \notin H /\ G \subseteq DOMAIN t
        /\ H \cup {h} \subseteq DOMAIN t
    BY <1>2 DEF Before
  <1> HIDE DEF H, G
  <1>4. IsFiniteSet(H) /\ IsFiniteSet(G) /\ IsFiniteSet(H \cup {h})
    BY <1>1, <1>3, FS_Subset
  <1>5. Cardinality(H \cup {h}) = Cardinality(H) + 1
    BY <1>3, <1>4, FS_AddElement
  <1>6. Cardinality(H \cup {h}) <= Cardinality(G)
        /\ Cardinality(H \cup {h}) <= Cardinality(DOMAIN t)
    BY <1>1, <1>3, <1>4, FS_Subset
  <1>7. Cardinality(H) \in Nat /\ Cardinality(G) \in Nat /\ Cardinality(DOMAIN t) \in Nat
    BY <1>1, <1>4, FS_CardinalityType
  <1> QED
    BY <1>5, <1>6, <1>7 DEF H, G

(* One call of allocateHelper.                                             *)
LEMMA VisitStep ==
    ASSUME NEW t, Shape(t), NoneTwoFree(t), NEW pid \in Int, pid # NoPid, NEW size \in Powers,
           NEW w \in Visits, NEW k \in Nat, Searching(t, size, w, k)
    PROVE  /\ Visit(w, pid, size) \in Visits
           /\ \/ Visit(w, pid, size).status = 0 /\ Placed(t, Visit(w, pid, size).tree, pid, size)
              \/ Searching(t, size, Visit(w, pid, size), k + 1)
  <1> DEFINE v == Visit(w, pid, size)
             q == w.todo
             h == Head(q)
             d == Descend(t, h, size)
             p == <<t[h].left, t[h].right>> \o Tail(q)
  <1>1. /\ w.status = -1 /\ w.tree = t /\ Line(t, q) /\ q \in Seq(Ranges) /\ t \in Trees
        /\ w = [tree |-> t, todo |-> q, status |-> -1]
    BY DEF Searching, Visits
  <1>2. CASE q = <<>>
    <2>1. v = w
      BY <1>2 DEF Visit
    <2>2. Searching(t, size, w, k + 1)
      BY <1>2 DEF Searching
    <2> HIDE DEF v
    <2>3. v \in Visits /\ Searching(t, size, v, k + 1)
      BY <2>1, <2>2
    <2> QED
      BY <2>3 DEF v
  <1>3. CASE q # <<>>
    <2>1. h = q[1] /\ h \in DOMAIN t
      BY <1>1, <1>3, LineHead
    <2>2. /\ k <= Cardinality(Before(t, h))
          /\ \A c \in DOMAIN t : Fits(t, c, size) => h.start <= c.start
      BY <1>3, <2>1 DEF Searching
    <2>3. \A c \in DOMAIN t : /\ c \in Ranges /\ c.start \in Nat /\ c.end \in Nat
                              /\ c.start <= c.end /\ c.end <= TotalMemory - 1
      <3>1. \A c \in DOMAIN t : c \in Ranges
        BY DEF Shape, BlocksOK
      <3> QED
        BY <3>1, RangeFacts
    <2>4. BlocksOK(t) /\ TotalMemory \in Nat /\ size \in Nat
      BY SizesAssumption, PowerFacts DEF Shape
    <2>5. CASE ~IsLeaf(t[h])
      <3>1. Divided(t, h)
        BY <2>1, <2>5 DEF Shape, LeafOK
      <3> DEFINE low == LowerHalf(h)
                 high == UpperHalf(h)
      <3>2. /\ low \in DOMAIN t /\ high \in DOMAIN t /\ t[h].left = low /\ t[h].right = high
            /\ allocationSize(h) > 1 /\ h \in Ranges
        BY <2>1, <2>3, <3>1 DEF Divided
      <3>3. /\ low.start = h.start /\ low.end = Mid(h) /\ high.start = Mid(h) + 1
            /\ high.end = h.end /\ Mid(h) < h.end
        BY <3>2, HalfFacts
      <3> HIDE DEF low, high, h
      <3>4. Line(t, p) /\ p # <<>> /\ p[1] = low
        BY <1>1, <1>3, <2>1, <3>2, <3>3, LineDivided
      <3>5. /\ Cardinality(Before(t, h)) \in Nat /\ Cardinality(Before(t, low)) \in Nat
            /\ Cardinality(Before(t, h)) + 1 <= Cardinality(Before(t, low))
        BY <2>1, <2>4, <3>2, <3>3, BeforeGrows
      <3> HIDE DEF p
      <3>6. v = [tree |-> t, todo |-> p, status |-> -1]
        <4>1. v = [w EXCEPT !.todo = p]
          BY <1>1, <1>3, <2>5 DEF Visit, p, h
        <4>2. [w EXCEPT !.todo = p] = [tree |-> t, todo |-> p, status |-> -1]
          <5> HIDE DEF v, q
          <5> QED
            BY <1>1
        <4> HIDE DEF v
        <4> QED
          BY <4>1, <4>2
      <3>7. p \in Seq(Ranges)
        <4>1. p \in Seq(DOMAIN t) /\ DOMAIN t \subseteq Ranges
          BY <3>4, <2>3 DEF Line
        <4> QED
          BY <4>1
      <3>8. k + 1 <= Cardinality(Before(t, low))
        BY <2>2, <3>5
      <3> HIDE DEF v
      <3>9. v \in Visits
        BY <1>1, <3>6, <3>7 DEF Visits
      <3>10. Searching(t, size, v, k + 1)
        BY <2>2, <3>3, <3>4, <3>6, <3>8 DEF Searching
      <3> QED
        BY <3>9, <3>10 DEF v
    <2>6. CASE IsLeaf(t[h]) /\ (~t[h].isFree \/ allocationSize(h) < size)
      <3> DEFINE r == Tail(q)
      <3>1. ~Fits(t, h, size)
        <4>1. allocationSize(h) \in Nat
          BY <2>1, <2>3, RangeFacts
        <4> HIDE DEF h
        <4> QED
          BY <2>4, <2>6, <4>1 DEF Fits, FreeLeaf
      <3>2. v = [tree |-> t, todo |-> r, status |-> -1]
        <4>1. v = [w EXCEPT !.todo = r]
          BY <1>1, <1>3, <2>6 DEF Visit
        <4>2. [w EXCEPT !.todo = r] = [tree |-> t, todo |-> r, status |-> -1]
          <5> HIDE DEF v, q, r
          <5> QED
            BY <1>1
        <4> HIDE DEF v, r
        <4> QED
          BY <4>1, <4>2
      <3>3. /\ Line(t, r)
            /\ r # <<>> => r[1].start = h.end + 1
            /\ r = <<>> => h.end = TotalMemory - 1
        BY <1>1, <1>3, <2>1, LineTail
      <3> HIDE DEF r, h
      <3>4. ASSUME NEW c \in DOMAIN t, Fits(t, c, size)
            PROVE  h.end < c.start
        <4>1. c # h /\ IsLeaf(t[c])
          BY <3>1, <3>4 DEF Fits, FreeLeaf
        <4>2. Disjoint(h, c)
          BY <2>1, <2>6, <4>1, LeavesApart
        <4> QED
          BY <2>1, <2>2, <2>3, <3>4, <4>2 DEF Disjoint
      <3>5. ASSUME r # <<>>
            PROVE  /\ \A c \in DOMAIN t : Fits(t, c, size) => r[1].start <= c.start
                   /\ k + 1 <= Cardinality(Before(t, r[1]))
        <4>1. r[1] \in DOMAIN t /\ h.start < r[1].start
          <5>1. r[1] \in DOMAIN t
            BY <3>3, <3>5, LineHead
          <5> QED
            BY <2>1, <2>3, <3>3, <3>5, <5>1
        <4>2. /\ Cardinality(Before(t, h)) \in Nat /\ Cardinality(Before(t, r[1])) \in Nat
              /\ Cardinality(Before(t, h)) + 1 <= Cardinality(Before(t, r[1]))
          BY <2>1, <2>4, <4>1, BeforeGrows
        <4>3. k + 1 <= Cardinality(Before(t, r[1]))
          BY <2>2, <4>2
        <4>4. \A c \in DOMAIN t : Fits(t, c, size) => r[1].start <= c.start
          BY <2>1, <2>3, <3>3, <3>4, <3>5
        <4> QED
          BY <4>3, <4>4
      <3>6. r = <<>> => \A c \in DOMAIN t : ~Fits(t, c, size)
        <4>1. \A c \in DOMAIN t : c.start <= TotalMemory - 1
          BY <2>3, <2>4
        <4> QED
          BY <2>1, <2>3, <2>4, <3>3, <3>4, <4>1
      <3>7. r \in Seq(Ranges)
        <4>1. r \in Seq(DOMAIN t) /\ DOMAIN t \subseteq Ranges
          BY <3>3, <2>3 DEF Line
        <4> QED
          BY <4>1
      <3> HIDE DEF v
      <3>8. v \in Visits
        BY <1>1, <3>2, <3>7 DEF Visits
      <3>9. Searching(t, size, v, k + 1)
        BY <3>2, <3>3, <3>5, <3>6 DEF Searching
      <3> QED
        BY <3>8, <3>9 DEF v
    <2>7. CASE IsLeaf(t[h]) /\ t[h].isFree /\ ~(allocationSize(h) < size)
      <3>1. FreeLeaf(t[h]) /\ size <= allocationSize(h) /\ Fits(t, h, size)
        <4>1. allocationSize(h) \in Nat
          BY <2>1, <2>3, RangeFacts
        <4> HIDE DEF h
        <4> QED
          BY <2>4, <2>7, <4>1 DEF Fits, FreeLeaf
      <3>2. /\ d \in Spots /\ Descending(t, h, size, d) /\ allocationSize(d.at) = size
        BY <2>1, <3>1, DescendEnds
      <3> DEFINE u == Marked(d.tree, d.at, pid)
      <3>3. v = [tree |-> u, todo |-> Tail(q), status |-> 0]
        BY <1>1, <1>3, <2>7, <3>2 DEF Visit
      <3>4. Placed(t, u, pid, size)
        <4>1. FirstFit(t, h, size)
          BY <2>1, <2>2, <3>1 DEF FirstFit
        <4> HIDE DEF h
        <4> QED
          BY <4>1 DEF Placed
      <3>5. Shape(u)
        <4> HIDE DEF d
        <4> QED
          BY <3>2, MarkHolds DEF Descending, Climbing, FreeLeaf
      <3>6. Tail(q) \in Seq(Ranges)
        BY <1>1, <1>3
      <3> HIDE DEF u, v
      <3>7. v \in Visits
        BY <3>3, <3>5, <3>6, ShapeIsTree DEF Visits
      <3>8. v.status = 0 /\ Placed(t, v.tree, pid, size)
        BY <3>3, <3>4
      <3> QED
        BY <3>7, <3>8 DEF v
    <2> QED
      BY <2>5, <2>6, <2>7
  <1> QED
    BY <1>2, <1>3

(* allocateHelper takes the lowest block that will do, if there is one.    *)
LEMMA HelperEnds ==
    ASSUME NEW t, Shape(t), NoneTwoFree(t), NEW pid \in Int, pid # NoPid, NEW size \in Powers
    PROVE  LET w == allocateHelper(t, pid, size) IN
           \/ w.status = 0 /\ Placed(t, w.tree, pid, size)
           \/ w.status = -1 /\ w.tree = t /\ \A c \in DOMAIN t : ~Fits(t, c, size)
  <1> DEFINE n == Cardinality(DOMAIN t)
             x == [tree |-> t, todo |-> <<Root>>, status |-> -1]
             visit(w) == Visit(w, pid, size)
             T == [k \in 0..n |-> {w \in Visits :
                     \/ w.status = 0 /\ Placed(t, w.tree, pid, size)
                     \/ Searching(t, size, w, k)}]
             step == [w \in Visits |-> visit(w)]
  <1>0. n \in Nat /\ BlocksOK(t)
    <2>1. BlocksOK(t)
      BY DEF Shape
    <2> QED
      BY <2>1, TreeIsFinite, FS_CardinalityType
  <1>b. \A c \in DOMAIN t : c.start \in Nat /\ c.end \in Nat
    <2>1. \A c \in DOMAIN t : c \in Ranges
      BY DEF Shape, BlocksOK
    <2> QED
      BY <2>1, RangeFacts
  <1>1. x \in T[0]
    <2> DEFINE q == <<Root>>
    <2>0. Root \in DOMAIN t /\ DOMAIN t \subseteq Ranges /\ Root.start = 0
          /\ Root.end = TotalMemory - 1
      BY DEF Shape, BlocksOK, Root
    <2>1. q \in Seq(DOMAIN t) /\ q \in Seq(Ranges) /\ Len(q) = 1 /\ q[1] = Root /\ q # <<>>
      BY <2>0
    <2>2. x.tree = t /\ x.todo = q /\ x.status = -1
      OBVIOUS
    <2>3. Cardinality(Before(t, Root)) \in Nat
      <3>1. Before(t, Root) \subseteq DOMAIN t
        BY DEF Before
      <3>2. IsFiniteSet(Before(t, Root))
        BY <1>0, <3>1, TreeIsFinite, FS_Subset
      <3> QED
        BY <3>2, FS_CardinalityType
    <2>4. x \in Visits
      BY <2>1, ShapeIsTree DEF Visits
    <2> HIDE DEF q, x
    <2>5. Line(t, q)
      BY <2>0, <2>1 DEF Line
    <2>6. \A c \in DOMAIN t : Fits(t, c, size) => q[1].start <= c.start
      BY <1>b, <2>0, <2>1
    <2>7. Searching(t, size, x, 0)
      BY <2>1, <2>2, <2>3, <2>5, <2>6 DEF Searching
    <2> HIDE DEF n
    <2> QED
      BY <1>0, <2>4, <2>7
  <1>2. \A k \in 1..n : \A w \in T[k - 1] : visit(w) \in T[k] /\ step[w] = visit(w)
    <2> TAKE k \in 1..n
    <2> TAKE w \in T[k - 1]
    <2>1. k - 1 \in 0..n /\ k \in 0..n /\ k - 1 \in Nat /\ (k - 1) + 1 = k
      <3> HIDE DEF n
      <3> QED
        BY <1>0
    <2>2. /\ w \in Visits
          /\ \/ w.status = 0 /\ Placed(t, w.tree, pid, size)
             \/ Searching(t, size, w, k - 1)
      BY <2>1
    <2>3. step[w] = visit(w)
      BY <2>2
    <2> DEFINE v == visit(w)
    <2>4. /\ v \in Visits
          /\ \/ v.status = 0 /\ Placed(t, v.tree, pid, size)
             \/ Searching(t, size, v, k)
      <3>1. CASE w.status = 0 /\ Placed(t, w.tree, pid, size)
        <4>1. v = w
          BY <3>1 DEF Visit
        <4> HIDE DEF v
        <4> QED
          BY <2>2, <3>1, <4>1
      <3>2. CASE Searching(t, size, w, k - 1)
        <4>1. /\ Visit(w, pid, size) \in Visits
              /\ \/ Visit(w, pid, size).status = 0
                    /\ Placed(t, Visit(w, pid, size).tree, pid, size)
                 \/ Searching(t, size, Visit(w, pid, size), (k - 1) + 1)
          <5> HIDE DEF n, T, step, visit
          <5> QED
            BY <2>1, <2>2, <3>2, VisitStep
        <4> QED
          BY <2>1, <4>1, Zenon
      <3> QED
        BY <2>2, <3>1, <3>2
    <2> HIDE DEF v, step
    <2>5. v \in T[k]
      BY <2>1, <2>4
    <2> QED
      BY <2>3, <2>5 DEF v
  <1>3. \E f : f = [k \in 0..n |-> IF k = 0 THEN x ELSE visit(f[k - 1])]
    <2> HIDE DEF T, x, step, n
    <2>a. \A k \in 1..n : \A w \in T[k - 1] : step[w] \in T[k]
      BY <1>2
    <2>1. PICK f : IsRun(f, step, x, n) /\ \A k \in 0..n : f[k] \in T[k]
      BY <1>0, <1>1, <2>a, LoopRuns
    <2>2. \A k \in 1..n : step[f[k - 1]] = visit(f[k - 1])
      BY <1>0, <1>2, <2>1
    <2> HIDE DEF visit
    <2>3. \A k \in 0..n : (IF k = 0 THEN x ELSE step[f[k - 1]])
                           = (IF k = 0 THEN x ELSE visit(f[k - 1]))
      BY <1>0, <2>2
    <2>4. f = [k \in 0..n |-> IF k = 0 THEN x ELSE visit(f[k - 1])]
      BY <2>1, <2>3, Zenon DEF IsRun
    <2> QED
      BY <2>4
  <1>4. ASSUME NEW f, f = [k \in 0..n |-> IF k = 0 THEN x ELSE visit(f[k - 1])]
        PROVE  f[n] \in T[n]
    <2> HIDE DEF T, x, visit, n
    <2>1. f[0] = x /\ \A k \in 1..n : f[k] = visit(f[k - 1])
      BY <1>0, <1>4
    <2>2. \A k \in 1..n : f[k - 1] \in T[k - 1] => f[k] \in T[k]
      BY <1>2, <2>1
    <2> QED
      BY <1>0, <1>1, <2>1, <2>2, RunStays
  <1>5. Iterate(visit, x, n) \in T[n]
    <2> HIDE DEF T, x
    <2> QED
      BY <1>3, <1>4 DEF Iterate
  <1>6. allocateHelper(t, pid, size) \in T[n]
    <2> HIDE DEF T
    <2> QED
      BY <1>5 DEF allocateHelper
  <1> DEFINE y == allocateHelper(t, pid, size)
  <1> HIDE DEF y
  <1>7. \/ y.status = 0 /\ Placed(t, y.tree, pid, size)
        \/ Searching(t, size, y, n)
    BY <1>0, <1>6 DEF y
  <1>8. ASSUME Searching(t, size, y, n)
        PROVE  y.status = -1 /\ y.tree = t /\ \A c \in DOMAIN t : ~Fits(t, c, size)
    <2> DEFINE h == y.todo[1]
    <2>1. ASSUME y.todo # <<>> PROVE FALSE
      <3>1. h \in DOMAIN t /\ n <= Cardinality(Before(t, h))
        BY <1>8, <2>1, LineHead DEF Searching
      <3> HIDE DEF h
      <3> DEFINE H == Before(t, h)
      <3>2. H \cup {h} \subseteq DOMAIN t /\ h \notin H
        BY <1>b, <3>1 DEF Before
      <3> HIDE DEF H
      <3>3. IsFiniteSet(DOMAIN t) /\ IsFiniteSet(H) /\ IsFiniteSet(H \cup {h})
        BY <1>0, <3>2, TreeIsFinite, FS_Subset
      <3>4. Cardinality(H \cup {h}) = Cardinality(H) + 1 /\ Cardinality(H) \in Nat
        BY <3>2, <3>3, FS_AddElement, FS_CardinalityType
      <3>5. Cardinality(H \cup {h}) <= n
        BY <3>2, <3>3, FS_Subset
      <3> HIDE DEF n
      <3> QED
        BY <1>0, <3>1, <3>4, <3>5 DEF H
    <2> QED
      BY <1>8, <2>1 DEF Searching
  <1> QED
    BY <1>7, <1>8 DEF y

-----------------------------------------------------------------------------
(* What the calls make of a tree.                                          *)

(* A block is found, split as far as it has to be, and taken.              *)
PlacedAt(t, u, pid, size, b, d) ==
    /\ FirstFit(t, b, size)
    /\ d \in Spots /\ Descending(t, b, size, d) /\ allocationSize(d.at) = size
    /\ u = Marked(d.tree, d.at, pid)
    /\ Shape(u) /\ NoneTwoFree(u)
    /\ d.at \in DOMAIN u /\ IsLeaf(u[d.at])
    /\ Holders(u, pid) = Holders(t, pid) \cup {d.at}
    /\ \A other \in Int \ {NoPid, pid} : Holders(u, other) = Holders(t, other)

(* A call that returns 0 does that.                                        *)
LEMMA PlacedIs ==
    ASSUME NEW t, Shape(t), NoneTwoFree(t), NEW pid \in Int, pid # NoPid, NEW size \in Powers,
           NEW u, Placed(t, u, pid, size)
    PROVE  \E b, d : PlacedAt(t, u, pid, size, b, d)
  <1>1. PICK b : /\ FirstFit(t, b, size)
                 /\ LET d == Descend(t, b, size) IN u = Marked(d.tree, d.at, pid)
    BY DEF Placed
  <1> DEFINE d == Descend(t, b, size)
             o == d.tree
             a == d.at
  <1>2. u = Marked(o, a, pid)
    BY <1>1
  <1>3. /\ d \in Spots /\ Descending(t, b, size, d) /\ allocationSize(a) = size
    BY <1>1, DescendEnds DEF FirstFit, Fits
  <1> HIDE DEF d
  <1>4. /\ Shape(o) /\ a \in DOMAIN o /\ FreeLeaf(o[a]) /\ SameHolders(t, o)
        /\ \A p \in DOMAIN o : TwoFree(o, p) => a \in {LowerHalf(p), UpperHalf(p)}
    BY <1>3 DEF Descending, Climbing
  <1>5. Shape(u) /\ IsLeaf(u[a])
    BY <1>2, <1>4, MarkHolds DEF FreeLeaf
  <1>6. /\ DOMAIN u = DOMAIN o /\ \A c \in DOMAIN o \ {a} : u[c] = o[c]
        /\ u[a].pid = pid /\ ~u[a].isFree
    BY <1>2, <1>4, MarkIs DEF Shape
  <1>7. ASSUME NEW p \in DOMAIN u, TwoFree(u, p)
        PROVE  FALSE
    <2>1. /\ Divided(u, p)
          /\ u[LowerHalf(p)].isFree /\ u[UpperHalf(p)].isFree
      BY <1>7 DEF TwoFree, FreeLeaf
    <2>2. LowerHalf(p) \in DOMAIN u /\ UpperHalf(p) \in DOMAIN u
      BY <1>5, <2>1, LeafHalves
    <2>3. p # a
      BY <1>5, <2>1, DividedOrLeaf DEF Shape, BlocksOK
    <2>4. LowerHalf(p) # a /\ UpperHalf(p) # a
      BY <1>6, <2>1
    <2>5. /\ u[p] = o[p] /\ p \in DOMAIN o
          /\ u[LowerHalf(p)] = o[LowerHalf(p)] /\ u[UpperHalf(p)] = o[UpperHalf(p)]
      BY <1>6, <2>2, <2>3, <2>4
    <2>6. TwoFree(o, p)
      BY <1>6, <1>7, <2>5 DEF TwoFree, Divided
    <2> QED
      BY <1>4, <2>4, <2>5, <2>6
  <1>8. NoneTwoFree(u)
    BY <1>7 DEF NoneTwoFree
  <1>9. o[a].isFree
    BY <1>4 DEF FreeLeaf
  <1>10. \A other \in Int \ {NoPid} : \A c :
            c \in Holders(u, other) <=> c \in Holders(o, other) \/ (c = a /\ other = pid)
    <2> HIDE DEF a, o
    <2> QED
      BY <1>4, <1>6, <1>9 DEF Holders
  <1>11. \A other \in Int \ {NoPid} : Holders(o, other) = Holders(t, other)
    BY <1>4 DEF SameHolders
  <1>12. \A c : c \in Holders(u, pid) <=> c \in Holders(t, pid) \cup {a}
    BY <1>10, <1>11
  <1>13. Holders(u, pid) = Holders(t, pid) \cup {a}
    <2> HIDE DEF a
    <2> QED
      BY <1>12
  <1>14. ASSUME NEW other \in Int \ {NoPid, pid}
         PROVE  Holders(u, other) = Holders(t, other)
    <2>1. \A c : c \in Holders(u, other) <=> c \in Holders(t, other)
      BY <1>10, <1>11
    <2> QED
      BY <2>1
  <1>15. PlacedAt(t, u, pid, size, b, d)
    BY <1>1, <1>2, <1>3, <1>4, <1>5, <1>6, <1>8, <1>13, <1>14 DEF PlacedAt
  <1> QED
    BY <1>15

(* The only holder is the one that is found.                               *)
LEMMA FoundIs ==
    ASSUME NEW t, NEW pid, NEW b \in Ranges, Holders(t, pid) = {b}
    PROVE  findBlockByPid(t, pid) = b
  <1>1. b.start = b.start /\ b.end >= b.end
    BY RangeFacts
  <1> QED
    BY <1>1 DEF findBlockByPid

(* Freeing takes the block from its holder and from nobody else, and       *)
(* leaves no two free halves.                                              *)
LEMMA FreedIs ==
    ASSUME NEW t, Shape(t), NoneTwoFree(t), NEW pid \in Int, pid # NoPid,
           NEW b, Holders(t, pid) = {b}
    PROVE  /\ Shape(Freed(t, pid)) /\ NoneTwoFree(Freed(t, pid))
           /\ Holders(Freed(t, pid), pid) = {}
           /\ \A other \in Int \ {NoPid, pid} : Holders(Freed(t, pid), other) = Holders(t, other)
  <1> DEFINE v == Unmarked(t, b)
             x == [tree |-> v, at |-> b]
             w == Iterate(Climb, x, TotalMemory)
             u == w.tree
  <1>1. b \in DOMAIN t /\ t[b].pid = pid /\ ~t[b].isFree
    BY DEF Holders
  <1>2. b \in Ranges /\ IsLeaf(t[b])
    BY <1>1 DEF Shape, BlocksOK, LeafOK, Divided
  <1>3. Freed(t, pid) = u
    <2>1. findBlockByPid(t, pid) = b
      BY <1>2, FoundIs
    <2> QED
      BY <2>1 DEF Freed, freeMemoryHelper
  <1>4. Shape(v) /\ FreeLeaf(v[b])
    BY <1>1, <1>2, UnmarkHolds
  <1>5. /\ DOMAIN v = DOMAIN t /\ v[b].isFree /\ v[b].pid = NoPid
        /\ \A c \in DOMAIN t \ {b} : v[c] = t[c]
    BY <1>1, UnmarkIs DEF Shape
  <1> HIDE DEF v
  <1>6. ASSUME NEW p \in DOMAIN v, TwoFree(v, p), b \notin {LowerHalf(p), UpperHalf(p)}
        PROVE  FALSE
    <2>1. Divided(v, p)
      BY <1>6 DEF TwoFree
    <2>2. LowerHalf(p) \in DOMAIN v /\ UpperHalf(p) \in DOMAIN v
      BY <1>4, <2>1, LeafHalves
    <2>3. p # b
      BY <1>4, <2>1, DividedOrLeaf DEF Shape, BlocksOK, FreeLeaf
    <2>4. /\ v[p] = t[p] /\ p \in DOMAIN t
          /\ v[LowerHalf(p)] = t[LowerHalf(p)] /\ v[UpperHalf(p)] = t[UpperHalf(p)]
      BY <1>5, <1>6, <2>2, <2>3
    <2>5. TwoFree(t, p)
      BY <1>5, <1>6, <2>4 DEF TwoFree, Divided
    <2> QED
      BY <2>4, <2>5 DEF NoneTwoFree
  <1>7. x \in Spots /\ x.tree = v /\ x.at = b
    BY <1>2, <1>4, ShapeIsTree DEF Spots
  <1> HIDE DEF x
  <1>8. Climbing(v, x)
    BY <1>1, <1>4, <1>5, <1>6, <1>7 DEF Climbing, SameHolders
  <1>9. Climbing(v, w) /\ NoneTwoFree(w.tree)
    BY <1>7, <1>8, ClimbEnds
  <1>10. Shape(u) /\ \A other \in Int \ {NoPid} : Holders(u, other) = Holders(v, other)
    <2> HIDE DEF w
    <2> QED
      BY <1>9 DEF Climbing, SameHolders
  <1> HIDE DEF w
  <1>11. Holders(v, pid) = {}
    <2>1. \A c : c \notin Holders(v, pid)
      <3> TAKE c
      <3>1. c \in Holders(v, pid) => c \in Holders(t, pid) /\ c # b
        BY <1>5 DEF Holders
      <3> QED
        BY <3>1
    <2> QED
      BY <2>1
  <1>12. ASSUME NEW other \in Int \ {NoPid, pid}
         PROVE  Holders(v, other) = Holders(t, other)
    <2>1. \A c : c \in Holders(v, other) <=> c \in Holders(t, other)
      BY <1>1, <1>5 DEF Holders
    <2> QED
      BY <2>1
  <1> QED
    BY <1>3, <1>9, <1>10, <1>11, <1>12

(* A probe that found a block leaves the tree as it was when it is undone. *)
LEMMA ProbeIsUndone ==
    ASSUME NEW t, Shape(t), NoneTwoFree(t), NEW size \in Powers, NEW u,
           Placed(t, u, Prober, size), Holders(t, Prober) = {}
    PROVE  Freed(u, Prober) = t
  <1>0. Prober \in Int /\ Prober # NoPid
    BY DEF Prober, NoPid
  <1>1. PICK b, d : PlacedAt(t, u, Prober, size, b, d)
    BY <1>0, PlacedIs
  <1> DEFINE o == d.tree
             a == d.at
  <1>2. /\ d \in Spots /\ Descending(t, b, size, d) /\ u = Marked(o, a, Prober)
        /\ Shape(u) /\ a \in DOMAIN u /\ Holders(u, Prober) = {a} /\ b \in DOMAIN t
        /\ FreeLeaf(t[b])
    BY <1>1 DEF PlacedAt, FirstFit, Fits
  <1>3. Shape(o) /\ a \in DOMAIN o /\ FreeLeaf(o[a]) /\ a \in Ranges
    BY <1>2 DEF Descending, Climbing, Spots
  <1>4. Freed(u, Prober) = Iterate(Climb, [tree |-> Unmarked(u, a), at |-> a], TotalMemory).tree
    <2>1. findBlockByPid(u, Prober) = a
      BY <1>2, <1>3, FoundIs
    <2> QED
      BY <2>1 DEF Freed, freeMemoryHelper
  <1>5. Unmarked(u, a) = o
    <2> DEFINE v == Unmarked(u, a)
    <2>1. /\ DOMAIN u = DOMAIN o /\ \A c \in DOMAIN o \ {a} : u[c] = o[c]
          /\ u[a].parent = o[a].parent /\ u[a].left = o[a].left /\ u[a].right = o[a].right
      BY <1>0, <1>2, <1>3, MarkIs DEF Shape
    <2>2. /\ DOMAIN v = DOMAIN u /\ v = [c \in DOMAIN u |-> v[c]]
          /\ \A c \in DOMAIN u \ {a} : v[c] = u[c]
          /\ v[a].isFree /\ v[a].parent = u[a].parent
      BY <1>2, UnmarkIs DEF Shape
    <2>3. Shape(v) /\ FreeLeaf(v[a])
      <3>1. IsLeaf(u[a])
        BY <2>1, <1>3 DEF FreeLeaf, IsLeaf
      <3> QED
        BY <1>2, <3>1, UnmarkHolds
    <2> HIDE DEF v
    <2>4. LeafOK(v, a) /\ LeafOK(o, a)
      <3>1. ~Divided(v, a) /\ ~Divided(o, a)
        BY <1>2, <1>3, <2>2, <2>3, DividedOrLeaf DEF FreeLeaf, Shape, BlocksOK
      <3> QED
        BY <1>2, <1>3, <2>2, <2>3, <3>1 DEF Shape
    <2>5. /\ v[a] = createEmptyBlock(v[a].parent)
          /\ o[a] = createEmptyBlock(o[a].parent)
      BY <1>2, <1>3, <2>2, <2>3, <2>4, FreeLeafIs DEF Shape, FreeLeaf
    <2>6. \A c \in DOMAIN o : v[c] = o[c]
      BY <2>1, <2>2, <2>5
    <2>7. o = [c \in DOMAIN o |-> o[c]]
      BY <1>3 DEF Shape, BlocksOK
    <2>8. v = o
      BY <2>1, <2>2, <2>6, <2>7
    <2> QED
      BY <2>8 DEF v
  <1>6. [tree |-> o, at |-> a] = d
    BY <1>2 DEF Spots
  <1> DEFINE y == [tree |-> t, at |-> b]
  <1>7. Climb(y) = y
    <2>1. y \in Spots /\ y.tree = t /\ y.at = b
      BY <1>2, ShapeIsTree DEF Spots, Shape, BlocksOK
    <2> HIDE DEF y
    <2>2. Climbing(t, y)
      BY <1>2, <2>1 DEF Climbing, NoneTwoFree, SameHolders
    <2> QED
      BY <2>1, <2>2, ClimbStep
  <1>8. PICK m \in Nat : m + allocationSize(a) <= allocationSize(b) /\ Back(d, y, m)
    BY <1>2 DEF Descending
  <1>9. TotalMemory \in Nat /\ m \in 0..TotalMemory
    <2>1. b \in Ranges
      BY <1>2 DEF Shape, BlocksOK
    <2>2. /\ allocationSize(a) \in Nat /\ allocationSize(b) \in Nat
          /\ allocationSize(b) <= TotalMemory
      BY <1>3, <2>1, RangeFacts
    <2>3. TotalMemory \in Nat
      BY SizesAssumption, PowerFacts
    <2> QED
      BY <1>8, <2>2, <2>3
  <1>10. Iterate(Climb, d, TotalMemory) = y
    <2> HIDE DEF y
    <2> QED
      BY <1>7, <1>8, <1>9, BackAll
  <1>11. Freed(u, Prober) = y.tree
    <2> HIDE DEF y, o, a
    <2> QED
      BY <1>4, <1>5, <1>6, <1>10
  <1> QED
    BY <1>11

-----------------------------------------------------------------------------
(* The inductive invariant.                                                *)

(* Nobody holds two blocks, and nobody but processes holds one.            *)
OneEach(t) ==
    \A pid \in Int \ {NoPid} :
        /\ \A b, c \in Holders(t, pid) : b = c
        /\ pid \notin Procs => Holders(t, pid) = {}

(* What each call finds and leaves.                                        *)
WholeTree(t) == Shape(t) /\ NoneTwoFree(t) /\ OneEach(t)

(* There is no tree after destroyMemory.                                   *)
TreeIInv == mainMemory = <<>> \/ WholeTree(mainMemory)

(* The pids of processes are neither NoPid nor the one of the probe.       *)
LEMMA Pids ==
    /\ \A p \in Procs : p \in Int \ {NoPid} /\ p # Prober
    /\ Prober \in Int \ {NoPid} /\ Prober \notin Procs
  <1>1. MaxProcs \in Nat
    BY SizesAssumption
  <1> QED
    BY <1>1 DEF Procs, Prober, NoPid

(* initMemory makes a tree that is whole.                                  *)
LEMMA FreshTree == WholeTree([b \in {Root} |-> createEmptyBlock(Nowhere)])
  <1> DEFINE t == [b \in {Root} |-> createEmptyBlock(Nowhere)]
             e == createEmptyBlock(Nowhere)
  <1>1. e \in MemoryBlocks /\ FreeLeaf(e) /\ e.pid = NoPid /\ e.isFree /\ e.parent = Nowhere
    BY EmptyBlock, RangeIsPointer DEF createEmptyBlock
  <1> HIDE DEF e
  <1>2. DOMAIN t = {Root} /\ t[Root] = e /\ t = [b \in DOMAIN t |-> t[b]]
    BY DEF e
  <1> HIDE DEF t
  <1>3. BlocksOK(t)
    BY <1>1, <1>2, RootRange DEF BlocksOK
  <1>4. LeafOK(t, Root) /\ KnownByParent(t, Root)
    BY <1>1, <1>2 DEF LeafOK, FreeLeaf, KnownByParent
  <1>5. Shape(t)
    BY <1>2, <1>3, <1>4 DEF Shape, Nested
  <1>6. ~Divided(t, Root)
    BY <1>2, <1>3, <1>4, DividedOrLeaf DEF BlocksOK, LeafOK
  <1>7. NoneTwoFree(t)
    BY <1>2, <1>6 DEF NoneTwoFree, TwoFree
  <1>8. \A pid : Holders(t, pid) = {}
    BY <1>1, <1>2 DEF Holders
  <1> QED
    BY <1>5, <1>7, <1>8 DEF WholeTree, OneEach, t

(* After destroyMemory nobody holds anything.                              *)
LEMMA NoTree == \A pid : Holders(<<>>, pid) = {}
  BY DEF Holders

(* allocateMemory keeps the tree whole.                                    *)
LEMMA AllocateWhole ==
    ASSUME NEW t, WholeTree(t), NEW p \in Procs, Holders(t, p) = {}, NEW size \in 1..MaxSize
    PROVE  WholeTree(allocateHelper(t, p, nextPowerOfTwo(size)).tree)
  <1> DEFINE z == nextPowerOfTwo(size)
             w == allocateHelper(t, p, z)
             u == w.tree
  <1>1. z \in Powers /\ p \in Int /\ p # NoPid
    BY RoundsUp, Pids
  <1> HIDE DEF z
  <1>2. \/ w.status = 0 /\ Placed(t, w.tree, p, z)
        \/ w.status = -1 /\ w.tree = t
    BY <1>1, HelperEnds DEF WholeTree
  <1> HIDE DEF w
  <1>3. CASE u = t
    BY <1>3 DEF w, z
  <1>4. CASE Placed(t, u, p, z)
    <2>1. PICK b, d : PlacedAt(t, u, p, z, b, d)
      BY <1>1, <1>4, PlacedIs DEF WholeTree
    <2>2. /\ Shape(u) /\ NoneTwoFree(u) /\ Holders(u, p) = {d.at}
          /\ \A other \in Int \ {NoPid, p} : Holders(u, other) = Holders(t, other)
      BY <2>1 DEF PlacedAt
    <2> HIDE DEF u
    <2>3. OneEach(u)
      BY <2>2 DEF WholeTree, OneEach
    <2>4. WholeTree(u)
      BY <2>2, <2>3 DEF WholeTree
    <2> QED
      BY <2>4 DEF u, w, z
  <1> QED
    BY <1>2, <1>3, <1>4

(* freeMemory keeps it whole and takes nothing from the others.            *)
LEMMA FreeWhole ==
    ASSUME NEW t, WholeTree(t), NEW p \in Procs, Holders(t, p) # {}
    PROVE  /\ WholeTree(Freed(t, p)) /\ Holders(Freed(t, p), p) = {}
           /\ \A other \in Int \ {NoPid, p} : Holders(Freed(t, p), other) = Holders(t, other)
  <1>1. p \in Int \ {NoPid}
    BY Pids
  <1>2. PICK b : Holders(t, p) = {b}
    <2>1. PICK b : b \in Holders(t, p)
      OBVIOUS
    <2>2. Holders(t, p) = {b}
      BY <1>1, <2>1 DEF WholeTree, OneEach
    <2> QED
      BY <2>2
  <1> DEFINE u == Freed(t, p)
  <1>3. /\ Shape(u) /\ NoneTwoFree(u) /\ Holders(u, p) = {}
        /\ \A other \in Int \ {NoPid, p} : Holders(u, other) = Holders(t, other)
    BY <1>1, <1>2, FreedIs DEF WholeTree
  <1> HIDE DEF u
  <1>4. OneEach(u)
    BY <1>3 DEF WholeTree, OneEach
  <1>5. WholeTree(u)
    BY <1>3, <1>4 DEF WholeTree
  <1> QED
    BY <1>3, <1>5 DEF u

(* canAllocate leaves the tree as it was.                                  *)
LEMMA ProbeWhole ==
    ASSUME NEW t, WholeTree(t), NEW size \in 1..MaxSize
    PROVE  LET call == allocateHelper(t, Prober, nextPowerOfTwo(size)) IN
           /\ ProbeUndone(call) = t
           /\ \/ call.status = 0 /\ \E c \in DOMAIN t : Fits(t, c, nextPowerOfTwo(size))
              \/ call.status = -1 /\ \A c \in DOMAIN t : ~Fits(t, c, nextPowerOfTwo(size))
  <1> DEFINE z == nextPowerOfTwo(size)
             w == allocateHelper(t, Prober, z)
  <1>1. z \in Powers /\ Prober \in Int /\ Prober # NoPid
    BY RoundsUp, Pids
  <1> HIDE DEF z
  <1>2. \/ w.status = 0 /\ Placed(t, w.tree, Prober, z)
        \/ w.status = -1 /\ w.tree = t /\ \A c \in DOMAIN t : ~Fits(t, c, z)
    BY <1>1, HelperEnds DEF WholeTree
  <1> HIDE DEF w
  <1>3. CASE w.status = 0 /\ Placed(t, w.tree, Prober, z)
    <2>1. Holders(t, Prober) = {}
      BY Pids DEF WholeTree, OneEach
    <2>2. Freed(w.tree, Prober) = t
      BY <1>1, <1>3, <2>1, ProbeIsUndone DEF WholeTree
    <2>3. ProbeUndone(w) = t
      BY <1>3, <2>2 DEF ProbeUndone
    <2>4. \E c \in DOMAIN t : Fits(t, c, z)
      BY <1>3 DEF Placed, FirstFit
    <2> QED
      BY <1>3, <2>3, <2>4 DEF w, z
  <1>4. CASE w.status = -1 /\ w.tree = t /\ \A c \in DOMAIN t : ~Fits(t, c, z)
    <2>1. ProbeUndone(w) = t
      BY <1>4 DEF ProbeUndone
    <2> QED
      BY <1>4, <2>1 DEF w, z
  <1> QED
    BY <1>2, <1>3, <1>4

(* The invariant is inductive.                                             *)
LEMMA TreeStep == TreeIInv /\ [Next]_treeVars => TreeIInv'
  <1> SUFFICES ASSUME TreeIInv, [Next]_treeVars PROVE TreeIInv'
    OBVIOUS
  <1>1. ASSUME NEW p \in Procs, NEW size \in 1..MaxSize, allocateMemory(p, size)
        PROVE  TreeIInv'
    <2>1. WholeTree(mainMemory) /\ Holders(mainMemory, p) = {}
      BY <1>1 DEF allocateMemory, TreeIInv, Found
    <2>2. WholeTree(mainMemory')
      BY <1>1, <2>1, AllocateWhole DEF allocateMemory
    <2> QED
      BY <2>2 DEF TreeIInv
  <1>2. ASSUME NEW p \in Procs, freeMemory(p)
        PROVE  TreeIInv'
    <2>1. CASE Holders(mainMemory, p) # {}
      <3>1. WholeTree(mainMemory)
        BY <2>1, NoTree DEF TreeIInv
      <3>2. WholeTree(mainMemory')
        BY <1>2, <2>1, <3>1, FreeWhole DEF freeMemory, Found
      <3> QED
        BY <3>2 DEF TreeIInv
    <2>2. CASE Holders(mainMemory, p) = {}
      BY <1>2, <2>2 DEF freeMemory, Found, TreeIInv
    <2> QED
      BY <2>1, <2>2
  <1>3. ASSUME NEW size \in 1..MaxSize, canAllocate(size)
        PROVE  TreeIInv'
    <2>1. WholeTree(mainMemory)
      BY <1>3 DEF canAllocate, TreeIInv
    <2>2. mainMemory' = mainMemory
      BY <1>3, <2>1, ProbeWhole DEF canAllocate
    <2> QED
      BY <2>1, <2>2 DEF TreeIInv
  <1>4. CASE destroyMemory
    BY <1>4 DEF destroyMemory, TreeIInv
  <1>5. CASE UNCHANGED treeVars
    BY <1>5 DEF treeVars, TreeIInv
  <1> QED
    BY <1>1, <1>2, <1>3, <1>4, <1>5 DEF Next

(* Each byte is in a leaf: the smallest block that it is in.               *)
LEMMA EachInLeaf ==
    ASSUME NEW t, Shape(t), NEW a \in 0..(TotalMemory - 1)
    PROVE  \E b \in DOMAIN t : IsLeaf(t[b]) /\ Within(a, b)
  <1> DEFINE S == {b \in DOMAIN t : Within(a, b)}
             N == {allocationSize(b) : b \in S}
  <1>0. \A b \in S : b \in Ranges /\ allocationSize(b) \in Nat /\ b \in DOMAIN t /\ Within(a, b)
    <2>1. \A b \in S : b \in Ranges
      BY DEF Shape, BlocksOK
    <2> QED
      BY <2>1, RangeFacts
  <1>1. Root \in S
    BY DEF Within, Shape, Root
  <1> HIDE DEF S
  <1>2. N \subseteq Nat /\ N # {}
    BY <1>0, <1>1
  <1>3. PICK n \in N : \A m \in N : n <= m
    <2> HIDE DEF N
    <2> QED
      BY <1>2, LeastNumber
  <1>4. PICK b \in S : n = allocationSize(b) /\ \A c \in S : allocationSize(b) <= allocationSize(c)
    BY <1>3
  <1>5. ASSUME ~IsLeaf(t[b]) PROVE FALSE
    <2> DEFINE low == LowerHalf(b)
               high == UpperHalf(b)
    <2>1. Divided(t, b)
      BY <1>0, <1>4, <1>5 DEF Shape, LeafOK
    <2>2. /\ low \in DOMAIN t /\ high \in DOMAIN t /\ b \in Ranges /\ allocationSize(b) > 1
      BY <1>0, <1>4, <2>1 DEF Divided
    <2>3. /\ Mid(b) \in Nat /\ low.start = b.start /\ low.end = Mid(b)
          /\ high.start = Mid(b) + 1 /\ high.end = b.end
          /\ 2 * allocationSize(low) = allocationSize(b)
          /\ allocationSize(high) = allocationSize(low)
          /\ low \in Ranges
      BY <2>2, HalfFacts
    <2>4. allocationSize(low) \in Nat /\ allocationSize(b) \in Nat
      BY <2>2, <2>3, RangeFacts
    <2> HIDE DEF low, high
    <2>5. Within(a, low) \/ Within(a, high)
      <3>1. Within(a, b) /\ a \in Int
        BY <1>0, <1>4
      <3> QED
        BY <2>3, <3>1 DEF Within
    <2>6. low \in S \/ high \in S
      BY <2>2, <2>5 DEF S
    <2> QED
      BY <1>4, <2>2, <2>3, <2>4, <2>6
  <1> QED
    BY <1>0, <1>4, <1>5

(* The invariant gives the property that the run checks.                   *)
LEMMA WholeIsWhole == TreeIInv => TreeWhole
  <1> SUFFICES ASSUME TreeIInv, mainMemory # <<>>
      PROVE  /\ \A a \in 0..(TotalMemory - 1) :
                   \E b \in Leaves : Within(a, b) /\ \A c \in Leaves : Within(a, c) => c = b
             /\ \A p \in DOMAIN mainMemory \ Leaves :
                   LET low == mainMemory[p].left
                       high == mainMemory[p].right
                   IN  /\ ~mainMemory[p].isFree /\ mainMemory[p].pid = NoPid
                       /\ {low, high} \subseteq DOMAIN mainMemory
                       /\ low.start = p.start /\ high.start = low.end + 1 /\ high.end = p.end
                       /\ allocationSize(low) = allocationSize(high)
                       /\ mainMemory[low].parent = p /\ mainMemory[high].parent = p
                       /\ ~(FreeLeaf(mainMemory[low]) /\ FreeLeaf(mainMemory[high]))
             /\ \A b \in Leaves :
                   /\ mainMemory[b].pid \in Procs \cup {NoPid}
                   /\ mainMemory[b].isFree <=> mainMemory[b].pid = NoPid
                   /\ \A c \in Leaves : mainMemory[b].pid = mainMemory[c].pid
                                           => b = c \/ mainMemory[b].pid = NoPid
    BY Zenon DEF TreeWhole
  <1> DEFINE t == mainMemory
  <1>1. WholeTree(t) /\ Shape(t) /\ BlocksOK(t)
    BY DEF TreeIInv, WholeTree, Shape
  <1>2. \A b : b \in Leaves <=> b \in DOMAIN t /\ IsLeaf(t[b])
    BY DEF Leaves
  <1> HIDE DEF t
  <1>3. ASSUME NEW a \in 0..(TotalMemory - 1)
        PROVE  \E b \in Leaves : Within(a, b) /\ \A c \in Leaves : Within(a, c) => c = b
    <2>1. PICK b \in Leaves : Within(a, b)
      BY <1>1, <1>2, EachInLeaf
    <2>2. ASSUME NEW c \in Leaves, Within(a, c), c # b
          PROVE  FALSE
      <3>1. Disjoint(b, c)
        BY <1>1, <1>2, <2>2, LeavesApart
      <3>2. b \in Ranges /\ c \in Ranges
        BY <1>1, <1>2 DEF BlocksOK
      <3>3. b.start \in Nat /\ b.end \in Nat /\ c.start \in Nat /\ c.end \in Nat
        BY <3>2, RangeFacts
      <3>4. a \in Int
        OBVIOUS
      <3> QED
        BY <2>1, <2>2, <3>1, <3>3, <3>4 DEF Disjoint, Within
    <2> QED
      BY <2>1, <2>2
  <1>4. ASSUME NEW p \in DOMAIN t \ Leaves
        PROVE  LET low == t[p].left
                   high == t[p].right
               IN  /\ ~t[p].isFree /\ t[p].pid = NoPid
                   /\ {low, high} \subseteq DOMAIN t
                   /\ low.start = p.start /\ high.start = low.end + 1 /\ high.end = p.end
                   /\ allocationSize(low) = allocationSize(high)
                   /\ t[low].parent = p /\ t[high].parent = p
                   /\ ~(FreeLeaf(t[low]) /\ FreeLeaf(t[high]))
    <2>1. Divided(t, p) /\ ~TwoFree(t, p)
      BY <1>1, <1>2 DEF WholeTree, NoneTwoFree, Shape, LeafOK
    <2>2. p \in Ranges
      BY <1>1 DEF BlocksOK
    <2>3. /\ LowerHalf(p).start = p.start /\ LowerHalf(p).end = Mid(p)
          /\ UpperHalf(p).start = Mid(p) + 1 /\ UpperHalf(p).end = p.end
          /\ allocationSize(LowerHalf(p)) = allocationSize(UpperHalf(p))
      BY <2>1, <2>2, HalfFacts DEF Divided
    <2> HIDE DEF Leaves
    <2>4. t[p].left = LowerHalf(p) /\ t[p].right = UpperHalf(p)
          /\ LowerHalf(p) \in DOMAIN t /\ UpperHalf(p) \in DOMAIN t
          /\ t[LowerHalf(p)].parent = p /\ t[UpperHalf(p)].parent = p
          /\ ~t[p].isFree /\ t[p].pid = NoPid
          /\ ~(FreeLeaf(t[LowerHalf(p)]) /\ FreeLeaf(t[UpperHalf(p)]))
      BY <2>1 DEF Divided, TwoFree
    <2> QED
      BY <2>3, <2>4
  <1>5. ASSUME NEW b \in Leaves
        PROVE  /\ t[b].pid \in Procs \cup {NoPid}
               /\ t[b].isFree <=> t[b].pid = NoPid
               /\ \A c \in Leaves : t[b].pid = t[c].pid => b = c \/ t[b].pid = NoPid
    <2>1. \A c \in Leaves : c \in DOMAIN t /\ t[c].pid \in Int /\ (t[c].isFree <=> t[c].pid = NoPid)
      <3>1. \A c \in Leaves : c \in DOMAIN t /\ ~Divided(t, c)
        BY <1>1, <1>2, DividedOrLeaf DEF BlocksOK
      <3> QED
        BY <1>1, <3>1 DEF Shape, LeafOK, BlocksOK, MemoryBlocks
    <2>2. \A c \in Leaves : t[c].pid # NoPid => c \in Holders(t, t[c].pid)
      BY <2>1 DEF Holders
    <2>3. OneEach(t)
      BY <1>1 DEF WholeTree
    <2>4. t[b].pid \in Procs \cup {NoPid}
      BY <2>1, <2>2, <2>3 DEF OneEach
    <2>5. \A c \in Leaves : t[b].pid = t[c].pid => b = c \/ t[b].pid = NoPid
      BY <2>1, <2>2, <2>3 DEF OneEach
    <2> QED
      BY <2>1, <2>4, <2>5
  <1> QED
    BY <1>3, <1>4, <1>5 DEF t

(* Whatever calls are made, in whatever order and with whatever sizes: the *)
(* leaves divide the memory among them, a block that is split has two      *)
(* halves that know it and are never both free, and no process holds two   *)
(* blocks nor a probe any.                                                 *)
THEOREM TreeIsWhole == Spec => []TreeWhole
  <1>1. initMemory => TreeIInv
    BY FreshTree DEF initMemory, TreeIInv
  <1> QED
    BY <1>1, TreeStep, WholeIsWhole, PTL DEF Spec

-----------------------------------------------------------------------------
(* The blocks of Memory.                                                   *)

(* Multiples grow with their factor.                                       *)
LEMMA Grows ==
    ASSUME NEW j \in Nat, NEW k \in Nat, NEW s \in Nat, j <= k
    PROVE  j * s <= k * s
  OBVIOUS

(* A multiple leaves no remainder.                                         *)
LEMMA NothingOver ==
    ASSUME NEW k \in Nat, NEW s \in Nat, s >= 1
    PROVE  (k * s) % s = 0
  OBVIOUS

(* A power of two is larger than its exponent.                             *)
LEMMA TwoIsLarger == \A e \in Nat : e < Two[e]
  <1> DEFINE U == {e \in Nat : ~(e < Two[e])}
  <1>1. ASSUME U # {} PROVE FALSE
    <2>1. PICK m \in U : \A k \in U : m <= k
      BY <1>1, LeastNumber
    <2>2. CASE m = 0
      BY <2>1, <2>2, TwoDoubles
    <2>3. CASE m # 0
      <3>1. m - 1 \in Nat /\ m - 1 < Two[m - 1] /\ (m - 1) + 1 = m
        BY <2>1, <2>3
      <3>2. Two[m] = 2 * Two[m - 1] /\ Two[m - 1] \in Nat
        BY <3>1, TwoDoubles
      <3> QED
        BY <2>1, <3>1, <3>2
    <2> QED
      BY <2>2, <2>3
  <1> QED
    BY <1>1

(* A range and the block of Memory are two forms of the same.              *)
AsBlock(b) == [start |-> b.start, size |-> allocationSize(b)]
AsRange(c) == [start |-> c.start, end |-> c.start + c.size - 1]

(* Each range is a block of Memory,                                        *)
LEMMA BlockOfRange ==
    ASSUME NEW b \in Ranges
    PROVE  AsBlock(b) \in Abstract!Blocks
  <1> DEFINE s == allocationSize(b)
             c == AsBlock(b)
  <1>1. /\ b.start \in Nat /\ b.end \in Nat /\ b.start <= b.end /\ s = b.end - b.start + 1
        /\ s \in Powers /\ s \in Nat /\ s >= 1 /\ b.end <= TotalMemory - 1
        /\ s <= TotalMemory /\ TotalMemory \in Nat
    BY RangeFacts, SizesAssumption, PowerFacts
  <1>2. PICK k \in Nat : b.start = k * s
    BY DEF Ranges
  <1>3. PICK e \in 0..(WordBits - 2) : s = Two[e]
    BY <1>1 DEF Powers
  <1>4. e \in 0..s
    BY <1>1, <1>3, TwoIsLarger
  <1> HIDE DEF s
  <1>5. c.start = b.start /\ c.size = s
    BY DEF AsBlock, s
  <1>6. c \in [start : 0..(TotalMemory - 1), size : 1..TotalMemory]
    <2>1. b.start \in 0..(TotalMemory - 1) /\ s \in 1..TotalMemory
      BY <1>1
    <2> QED
      BY <2>1 DEF AsBlock, s
  <1> HIDE DEF c
  <1>7. c.start + c.size <= TotalMemory
    BY <1>1, <1>5
  <1>8. c.start % c.size = 0
    <2>1. (k * s) % s = 0
      BY <1>1, NothingOver
    <2> QED
      BY <1>2, <1>5, <2>1
  <1>9. Abstract!Two = Two
    BY DEF Abstract!Two, Two
  <1>10. c.size \in {Abstract!Two[f] : f \in 0..c.size}
    BY <1>3, <1>4, <1>5, <1>9
  <1> QED
    BY <1>6, <1>7, <1>8, <1>10 DEF Abstract!Blocks, c

(* and each block of Memory is a range.                                    *)
LEMMA RangeOfBlock ==
    ASSUME NEW c \in Abstract!Blocks
    PROVE  /\ AsRange(c) \in Ranges /\ allocationSize(AsRange(c)) = c.size
           /\ AsRange(c).start = c.start /\ AsRange(c).end = c.start + c.size - 1
           /\ AsBlock(AsRange(c)) = c
           /\ c.start \in Nat /\ c.size \in Nat /\ c.size >= 1
  <1> DEFINE b == AsRange(c)
  <1>0. TotalMemory \in Nat /\ TotalMemory \in Powers
    BY SizesAssumption, PowerFacts
  <1>1. /\ c \in [start : 0..(TotalMemory - 1), size : 1..TotalMemory]
        /\ c.start + c.size <= TotalMemory /\ c.start % c.size = 0
        /\ c.size \in {Abstract!Two[f] : f \in 0..c.size}
    BY DEF Abstract!Blocks
  <1>2. /\ c.start \in Nat /\ c.size \in Nat /\ c.size >= 1 /\ c.start <= TotalMemory - 1
        /\ c.size <= TotalMemory /\ c = [start |-> c.start, size |-> c.size]
    BY <1>0, <1>1
  <1>3. Abstract!Two = Two
    BY DEF Abstract!Two, Two
  <1>4. PICK e \in 0..c.size : c.size = Two[e]
    BY <1>1, <1>3
  <1>5. PICK f \in 0..(WordBits - 2) : TotalMemory = Two[f]
    BY <1>0 DEF Powers
  <1>6. e \in Nat /\ f \in Nat /\ WordBits \in Nat
    BY <1>2, <1>4, <1>5, SizesAssumption
  <1>7. e <= f
    <2>1. CASE f < e
      <3>1. 2 * Two[f] <= Two[e] /\ Two[f] >= 1 /\ Two[f] \in Nat
        <4>1. f <= e /\ \A g \in Nat : Two[g] \in Nat /\ Two[g] >= 1
          BY <1>6, <2>1, TwoDoubles
        <4> QED
          BY <1>6, <2>1, <4>1, TwoGrows
      <3> QED
        BY <1>2, <1>4, <1>5, <3>1
    <2> QED
      BY <1>6, <2>1
  <1>8. c.size \in Powers
    BY <1>4, <1>5, <1>6, <1>7 DEF Powers
  <1>9. \E k \in Nat : c.start = k * c.size
    <2>1. c.start = (c.start \div c.size) * c.size /\ c.start \div c.size \in Nat
      BY <1>1, <1>2
    <2> QED
      BY <2>1
  <1>10. b.start = c.start /\ b.end = c.start + c.size - 1 /\ allocationSize(b) = c.size
         /\ b \in [start : Nat, end : 0..(TotalMemory - 1)]
    BY <1>0, <1>1, <1>2 DEF AsRange, allocationSize
  <1> HIDE DEF b
  <1>11. b \in Ranges
    BY <1>8, <1>9, <1>10 DEF Ranges
  <1>12. AsBlock(b) = c
    BY <1>2, <1>10 DEF AsBlock
  <1> QED
    BY <1>2, <1>10, <1>11, <1>12 DEF b

(* There is one power of two that a size is rounded up to.                 *)
LEMMA RoundedOnce ==
    ASSUME NEW n \in 1..MaxSize, NEW c \in Abstract!Blocks
    PROVE  Abstract!RoundedUp(c, n) <=> c.size = nextPowerOfTwo(n)
  <1> DEFINE z == nextPowerOfTwo(n)
             s == c.size
  <1>1. s \in Powers /\ s \in Nat
    BY RangeOfBlock, RangeFacts
  <1>2. z \in Powers /\ z \in Nat /\ n <= z /\ z < 2 * n
    BY RoundsUp, PowerFacts
  <1>3. /\ s < z => 2 * s <= z
        /\ z < s => 2 * z <= s
    <2> HIDE DEF s, z
    <2> QED
      BY <1>1, <1>2, PowerFacts
  <1>4. n \in Nat
    BY SizesAssumption
  <1>5. Abstract!RoundedUp(c, n) <=> n <= s /\ s < 2 * n
    BY DEF Abstract!RoundedUp
  <1> HIDE DEF s, z
  <1>6. (n <= s /\ s < 2 * n) <=> s = z
    BY <1>1, <1>2, <1>3, <1>4
  <1> QED
    BY <1>5, <1>6 DEF s, z

(* A smaller range inside a larger one is inside one of its halves.        *)
LEMMA InsideHalf ==
    ASSUME NEW r \in Ranges, NEW c \in Ranges, Inside(r, c), r # c
    PROVE  /\ allocationSize(c) > 1
           /\ Inside(r, LowerHalf(c)) \/ Inside(r, UpperHalf(c))
  <1> DEFINE s == allocationSize(r)
             v == allocationSize(c)
             h == v \div 2
  <1>1. /\ r.start \in Nat /\ r.end \in Nat /\ s = r.end - r.start + 1 /\ s \in Powers
        /\ s \in Nat /\ s >= 1 /\ r = [start |-> r.start, end |-> r.end]
    BY RangeFacts
  <1>2. /\ c.start \in Nat /\ c.end \in Nat /\ v = c.end - c.start + 1 /\ v \in Powers
        /\ v \in Nat /\ v >= 1 /\ c = [start |-> c.start, end |-> c.end]
    BY RangeFacts
  <1>3. PICK j \in Nat : r.start = j * s
    BY DEF Ranges
  <1>4. PICK k \in Nat : c.start = k * v
    BY DEF Ranges
  <1> HIDE DEF s, v
  <1>5. s < v
    BY <1>1, <1>2 DEF Inside
  <1>6. /\ v > 1 /\ h \in Powers /\ v = 2 * h /\ h \in Nat /\ s <= h
    <2>1. 2 * s <= v /\ v > 1
      BY <1>1, <1>2, <1>5, PowerFacts
    <2>2. h \in Powers /\ v = 2 * h
      BY <1>2, <2>1, PowerFacts
    <2>3. h \in Nat
      BY <2>2, PowerFacts
    <2> HIDE DEF h
    <2> QED
      BY <1>1, <1>2, <2>1, <2>2, <2>3
  <1> HIDE DEF h
  <1>7. PICK m \in Nat : m >= 1 /\ h = m * s
    BY <1>1, <1>6, PowerFacts
  <1> DEFINE M == (2 * k + 1) * m
  <1>8. M \in Nat /\ c.start + h = M * s
    <2>1. c.start + h = (2 * k + 1) * h
      BY <1>4, <1>6
    <2>2. (2 * k + 1) * (m * s) = ((2 * k + 1) * m) * s
      BY <1>1, <1>7
    <2>3. M \in Nat
      BY <1>7
    <2> QED
      BY <1>7, <2>1, <2>2, <2>3
  <1>9. /\ LowerHalf(c).start = c.start /\ LowerHalf(c).end = Mid(c)
        /\ UpperHalf(c).start = Mid(c) + 1 /\ UpperHalf(c).end = c.end
        /\ Mid(c) = c.start + h - 1
    <2>1. v = allocationSize(c)
      BY DEF v
    <2>2. /\ LowerHalf(c).start = c.start /\ LowerHalf(c).end = Mid(c)
          /\ UpperHalf(c).start = Mid(c) + 1 /\ UpperHalf(c).end = c.end
          /\ Mid(c) \in Nat /\ 2 * allocationSize(LowerHalf(c)) = v
          /\ LowerHalf(c) \in Ranges
      BY <1>6, <2>1, HalfFacts
    <2>3. allocationSize(LowerHalf(c)) = Mid(c) - c.start + 1
          /\ allocationSize(LowerHalf(c)) \in Nat
      BY <2>2, RangeFacts
    <2> QED
      BY <1>2, <1>6, <2>2, <2>3
  <1> HIDE DEF M
  <1>10. CASE j + 1 <= M
    <2>1. (j + 1) * s <= M * s
      <3>1. j + 1 \in Nat
        OBVIOUS
      <3> QED
        BY <1>1, <1>8, <1>10, <3>1, Grows
    <2>a. (j + 1) * s = r.start + s
      BY <1>1, <1>3
    <2>2. r.end <= Mid(c)
      BY <1>1, <1>2, <1>6, <1>8, <1>9, <2>1, <2>a
    <2> QED
      BY <1>6, <1>9, <2>2 DEF Inside, v
  <1>11. CASE M <= j
    <2>1. M * s <= j * s
      BY <1>1, <1>8, <1>11, Grows
    <2>2. Mid(c) + 1 <= r.start
      BY <1>1, <1>2, <1>3, <1>6, <1>8, <1>9, <2>1
    <2> QED
      BY <1>6, <1>9, <2>2 DEF Inside, v
  <1> QED
    BY <1>8, <1>10, <1>11

-----------------------------------------------------------------------------
(* Memory that is free is free in one piece.                               *)

(* No process holds any of r.                                              *)
Untouched(t, r) == \A q \in Procs : \A b \in Holders(t, q) : Disjoint(r, b)

(* A range that no process holds any of is in one free leaf: were its      *)
(* leaves several, two of them would be free halves of one block.          *)
LEMMA FreeIsWhole ==
    ASSUME NEW t, WholeTree(t), NEW r \in Ranges, Untouched(t, r)
    PROVE  \E c \in DOMAIN t : FreeLeaf(t[c]) /\ Inside(r, c)
  <1>0. /\ Shape(t) /\ NoneTwoFree(t) /\ OneEach(t)
        /\ \A c \in DOMAIN t : c \in Ranges
    BY DEF WholeTree, Shape, BlocksOK
  <1>a. \A c \in Ranges : /\ c.start \in Nat /\ c.end \in Nat /\ c.start <= c.end
                          /\ allocationSize(c) \in Nat
    BY RangeFacts
  <1>b. ASSUME NEW c \in DOMAIN t, IsLeaf(t[c]), ~Disjoint(r, c)
        PROVE  FreeLeaf(t[c])
    <2>1. ASSUME ~t[c].isFree PROVE FALSE
      <3>1. t[c].pid # NoPid /\ t[c].pid \in Int
        <4>1. ~Divided(t, c)
          BY <1>0, <1>b, DividedOrLeaf
        <4> QED
          BY <1>0, <2>1, <4>1 DEF Shape, LeafOK, BlocksOK, MemoryBlocks
      <3>2. c \in Holders(t, t[c].pid)
        BY <2>1 DEF Holders
      <3>3. t[c].pid \in Procs
        BY <1>0, <3>1, <3>2 DEF OneEach
      <3> QED
        BY <1>b, <3>2, <3>3 DEF Untouched
    <2> QED
      BY <1>b, <2>1 DEF FreeLeaf
  <1>c. ASSUME NEW c \in DOMAIN t, Divided(t, c)
        PROVE  /\ LowerHalf(c) \in DOMAIN t /\ UpperHalf(c) \in DOMAIN t
               /\ allocationSize(LowerHalf(c)) < allocationSize(c)
               /\ allocationSize(UpperHalf(c)) < allocationSize(c)
               /\ Inside(LowerHalf(c), c) /\ Inside(UpperHalf(c), c)
    <2>1. LowerHalf(c) \in DOMAIN t /\ UpperHalf(c) \in DOMAIN t /\ c \in Ranges
          /\ allocationSize(c) > 1
      BY <1>0, <1>c DEF Divided
    <2>2. /\ Mid(c) \in Nat /\ c.start <= Mid(c) /\ Mid(c) < c.end
          /\ LowerHalf(c).start = c.start /\ LowerHalf(c).end = Mid(c)
          /\ UpperHalf(c).start = Mid(c) + 1 /\ UpperHalf(c).end = c.end
          /\ 2 * allocationSize(LowerHalf(c)) = allocationSize(c)
          /\ allocationSize(UpperHalf(c)) = allocationSize(LowerHalf(c))
          /\ LowerHalf(c) \in Ranges
      BY <2>1, HalfFacts
    <2>3. allocationSize(LowerHalf(c)) \in Nat /\ allocationSize(LowerHalf(c)) >= 1
      BY <2>2, RangeFacts
    <2>4. c.start \in Nat /\ c.end \in Nat
      BY <1>a, <2>1
    <2> QED
      BY <2>1, <2>2, <2>3, <2>4 DEF Inside
  <1>d. ASSUME NEW D, D \subseteq DOMAIN t, D # {}
        PROVE  \E c \in D : \A e \in D : allocationSize(c) <= allocationSize(e)
    <2> DEFINE N == {allocationSize(c) : c \in D}
    <2>1. N \subseteq Nat /\ N # {}
      BY <1>0, <1>a, <1>d
    <2>2. PICK n \in N : \A m \in N : n <= m
      <3> HIDE DEF N
      <3> QED
        BY <2>1, LeastNumber
    <2> QED
      BY <2>2
  <1> DEFINE S == {c \in DOMAIN t : Inside(r, c)}
  <1>1. Root \in S
    <2>1. r.start >= 0 /\ r.end <= TotalMemory - 1
      BY RangeFacts
    <2> QED
      BY <1>0, <2>1 DEF Shape, Inside, Root
  <1>2. PICK c \in S : \A e \in S : allocationSize(c) <= allocationSize(e)
    <2>1. S \subseteq DOMAIN t /\ S # {}
      BY <1>1
    <2> HIDE DEF S
    <2> QED
      BY <1>d, <2>1
  <1>3. c \in DOMAIN t /\ Inside(r, c) /\ c \in Ranges
    BY <1>0
  <1>4. CASE IsLeaf(t[c])
    <2>1. ~Disjoint(r, c)
      BY <1>a, <1>3 DEF Disjoint, Inside
    <2> QED
      BY <1>b, <1>3, <1>4, <2>1
  <1>5. CASE ~IsLeaf(t[c])
    <2>1. Divided(t, c)
      BY <1>0, <1>3, <1>5 DEF Shape, LeafOK
    <2>2. r = c
      <3>1. SUFFICES ASSUME r # c PROVE FALSE
        OBVIOUS
      <3>2. Inside(r, LowerHalf(c)) \/ Inside(r, UpperHalf(c))
        BY <1>3, <3>1, InsideHalf
      <3>3. LowerHalf(c) \in S \/ UpperHalf(c) \in S
        BY <1>c, <1>3, <2>1, <3>2
      <3>4. /\ allocationSize(LowerHalf(c)) < allocationSize(c)
            /\ allocationSize(UpperHalf(c)) < allocationSize(c)
            /\ LowerHalf(c) \in DOMAIN t /\ UpperHalf(c) \in DOMAIN t
        BY <1>c, <1>3, <2>1
      <3>5. /\ allocationSize(LowerHalf(c)) \in Nat /\ allocationSize(UpperHalf(c)) \in Nat
            /\ allocationSize(c) \in Nat
        BY <1>0, <1>a, <1>3, <3>4
      <3> HIDE DEF S
      <3> QED
        BY <1>2, <3>3, <3>4, <3>5
    <2> DEFINE D == {e \in DOMAIN t : Divided(t, e) /\ Inside(e, r)}
    <2>3. D \subseteq DOMAIN t /\ r \in D
      BY <1>a, <1>3, <2>1, <2>2 DEF Inside
    <2>4. PICK e \in D : \A f \in D : allocationSize(e) <= allocationSize(f)
      <3> HIDE DEF D
      <3> QED
        BY <1>d, <2>3
    <2>5. e \in DOMAIN t /\ Divided(t, e) /\ Inside(e, r) /\ e \in Ranges
      BY <1>0
    <2>6. ASSUME NEW f \in {LowerHalf(e), UpperHalf(e)}
          PROVE  FreeLeaf(t[f])
      <3>1. f \in DOMAIN t /\ allocationSize(f) < allocationSize(e) /\ Inside(f, e)
        BY <1>c, <2>5
      <3>2. /\ f \in Ranges /\ f.start \in Nat /\ f.end \in Nat /\ f.start <= f.end
            /\ e.start \in Nat /\ e.end \in Nat /\ r.start \in Nat /\ r.end \in Nat
            /\ allocationSize(f) \in Nat /\ allocationSize(e) \in Nat
        BY <1>0, <1>a, <2>5, <3>1
      <3>3. Inside(f, r) /\ ~Disjoint(r, f)
        BY <2>5, <3>1, <3>2 DEF Inside, Disjoint
      <3>4. f \notin D
        <4> HIDE DEF D
        <4> QED
          BY <2>4, <3>1, <3>2
      <3>5. IsLeaf(t[f])
        BY <1>0, <3>1, <3>3, <3>4 DEF Shape, LeafOK
      <3> QED
        BY <1>b, <3>1, <3>3, <3>5
    <2>7. TwoFree(t, e)
      BY <2>5, <2>6 DEF TwoFree
    <2> QED
      BY <1>0, <2>5, <2>7 DEF NoneTwoFree
  <1> QED
    BY <1>4, <1>5

(* A block that will do has a range of any smaller size at its start.      *)
LEMMA StartOf ==
    ASSUME NEW b \in Ranges, NEW z \in Powers, z <= allocationSize(b)
    PROVE  LET r == [start |-> b.start, end |-> b.start + z - 1] IN
           r \in Ranges /\ Inside(r, b) /\ allocationSize(r) = z /\ r.start = b.start
  <1> DEFINE r == [start |-> b.start, end |-> b.start + z - 1]
             v == allocationSize(b)
  <1>1. /\ b.start \in Nat /\ b.end \in Nat /\ v = b.end - b.start + 1 /\ v \in Powers
        /\ v \in Nat /\ b.end <= TotalMemory - 1 /\ TotalMemory \in Nat
    BY RangeFacts, SizesAssumption, PowerFacts
  <1>2. z \in Nat /\ z >= 1
    BY PowerFacts
  <1>3. PICK k \in Nat : b.start = k * v
    BY DEF Ranges
  <1>4. PICK m \in Nat : m >= 1 /\ v = m * z
    BY <1>1, PowerFacts
  <1> HIDE DEF v
  <1>5. z <= v
    BY DEF v
  <1>6. b.start = (k * m) * z /\ k * m \in Nat
    BY <1>2, <1>3, <1>4
  <1>7. /\ r.start = b.start /\ r.end = b.start + z - 1 /\ allocationSize(r) = z
        /\ r \in [start : Nat, end : 0..(TotalMemory - 1)]
    BY <1>1, <1>2, <1>5 DEF allocationSize
  <1> HIDE DEF r
  <1>8. Inside(r, b)
    BY <1>1, <1>2, <1>5, <1>7 DEF Inside
  <1>9. r \in Ranges
    BY <1>6, <1>7 DEF Ranges
  <1> QED
    BY <1>7, <1>8, <1>9 DEF r

(* Whoever is inside of a free leaf is apart from all that are held.       *)
LEMMA LeafUntouched ==
    ASSUME NEW t, WholeTree(t), NEW c \in DOMAIN t, FreeLeaf(t[c]), NEW r \in Ranges, Inside(r, c)
    PROVE  Untouched(t, r)
  <1> SUFFICES ASSUME NEW q \in Procs, NEW b \in Holders(t, q)
      PROVE  Disjoint(r, b)
    BY DEF Untouched
  <1>1. b \in DOMAIN t /\ ~t[b].isFree /\ t[b].pid = q /\ q # NoPid
    BY Pids DEF Holders
  <1>2. IsLeaf(t[b]) /\ b # c /\ IsLeaf(t[c])
    BY <1>1 DEF WholeTree, Shape, LeafOK, Divided, FreeLeaf
  <1>3. Disjoint(c, b)
    BY <1>1, <1>2, LeavesApart DEF WholeTree
  <1>4. b \in Ranges /\ c \in Ranges
    BY <1>1 DEF WholeTree, Shape, BlocksOK
  <1>5. /\ b.start \in Nat /\ b.end \in Nat /\ c.start \in Nat /\ c.end \in Nat
        /\ r.start \in Nat /\ r.end \in Nat
    BY <1>4, RangeFacts
  <1> QED
    BY <1>3, <1>5 DEF Disjoint, Inside

-----------------------------------------------------------------------------
(* What Memory sees of the tree t.                                         *)

HeldIn(t) ==
    [p \in Procs |->
        IF Holders(t, p) # {}
        THEN LET b == findBlockByPid(t, p)
             IN  [start |-> b.start, size |-> allocationSize(b)]
        ELSE [start |-> 0, size |-> 0]]

(* It is what the refinement mapping of BuddyTree says.                    *)
LEMMA HeldIs == Held = HeldIn(mainMemory) /\ Held' = HeldIn(mainMemory')
  BY DEF Held, HeldIn, Found

(* A process holds one block or none.                                      *)
LEMMA HeldOf ==
    ASSUME NEW t, WholeTree(t), NEW p \in Procs
    PROVE  \/ Holders(t, p) = {} /\ HeldIn(t)[p] = Abstract!NoBlock
           \/ \E b \in Ranges : Holders(t, p) = {b} /\ HeldIn(t)[p] = AsBlock(b)
  <1>1. CASE Holders(t, p) = {}
    BY <1>1 DEF HeldIn, Abstract!NoBlock
  <1>2. CASE Holders(t, p) # {}
    <2>1. PICK b : b \in Holders(t, p)
      BY <1>2
    <2>2. Holders(t, p) = {b}
      BY <2>1, Pids DEF WholeTree, OneEach
    <2>3. b \in Ranges
      BY <2>1 DEF Holders, WholeTree, Shape, BlocksOK
    <2>4. findBlockByPid(t, p) = b
      BY <2>2, <2>3, FoundIs
    <2>5. HeldIn(t)[p] = AsBlock(b)
      BY <1>2, <2>4 DEF HeldIn, AsBlock
    <2> QED
      BY <2>2, <2>3, <2>5
  <1> QED
    BY <1>1, <1>2

(* To overlap what nobody holds is to be untouched.                        *)
LEMMA OverlapIs ==
    ASSUME NEW t, WholeTree(t), NEW c \in Abstract!Blocks
    PROVE  (\A q \in Procs : ~Abstract!Overlap(c, HeldIn(t)[q])) <=> Untouched(t, AsRange(c))
  <1> DEFINE r == AsRange(c)
  <1>1. /\ r \in Ranges /\ r.start = c.start /\ r.end = c.start + c.size - 1
        /\ c.start \in Nat /\ c.size \in Nat /\ c.size >= 1
    BY RangeOfBlock
  <1> HIDE DEF r
  <1>2. ASSUME NEW q \in Procs
        PROVE  ~Abstract!Overlap(c, HeldIn(t)[q]) <=> \A b \in Holders(t, q) : Disjoint(r, b)
    <2>1. CASE Holders(t, q) = {} /\ HeldIn(t)[q] = Abstract!NoBlock
      <3>1. ~(c.start < 0)
        BY <1>1
      <3> QED
        BY <1>1, <2>1, <3>1 DEF Abstract!Overlap, Abstract!NoBlock
    <2>2. ASSUME NEW b \in Ranges, Holders(t, q) = {b}, HeldIn(t)[q] = AsBlock(b)
          PROVE  ~Abstract!Overlap(c, HeldIn(t)[q]) <=> \A e \in Holders(t, q) : Disjoint(r, e)
      <3>1. b.start \in Nat /\ b.end \in Nat /\ allocationSize(b) = b.end - b.start + 1
        BY RangeFacts
      <3>2. AsBlock(b).start = b.start /\ AsBlock(b).size = allocationSize(b)
        BY DEF AsBlock
      <3>3. ~Abstract!Overlap(c, AsBlock(b)) <=> Disjoint(r, b)
        BY <1>1, <3>1, <3>2 DEF Abstract!Overlap, Disjoint
      <3> QED
        BY <2>2, <3>3
    <2> QED
      BY <2>1, <2>2, HeldOf
  <1> QED
    BY <1>2 DEF r, Untouched

(* The free blocks of Memory.                                              *)
LEMMA FreeBlocksAre ==
    ASSUME WholeTree(mainMemory), NEW n \in 1..MaxSize
    PROVE  \A c : c \in Abstract!FreeBlocks(n) <=>
                    /\ c \in Abstract!Blocks /\ c.size = nextPowerOfTwo(n)
                    /\ Untouched(mainMemory, AsRange(c))
  <1> TAKE c
  <1>1. Held = HeldIn(mainMemory) /\ Abstract!Procs = Procs
    BY HeldIs DEF Abstract!Procs, Procs
  <1>2. c \in Abstract!FreeBlocks(n) <=>
          /\ c \in Abstract!Blocks /\ Abstract!RoundedUp(c, n)
          /\ \A q \in Procs : ~Abstract!Overlap(c, HeldIn(mainMemory)[q])
    BY <1>1 DEF Abstract!FreeBlocks
  <1> QED
    BY <1>2, OverlapIs, RoundedOnce

(* Memory has a free block of the size when the tree has one that will do, *)
(* which is then not above it.                                             *)
LEMMA CanAllocateIs ==
    ASSUME WholeTree(mainMemory), NEW n \in 1..MaxSize
    PROVE  /\ Abstract!canAllocate(n) <=>
                \E c \in DOMAIN mainMemory : Fits(mainMemory, c, nextPowerOfTwo(n))
           /\ \A c \in Abstract!FreeBlocks(n) : \E b \in DOMAIN mainMemory :
                Fits(mainMemory, b, nextPowerOfTwo(n)) /\ b.start <= c.start
  <1> DEFINE t == mainMemory
             z == nextPowerOfTwo(n)
  <1>0. z \in Powers /\ z \in Nat
    BY RoundsUp, PowerFacts
  <1>a. \A c \in DOMAIN t : c \in Ranges
    BY DEF WholeTree, Shape, BlocksOK
  <1> HIDE DEF z
  <1>1. ASSUME NEW c \in Abstract!FreeBlocks(n)
        PROVE  \E b \in DOMAIN t : Fits(t, b, z) /\ b.start <= c.start
    <2>1. c \in Abstract!Blocks /\ c.size = z /\ Untouched(t, AsRange(c))
      BY <1>1, FreeBlocksAre DEF z
    <2>2. /\ AsRange(c) \in Ranges /\ allocationSize(AsRange(c)) = z
          /\ AsRange(c).start = c.start /\ AsRange(c).end = c.start + c.size - 1
          /\ c.start \in Nat
      BY <2>1, RangeOfBlock
    <2>3. PICK b \in DOMAIN t : FreeLeaf(t[b]) /\ Inside(AsRange(c), b)
      BY <2>1, <2>2, FreeIsWhole
    <2>4. b \in Ranges /\ b.start \in Nat /\ b.end \in Nat
          /\ allocationSize(b) = b.end - b.start + 1
      BY <1>a, RangeFacts
    <2>5. z <= allocationSize(b) /\ b.start <= c.start
      BY <1>0, <2>1, <2>2, <2>3, <2>4 DEF Inside
    <2> QED
      BY <2>3, <2>5 DEF Fits
  <1>2. ASSUME NEW b \in DOMAIN t, Fits(t, b, z)
        PROVE  Abstract!FreeBlocks(n) # {}
    <2> DEFINE r == [start |-> b.start, end |-> b.start + z - 1]
               c == AsBlock(r)
    <2>1. b \in Ranges /\ FreeLeaf(t[b]) /\ z <= allocationSize(b)
      BY <1>a, <1>2 DEF Fits
    <2>2. r \in Ranges /\ Inside(r, b) /\ allocationSize(r) = z
      BY <1>0, <2>1, StartOf
    <2>3. Untouched(t, r)
      <3> HIDE DEF r
      <3> QED
        BY <2>1, <2>2, LeafUntouched
    <2>4. c \in Abstract!Blocks
      <3> HIDE DEF r
      <3> QED
        BY <2>2, BlockOfRange
    <2>5. c.size = z /\ AsRange(c) = r
      <3>1. c.size = allocationSize(r) /\ c.start = b.start
        BY DEF AsBlock
      <3>2. AsRange(c) = [start |-> c.start, end |-> c.start + c.size - 1]
        BY DEF AsRange
      <3> HIDE DEF c
      <3> QED
        BY <2>2, <3>1, <3>2
    <2> HIDE DEF c, r
    <2>6. c \in Abstract!FreeBlocks(n)
      BY <2>3, <2>4, <2>5, FreeBlocksAre DEF z
    <2> QED
      BY <2>6
  <1> QED
    BY <1>1, <1>2 DEF z, Abstract!canAllocate

-----------------------------------------------------------------------------
(* The tree implements Memory.                                             *)

(* In the beginning nobody holds anything.                                 *)
LEMMA InitHeld == initMemory => Abstract!MemoryInit
  <1> SUFFICES ASSUME initMemory PROVE Abstract!MemoryInit
    OBVIOUS
  <1>1. \A p \in Procs : Holders(mainMemory, p) = {}
    <2> TAKE p \in Procs
    <2>1. \A b \in DOMAIN mainMemory : mainMemory[b].isFree
      BY DEF initMemory, createEmptyBlock
    <2> QED
      BY <2>1 DEF Holders
  <1>2. Held = [p \in Procs |-> [start |-> 0, size |-> 0]]
    BY <1>1 DEF Held, Found
  <1> QED
    BY <1>2 DEF Abstract!MemoryInit, Abstract!NoBlock, Abstract!Procs, Procs

(* allocateMemory takes the lowest free block of the size, as Memory does. *)
LEMMA AllocateHeld ==
    ASSUME TreeIInv, NEW p \in Procs, NEW size \in 1..MaxSize, allocateMemory(p, size)
    PROVE  Abstract!MemoryNext \/ Held' = Held
  <1> DEFINE t == mainMemory
             u == mainMemory'
             z == nextPowerOfTwo(size)
             w == allocateHelper(t, p, z)
  <1>1. WholeTree(t) /\ Holders(t, p) = {} /\ u = w.tree
    BY DEF allocateMemory, TreeIInv, Found
  <1>2. z \in Powers /\ z \in Nat /\ size <= z /\ p \in Int /\ p # NoPid /\ size \in Nat
        /\ size >= 1
        /\ TotalMemory \in Nat
    BY RoundsUp, Pids, PowerFacts, SizesAssumption
  <1> HIDE DEF z
  <1>3. \/ w.status = 0 /\ Placed(t, w.tree, p, z)
        \/ w.status = -1 /\ w.tree = t /\ \A c \in DOMAIN t : ~Fits(t, c, z)
    BY <1>1, <1>2, HelperEnds DEF WholeTree
  <1> HIDE DEF w, u
  <1>a. Held = HeldIn(t) /\ Held' = HeldIn(u)
    BY HeldIs DEF u
  <1>4. CASE w.tree = t
    BY <1>1, <1>4, <1>a
  <1>5. CASE Placed(t, w.tree, p, z)
    <2>1. PICK b, d : PlacedAt(t, u, p, z, b, d)
      BY <1>1, <1>2, <1>5, PlacedIs DEF WholeTree
    <2> DEFINE a == d.at
               c == AsBlock(a)
    <2>2. /\ FirstFit(t, b, z) /\ a \in Ranges /\ allocationSize(a) = z
          /\ a.start = b.start /\ a.end <= b.end
          /\ Holders(u, p) = {a}
          /\ \A other \in Int \ {NoPid, p} : Holders(u, other) = Holders(t, other)
      BY <1>1, <2>1 DEF PlacedAt, Descending, Spots
    <2> HIDE DEF a
    <2>3. /\ b \in DOMAIN t /\ FreeLeaf(t[b]) /\ z <= allocationSize(b) /\ b \in Ranges
          /\ \A e \in DOMAIN t : Fits(t, e, z) => b.start <= e.start
      BY <1>1, <2>2 DEF FirstFit, Fits, WholeTree, Shape, BlocksOK
    <2>4. b.start \in Nat /\ b.end \in Nat /\ allocationSize(b) <= TotalMemory
          /\ a.start \in Nat /\ a.end \in Nat /\ z = a.end - a.start + 1
          /\ a = [start |-> a.start, end |-> a.end] /\ allocationSize(b) \in Nat
      BY <2>2, <2>3, RangeFacts
    <2>5. Untouched(t, a)
      <3>1. Inside(a, b)
        BY <2>2, <2>4 DEF Inside
      <3> QED
        BY <1>1, <2>2, <2>3, <3>1, LeafUntouched
    <2>6. c \in Abstract!Blocks /\ c.size = z /\ c.start = b.start /\ AsRange(c) = a
      <3>1. c \in Abstract!Blocks
        BY <2>2, BlockOfRange
      <3>2. c.size = z /\ c.start = a.start
        BY <2>2 DEF AsBlock
      <3>3. AsRange(c) = [start |-> c.start, end |-> c.start + c.size - 1]
        BY DEF AsRange
      <3> HIDE DEF c
      <3>4. c.start + c.size - 1 = a.end
        BY <2>4, <3>2
      <3> QED
        BY <2>2, <2>4, <3>1, <3>2, <3>3, <3>4
    <2>7. findBlockByPid(u, p) = a
      BY <2>2, FoundIs
    <2>8. Held' = [Held EXCEPT ![p] = c]
      <3>1. \A q \in Procs : HeldIn(u)[q] = IF q = p THEN c ELSE HeldIn(t)[q]
        <4> TAKE q \in Procs
        <4>1. CASE q = p
          BY <2>2, <2>7, <4>1 DEF HeldIn, AsBlock
        <4>2. CASE q # p
          <5>1. q \in Int \ {NoPid, p}
            BY <4>2, Pids
          <5>2. Holders(u, q) = Holders(t, q)
            BY <2>2, <5>1
          <5>3. findBlockByPid(u, q) = findBlockByPid(t, q)
            BY <5>2 DEF findBlockByPid
          <5> QED
            BY <4>2, <5>2, <5>3 DEF HeldIn
        <4> QED
          BY <4>1, <4>2
      <3>2. HeldIn(u) = [q \in Procs |-> HeldIn(u)[q]] /\ HeldIn(t) = [q \in Procs |-> HeldIn(t)[q]]
        BY DEF HeldIn
      <3> HIDE DEF c
      <3>3. HeldIn(u) = [HeldIn(t) EXCEPT ![p] = c]
        BY <3>1, <3>2
      <3> QED
        BY <1>a, <3>3
    <2> HIDE DEF c, u, t
    <2>9. c \in Abstract!FreeBlocks(size)
      BY <1>1, <2>5, <2>6, FreeBlocksAre DEF t, z
    <2>10. \A e \in Abstract!FreeBlocks(size) : c.start <= e.start
      <3> TAKE e \in Abstract!FreeBlocks(size)
      <3>1. PICK f \in DOMAIN t : Fits(t, f, z) /\ f.start <= e.start
        BY <1>1, CanAllocateIs DEF t, z
      <3>2. b.start <= f.start
        BY <2>3, <3>1
      <3>3. f.start \in Nat /\ e.start \in Nat
        <4>1. f \in Ranges /\ e \in Abstract!Blocks
          BY <1>1, FreeBlocksAre DEF WholeTree, Shape, BlocksOK, t
        <4> QED
          BY <4>1, RangeFacts, RangeOfBlock
      <3> QED
        BY <2>4, <2>6, <3>1, <3>2, <3>3
    <2>11. Abstract!allocateMemory(p, size)
      BY <2>8, <2>9, <2>10 DEF Abstract!allocateMemory
    <2>12. size \in 1..(TotalMemory + 1) /\ p \in Abstract!Procs
      BY <1>2, <2>3, <2>4 DEF Abstract!Procs, Procs
    <2> QED
      BY <2>11, <2>12 DEF Abstract!MemoryNext
  <1> QED
    BY <1>3, <1>4, <1>5

(* freeMemory is that of Memory.                                           *)
LEMMA FreeHeld ==
    ASSUME TreeIInv, NEW p \in Procs, freeMemory(p)
    PROVE  Abstract!MemoryNext \/ Held' = Held
  <1> DEFINE t == mainMemory
             u == mainMemory'
  <1>1. CASE Holders(t, p) = {}
    <2>1. mainMemory' = mainMemory
      BY <1>1 DEF freeMemory, Found
    <2> QED
      BY <2>1, HeldIs
  <1>2. CASE Holders(t, p) # {}
    <2>1. u = Freed(t, p) /\ WholeTree(t)
      BY <1>2, NoTree DEF freeMemory, Found, TreeIInv
    <2>2. /\ Holders(u, p) = {}
          /\ \A other \in Int \ {NoPid, p} : Holders(u, other) = Holders(t, other)
      BY <1>2, <2>1, FreeWhole
    <2> HIDE DEF u, t
    <2>3. \A q \in Procs : HeldIn(u)[q] = IF q = p THEN Abstract!NoBlock ELSE HeldIn(t)[q]
      <3> TAKE q \in Procs
      <3>1. CASE q = p
        BY <2>2, <3>1 DEF HeldIn, Abstract!NoBlock
      <3>2. CASE q # p
        <4>1. q \in Int \ {NoPid, p}
          BY <3>2, Pids
        <4>2. Holders(u, q) = Holders(t, q)
          BY <2>2, <4>1
        <4>3. findBlockByPid(u, q) = findBlockByPid(t, q)
          BY <4>2 DEF findBlockByPid
        <4> QED
          BY <3>2, <4>2, <4>3 DEF HeldIn
      <3> QED
        BY <3>1, <3>2
    <2>4. HeldIn(u) = [q \in Procs |-> HeldIn(u)[q]] /\ HeldIn(t) = [q \in Procs |-> HeldIn(t)[q]]
      BY DEF HeldIn
    <2>5. HeldIn(u) = [HeldIn(t) EXCEPT ![p] = Abstract!NoBlock]
      BY <2>3, <2>4
    <2>6. Held = HeldIn(t) /\ Held' = HeldIn(u)
      BY HeldIs DEF t, u
    <2>7. Abstract!freeMemory(p)
      BY <2>5, <2>6 DEF Abstract!freeMemory
    <2>8. p \in Abstract!Procs
      BY DEF Abstract!Procs, Procs
    <2> QED
      BY <2>7, <2>8 DEF Abstract!MemoryNext
  <1> QED
    BY <1>1, <1>2

(* So is destroyMemory.                                                    *)
LEMMA DestroyHeld == destroyMemory => Abstract!MemoryNext
  <1> SUFFICES ASSUME destroyMemory PROVE Abstract!MemoryNext
    OBVIOUS
  <1>1. Held' = HeldIn(<<>>)
    BY HeldIs DEF destroyMemory
  <1>2. HeldIn(<<>>) = [p \in Procs |-> [start |-> 0, size |-> 0]]
    BY NoTree DEF HeldIn
  <1> QED
    BY <1>1, <1>2
       DEF Abstract!MemoryNext, Abstract!destroyMemory, Abstract!NoBlock, Abstract!Procs, Procs

(* canAllocate changes nothing, and its answer is that of Memory.          *)
LEMMA ProbeAnswers ==
    ASSUME TreeIInv, NEW size \in 1..MaxSize, canAllocate(size)
    PROVE  /\ mainMemory' = mainMemory
           /\ answer'.status = 0 <=> Abstract!canAllocate(answer'.size)
  <1> DEFINE t == mainMemory
             z == nextPowerOfTwo(size)
             call == allocateHelper(t, Prober, z)
  <1>1. WholeTree(t) /\ mainMemory' = ProbeUndone(call)
        /\ answer' = [size |-> size, status |-> call.status]
    BY DEF canAllocate, TreeIInv
  <1>2. /\ ProbeUndone(call) = t
        /\ \/ call.status = 0 /\ \E c \in DOMAIN t : Fits(t, c, z)
           \/ call.status = -1 /\ \A c \in DOMAIN t : ~Fits(t, c, z)
    BY <1>1, ProbeWhole
  <1> HIDE DEF call
  <1>3. Abstract!canAllocate(size) <=> \E c \in DOMAIN t : Fits(t, c, z)
    BY <1>1, CanAllocateIs
  <1> HIDE DEF z
  <1>4. call.status = 0 <=> Abstract!canAllocate(size)
    BY <1>2, <1>3
  <1> QED
    BY <1>1, <1>2, <1>4

(* The tree does what Memory promises, whatever the sizes: what the runs   *)
(* and the proofs of the composition build on.                             *)
THEOREM TreeImplementsMemory == Spec => ImplementsMemory
  <1>1. initMemory => TreeIInv
    BY FreshTree DEF initMemory, TreeIInv
  <1>2. TreeIInv /\ [Next]_treeVars => [Abstract!MemoryNext]_Held
    <2> SUFFICES ASSUME TreeIInv, [Next]_treeVars PROVE Abstract!MemoryNext \/ Held' = Held
      BY Zenon
    <2>1. ASSUME NEW size \in 1..MaxSize, canAllocate(size)
          PROVE  Held' = Held
      BY <2>1, ProbeAnswers, HeldIs
    <2>2. CASE UNCHANGED treeVars
      BY <2>2, HeldIs DEF treeVars
    <2> QED
      BY <2>1, <2>2, AllocateHeld, FreeHeld, DestroyHeld DEF Next
  <1> QED
    BY <1>1, <1>2, InitHeld, TreeStep, PTL DEF Spec, ImplementsMemory, Abstract!MemorySpec

(* canAllocate says 0 exactly when there is a block to be had, and leaves  *)
(* no trace, whatever the tree it is asked of.                             *)
THEOREM ProbeIsTruthful == Spec => ProbeTruthful
  <1> DEFINE Truthful ==
        answer' # NotAsked =>
          /\ mainMemory' = mainMemory
          /\ answer'.status = 0 <=> Abstract!canAllocate(answer'.size)
  <1>1. initMemory => TreeIInv
    BY FreshTree DEF initMemory, TreeIInv
  <1>2. TreeIInv /\ [Next]_treeVars => [Truthful]_treeVars
    <2> SUFFICES ASSUME TreeIInv, Next PROVE Truthful
      BY Zenon
    <2>1. ASSUME NEW size \in 1..MaxSize, canAllocate(size)
          PROVE  Truthful
      BY <2>1, ProbeAnswers
    <2>2. ASSUME answer' = NotAsked PROVE Truthful
      BY <2>2
    <2> HIDE DEF Truthful
    <2> QED
      BY <2>1, <2>2 DEF Next, allocateMemory, freeMemory, destroyMemory
  <1> QED
    BY <1>1, <1>2, TreeStep, PTL DEF Spec, ProbeTruthful
=============================================================================
