---------------------------- MODULE StoreProofs -------------------------------
(*****************************************************************************)
(* Proofs about the data of the scheduler.  First its structures: the list   *)
(* of node.c and list.c, the ring of circularQueue.c and the heap of         *)
(* minheap.c hold what was put into them and was not taken out, in their     *)
(* order.  Then ReadyStore: table, queue, PCBs and segments always agree,    *)
(* and the queue of the scheduler, whether ring or heap, is the ordered      *)
(* queue that ReadyQueue specifies.  For every number of processes, running  *)
(* time and priority, and every order of calls.                              *)
(*****************************************************************************)
EXTENDS LoopProofs, ReadyStore, FiniteSetTheorems, FunctionTheorems

-----------------------------------------------------------------------------
(* Linked nodes.                                                           *)

(* What the nodes point at.                                                *)
Data(nodes) == {nodes[a].data : a \in DOMAIN nodes}

(* The nodes hold different data.                                          *)
Distinct(nodes) == \A a, b \in DOMAIN nodes : nodes[a].data = nodes[b].data => a = b

NodesOK(nodes) ==
    nodes \in [DOMAIN nodes -> [data : Procs, next : Addresses \cup {NULL}]]

(* s visits the n nodes there are, following the links, and the last one   *)
(* leads to end.                                                           *)
Linked(nodes, s, n, end) ==
    /\ n \in Nat
    /\ s \in [1..n -> Addresses]
    /\ \A i, j \in 1..n : s[i] = s[j] => i = j
    /\ DOMAIN nodes = {s[i] : i \in 1..n}
    /\ NodesOK(nodes)
    /\ \A i \in 1..(n - 1) : nodes[s[i]].next = s[i + 1]
    /\ n > 0 => nodes[s[n]].next = end

(* There are as many nodes as are visited.                                 *)
LEMMA LinkedSize ==
    ASSUME NEW nodes, NEW s, NEW n, NEW end, Linked(nodes, s, n, end)
    PROVE  IsFiniteSet(DOMAIN nodes) /\ Cardinality(DOMAIN nodes) = n
  <1>1. n \in Nat /\ s \in Bijection(1..n, DOMAIN nodes)
    BY Fun_IsBij DEF Linked
  <1>2. ExistsBijection(1..n, DOMAIN nodes)
    BY <1>1 DEF ExistsBijection
  <1> QED
    BY <1>1, <1>2, FS_CountingElements, FS_NatBijection

(* With different data, there are as many data as nodes.                   *)
LEMMA DataSize ==
    ASSUME NEW nodes, IsFiniteSet(DOMAIN nodes), Distinct(nodes)
    PROVE  IsFiniteSet(Data(nodes)) /\ Cardinality(Data(nodes)) = Cardinality(DOMAIN nodes)
  <1> DEFINE f == [a \in DOMAIN nodes |-> nodes[a].data]
  <1>1. f \in Bijection(DOMAIN nodes, Data(nodes))
    BY Fun_IsBij DEF Data, Distinct
  <1> QED
    BY <1>1, FS_Bijection DEF ExistsBijection

(* malloc finds an address that is not in use.                             *)
LEMMA FreshIsNew ==
    ASSUME NEW nodes, DOMAIN nodes \subseteq Addresses, IsFiniteSet(DOMAIN nodes),
           Cardinality(DOMAIN nodes) < MaxProcs, MaxProcs \in Nat
    PROVE  Fresh(nodes) \in Addresses \ DOMAIN nodes
  <1>1. Cardinality(Addresses) = MaxProcs
    BY FS_Interval DEF Addresses, Procs
  <1>2. \E a \in Addresses : a \notin DOMAIN nodes
    BY <1>1
  <1> QED
    BY <1>2 DEF Fresh

(* The walk finds the nodes in their order.                                *)
LEMMA ChainIs ==
    ASSUME NEW nodes, NEW s, NEW n, Linked(nodes, s, n, NULL),
           NEW a, a = IF n = 0 THEN NULL ELSE s[1]
    PROVE  Chain(nodes, a) = s /\ Len(s) = n /\ DOMAIN s = 1..n
  <1> DEFINE to(k) == [i \in 1..k |-> s[i]]
             at(k) == IF k < n THEN s[k + 1] ELSE NULL
             T == [k \in 0..n |-> {[path |-> to(k), at |-> at(k)]}]
             D == UNION {T[k] : k \in 0..n}
             step == [w \in D |-> Hop(nodes, w)]
             x == [path |-> <<>>, at |-> a]
             hop(w) == Hop(nodes, w)
  <1>0. n \in Nat /\ Cardinality(DOMAIN nodes) = n
    BY LinkedSize DEF Linked
  <1>a. \A k \in 0..n : T[k] = {[path |-> to(k), at |-> at(k)]} /\ T[k] \subseteq D
    OBVIOUS
  <1>1. x \in T[0]
    BY <1>0, <1>a
  <1>2. \A k \in 1..n : \A w \in T[k - 1] : hop(w) \in T[k] /\ step[w] = hop(w)
    <2> TAKE k \in 1..n
    <2>1. at(k - 1) = s[k] /\ s[k] # NULL /\ nodes[s[k]].next = at(k)
      <3>1. /\ k \in Nat /\ k - 1 < n /\ (k - 1) + 1 = k
            /\ k < n => k \in 1..(n - 1)
            /\ k >= n => k = n
        BY <1>0
      <3>2. s[k] \in Addresses
        BY <1>0 DEF Linked
      <3>3. s[k] # NULL
        BY <3>2 DEF Addresses, Procs, NULL
      <3>4. at(k - 1) = s[k]
        BY <3>1
      <3>5. nodes[s[k]].next = at(k)
        BY <3>1 DEF Linked
      <3> QED
        BY <3>3, <3>4, <3>5
    <2>2. Append(to(k - 1), s[k]) = to(k)
      <3>1. to(k - 1) \in Seq(Addresses) /\ Len(to(k - 1)) = k - 1
        BY <1>0 DEF Linked
      <3> QED
        BY <1>0, <3>1 DEF Linked
    <2>3. k - 1 \in 0..n
      BY <1>0
    <2>4. hop([path |-> to(k - 1), at |-> at(k - 1)]) = [path |-> to(k), at |-> at(k)]
      BY <2>1, <2>2 DEF Hop
    <2>5. ASSUME NEW w \in T[k - 1]
          PROVE  hop(w) \in T[k] /\ step[w] = hop(w)
      <3>1. w = [path |-> to(k - 1), at |-> at(k - 1)] /\ w \in D
        BY <1>a, <2>3, <2>5
      <3> HIDE DEF T, D, to, at
      <3> QED
        BY <1>a, <2>4, <3>1
    <2> QED
      BY <2>5
  <1>3. \E f : f = [k \in 0..n |-> IF k = 0 THEN x ELSE hop(f[k - 1])]
    <2> HIDE DEF T, x, step
    <2>a. \A k \in 1..n : \A w \in T[k - 1] : step[w] \in T[k]
      BY <1>2
    <2>1. PICK f : IsRun(f, step, x, n) /\ \A k \in 0..n : f[k] \in T[k]
      BY <1>0, <1>1, <2>a, LoopRuns
    <2>2. \A k \in 1..n : step[f[k - 1]] = hop(f[k - 1])
      BY <1>0, <1>2, <2>1
    <2> HIDE DEF hop
    <2>3. \A k \in 0..n : (IF k = 0 THEN x ELSE step[f[k - 1]])
                           = (IF k = 0 THEN x ELSE hop(f[k - 1]))
      BY <1>0, <2>2
    <2>4. f = [k \in 0..n |-> IF k = 0 THEN x ELSE hop(f[k - 1])]
      BY <2>1, <2>3, Zenon DEF IsRun
    <2> QED
      BY <2>4
  <1>4. ASSUME NEW f, f = [k \in 0..n |-> IF k = 0 THEN x ELSE hop(f[k - 1])]
        PROVE  f[n] \in T[n]
    <2> HIDE DEF T, x, hop
    <2>1. f[0] = x /\ \A k \in 1..n : f[k] = hop(f[k - 1])
      BY <1>0, <1>4
    <2>2. \A k \in 1..n : f[k - 1] \in T[k - 1] => f[k] \in T[k]
      BY <1>2, <2>1
    <2> QED
      BY <1>0, <1>1, <2>1, <2>2, RunStays
  <1>5. Iterate(hop, x, n) \in T[n]
    <2> HIDE DEF T, x
    <2> QED
      BY <1>3, <1>4 DEF Iterate
  <1>6. Chain(nodes, a) = to(n)
    <2>1. Iterate(hop, x, n) = [path |-> to(n), at |-> at(n)]
      BY <1>0, <1>5, <1>a
    <2>2. Chain(nodes, a) = Iterate(hop, x, n).path
      BY <1>0 DEF Chain
    <2> HIDE DEF to, at, hop, x
    <2> QED
      BY <2>1, <2>2
  <1> QED
    BY <1>0, <1>6 DEF Linked

-----------------------------------------------------------------------------
(* The list.                                                               *)

(* l is the list whose nodes s visits.                                     *)
ListOf(l, s, n) ==
    /\ l = [head |-> l.head, nodes |-> l.nodes, size |-> n]
    /\ l.head = (IF n = 0 THEN NULL ELSE s[1]) /\ l.size = n
    /\ Linked(l.nodes, s, n, NULL)
    /\ Distinct(l.nodes)

(* The list holds the data of D, each once.                                *)
ListHolds(l, D) == D = Data(l.nodes) /\ \E s, n : ListOf(l, s, n)

(* createList.                                                             *)
LEMMA EmptyListHolds == ListHolds(createList, {})
  <1>1. Linked(<<>>, <<>>, 0, NULL) /\ Distinct(<<>>) /\ Data(<<>>) = {}
    BY DEF Linked, NodesOK, Distinct, Data
  <1>2. ListOf(createList, <<>>, 0)
    BY <1>1 DEF createList, ListOf
  <1> QED
    BY <1>1, <1>2 DEF ListHolds, createList

(* All nodes can be reached.                                               *)
LEMMA ChainSetIs ==
    ASSUME NEW nodes, NEW s, NEW n, Linked(nodes, s, n, NULL),
           NEW a, a = IF n = 0 THEN NULL ELSE s[1]
    PROVE  ChainSet(nodes, a) = DOMAIN nodes
  <1>1. Chain(nodes, a) = s /\ DOMAIN s = 1..n
    BY ChainIs
  <1>2. DOMAIN nodes = {s[i] : i \in 1..n}
    BY DEF Linked
  <1> QED
    BY <1>1, <1>2 DEF ChainSet

(* What the rest of the program sees of a list.                            *)
LEMMA ListFacts ==
    ASSUME NEW l, NEW D, ListHolds(l, D)
    PROVE  /\ ChainSet(l.nodes, l.head) = DOMAIN l.nodes
           /\ D = {l.nodes[a].data : a \in DOMAIN l.nodes}
           /\ D \subseteq Procs
           /\ Len(ListNodes(l)) = l.size
           /\ IsFiniteSet(D) /\ Cardinality(D) = l.size
           /\ freeList(l) = <<>>
  <1>1. PICK s, n : ListOf(l, s, n)
    BY DEF ListHolds
  <1>2. ChainSet(l.nodes, l.head) = DOMAIN l.nodes
    BY <1>1, ChainSetIs DEF ListOf
  <1>3. Len(ListNodes(l)) = l.size
    BY <1>1, ChainIs DEF ListOf, ListNodes
  <1>4. IsFiniteSet(DOMAIN l.nodes) /\ Cardinality(DOMAIN l.nodes) = n /\ l.size = n
    BY <1>1, LinkedSize DEF ListOf
  <1>5. IsFiniteSet(D) /\ Cardinality(D) = l.size
    BY <1>1, <1>4, DataSize DEF ListHolds, ListOf
  <1>6. freeList(l) = <<>>
    BY <1>2 DEF freeList, Free
  <1>7. D = {l.nodes[a].data : a \in DOMAIN l.nodes} /\ D \subseteq Procs
    BY <1>1 DEF ListHolds, ListOf, Linked, NodesOK, Data
  <1> QED
    BY <1>2, <1>3, <1>5, <1>6, <1>7

(* insertAtFront adds its process.                                         *)
LEMMA InsertHolds ==
    ASSUME MaxProcs \in Nat, NEW l, NEW D, ListHolds(l, D),
           NEW d \in Procs, d \notin D, Cardinality(D) < MaxProcs
    PROVE  ListHolds(insertAtFront(l, d), D \cup {d})
  <1>1. PICK s, n : ListOf(l, s, n)
    BY DEF ListHolds
  <1>2. /\ Linked(l.nodes, s, n, NULL) /\ Distinct(l.nodes) /\ D = Data(l.nodes)
        /\ l.head = (IF n = 0 THEN NULL ELSE s[1]) /\ l.size = n /\ n \in Nat
    BY <1>1 DEF ListOf, ListHolds, Linked
  <1> DEFINE f == Fresh(l.nodes)
             t == [i \in 1..(n + 1) |-> IF i = 1 THEN f ELSE s[i - 1]]
             m == [a \in DOMAIN l.nodes \cup {f} |->
                      IF a = f THEN [data |-> d, next |-> l.head] ELSE l.nodes[a]]
  <1>3. f \in Addresses \ DOMAIN l.nodes
    <2>1. IsFiniteSet(DOMAIN l.nodes) /\ Cardinality(DOMAIN l.nodes) < MaxProcs
      BY <1>2, LinkedSize, DataSize
    <2>2. DOMAIN l.nodes \subseteq Addresses
      BY <1>2 DEF Linked
    <2> QED
      BY <2>1, <2>2, FreshIsNew
  <1> HIDE DEF f
  <1>4. insertAtFront(l, d) = [head |-> f, nodes |-> m, size |-> n + 1]
    <2> DEFINE c == createNode(l.nodes, d)
    <2>1. c = [a \in DOMAIN l.nodes \cup {f} |->
                 IF a = f THEN [data |-> d, next |-> NULL] ELSE l.nodes[a]]
      BY DEF createNode, Put, f
    <2>2. [c EXCEPT ![f].next = l.head] = m
      BY <2>1
    <2> QED
      BY <1>2, <2>2 DEF insertAtFront, f
  <1>5. l.head \in Addresses \cup {NULL}
    BY <1>2 DEF Linked
  <1>6. NodesOK(m)
    BY <1>2, <1>3, <1>5 DEF Linked, NodesOK, Addresses
  <1>7. t \in [1..(n + 1) -> Addresses] /\ \A i, j \in 1..(n + 1) : t[i] = t[j] => i = j
    <2>1. \A i \in 1..n : s[i] # f /\ s[i] \in Addresses
      BY <1>2, <1>3 DEF Linked
    <2> QED
      BY <1>2, <1>3, <2>1 DEF Linked
  <1>8. DOMAIN m = {t[i] : i \in 1..(n + 1)}
    <2>1. \A i \in 1..n : s[i] = t[i + 1] /\ i + 1 \in 1..(n + 1)
      BY <1>2
    <2>2. \A i \in 1..(n + 1) : t[i] = f \/ (i - 1 \in 1..n /\ t[i] = s[i - 1])
      BY <1>2
    <2>3. t[1] = f /\ 1 \in 1..(n + 1)
      BY <1>2
    <2>4. \A a : a \in DOMAIN l.nodes <=> \E i \in 1..n : a = s[i]
      BY <1>2 DEF Linked
    <2> HIDE DEF t
    <2> QED
      BY <2>1, <2>2, <2>3, <2>4
  <1>9. \A i \in 1..n : m[t[i]].next = t[i + 1]
    <2> TAKE i \in 1..n
    <2>1. CASE i = 1
      BY <1>2, <2>1
    <2>2. CASE i # 1
      <3>1. i - 1 \in 1..(n - 1) /\ s[i - 1] \in DOMAIN l.nodes /\ s[i - 1] # f
        BY <1>2, <1>3, <2>2 DEF Linked
      <3> QED
        BY <1>2, <2>2, <3>1 DEF Linked
    <2> QED
      BY <2>1, <2>2
  <1>10. m[t[n + 1]].next = NULL
    <2>1. n > 0 => s[n] \in DOMAIN l.nodes /\ s[n] # f
      BY <1>2, <1>3 DEF Linked
    <2> QED
      BY <1>2, <2>1 DEF Linked
  <1>11. Linked(m, t, n + 1, NULL)
    <2> HIDE DEF m, t
    <2> QED
      BY <1>2, <1>6, <1>7, <1>8, <1>9, <1>10 DEF Linked
  <1>12. Data(m) = D \cup {d}
    BY <1>2, <1>3 DEF Data
  <1>13. Distinct(m)
    BY <1>2, <1>3 DEF Data, Distinct
  <1>14. ListOf(insertAtFront(l, d), t, n + 1)
    <2>1. t[1] = f
      BY <1>2
    <2> HIDE DEF t, m
    <2> QED
      BY <1>2, <1>4, <1>11, <1>13, <2>1 DEF ListOf
  <1> QED
    <2> HIDE DEF m
    <2> QED
      BY <1>4, <1>12, <1>14 DEF ListHolds

(* removeFromList takes its process out, and only that.                    *)
LEMMA RemoveHolds ==
    ASSUME NEW l, NEW D, ListHolds(l, D), NEW d \in D
    PROVE  ListHolds(removeFromList(l, d), D \ {d})
  <1>1. PICK s, n : ListOf(l, s, n)
    BY DEF ListHolds
  <1>2. /\ Linked(l.nodes, s, n, NULL) /\ Distinct(l.nodes) /\ D = Data(l.nodes)
        /\ l.head = (IF n = 0 THEN NULL ELSE s[1]) /\ l.size = n /\ n \in Nat
        /\ l = [head |-> l.head, nodes |-> l.nodes, size |-> n]
    BY <1>1 DEF ListOf, ListHolds, Linked
  <1>3. PICK j \in 1..n : l.nodes[s[j]].data = d
    BY <1>2 DEF Data, Linked
  <1>4. \A i \in 1..n : l.nodes[s[i]].data = d <=> i = j
    BY <1>2, <1>3 DEF Distinct, Linked
  <1> DEFINE out == s[j]
             after == l.nodes[out].next
             t == [i \in 1..(n - 1) |-> IF i < j THEN s[i] ELSE s[i + 1]]
             m == [a \in DOMAIN l.nodes \ {out} |->
                      IF j > 1 /\ a = s[j - 1]
                      THEN [data |-> l.nodes[a].data, next |-> after] ELSE l.nodes[a]]
             h == IF j = 1 THEN after ELSE l.head
  <1>5. ListNodes(l) = s /\ DOMAIN s = 1..n
    BY <1>2, ChainIs DEF ListNodes
  <1>6. after = (IF j < n THEN s[j + 1] ELSE NULL) /\ out \in DOMAIN l.nodes
        /\ after \in Addresses \cup {NULL}
    BY <1>2 DEF Linked
  <1>7. \A i \in 1..n : /\ s[i] \in Addresses /\ s[i] # NULL /\ s[i] \in DOMAIN l.nodes
                        /\ l.nodes[s[i]] \in [data : Procs, next : Addresses \cup {NULL}]
    BY <1>2 DEF Linked, NodesOK, Addresses, Procs, NULL
  <1>8. removeFromList(l, d) = [head |-> h, nodes |-> m, size |-> n - 1]
    <2> DEFINE chain == ListNodes(l)
               hits == {i \in DOMAIN chain : l.nodes[chain[i]].data = d}
               first == CHOOSE i \in hits : \A k \in hits : i <= k
               before == IF first = 1 THEN NULL ELSE chain[first - 1]
               unlinked == Unlink(l, before, chain[first])
    <2>1. hits = {j}
      BY <1>3, <1>4, <1>5
    <2>2. first = j
      <3> HIDE DEF hits
      <3> QED
        BY <2>1
    <2>3. removeFromList(l, d) = [unlinked EXCEPT !.nodes = Free(@, {chain[first]}), !.size = @ - 1]
      <3>1. hits # {}
        BY <2>1
      <3> QED
        BY <3>1, Zenon DEF removeFromList
    <2>a. chain = s
      BY <1>5
    <2> HIDE DEF chain, hits, first
    <2>4. unlinked = [head |-> h,
                      nodes |-> IF j = 1 THEN l.nodes ELSE [l.nodes EXCEPT ![s[j - 1]].next = after],
                      size |-> n]
      <3>1. CASE j = 1
        <4>1. unlinked = [l EXCEPT !.head = after]
          BY <2>a, <2>2, <3>1 DEF Unlink
        <4> QED
          BY <1>2, <3>1, <4>1
      <3>2. CASE j # 1
        <4>1. before = s[j - 1] /\ before # NULL
          BY <1>2, <2>a, <2>2, <3>2, <1>7
        <4>2. unlinked = [l EXCEPT !.nodes[s[j - 1]].next = after]
          BY <2>a, <2>2, <4>1 DEF Unlink
        <4> QED
          BY <1>2, <3>2, <4>2
      <3> QED
        BY <3>1, <3>2
    <2>5. removeFromList(l, d) = [head |-> h, nodes |-> Free(unlinked.nodes, {out}), size |-> n - 1]
      <3> HIDE DEF unlinked, first, before
      <3> QED
        BY <2>a, <2>2, <2>3, <2>4
    <2> HIDE DEF before, unlinked
    <2>6. Free(unlinked.nodes, {out}) = m
      <3>1. CASE j = 1
        BY <2>4, <3>1 DEF Free
      <3>2. CASE j # 1
        <4>1. /\ unlinked.nodes = [l.nodes EXCEPT ![s[j - 1]].next = after]
              /\ s[j - 1] \in DOMAIN l.nodes
              /\ l.nodes[s[j - 1]] \in [data : Procs, next : Addresses \cup {NULL}]
          BY <1>2, <2>4, <3>2, <1>7
        <4> QED
          BY <3>2, <4>1 DEF Free
      <3> QED
        BY <3>1, <3>2
    <2> QED
      BY <2>5, <2>6
  <1>9. NodesOK(m)
    BY <1>2, <1>6 DEF Linked, NodesOK
  <1>10. t \in [1..(n - 1) -> Addresses] /\ \A i, k \in 1..(n - 1) : t[i] = t[k] => i = k
    <2>1. t \in [1..(n - 1) -> Addresses]
      BY <1>2, <1>7
    <2>2. ASSUME NEW i \in 1..(n - 1), NEW k \in 1..(n - 1), t[i] = t[k]
          PROVE  i = k
      <3>1. \A x, y \in 1..n : s[x] = s[y] => x = y
        BY <1>2 DEF Linked
      <3> QED
        BY <1>2, <2>2, <3>1
    <2> QED
      BY <2>1, <2>2
  <1>11. DOMAIN m = {t[i] : i \in 1..(n - 1)}
    <2>1. \A i \in 1..n : i # j => \E k \in 1..(n - 1) : t[k] = s[i]
      <3> TAKE i \in 1..n
      <3>1. CASE i < j
        BY <1>2, <3>1
      <3>2. CASE i > j
        <4>1. i - 1 \in 1..(n - 1) /\ t[i - 1] = s[i]
          BY <1>2, <3>2
        <4> QED
          BY <4>1
      <3> QED
        BY <1>2, <3>1, <3>2
    <2>2. \A k \in 1..(n - 1) : \E i \in 1..n : i # j /\ t[k] = s[i]
      <3> TAKE k \in 1..(n - 1)
      <3>1. CASE k < j
        BY <1>2, <3>1
      <3>2. CASE k >= j
        <4>1. k + 1 \in 1..n /\ k + 1 # j /\ t[k] = s[k + 1]
          BY <1>2, <3>2
        <4> QED
          BY <4>1
      <3> QED
        BY <1>2, <3>1, <3>2
    <2>3. \A a : a \in DOMAIN m <=> \E i \in 1..n : i # j /\ a = s[i]
      BY <1>2 DEF Linked
    <2> HIDE DEF t, m
    <2> QED
      BY <2>1, <2>2, <2>3
  <1>12. ASSUME NEW i \in 1..(n - 1)
         PROVE  m[t[i]].next = IF i < n - 1 THEN t[i + 1] ELSE NULL
    <2>0. /\ \A x, y \in 1..n : s[x] = s[y] => x = y
          /\ \A x \in 1..(n - 1) : l.nodes[s[x]].next = s[x + 1]
          /\ l.nodes[s[n]].next = NULL
      BY <1>2 DEF Linked
    <2>1. CASE i < j - 1
      <3>1. t[i] = s[i] /\ t[i + 1] = s[i + 1] /\ i < n - 1 /\ i \in 1..n /\ j - 1 \in 1..n
            /\ s[i] # s[j - 1] /\ s[i] # out
        BY <1>2, <2>0, <2>1
      <3> QED
        BY <2>0, <3>1, <1>7
    <2>2. CASE i = j - 1
      <3>1. t[i] = s[j - 1] /\ s[j - 1] # out /\ j > 1 /\ s[j - 1] \in DOMAIN l.nodes
        BY <1>2, <1>7, <2>0, <2>2
      <3>2. m[t[i]].next = after
        BY <3>1
      <3>3. after = IF i < n - 1 THEN t[i + 1] ELSE NULL
        BY <1>2, <1>6, <2>2
      <3> QED
        BY <3>2, <3>3
    <2>3. CASE i >= j
      <3>1. t[i] = s[i + 1] /\ i + 1 \in 1..n /\ s[i + 1] # out
            /\ s[i + 1] \in DOMAIN l.nodes /\ (j > 1 => s[i + 1] # s[j - 1])
        BY <1>2, <1>7, <2>0, <2>3
      <3>2. m[t[i]] = l.nodes[s[i + 1]]
        BY <3>1
      <3>3. l.nodes[s[i + 1]].next = IF i < n - 1 THEN s[i + 2] ELSE NULL
        BY <1>2, <2>0, <2>3
      <3>4. i < n - 1 => t[i + 1] = s[i + 2]
        BY <1>2, <2>3
      <3> QED
        BY <3>2, <3>3, <3>4
    <2> QED
      BY <1>2, <2>1, <2>2, <2>3
  <1>13. Linked(m, t, n - 1, NULL)
    <2>1. n - 1 \in Nat
      BY <1>2
    <2> HIDE DEF m, t
    <2> QED
      BY <1>2, <2>1, <1>9, <1>10, <1>11, <1>12 DEF Linked
  <1>14. \A a \in DOMAIN m : m[a].data = l.nodes[a].data
    BY <1>2
  <1>15. Data(m) = D \ {d}
    <2>1. DOMAIN m = DOMAIN l.nodes \ {out} /\ l.nodes[out].data = d
      BY <1>3
    <2> HIDE DEF m
    <2> QED
      BY <1>2, <1>6, <1>14, <2>1 DEF Data, Distinct
  <1>16. Distinct(m)
    <2>1. DOMAIN m = DOMAIN l.nodes \ {out}
      OBVIOUS
    <2> HIDE DEF m
    <2> QED
      BY <1>2, <1>14, <2>1 DEF Distinct
  <1>17. h = IF n - 1 = 0 THEN NULL ELSE t[1]
    BY <1>2, <1>6
  <1>18. ListOf(removeFromList(l, d), t, n - 1)
    <2> HIDE DEF m, t, h
    <2> QED
      BY <1>8, <1>13, <1>16, <1>17 DEF ListOf
  <1> QED
    <2> HIDE DEF m, t, h
    <2> QED
      BY <1>8, <1>15, <1>18 DEF ListHolds

-----------------------------------------------------------------------------
(* The ring.                                                               *)

(* q is the ring whose nodes s visits, from front to rear.                 *)
RingOf(q, s, n) ==
    /\ q = [rear |-> q.rear, nodes |-> q.nodes, size |-> n]
    /\ q.rear = (IF n = 0 THEN NULL ELSE s[n]) /\ q.size = n
    /\ Linked(q.nodes, s, n, s[1])
    /\ Distinct(q.nodes)

(* The ring holds the n data of e, from front to rear.                     *)
RingHolds(q, e, n) ==
    \E s : RingOf(q, s, n) /\ e = [i \in 1..n |-> q.nodes[s[i]].data]

LEMMA RingShape ==
    ASSUME NEW q, NEW s, NEW n, RingOf(q, s, n)
    PROVE  /\ n \in Nat /\ q.size = n
           /\ q.rear = (IF n = 0 THEN NULL ELSE s[n])
           /\ \A i \in 1..n : /\ s[i] \in Addresses /\ s[i] # NULL /\ s[i] \in DOMAIN q.nodes
                              /\ q.nodes[s[i]] \in [data : Procs, next : Addresses \cup {NULL}]
           /\ \A i, j \in 1..n : s[i] = s[j] => i = j
           /\ \A i \in 1..(n - 1) : q.nodes[s[i]].next = s[i + 1]
           /\ n > 0 => q.nodes[s[n]].next = s[1] /\ FrontNode(q) = s[1]
  BY DEF RingOf, Linked, NodesOK, FrontNode, Addresses, Procs, NULL

(* createQueue.                                                            *)
LEMMA EmptyRingHolds == RingHolds(createQueue, <<>>, 0)
  <1>1. Linked(<<>>, <<>>, 0, <<>>[1]) /\ Distinct(<<>>)
    BY DEF Linked, NodesOK, Distinct
  <1>2. RingOf(createQueue, <<>>, 0)
    BY <1>1 DEF createQueue, RingOf
  <1> QED
    BY <1>2 DEF RingHolds

(* Cut open, the ring is a list.                                           *)
LEMMA OpenedRing ==
    ASSUME NEW q, NEW s, NEW n, RingOf(q, s, n), n > 0
    PROVE  /\ Linked(Opened(q), s, n, NULL)
           /\ DOMAIN Opened(q) = DOMAIN q.nodes
  <1>0. n \in Nat /\ Linked(q.nodes, s, n, s[1]) /\ q.rear = s[n]
    BY RingShape DEF RingOf
  <1>1. DOMAIN Opened(q) = DOMAIN q.nodes
    BY DEF Opened
  <1>2. \A a \in DOMAIN q.nodes :
           /\ Opened(q)[a] \in [data : Procs, next : Addresses \cup {NULL}]
           /\ a # s[n] => Opened(q)[a] = q.nodes[a]
           /\ a = s[n] => Opened(q)[a].next = NULL
    <2> TAKE a \in DOMAIN q.nodes
    <2>1. q.nodes[a] \in [data : Procs, next : Addresses \cup {NULL}]
      BY <1>0 DEF Linked, NodesOK
    <2>2. Opened(q)[a] = IF a = s[n] THEN [q.nodes[a] EXCEPT !.next = NULL] ELSE q.nodes[a]
      BY <1>0 DEF Opened
    <2> QED
      BY <2>1, <2>2
  <1>3. NodesOK(Opened(q))
    <2>1. Opened(q) = [a \in DOMAIN Opened(q) |-> Opened(q)[a]]
      BY DEF Opened
    <2> QED
      BY <1>1, <1>2, <2>1 DEF NodesOK
  <1>4. \A i \in 1..(n - 1) : s[i] # s[n] /\ s[i] \in DOMAIN q.nodes
    BY <1>0 DEF Linked
  <1> QED
    BY <1>0, <1>1, <1>2, <1>3, <1>4 DEF Linked

(* What the rest of the program sees of a ring.                            *)
LEMMA RingFacts ==
    ASSUME NEW q, NEW e, NEW n, RingHolds(q, e, n)
    PROVE  /\ n \in Nat /\ q.size = n
           /\ e \in [1..n -> Procs] /\ \A i, j \in 1..n : e[i] = e[j] => i = j
           /\ DOMAIN RingNodes(q) = 1..n /\ Len(RingNodes(q)) = n
           /\ Cardinality(DOMAIN q.nodes) = n
           /\ n > 0 => RingNodes(q)[n] = q.rear
           /\ e = [i \in DOMAIN RingNodes(q) |-> q.nodes[RingNodes(q)[i]].data]
           /\ n > 0 => frontData(q) = e[1]
           /\ destroyQueue(q) = <<>>
  <1>1. PICK s : RingOf(q, s, n) /\ e = [i \in 1..n |-> q.nodes[s[i]].data]
    BY DEF RingHolds
  <1>2. n \in Nat /\ q.size = n /\ Linked(q.nodes, s, n, s[1]) /\ Distinct(q.nodes)
    BY <1>1, RingShape DEF RingOf
  <1>3. e \in [1..n -> Procs] /\ \A i, j \in 1..n : e[i] = e[j] => i = j
    <2>1. \A i \in 1..n : e[i] \in Procs
      BY <1>1, RingShape
    <2>2. \A i, j \in 1..n : e[i] = e[j] => i = j
      BY <1>1, <1>2, RingShape DEF Distinct
    <2> QED
      BY <1>1, <2>1, <2>2
  <1>4. Cardinality(DOMAIN q.nodes) = n
    BY <1>2, LinkedSize
  <1>5. CASE n = 0
    <2>1. RingNodes(q) = <<>> /\ destroyQueue(q) = q.nodes
      BY <1>1, <1>5, RingShape DEF RingNodes, destroyQueue
    <2>2. DOMAIN q.nodes = {} /\ q.nodes = [a \in DOMAIN q.nodes |-> q.nodes[a]]
      BY <1>2, <1>5 DEF Linked, NodesOK
    <2>3. q.nodes = <<>>
      BY <2>2
    <2> QED
      BY <1>1, <1>2, <1>3, <1>4, <1>5, <2>1, <2>3
  <1>6. CASE n # 0
    <2>1. n > 0 /\ q.rear = s[n] /\ q.rear # NULL /\ FrontNode(q) = s[1]
      BY <1>1, <1>2, <1>6, RingShape
    <2>2. Linked(Opened(q), s, n, NULL) /\ DOMAIN Opened(q) = DOMAIN q.nodes
      BY <1>1, <2>1, OpenedRing
    <2>3. Chain(Opened(q), s[1]) = s /\ Len(s) = n /\ DOMAIN s = 1..n
      BY <1>6, <2>2, ChainIs
    <2>4. ChainSet(Opened(q), s[1]) = DOMAIN q.nodes
      BY <1>6, <2>2, ChainSetIs
    <2>5. RingNodes(q) = s
      BY <2>1, <2>3 DEF RingNodes
    <2>6. destroyQueue(q) = <<>>
      BY <2>1, <2>4 DEF destroyQueue, Free
    <2> QED
      BY <1>1, <1>2, <1>3, <1>4, <2>1, <2>3, <2>5, <2>6 DEF frontData
  <1> QED
    BY <1>5, <1>6

(* enqueue puts its process behind the others.                             *)
LEMMA EnqueueHolds ==
    ASSUME MaxProcs \in Nat, NEW q, NEW e, NEW n, RingHolds(q, e, n), n < MaxProcs,
           NEW d \in Procs, \A i \in 1..n : e[i] # d
    PROVE  RingHolds(enqueue(q, d), [i \in 1..(n + 1) |-> IF i = n + 1 THEN d ELSE e[i]], n + 1)
  <1>1. PICK s : RingOf(q, s, n) /\ e = [i \in 1..n |-> q.nodes[s[i]].data]
    BY DEF RingHolds
  <1>2. n \in Nat /\ q.size = n /\ Linked(q.nodes, s, n, s[1]) /\ Distinct(q.nodes)
        /\ q.rear = (IF n = 0 THEN NULL ELSE s[n])
    BY <1>1, RingShape DEF RingOf
  <1> DEFINE f == Fresh(q.nodes)
             t == [i \in 1..(n + 1) |-> IF i = n + 1 THEN f ELSE s[i]]
             m == [a \in DOMAIN q.nodes \cup {f} |->
                      IF a = f THEN [data |-> d, next |-> IF n = 0 THEN f ELSE s[1]]
                      ELSE [data |-> q.nodes[a].data,
                            next |-> IF a = s[n] THEN f ELSE q.nodes[a].next]]
  <1>3. f \in Addresses \ DOMAIN q.nodes
    <2>1. IsFiniteSet(DOMAIN q.nodes) /\ Cardinality(DOMAIN q.nodes) < MaxProcs
      BY <1>2, LinkedSize
    <2>2. DOMAIN q.nodes \subseteq Addresses
      BY <1>2 DEF Linked
    <2> QED
      BY <2>1, <2>2, FreshIsNew
  <1>3a. \A i \in 1..n : /\ s[i] \in Addresses /\ s[i] # NULL /\ s[i] # f /\ s[i] \in DOMAIN q.nodes
                         /\ q.nodes[s[i]] \in [data : Procs, next : Addresses \cup {NULL}]
    BY <1>1, <1>3, RingShape
  <1>3b. \A a : a \in DOMAIN q.nodes <=> \E i \in 1..n : a = s[i]
    BY <1>2 DEF Linked
  <1> HIDE DEF f
  <1>4. enqueue(q, d) = [rear |-> f, nodes |-> m, size |-> n + 1]
    <2> DEFINE front == IF q.rear = NULL THEN f ELSE FrontNode(q)
               c == createNode(q.nodes, d)
               linked == [c EXCEPT ![f].next = front]
    <2>1. c = [a \in DOMAIN q.nodes \cup {f} |->
                 IF a = f THEN [data |-> d, next |-> NULL] ELSE q.nodes[a]]
      BY DEF createNode, Put, f
    <2>2. linked = [a \in DOMAIN q.nodes \cup {f} |->
                 IF a = f THEN [data |-> d, next |-> front] ELSE q.nodes[a]]
      BY <2>1
    <2>3. enqueue(q, d) =
            [rear |-> f,
             nodes |-> IF q.rear = NULL THEN linked ELSE [linked EXCEPT ![q.rear].next = f],
             size |-> q.size + 1]
      BY Zenon DEF enqueue, f
    <2>4. CASE n = 0
      <3>1. DOMAIN q.nodes = {} /\ front = f /\ q.rear = NULL
        BY <1>2, <1>3b, <2>4
      <3>2. linked = m
        <4> HIDE DEF front
        <4> QED
          BY <2>2, <2>4, <3>1
      <3> HIDE DEF linked, m
      <3> QED
        BY <1>2, <2>3, <3>1, <3>2
    <2>5. CASE n # 0
      <3>1. front = s[1] /\ q.rear = s[n] /\ q.rear # NULL /\ s[n] \in DOMAIN q.nodes /\ s[n] # f
        BY <1>1, <1>2, <1>3a, <2>5, RingShape
      <3>2. \A a \in DOMAIN q.nodes : q.nodes[a] = [data |-> q.nodes[a].data, next |-> q.nodes[a].next]
        BY <1>2 DEF Linked, NodesOK
      <3>3. [linked EXCEPT ![s[n]].next = f] = m
        <4> HIDE DEF front
        <4>1. linked[s[n]] = q.nodes[s[n]] /\ s[n] \in DOMAIN linked
          BY <2>2, <3>1
        <4>2. [linked EXCEPT ![s[n]].next = f] =
                [a \in DOMAIN q.nodes \cup {f} |->
                    IF a = s[n] THEN [q.nodes[s[n]] EXCEPT !.next = f] ELSE linked[a]]
          <5> HIDE DEF linked
          <5> QED
            BY <2>2, <4>1
        <4>3. [q.nodes[s[n]] EXCEPT !.next = f] = [data |-> q.nodes[s[n]].data, next |-> f]
          <5> DEFINE z == q.nodes[s[n]]
          <5>1. z = [data |-> z.data, next |-> z.next]
            BY <3>1, <3>2
          <5> HIDE DEF z
          <5>2. [z EXCEPT !.next = f] = [data |-> z.data, next |-> f]
            BY <5>1
          <5> QED
            BY <5>2 DEF z
        <4>4. \A a \in DOMAIN q.nodes \cup {f} :
                 m[a] = IF a = s[n] THEN [q.nodes[s[n]] EXCEPT !.next = f] ELSE linked[a]
          BY <2>2, <2>5, <3>1, <3>2, <4>3
        <4> HIDE DEF linked
        <4> QED
          BY <4>2, <4>4
      <3> HIDE DEF linked, m, front
      <3> QED
        BY <1>2, <2>3, <3>1, <3>3
    <2> QED
      BY <2>4, <2>5
  <1>5. NodesOK(m)
    <2>1. n # 0 => s[1] \in Addresses
      BY <1>2, <1>3a
    <2>2. \A a \in DOMAIN q.nodes : q.nodes[a] \in [data : Procs, next : Addresses \cup {NULL}]
      BY <1>3a, <1>3b
    <2> QED
      BY <1>3, <2>1, <2>2 DEF NodesOK
  <1>6. t \in [1..(n + 1) -> Addresses] /\ \A i, j \in 1..(n + 1) : t[i] = t[j] => i = j
    BY <1>2, <1>3, <1>3a DEF Linked
  <1>7. DOMAIN m = {t[i] : i \in 1..(n + 1)}
    <2>1. \A i \in 1..n : s[i] = t[i] /\ i \in 1..(n + 1)
      BY <1>2
    <2>2. \A i \in 1..(n + 1) : t[i] = f \/ (i \in 1..n /\ t[i] = s[i])
      BY <1>2
    <2>3. t[n + 1] = f /\ n + 1 \in 1..(n + 1)
      BY <1>2
    <2> HIDE DEF t
    <2> QED
      BY <1>3b, <2>1, <2>2, <2>3
  <1>8. \A i \in 1..n : m[t[i]].next = t[i + 1]
    <2> TAKE i \in 1..n
    <2>1. t[i] = s[i] /\ s[i] \in DOMAIN q.nodes /\ s[i] # f
      BY <1>2, <1>3a
    <2>2. CASE i = n
      BY <1>2, <2>1, <2>2
    <2>3. CASE i # n
      <3>1. q.nodes[s[i]].next = s[i + 1] /\ t[i + 1] = s[i + 1] /\ s[i] # s[n]
        BY <1>2, <2>3 DEF Linked
      <3> QED
        BY <2>1, <3>1
    <2> QED
      BY <2>2, <2>3
  <1>9. m[t[n + 1]].next = t[1]
    BY <1>2
  <1>10. Linked(m, t, n + 1, t[1])
    <2> HIDE DEF m, t
    <2> QED
      BY <1>2, <1>5, <1>6, <1>7, <1>8, <1>9 DEF Linked
  <1>11. \A a \in DOMAIN q.nodes : m[a].data = q.nodes[a].data /\ a # f
    BY <1>3
  <1>12. Distinct(m)
    <2>1. \A a \in DOMAIN q.nodes : q.nodes[a].data # d
      BY <1>1, <1>3b
    <2>2. DOMAIN m = DOMAIN q.nodes \cup {f} /\ m[f].data = d
      OBVIOUS
    <2> HIDE DEF m
    <2> QED
      BY <1>2, <1>11, <2>1, <2>2 DEF Distinct
  <1>13. RingOf(enqueue(q, d), t, n + 1)
    <2>1. t[n + 1] = f /\ n + 1 # 0
      BY <1>2
    <2> HIDE DEF m, t
    <2> QED
      BY <1>2, <1>4, <1>10, <1>12, <2>1 DEF RingOf
  <1>14. \A i \in 1..(n + 1) : m[t[i]].data = IF i = n + 1 THEN d ELSE e[i]
    <2> TAKE i \in 1..(n + 1)
    <2>1. CASE i = n + 1
      BY <1>2, <2>1
    <2>2. CASE i # n + 1
      <3>1. i \in 1..n /\ t[i] = s[i]
        BY <1>2, <2>2
      <3> QED
        BY <1>1, <1>3a, <1>11, <2>2, <3>1
    <2> QED
      BY <2>1, <2>2
  <1> QED
    <2>1. enqueue(q, d).nodes = m
      BY <1>4
    <2> HIDE DEF m, t
    <2>2. [i \in 1..(n + 1) |-> IF i = n + 1 THEN d ELSE e[i]]
          = [i \in 1..(n + 1) |-> enqueue(q, d).nodes[t[i]].data]
      BY <1>14, <2>1
    <2> QED
      BY <1>13, <2>2 DEF RingHolds

(* dequeue takes the first one out.                                        *)
LEMMA DequeueHolds ==
    ASSUME NEW q, NEW e, NEW n, RingHolds(q, e, n), n > 0
    PROVE  RingHolds(dequeue(q), [i \in 1..(n - 1) |-> e[i + 1]], n - 1)
  <1>1. PICK s : RingOf(q, s, n) /\ e = [i \in 1..n |-> q.nodes[s[i]].data]
    BY DEF RingHolds
  <1>2. /\ n \in Nat /\ q.size = n /\ Linked(q.nodes, s, n, s[1]) /\ Distinct(q.nodes)
        /\ q.rear = s[n] /\ FrontNode(q) = s[1]
        /\ \A i \in 1..n : /\ s[i] \in Addresses /\ s[i] # NULL /\ s[i] \in DOMAIN q.nodes
                           /\ q.nodes[s[i]] \in [data : Procs, next : Addresses \cup {NULL}]
        /\ \A i, j \in 1..n : s[i] = s[j] => i = j
        /\ \A i \in 1..(n - 1) : q.nodes[s[i]].next = s[i + 1]
        /\ \A a : a \in DOMAIN q.nodes <=> \E i \in 1..n : a = s[i]
    <2>1. Linked(q.nodes, s, n, s[1]) /\ Distinct(q.nodes)
      BY <1>1 DEF RingOf
    <2>2. \A a : a \in DOMAIN q.nodes <=> \E i \in 1..n : a = s[i]
      BY <2>1 DEF Linked
    <2> QED
      BY <1>1, <2>1, <2>2, RingShape
  <1> DEFINE front == s[1]
             t == [i \in 1..(n - 1) |-> s[i + 1]]
             m == [a \in DOMAIN q.nodes \ {front} |->
                      [data |-> q.nodes[a].data,
                       next |-> IF a = s[n] THEN s[2] ELSE q.nodes[a].next]]
             r == IF n = 1 THEN NULL ELSE s[n]
  <1>3. dequeue(q) = [rear |-> r, nodes |-> m, size |-> n - 1]
    <2>1. dequeue(q) = [rear  |-> IF s[1] = s[n] \/ n = 1 THEN NULL ELSE s[n],
                        nodes |-> Free(IF s[1] = s[n] THEN q.nodes
                                       ELSE [q.nodes EXCEPT ![s[n]].next = q.nodes[s[1]].next],
                                       {s[1]}),
                        size  |-> n - 1]
      BY <1>2 DEF dequeue
    <2>2. CASE n = 1
      <3>1. DOMAIN q.nodes = {s[1]} /\ s[1] = s[n] /\ r = NULL
        BY <1>2, <2>2
      <3>2. Free(q.nodes, {s[1]}) = m
        BY <3>1 DEF Free
      <3> HIDE DEF m, r
      <3> QED
        BY <2>1, <3>1, <3>2
    <2>3. CASE n # 1
      <3>1. s[1] # s[n] /\ q.nodes[s[1]].next = s[2] /\ r = s[n]
        BY <1>2, <2>3
      <3>2. \A a \in DOMAIN q.nodes : q.nodes[a] = [data |-> q.nodes[a].data, next |-> q.nodes[a].next]
        BY <1>2
      <3>3. [q.nodes EXCEPT ![s[n]].next = s[2]] =
              [a \in DOMAIN q.nodes |-> IF a = s[n] THEN [data |-> q.nodes[a].data, next |-> s[2]]
                                        ELSE q.nodes[a]]
        BY <1>2, <3>2
      <3>4. Free([q.nodes EXCEPT ![s[n]].next = s[2]], {s[1]}) = m
        BY <3>2, <3>3 DEF Free
      <3> HIDE DEF m, r
      <3> QED
        BY <2>1, <2>3, <3>1, <3>4
    <2> QED
      BY <2>2, <2>3
  <1>4. t \in [1..(n - 1) -> Addresses] /\ \A i, j \in 1..(n - 1) : t[i] = t[j] => i = j
    BY <1>2
  <1>5. NodesOK(m)
    <2>1. n > 1 => s[2] \in Addresses
      BY <1>2
    <2>2. \A a \in DOMAIN q.nodes \ {front} : n > 1 /\ q.nodes[a] \in [data : Procs, next : Addresses \cup {NULL}]
      BY <1>2
    <2> QED
      BY <2>1, <2>2 DEF NodesOK
  <1>6. DOMAIN m = {t[i] : i \in 1..(n - 1)}
    <2>1. \A i \in 1..(n - 1) : t[i] = s[i + 1] /\ i + 1 \in 1..n /\ s[i + 1] # front
      BY <1>2
    <2>2. \A i \in 1..n : s[i] # front => i - 1 \in 1..(n - 1) /\ t[i - 1] = s[i]
      BY <1>2
    <2> HIDE DEF t
    <2> QED
      BY <1>2, <2>1, <2>2
  <1>7. ASSUME NEW i \in 1..(n - 1)
        PROVE  m[t[i]].next = IF i < n - 1 THEN t[i + 1] ELSE t[1]
    <2>1. t[i] = s[i + 1] /\ s[i + 1] \in DOMAIN q.nodes /\ s[i + 1] # front
      BY <1>2
    <2>2. m[t[i]].next = IF s[i + 1] = s[n] THEN s[2] ELSE q.nodes[s[i + 1]].next
      BY <2>1
    <2>3. CASE i = n - 1
      BY <1>2, <2>2, <2>3
    <2>4. CASE i # n - 1
      <3>1. i + 1 \in 1..(n - 1) /\ (i + 1) + 1 = i + 2 /\ i + 1 # n /\ n \in 1..n
        BY <1>2, <2>4
      <3>2. s[i + 1] # s[n]
        BY <1>2, <3>1
      <3>3. q.nodes[s[i + 1]].next = s[i + 2]
        <4> HIDE DEF m, t
        <4> QED
          BY <1>2, <3>1
      <3>4. t[i + 1] = s[i + 2]
        BY <3>1
      <3> QED
        BY <1>2, <2>2, <2>4, <3>2, <3>3, <3>4
    <2> QED
      BY <2>3, <2>4
  <1>8. Linked(m, t, n - 1, t[1])
    <2>1. n - 1 \in Nat
      BY <1>2
    <2> HIDE DEF m, t
    <2> QED
      BY <1>2, <2>1, <1>4, <1>5, <1>6, <1>7 DEF Linked
  <1>9. \A a \in DOMAIN m : m[a].data = q.nodes[a].data /\ a \in DOMAIN q.nodes
    OBVIOUS
  <1>10. Distinct(m)
    <2> HIDE DEF m
    <2> QED
      BY <1>2, <1>9 DEF Distinct
  <1>11. RingOf(dequeue(q), t, n - 1)
    <2>1. r = IF n - 1 = 0 THEN NULL ELSE t[n - 1]
      BY <1>2
    <2> HIDE DEF m, t, r
    <2> QED
      BY <1>2, <1>3, <1>8, <1>10, <2>1 DEF RingOf
  <1>12. \A i \in 1..(n - 1) : m[t[i]].data = e[i + 1]
    <2> TAKE i \in 1..(n - 1)
    <2>1. t[i] = s[i + 1] /\ i + 1 \in 1..n /\ s[i + 1] \in DOMAIN m
      BY <1>2
    <2> QED
      BY <1>1, <1>9, <2>1
  <1> QED
    <2>1. dequeue(q).nodes = m
      BY <1>3
    <2> HIDE DEF m, t
    <2>2. [i \in 1..(n - 1) |-> e[i + 1]] = [i \in 1..(n - 1) |-> dequeue(q).nodes[t[i]].data]
      BY <1>12, <2>1
    <2> QED
      BY <1>11, <2>2 DEF RingHolds

-----------------------------------------------------------------------------
(* The heap.                                                               *)

(* The parent of a node of the heap.                                       *)
Parent(i) == (i - 1) \div 2

Cell == [data : Procs, priority : Int]

(* The n slots hold the cells of C, each process in one of them.           *)
Filled(slots, C, n) ==
    /\ slots \in [0..(n - 1) -> Cell]
    /\ C = {slots[i] : i \in 0..(n - 1)}
    /\ \A i, j \in 0..(n - 1) : slots[i].data = slots[j].data => i = j

InOrderAt(slots, i) == slots[Parent(i)].priority <= slots[i].priority

InOrder(slots, n) == \A i \in 1..(n - 1) : InOrderAt(slots, i)

(* A swap loses no cell.                                                   *)
LEMMA SwapFills ==
    ASSUME NEW slots, NEW C, NEW n \in Nat, Filled(slots, C, n),
           NEW i \in 0..(n - 1), NEW j \in 0..(n - 1), i # j
    PROVE  /\ Filled(Swap(slots, i, j), C, n)
           /\ Swap(slots, i, j)[i] = slots[j] /\ Swap(slots, i, j)[j] = slots[i]
           /\ \A k \in 0..(n - 1) : k # i /\ k # j => Swap(slots, i, j)[k] = slots[k]
  <1> DEFINE t == Swap(slots, i, j)
  <1>1. DOMAIN slots = 0..(n - 1) /\ \A k \in 0..(n - 1) : slots[k] \in Cell
    BY DEF Filled
  <1>2. t = [k \in 0..(n - 1) |-> IF k = j THEN slots[i] ELSE IF k = i THEN slots[j] ELSE slots[k]]
    BY <1>1 DEF Swap
  <1> HIDE DEF t
  <1>3. t[i] = slots[j] /\ t[j] = slots[i] /\ \A k \in 0..(n - 1) : k # i /\ k # j => t[k] = slots[k]
    BY <1>2
  <1>4. t \in [0..(n - 1) -> Cell]
    BY <1>1, <1>2
  <1>5. \A c : c \in C <=> \E k \in 0..(n - 1) : c = t[k]
    <2>1. \A c : c \in C <=> \E k \in 0..(n - 1) : c = slots[k]
      BY DEF Filled
    <2> QED
      BY <1>3, <2>1
  <1>6. \A k, m \in 0..(n - 1) : t[k].data = t[m].data => k = m
    <2>1. \A k, m \in 0..(n - 1) : slots[k].data = slots[m].data => k = m
      BY DEF Filled
    <2> QED
      BY <1>3, <2>1
  <1> QED
    <2>1. C = {t[k] : k \in 0..(n - 1)}
      BY <1>5
    <2> QED
      BY <1>3, <1>4, <1>6, <2>1 DEF Filled, t

LEMMA PriorityIsInt ==
    ASSUME NEW slots, NEW C, NEW n \in Nat, Filled(slots, C, n)
    PROVE  \A i \in 0..(n - 1) : slots[i].priority \in Int
  BY DEF Filled, Cell

(* Bubbling up: all in order but the node at h.at, whose children are in   *)
(* order with its parent.                                                  *)
Rising(slots, at, n) ==
    /\ \A i \in 1..(n - 1) : i # at => InOrderAt(slots, i)
    /\ \A i \in 1..(n - 1) : at > 0 /\ Parent(i) = at =>
           slots[Parent(at)].priority <= slots[i].priority

(* One step up.                                                            *)
LEMMA RiseKeeps ==
    ASSUME NEW C, NEW n \in Nat, NEW slots, NEW at \in 0..(n - 1),
           Filled(slots, C, n), Rising(slots, at, n),
           at > 0, slots[at].priority < slots[Parent(at)].priority
    PROVE  /\ Filled(Swap(slots, Parent(at), at), C, n)
           /\ Rising(Swap(slots, Parent(at), at), Parent(at), n)
  <1> DEFINE p == Parent(at)
             t == Swap(slots, p, at)
  <1>4. \A i \in 1..(n - 1) : Parent(i) \in 0..(n - 1) /\ Parent(i) < i
    BY DEF Parent
  <1>1. p \in 0..(n - 1) /\ p < at
    BY <1>4
  <1> HIDE DEF p
  <1>2. Filled(t, C, n) /\ t[p] = slots[at] /\ t[at] = slots[p]
        /\ \A k \in 0..(n - 1) : k # p /\ k # at => t[k] = slots[k]
    BY <1>1, SwapFills
  <1> HIDE DEF t
  <1>3. \A i \in 0..(n - 1) : slots[i].priority \in Int
    BY PriorityIsInt
  <1>5. slots[at].priority < slots[p].priority /\ Parent(at) = p
    BY DEF p
  <1>6. ASSUME NEW i \in 1..(n - 1), i # p PROVE InOrderAt(t, i)
    <2>1. CASE i = at
      BY <1>1, <1>2, <1>3, <1>5, <2>1 DEF InOrderAt
    <2>2. CASE i # at /\ Parent(i) = p
      <3>1. slots[p].priority <= slots[i].priority
        BY <2>2 DEF Rising, InOrderAt
      <3> QED
        BY <1>1, <1>2, <1>3, <1>5, <1>6, <2>2, <3>1 DEF InOrderAt
    <2>3. CASE i # at /\ Parent(i) = at
      <3>1. slots[p].priority <= slots[i].priority
        BY <2>3 DEF Rising, p
      <3> QED
        BY <1>1, <1>2, <1>3, <1>6, <2>3, <3>1 DEF InOrderAt
    <2>4. CASE i # at /\ Parent(i) # p /\ Parent(i) # at
      BY <1>1, <1>2, <1>4, <1>6, <2>4 DEF Rising, InOrderAt
    <2> QED
      BY <2>1, <2>2, <2>3, <2>4
  <1>7. ASSUME NEW i \in 1..(n - 1), p > 0, Parent(i) = p
        PROVE  t[Parent(p)].priority <= t[i].priority
    <2>1. slots[Parent(p)].priority <= slots[p].priority /\ Parent(p) \in 0..(n - 1) /\ Parent(p) < p
      BY <1>1, <1>4, <1>7 DEF Rising, InOrderAt
    <2>2. t[Parent(p)] = slots[Parent(p)]
      BY <1>1, <1>2, <2>1
    <2>3. CASE i = at
      BY <1>2, <2>1, <2>2, <2>3
    <2>4. CASE i # at
      <3>1. slots[p].priority <= slots[i].priority /\ t[i] = slots[i]
        BY <1>2, <1>4, <1>7, <2>4 DEF Rising, InOrderAt
      <3> QED
        BY <1>1, <1>3, <2>1, <2>2, <3>1
    <2> QED
      BY <2>3, <2>4
  <1>8. Rising(t, p, n)
    BY <1>6, <1>7 DEF Rising
  <1> QED
    BY <1>2, <1>8 DEF t, p

(* Bubbling down: all in order but the children of the node at h.at, which *)
(* are in order with its parent.                                           *)
Sinking(slots, at, n) ==
    /\ \A i \in 1..(n - 1) : Parent(i) # at => InOrderAt(slots, i)
    /\ \A i \in 1..(n - 1) : at > 0 /\ Parent(i) = at =>
           slots[Parent(at)].priority <= slots[i].priority

(* Smallest is the least of a node and its children.                       *)
LEMMA SmallestIs ==
    ASSUME NEW C, NEW n \in Nat, NEW slots, NEW at \in 0..(n - 1), Filled(slots, C, n)
    PROVE  LET s == Smallest(slots, n, at) IN
           /\ s \in 0..(n - 1)
           /\ s = at \/ (s > at /\ Parent(s) = at /\ slots[s].priority < slots[at].priority)
           /\ slots[s].priority <= slots[at].priority
           /\ \A i \in 1..(n - 1) : Parent(i) = at => slots[s].priority <= slots[i].priority
  <1> DEFINE Lesser(i, j) == IF j < n /\ slots[j].priority < slots[i].priority THEN j ELSE i
             l == 2 * at + 1
             r == 2 * at + 2
             a == Lesser(at, l)
             b == Lesser(a, r)
  <1>1. \A i \in 0..(n - 1) : slots[i].priority \in Int
    BY PriorityIsInt
  <1>2. Parent(l) = at /\ Parent(r) = at /\ l > at /\ r > at /\ l \in Nat /\ r \in Nat
        /\ \A i \in 1..(n - 1) : Parent(i) = at => i = l \/ i = r
    BY DEF Parent
  <1>3. Smallest(slots, n, at) = b
    BY DEF Smallest
  <1> HIDE DEF l, r
  <1>4. a \in 0..(n - 1) /\ (a = at \/ (a = l /\ slots[a].priority < slots[at].priority)) /\ slots[a].priority <= slots[at].priority
        /\ (l < n => slots[a].priority <= slots[l].priority)
    BY <1>1, <1>2
  <1> HIDE DEF a
  <1>5. b \in 0..(n - 1) /\ (b = a \/ (b = r /\ slots[b].priority < slots[a].priority)) /\ slots[b].priority <= slots[a].priority
        /\ (r < n => slots[b].priority <= slots[r].priority)
    BY <1>1, <1>2, <1>4
  <1> HIDE DEF b
  <1>6. \A i \in 1..(n - 1) : Parent(i) = at => slots[b].priority <= slots[i].priority
    BY <1>1, <1>2, <1>4, <1>5
  <1>7. slots[b].priority <= slots[at].priority
    BY <1>1, <1>4, <1>5
  <1>8. b = at \/ (b > at /\ Parent(b) = at /\ slots[b].priority < slots[at].priority)
    BY <1>1, <1>2, <1>4, <1>5
  <1> QED
    BY <1>3, <1>5, <1>6, <1>7, <1>8

(* One step down.                                                          *)
LEMMA SinkKeeps ==
    ASSUME NEW C, NEW n \in Nat, NEW slots, NEW at \in 0..(n - 1), NEW s \in 0..(n - 1),
           Filled(slots, C, n), Sinking(slots, at, n),
           s > at, Parent(s) = at, slots[s].priority <= slots[at].priority,
           \A i \in 1..(n - 1) : Parent(i) = at => slots[s].priority <= slots[i].priority
    PROVE  /\ Filled(Swap(slots, at, s), C, n)
           /\ Sinking(Swap(slots, at, s), s, n)
  <1> DEFINE t == Swap(slots, at, s)
  <1>2. Filled(t, C, n) /\ t[s] = slots[at] /\ t[at] = slots[s]
        /\ \A k \in 0..(n - 1) : k # s /\ k # at => t[k] = slots[k]
    BY SwapFills
  <1> HIDE DEF t
  <1>3. \A i \in 0..(n - 1) : slots[i].priority \in Int
    BY PriorityIsInt
  <1>4. \A i \in 1..(n - 1) : Parent(i) \in 0..(n - 1) /\ Parent(i) < i
    BY DEF Parent
  <1>5. s \in 1..(n - 1)
    OBVIOUS
  <1>6. ASSUME NEW i \in 1..(n - 1), Parent(i) # s PROVE InOrderAt(t, i)
    <2>1. CASE i = s
      BY <1>2, <2>1 DEF InOrderAt
    <2>2. CASE i # s /\ Parent(i) = at
      <3>1. t[i] = slots[i]
        BY <1>2, <1>4, <2>2
      <3> QED
        BY <1>2, <2>2, <3>1 DEF InOrderAt
    <2>3. CASE i = at
      <3>1. slots[Parent(at)].priority <= slots[s].priority
        BY <1>5, <2>3 DEF Sinking
      <3>2. Parent(at) \in 0..(n - 1) /\ Parent(at) # at /\ Parent(at) # s
        BY <1>4, <1>6, <2>3
      <3>3. t[Parent(at)] = slots[Parent(at)]
        BY <1>2, <3>2
      <3> QED
        BY <1>2, <2>3, <3>1, <3>3 DEF InOrderAt
    <2>4. CASE i # s /\ i # at /\ Parent(i) # at
      <3>1. t[i] = slots[i] /\ t[Parent(i)] = slots[Parent(i)]
        BY <1>2, <1>4, <1>6, <2>4
      <3> QED
        BY <2>4, <3>1 DEF Sinking, InOrderAt
    <2> QED
      BY <2>1, <2>2, <2>3, <2>4
  <1>7. ASSUME NEW i \in 1..(n - 1), Parent(i) = s
        PROVE  t[Parent(s)].priority <= t[i].priority
    <2>1. i # s /\ i # at
      BY <1>4, <1>7
    <2>2. slots[s].priority <= slots[i].priority
      BY <1>7 DEF Sinking, InOrderAt
    <2> QED
      BY <1>2, <2>1, <2>2
  <1>8. Sinking(t, s, n)
    BY <1>6, <1>7 DEF Sinking
  <1> QED
    BY <1>2, <1>8 DEF t

(* The root of a heap in order is a least cell.                            *)
LEMMA RootIsLeast ==
    ASSUME NEW C, NEW n \in Nat, NEW slots, Filled(slots, C, n), InOrder(slots, n)
    PROVE  \A c \in C : slots[0].priority <= c.priority
  <1> DEFINE U == {i \in 0..(n - 1) : ~ (slots[0].priority <= slots[i].priority)}
  <1>1. \A i \in 0..(n - 1) : slots[i].priority \in Int
    BY PriorityIsInt
  <1>2. U = {}
    <2> SUFFICES ASSUME U # {} PROVE FALSE
      OBVIOUS
    <2>1. U \subseteq Nat
      OBVIOUS
    <2> HIDE DEF U
    <2>2. PICK i \in U : \A j \in U : i <= j
      BY <2>1, LeastNumber
    <2> USE DEF U
    <2>3. i \in 1..(n - 1)
      BY <1>1, <2>2
    <2>4. Parent(i) \in 0..(n - 1) /\ Parent(i) < i
      BY <2>3 DEF Parent
    <2>5. slots[0].priority <= slots[Parent(i)].priority
      BY <2>2, <2>4
    <2>6. slots[Parent(i)].priority <= slots[i].priority
      BY <2>3 DEF InOrder, InOrderAt
    <2> QED
      BY <1>1, <2>2, <2>3, <2>4, <2>5, <2>6
  <1>3. \A c \in C : \E i \in 0..(n - 1) : c = slots[i]
    BY DEF Filled
  <1> QED
    BY <1>2, <1>3

(* insertHelper puts a heap in order whose last cell is new.               *)
LEMMA InsertHelperHolds ==
    ASSUME NEW C, NEW n \in Nat, n > 0, NEW slots, Filled(slots, C, n), Rising(slots, n - 1, n)
    PROVE  /\ Filled(insertHelper(slots, n - 1), C, n)
           /\ InOrder(insertHelper(slots, n - 1), n)
  <1> DEFINE x == [slots |-> slots, at |-> n - 1]
             last == n - 1
             Spots == [slots : [0..last -> Cell], at : 0..last]
             T == [k \in 0..last |-> {w \in Spots :
                     /\ Filled(w.slots, C, n) /\ Rising(w.slots, w.at, n)
                     /\ InOrder(w.slots, n) \/ w.at + k <= last}]
             step == [w \in Spots |-> Rise(w)]
  <1>0. last \in Nat /\ n = last + 1
    OBVIOUS
  <1>1. x \in T[0]
    <2>1. slots \in [0..last -> Cell]
      BY DEF Filled
    <2>2. x \in Spots /\ x.slots = slots /\ x.at = last /\ last + 0 <= last /\ 0 \in 0..last
      BY <1>0, <2>1
    <2> HIDE DEF x, Spots
    <2> QED
      BY <2>2
  <1>2. \A k \in 1..last : \A w \in T[k - 1] : Rise(w) \in T[k] /\ step[w] = Rise(w)
    <2> SUFFICES ASSUME NEW k \in 1..last, NEW w \in T[k - 1]
                 PROVE  Rise(w) \in T[k] /\ step[w] = Rise(w)
      OBVIOUS
    <2>1. /\ w \in Spots /\ w.at \in 0..(n - 1) /\ w = [slots |-> w.slots, at |-> w.at]
          /\ Filled(w.slots, C, n) /\ Rising(w.slots, w.at, n)
          /\ InOrder(w.slots, n) \/ w.at + (k - 1) <= last
      BY <1>0
    <2>2. step[w] = Rise(w)
      <3> HIDE DEF Spots
      <3> QED
        BY <2>1
    <2>3. CASE w.at > 0 /\ w.slots[w.at].priority < w.slots[Parent(w.at)].priority
      <3> DEFINE p == Parent(w.at)
                 t == Swap(w.slots, p, w.at)
      <3>1. Rise(w) = [slots |-> t, at |-> p]
        BY <2>3 DEF Rise, Parent
      <3>2. Filled(t, C, n) /\ Rising(t, p, n)
        BY <2>1, <2>3, RiseKeeps
      <3>3. p \in 0..last /\ p < w.at
        BY <2>1, <2>3 DEF Parent
      <3>4. t \in [0..last -> Cell]
        BY <3>2 DEF Filled
      <3>5. ~InOrder(w.slots, n)
        <4>1. w.at \in 1..(n - 1) /\ \A i \in 0..(n - 1) : w.slots[i].priority \in Int
          BY <2>1, <2>3, PriorityIsInt
        <4> QED
          BY <2>3, <3>3, <4>1 DEF InOrder, InOrderAt
      <3>6. p + k <= last
        BY <2>1, <3>3, <3>5
      <3> HIDE DEF t, p
      <3>7. Rise(w) \in Spots /\ Rise(w).slots = t /\ Rise(w).at = p
        BY <3>1, <3>3, <3>4
      <3> HIDE DEF Spots
      <3> QED
        BY <2>2, <3>2, <3>6, <3>7
    <2>4. CASE ~ (w.at > 0 /\ w.slots[w.at].priority < w.slots[Parent(w.at)].priority)
      <3>1. Rise(w) = w
        BY <2>4 DEF Rise, Parent
      <3>2. InOrder(w.slots, n)
        <4>1. \A i \in 0..(n - 1) : w.slots[i].priority \in Int
          BY <2>1, PriorityIsInt
        <4>2. \A i \in 1..(n - 1) : Parent(i) \in 0..(n - 1)
          BY DEF Parent
        <4>3. ASSUME NEW i \in 1..(n - 1) PROVE InOrderAt(w.slots, i)
          <5>1. CASE i # w.at
            BY <2>1, <5>1 DEF Rising
          <5>2. CASE i = w.at
            BY <2>4, <4>1, <4>2, <5>2 DEF InOrderAt
          <5> QED
            BY <5>1, <5>2
        <4> QED
          BY <4>3 DEF InOrder
      <3>3. w \in {v \in Spots :
                     /\ Filled(v.slots, C, n) /\ Rising(v.slots, v.at, n)
                     /\ InOrder(v.slots, n) \/ v.at + k <= last}
        <4> HIDE DEF Spots
        <4> QED
          BY <2>1, <3>2
      <3> HIDE DEF Spots, step
      <3> QED
        BY <2>2, <3>1, <3>3
    <2> QED
      BY <2>3, <2>4
  <1>3. \E f : f = [k \in 0..last |-> IF k = 0 THEN x ELSE Rise(f[k - 1])]
    <2> HIDE DEF T, x, step, last
    <2>a. \A k \in 1..last : \A w \in T[k - 1] : step[w] \in T[k]
      BY <1>2
    <2>1. PICK f : IsRun(f, step, x, last) /\ \A k \in 0..last : f[k] \in T[k]
      BY <1>0, <1>1, <2>a, LoopRuns
    <2>2. \A k \in 1..last : step[f[k - 1]] = Rise(f[k - 1])
      BY <1>0, <1>2, <2>1
    <2>3. \A k \in 0..last : (IF k = 0 THEN x ELSE step[f[k - 1]])
                           = (IF k = 0 THEN x ELSE Rise(f[k - 1]))
      BY <1>0, <2>2
    <2>4. f = [k \in 0..last |-> IF k = 0 THEN x ELSE Rise(f[k - 1])]
      BY <2>1, <2>3, Zenon DEF IsRun
    <2> QED
      BY <2>4
  <1>4. ASSUME NEW f, f = [k \in 0..last |-> IF k = 0 THEN x ELSE Rise(f[k - 1])]
        PROVE  f[last] \in T[last]
    <2> HIDE DEF T, x, last
    <2>1. f[0] = x /\ \A k \in 1..last : f[k] = Rise(f[k - 1])
      BY <1>0, <1>4
    <2>2. \A k \in 1..last : f[k - 1] \in T[k - 1] => f[k] \in T[k]
      BY <1>2, <2>1
    <2> QED
      BY <1>0, <1>1, <2>1, <2>2, RunStays
  <1>5. Iterate(Rise, x, last) \in T[last]
    <2> HIDE DEF T, x, last
    <2> QED
      BY <1>3, <1>4 DEF Iterate
  <1>6. insertHelper(slots, n - 1) = Iterate(Rise, x, last).slots
    BY DEF insertHelper
  <1> DEFINE w == Iterate(Rise, x, last)
  <1>7. /\ Filled(w.slots, C, n) /\ Rising(w.slots, w.at, n) /\ w.at \in 0..last
        /\ (InOrder(w.slots, n) \/ w.at + last <= last)
    <2> HIDE DEF w
    <2>1. w \in T[last] /\ last \in 0..last
      BY <1>0, <1>5 DEF w
    <2> HIDE DEF last
    <2> QED
      BY <2>1
  <1>8. InOrder(w.slots, n)
    <2> HIDE DEF w
    <2>1. CASE w.at = 0
      BY <1>7, <2>1 DEF Rising, InOrder
    <2> QED
      BY <1>0, <1>7, <2>1
  <1> QED
    BY <1>6, <1>7, <1>8

(* heapify puts a heap in order whose first cell has been replaced.        *)
LEMMA HeapifyHolds ==
    ASSUME NEW C, NEW n \in Nat, NEW slots, Filled(slots, C, n),
           n > 0 => Sinking(slots, 0, n)
    PROVE  /\ Filled(heapify(slots, n, 0), C, n)
           /\ InOrder(heapify(slots, n, 0), n)
  <1> DEFINE x == [slots |-> slots, at |-> 0]
             Spots == [slots : [0..(n - 1) -> Cell], at : Nat]
             T == [k \in 0..n |-> {w \in Spots :
                     /\ Filled(w.slots, C, n)
                     /\ n > 0 => w.at < n /\ Sinking(w.slots, w.at, n)
                     /\ InOrder(w.slots, n) \/ w.at >= k}]
             sink(h) == Sink(h, n)
             step == [w \in Spots |-> sink(w)]
  <1>1. x \in T[0]
    <2>1. slots \in [0..(n - 1) -> Cell]
      BY DEF Filled
    <2>2. x \in Spots /\ x.slots = slots /\ x.at = 0 /\ 0 >= 0 /\ 0 \in 0..n
      BY <2>1
    <2> HIDE DEF x, Spots
    <2> QED
      BY <2>2
  <1>2. \A k \in 1..n : \A w \in T[k - 1] : sink(w) \in T[k] /\ step[w] = sink(w)
    <2> SUFFICES ASSUME NEW k \in 1..n, NEW w \in T[k - 1]
                 PROVE  sink(w) \in T[k] /\ step[w] = sink(w)
      OBVIOUS
    <2>1. /\ w \in Spots /\ w.at \in 0..(n - 1) /\ w = [slots |-> w.slots, at |-> w.at]
          /\ Filled(w.slots, C, n) /\ Sinking(w.slots, w.at, n)
          /\ InOrder(w.slots, n) \/ w.at >= k - 1
      OBVIOUS
    <2>2. step[w] = sink(w)
      <3> HIDE DEF Spots, sink
      <3> QED
        BY <2>1
    <2> DEFINE s == Smallest(w.slots, n, w.at)
    <2>3. /\ s \in 0..(n - 1)
          /\ s = w.at \/ (s > w.at /\ Parent(s) = w.at
                           /\ w.slots[s].priority < w.slots[w.at].priority)
          /\ w.slots[s].priority <= w.slots[w.at].priority
          /\ \A i \in 1..(n - 1) : Parent(i) = w.at => w.slots[s].priority <= w.slots[i].priority
      BY <2>1, SmallestIs
    <2>4. sink(w) = IF s = w.at THEN w ELSE [slots |-> Swap(w.slots, w.at, s), at |-> s]
      BY DEF Sink
    <2> HIDE DEF s
    <2>5. CASE s # w.at
      <3> DEFINE t == Swap(w.slots, w.at, s)
      <3>2. Filled(t, C, n) /\ Sinking(t, s, n)
        BY <2>1, <2>3, <2>5, SinkKeeps
      <3>4. t \in [0..(n - 1) -> Cell] /\ s \in Nat /\ s < n
        BY <2>3, <3>2 DEF Filled
      <3>5. InOrder(t, n) \/ s >= k
        <4>1. ~InOrder(w.slots, n)
          <5>1. s \in 1..(n - 1) /\ \A i \in 0..(n - 1) : w.slots[i].priority \in Int
            BY <2>1, <2>3, <2>5, PriorityIsInt
          <5> QED
            BY <2>1, <2>3, <2>5, <5>1 DEF InOrder, InOrderAt
        <4> QED
          BY <2>1, <2>3, <2>5, <4>1
      <3> HIDE DEF t, sink
      <3>7. sink(w) \in Spots /\ sink(w).slots = t /\ sink(w).at = s
        BY <2>4, <2>5, <3>4 DEF t
      <3> HIDE DEF Spots, step
      <3> QED
        BY <2>2, <3>2, <3>4, <3>5, <3>7
    <2>6. CASE s = w.at
      <3>2. InOrder(w.slots, n)
        <4>3. ASSUME NEW i \in 1..(n - 1) PROVE InOrderAt(w.slots, i)
          <5>1. CASE Parent(i) # w.at
            BY <2>1, <5>1 DEF Sinking
          <5>2. CASE Parent(i) = w.at
            BY <2>3, <2>6, <5>2 DEF InOrderAt
          <5> QED
            BY <5>1, <5>2
        <4> QED
          BY <4>3 DEF InOrder
      <3>3. sink(w) = w
        <4> HIDE DEF sink
        <4> QED
          BY <2>4, <2>6
      <3> HIDE DEF Spots, step, sink
      <3> QED
        BY <2>1, <2>2, <3>2, <3>3
    <2> QED
      BY <2>5, <2>6
  <1>3. \E f : f = [k \in 0..n |-> IF k = 0 THEN x ELSE sink(f[k - 1])]
    <2> HIDE DEF T, x, step, sink
    <2>a. \A k \in 1..n : \A w \in T[k - 1] : step[w] \in T[k]
      BY <1>2
    <2>1. PICK f : IsRun(f, step, x, n) /\ \A k \in 0..n : f[k] \in T[k]
      BY <1>1, <2>a, LoopRuns
    <2>2. \A k \in 1..n : step[f[k - 1]] = sink(f[k - 1])
      BY <1>2, <2>1
    <2>3. \A k \in 0..n : (IF k = 0 THEN x ELSE step[f[k - 1]])
                           = (IF k = 0 THEN x ELSE sink(f[k - 1]))
      BY <2>2
    <2>4. f = [k \in 0..n |-> IF k = 0 THEN x ELSE sink(f[k - 1])]
      BY <2>1, <2>3, Zenon DEF IsRun
    <2> QED
      BY <2>4
  <1>4. ASSUME NEW f, f = [k \in 0..n |-> IF k = 0 THEN x ELSE sink(f[k - 1])]
        PROVE  f[n] \in T[n]
    <2> HIDE DEF T, x, sink
    <2>1. f[0] = x /\ \A k \in 1..n : f[k] = sink(f[k - 1])
      BY <1>4
    <2>2. \A k \in 1..n : f[k - 1] \in T[k - 1] => f[k] \in T[k]
      BY <1>2, <2>1
    <2> QED
      BY <1>1, <2>1, <2>2, RunStays
  <1> DEFINE w == Iterate(sink, x, n)
  <1>5. w \in T[n]
    <2> HIDE DEF T, x
    <2> QED
      BY <1>3, <1>4 DEF Iterate
  <1>6. heapify(slots, n, 0) = w.slots
    BY DEF heapify
  <1>7. /\ Filled(w.slots, C, n) /\ (InOrder(w.slots, n) \/ w.at >= n)
        /\ n > 0 => w.at < n
        /\ w.at \in Nat
    <2> HIDE DEF w
    <2> QED
      BY <1>5
  <1>8. InOrder(w.slots, n)
    <2> HIDE DEF w
    <2>1. CASE n = 0
      BY <2>1 DEF InOrder
    <2> QED
      BY <1>7, <2>1
  <1> HIDE DEF w
  <1> QED
    BY <1>6, <1>7, <1>8

(* The heap holds the n cells of C.                                        *)
HeapHolds(h, C, n) ==
    /\ h = [slots |-> h.slots, capacity |-> h.capacity, size |-> n]
    /\ n \in Nat /\ h.capacity \in Nat /\ h.capacity > 0 /\ n <= h.capacity
    /\ Filled(h.slots, C, n)
    /\ InOrder(h.slots, n)

(* heap_create.                                                            *)
LEMMA EmptyHeapHolds == HeapHolds(heap_create, {}, 0)
  <1>1. heap_create = [slots |-> <<>>, capacity |-> InitialCapacity, size |-> 0]
    BY DEF heap_create
  <1>2. <<>> \in [0..(0 - 1) -> Cell] /\ {} = {<<>>[i] : i \in 0..(0 - 1)}
    OBVIOUS
  <1>3. Filled(<<>>, {}, 0) /\ InOrder(<<>>, 0)
    BY <1>2 DEF Filled, InOrder
  <1> QED
    BY <1>1, <1>3, CapacityAssumption DEF HeapHolds

(* heap_insert adds its cell, growing the vector when it is full.          *)
LEMMA HeapInsertHolds ==
    ASSUME NEW h, NEW C, NEW n, HeapHolds(h, C, n),
           NEW d \in Procs, NEW key \in Int, \A c \in C : c.data # d
    PROVE  HeapHolds(heap_insert(h, d, key), C \cup {[data |-> d, priority |-> key]}, n + 1)
  <1> DEFINE cell == [data |-> d, priority |-> key]
             slots == Put(h.slots, n, cell)
             capacity == IF n = h.capacity THEN 2 * h.capacity ELSE h.capacity
             pushed == [slots |-> slots, capacity |-> capacity, size |-> n]
  <1>1. n \in Nat /\ Filled(h.slots, C, n) /\ InOrder(h.slots, n) /\ n <= h.capacity
        /\ h.capacity \in Nat /\ h.capacity > 0
    BY DEF HeapHolds
  <1>2. DOMAIN h.slots = 0..(n - 1) /\ \A i \in 0..(n - 1) : h.slots[i] \in Cell
    BY <1>1 DEF Filled
  <1>3. vectorSize(h) = n
    <2>1. Cardinality(0..(n - 1)) = n
      BY <1>1, FS_Interval
    <2> QED
      BY <1>2, <2>1 DEF vectorSize
  <1>4. vector_push(h, cell) = pushed
    <2>1. h = [slots |-> h.slots, capacity |-> h.capacity, size |-> n]
      BY DEF HeapHolds
    <2> DEFINE g == [h EXCEPT !.capacity = IF n = h.capacity THEN 2 * h.capacity ELSE h.capacity,
                              !.slots = Put(h.slots, n, cell)]
    <2>2. vector_push(h, cell) = g
      BY <1>3 DEF vector_push
    <2> HIDE DEF slots, capacity, cell
    <2>3. g = [h EXCEPT !.capacity = capacity, !.slots = slots]
      BY DEF slots, capacity
    <2>4. [h EXCEPT !.capacity = capacity] = [slots |-> h.slots, capacity |-> capacity, size |-> n]
      BY <2>1
    <2>5. [[slots |-> h.slots, capacity |-> capacity, size |-> n] EXCEPT !.slots = slots]
          = [slots |-> slots, capacity |-> capacity, size |-> n]
      OBVIOUS
    <2>6. [h EXCEPT !.capacity = capacity, !.slots = slots]
          = [[h EXCEPT !.capacity = capacity] EXCEPT !.slots = slots]
      OBVIOUS
    <2> HIDE DEF g
    <2> QED
      BY <2>2, <2>3, <2>4, <2>5, <2>6
  <1>5. slots = [i \in 0..n |-> IF i = n THEN cell ELSE h.slots[i]]
    <2>1. DOMAIN h.slots \cup {n} = 0..n
      BY <1>1, <1>2
    <2> QED
      BY <2>1 DEF Put
  <1>6. vectorSize(pushed) = n + 1
    <2>1. Cardinality(0..n) = n + 1
      BY <1>1, FS_Interval
    <2>2. DOMAIN pushed.slots = 0..n
      BY <1>5
    <2> QED
      BY <2>1, <2>2 DEF vectorSize
  <1>7. heap_insert(h, d, key) = [slots |-> insertHelper(slots, n), capacity |-> capacity, size |-> n + 1]
    <2>1. heap_insert(h, d, key) = [pushed EXCEPT !.size = vectorSize(pushed),
                                                  !.slots = insertHelper(pushed.slots, vectorSize(pushed) - 1)]
      <3> HIDE DEF pushed
      <3> QED
        BY <1>4, Zenon DEF heap_insert
    <2>2. n + 1 - 1 = n /\ pushed.slots = slots
      BY <1>1
    <2> DEFINE size == vectorSize(pushed)
               risen == insertHelper(pushed.slots, size - 1)
    <2>3. size = n + 1 /\ risen = insertHelper(slots, n)
      <3>1. size = n + 1 /\ size - 1 = n
        BY <1>1, <1>6
      <3> HIDE DEF pushed, slots, size
      <3> QED
        BY <2>2, <3>1
    <2> HIDE DEF slots, capacity, size, risen
    <2>4. [pushed EXCEPT !.size = size] = [slots |-> slots, capacity |-> capacity, size |-> size]
      OBVIOUS
    <2>5. [[slots |-> slots, capacity |-> capacity, size |-> size] EXCEPT !.slots = risen]
          = [slots |-> risen, capacity |-> capacity, size |-> size]
      OBVIOUS
    <2>6. [pushed EXCEPT !.size = size, !.slots = risen] = [[pushed EXCEPT !.size = size] EXCEPT !.slots = risen]
      OBVIOUS
    <2> HIDE DEF pushed
    <2>7. heap_insert(h, d, key) = [pushed EXCEPT !.size = size, !.slots = risen]
      BY <2>1, Zenon DEF size, risen
    <2> QED
      BY <2>3, <2>4, <2>5, <2>6, <2>7
  <1>8. Filled(slots, C \cup {cell}, n + 1)
    <2>1. cell \in Cell
      BY DEF Cell
    <2>2. n + 1 - 1 = n
      BY <1>1
    <2>3. slots \in [0..n -> Cell]
      BY <1>1, <1>2, <1>5, <2>1
    <2>4. \A i \in 0..(n - 1) : slots[i] = h.slots[i] /\ i \in 0..n
      BY <1>1, <1>5
    <2>5. slots[n] = cell /\ n \in 0..n
      BY <1>1, <1>5
    <2>6. \A i \in 0..n : i = n \/ i \in 0..(n - 1)
      BY <1>1
    <2> HIDE DEF slots, cell
    <2>7. \A c : c \in C <=> \E i \in 0..(n - 1) : c = h.slots[i]
      BY <1>1 DEF Filled
    <2>8. \A c : c \in C \cup {cell} <=> \E i \in 0..n : c = slots[i]
      BY <2>4, <2>5, <2>6, <2>7
    <2>9. C \cup {cell} = {slots[i] : i \in 0..n}
      BY <2>8
    <2>10. \A i \in 0..(n - 1) : slots[i].data # d
      BY <2>4, <2>7
    <2>11. cell.data = d
      BY DEF cell
    <2>12. \A i, j \in 0..(n - 1) : slots[i].data = slots[j].data => i = j
      BY <1>1, <2>4 DEF Filled
    <2>13. \A i, j \in 0..n : slots[i].data = slots[j].data => i = j
      BY <2>5, <2>6, <2>10, <2>11, <2>12
    <2> DEFINE m == n + 1
               all == C \cup {cell}
    <2>14. m - 1 = n
      BY <1>1
    <2> HIDE DEF m, all
    <2>15. Filled(slots, all, m)
      BY <2>3, <2>9, <2>13, <2>14 DEF Filled, all
    <2> QED
      BY <2>15 DEF m, all
  <1>9. Rising(slots, n, n + 1)
    <2>1. \A i \in 1..n : i # n => i \in 1..(n - 1)
      BY <1>1
    <2>2. \A i \in 1..(n - 1) : Parent(i) \in 0..(n - 1) /\ i \in 0..(n - 1)
      BY <1>1 DEF Parent
    <2>3. \A i \in 0..(n - 1) : slots[i] = h.slots[i]
      BY <1>1, <1>5
    <2>4. \A i \in 1..n : Parent(i) # n
      BY <1>1 DEF Parent
    <2>5. n + 1 - 1 = n
      BY <1>1
    <2> HIDE DEF slots
    <2> QED
      BY <1>1, <2>1, <2>2, <2>3, <2>4, <2>5 DEF Rising, InOrder, InOrderAt
  <1>10. /\ Filled(insertHelper(slots, n), C \cup {cell}, n + 1)
         /\ InOrder(insertHelper(slots, n), n + 1)
    <2>1. n + 1 - 1 = n /\ n + 1 \in Nat /\ n + 1 > 0
      BY <1>1
    <2> HIDE DEF slots, cell
    <2> QED
      BY <1>1, <1>8, <1>9, <2>1, InsertHelperHolds
  <1>11. capacity \in Nat /\ capacity > 0 /\ n + 1 <= capacity
    BY <1>1
  <1> HIDE DEF slots, capacity
  <1> QED
    BY <1>1, <1>7, <1>10, <1>11 DEF HeapHolds

(* heap_extract_min takes out a least cell and leaves a heap in order that *)
(* holds the others.                                                       *)
THEOREM HeapExtractHolds ==
    ASSUME NEW h, NEW C, NEW n, HeapHolds(h, C, n), n > 0
    PROVE  \E c \in C :
               /\ heapMin(h) = c.data
               /\ \A b \in C : c.priority <= b.priority
               /\ HeapHolds(heap_extract_min(h), C \ {c}, n - 1)
  <1> DEFINE last == n - 1
             moved == [h.slots EXCEPT ![0] = h.slots[last]]
             slots == [i \in 0..(last - 1) |-> moved[i]]
             c == h.slots[0]
  <1>1. n \in Nat /\ Filled(h.slots, C, n) /\ InOrder(h.slots, n) /\ n <= h.capacity
        /\ h.capacity \in Nat /\ h.capacity > 0 /\ last \in Nat /\ n = last + 1
    BY DEF HeapHolds
  <1>2. DOMAIN h.slots = 0..last /\ \A i \in 0..last : h.slots[i] \in Cell
    BY <1>1 DEF Filled
  <1> HIDE DEF last
  <1>3. slots = [i \in 0..(last - 1) |-> IF i = 0 THEN h.slots[last] ELSE h.slots[i]]
    BY <1>1, <1>2
  <1>4. heap_extract_min(h) = [slots |-> heapify(slots, last, 0), capacity |-> h.capacity, size |-> last]
    <2>1. h = [slots |-> h.slots, capacity |-> h.capacity, size |-> n]
      BY DEF HeapHolds
    <2>2. h.size = n
      BY <2>1
    <2>3. heap_extract_min(h) = [h EXCEPT !.size = last, !.slots = heapify(slots, last, 0)]
      BY <2>2 DEF heap_extract_min, last
    <2> HIDE DEF slots
    <2> QED
      BY <2>1, <2>3
  <1>5. Filled(slots, C \ {c}, last)
    <2>1. \A i \in 0..(last - 1) : slots[i] = (IF i = 0 THEN h.slots[last] ELSE h.slots[i]) /\ i \in 0..last
      BY <1>1, <1>3
    <2>2. \A i, j \in 0..last : h.slots[i].data = h.slots[j].data => i = j
      BY <1>1 DEF Filled, last
    <2>3. slots \in [0..(last - 1) -> Cell]
      BY <1>1, <1>2, <1>3
    <2>4. \A b : b \in C <=> \E i \in 0..last : b = h.slots[i]
      BY <1>1 DEF Filled, last
    <2> HIDE DEF slots
    <2>5. \A i, j \in 0..(last - 1) : slots[i].data = slots[j].data => i = j
      BY <1>1, <2>1, <2>2
    <2>6. \A b : b \in C \ {c} <=> \E i \in 0..(last - 1) : b = slots[i]
      <3> TAKE b
      <3>1. ASSUME b \in C \ {c} PROVE \E i \in 0..(last - 1) : b = slots[i]
        <4>1. PICK i \in 0..last : b = h.slots[i]
          BY <2>4, <3>1
        <4>2. i # 0
          BY <3>1, <4>1
        <4>3. CASE i = last
          BY <1>1, <2>1, <4>1, <4>2, <4>3
        <4>4. CASE i # last
          BY <1>1, <2>1, <4>1, <4>2, <4>4
        <4> QED
          BY <4>3, <4>4
      <3>2. ASSUME NEW i \in 0..(last - 1), b = slots[i] PROVE b \in C \ {c}
        <4>1. last \in 0..last /\ 0 \in 0..last /\ last # 0 /\ i \in 0..last
          BY <1>1
        <4>2. CASE i = 0
          BY <2>1, <2>2, <2>4, <3>2, <4>1, <4>2
        <4>3. CASE i # 0
          BY <2>1, <2>2, <2>4, <3>2, <4>1, <4>3
        <4> QED
          BY <4>2, <4>3
      <3> QED
        BY <3>1, <3>2
    <2>7. C \ {c} = {slots[i] : i \in 0..(last - 1)}
      BY <2>6
    <2> QED
      BY <2>3, <2>5, <2>7 DEF Filled
  <1>6. last > 0 => Sinking(slots, 0, last)
    <2> SUFFICES ASSUME NEW i \in 1..(last - 1), Parent(i) # 0 PROVE InOrderAt(slots, i)
      BY DEF Sinking
    <2>1. Parent(i) \in 1..(last - 1) /\ i \in 1..(n - 1)
      BY <1>1 DEF Parent
    <2>2. slots[i] = h.slots[i] /\ slots[Parent(i)] = h.slots[Parent(i)]
      BY <1>1, <1>3, <2>1
    <2> HIDE DEF slots
    <2> QED
      BY <1>1, <2>1, <2>2 DEF InOrder, InOrderAt
  <1>7. /\ Filled(heapify(slots, last, 0), C \ {c}, last)
        /\ InOrder(heapify(slots, last, 0), last)
    <2> HIDE DEF slots, c
    <2> QED
      BY <1>1, <1>5, <1>6, HeapifyHolds
  <1>8. c \in C /\ heapMin(h) = c.data
    BY <1>1 DEF Filled, heapMin, last
  <1>9. \A b \in C : c.priority <= b.priority
    BY <1>1, RootIsLeast
  <1>10. HeapHolds(heap_extract_min(h), C \ {c}, last)
    <2> HIDE DEF slots, c
    <2> QED
      BY <1>1, <1>4, <1>7 DEF HeapHolds
  <1> HIDE DEF c
  <1> QED
    BY <1>8, <1>9, <1>10 DEF last

-----------------------------------------------------------------------------
(* The ready queue, whatever the policy.                                   *)

(* The queue, a ring or a heap, holds the processes of I.                  *)
QueueHolds(ring, q, I) ==
    \E n : IF ring THEN \E e : RingHolds(q, e, n) /\ I = {e[i] : i \in 1..n}
           ELSE \E C : HeapHolds(q, C, n) /\ I = {c.data : c \in C}

(* Each process is in the queue once.                                      *)
LEMMA QueueFacts ==
    ASSUME NEW ring, NEW q, NEW I, QueueHolds(ring, q, I)
    PROVE  I \subseteq Procs /\ IsFiniteSet(I) /\ q.size \in Nat /\ Cardinality(I) = q.size
  <1>1. PICK n : IF ring THEN \E e : RingHolds(q, e, n) /\ I = {e[i] : i \in 1..n}
                 ELSE \E C : HeapHolds(q, C, n) /\ I = {c.data : c \in C}
    BY DEF QueueHolds
  <1>2. CASE ring
    <2>1. PICK e : RingHolds(q, e, n) /\ I = {e[i] : i \in 1..n}
      BY <1>1, <1>2
    <2>2. n \in Nat /\ q.size = n /\ e \in [1..n -> Procs]
          /\ \A i, j \in 1..n : e[i] = e[j] => i = j
      BY <2>1, RingFacts
    <2>3. e \in Bijection(1..n, I)
      BY <2>1, <2>2, Fun_IsBij
    <2>4. ExistsBijection(1..n, I)
      BY <2>3 DEF ExistsBijection
    <2> QED
      BY <2>1, <2>2, <2>4, FS_CountingElements, FS_NatBijection
  <1>3. CASE ~ring
    <2>1. PICK C : HeapHolds(q, C, n) /\ I = {c.data : c \in C}
      BY <1>1, <1>3
    <2>2. n \in Nat /\ q.size = n /\ Filled(q.slots, C, n)
      BY <2>1 DEF HeapHolds
    <2> DEFINE e == [i \in 1..n |-> q.slots[i - 1].data]
    <2>3. \A i \in 1..n : i - 1 \in 0..(n - 1) /\ e[i] \in Procs
      BY <2>2 DEF Filled, Cell
    <2>4. \A i, j \in 1..n : e[i] = e[j] => i = j
      BY <2>2, <2>3 DEF Filled
    <2>5. I = {e[i] : i \in 1..n}
      <3>1. \A c : c \in C <=> \E i \in 0..(n - 1) : c = q.slots[i]
        BY <2>2 DEF Filled
      <3>2. \A i \in 0..(n - 1) : i + 1 \in 1..n /\ e[i + 1] = q.slots[i].data
        BY <2>2
      <3>3. \A i \in 1..n : i - 1 \in 0..(n - 1) /\ e[i] = q.slots[i - 1].data
        BY <2>2
      <3> HIDE DEF e
      <3> QED
        BY <2>1, <3>1, <3>2, <3>3
    <2>6. e \in Bijection(1..n, I)
      <3>1. e = [i \in 1..n |-> e[i]]
        OBVIOUS
      <3> HIDE DEF e
      <3>2. e \in [1..n -> I] /\ \A x \in I : \E i \in 1..n : e[i] = x
        BY <2>5, <3>1
      <3> QED
        BY <2>4, <3>2, Fun_IsBij
    <2>7. ExistsBijection(1..n, I)
      BY <2>6 DEF ExistsBijection
    <2>8. I \subseteq Procs
      <3> HIDE DEF e
      <3> QED
        BY <2>3, <2>5
    <2> QED
      BY <2>2, <2>7, <2>8, FS_CountingElements, FS_NatBijection
  <1> QED
    BY <1>2, <1>3

LEMMA EmptyQueueHolds ==
    QueueHolds(TRUE, createQueue, {}) /\ QueueHolds(FALSE, heap_create, {})
  <1>1. QueueHolds(TRUE, createQueue, {})
    <2>1. {} = {<<>>[i] : i \in 1..0}
      OBVIOUS
    <2> QED
      BY <2>1, EmptyRingHolds DEF QueueHolds
  <1>2. QueueHolds(FALSE, heap_create, {})
    BY EmptyHeapHolds DEF QueueHolds
  <1> QED
    BY <1>1, <1>2

(* There is room for one more process.                                     *)
LEMMA RoomLeft ==
    ASSUME NEW I, I \subseteq Procs, NEW p \in Procs, p \notin I
    PROVE  IsFiniteSet(I) /\ Cardinality(I) < MaxProcs
  <1>1. IsFiniteSet(Procs) /\ Cardinality(Procs) = MaxProcs
    BY StoreAssumption, FS_Interval DEF Procs
  <1>2. Cardinality(I) <= Cardinality(Procs) /\ (Cardinality(I) = Cardinality(Procs) => I = Procs)
    BY <1>1, FS_Subset
  <1>3. IsFiniteSet(I) /\ Cardinality(I) \in Nat
    BY <1>1, FS_Subset, FS_CardinalityType
  <1> QED
    BY <1>1, <1>2, <1>3, StoreAssumption

(* pushToReadyQueue adds its process.                                      *)
LEMMA PushHolds ==
    ASSUME NEW I, QueueHolds(Ring, readyQueue, I), NEW p \in Procs, p \notin I,
           NEW block, Ring \/ HeapKey(p, block) \in Int
    PROVE  QueueHolds(Ring, pushToReadyQueue(p, block), I \cup {p})
  <1>1. PICK n : IF Ring THEN \E e : RingHolds(readyQueue, e, n) /\ I = {e[i] : i \in 1..n}
                 ELSE \E C : HeapHolds(readyQueue, C, n) /\ I = {c.data : c \in C}
    BY DEF QueueHolds
  <1>2. CASE Ring
    <2>1. PICK e : RingHolds(readyQueue, e, n) /\ I = {e[i] : i \in 1..n}
      BY <1>1, <1>2
    <2>2. n \in Nat /\ n < MaxProcs
      BY <2>1, RingFacts, QueueFacts, RoomLeft
    <2> DEFINE t == [i \in 1..(n + 1) |-> IF i = n + 1 THEN p ELSE e[i]]
    <2>3. RingHolds(enqueue(readyQueue, p), t, n + 1)
      BY <2>1, <2>2, StoreAssumption, EnqueueHolds
    <2>4. I \cup {p} = {t[i] : i \in 1..(n + 1)}
      <3>1. \A i \in 1..n : t[i] = e[i] /\ i \in 1..(n + 1)
        BY <2>2
      <3>2. t[n + 1] = p /\ n + 1 \in 1..(n + 1) /\ \A i \in 1..(n + 1) : i = n + 1 \/ i \in 1..n
        BY <2>2
      <3> HIDE DEF t
      <3> QED
        BY <2>1, <3>1, <3>2
    <2>5. pushToReadyQueue(p, block) = enqueue(readyQueue, p)
      BY <1>2 DEF pushToReadyQueue
    <2> HIDE DEF t
    <2> QED
      BY <1>2, <2>3, <2>4, <2>5 DEF QueueHolds
  <1>3. CASE ~Ring
    <2>1. PICK C : HeapHolds(readyQueue, C, n) /\ I = {c.data : c \in C}
      BY <1>1, <1>3
    <2> DEFINE key == HeapKey(p, block)
               D == C \cup {[data |-> p, priority |-> key]}
    <2>2. key \in Int
      BY <1>3
    <2> HIDE DEF key
    <2>3. HeapHolds(heap_insert(readyQueue, p, key), D, n + 1)
      BY <2>1, <2>2, HeapInsertHolds
    <2>4. I \cup {p} = {c.data : c \in D}
      <3> DEFINE cell == [data |-> p, priority |-> key]
      <3>1. cell.data = p /\ \A c : c \in D <=> c \in C \/ c = cell
        OBVIOUS
      <3> HIDE DEF cell, D
      <3> QED
        BY <2>1, <3>1
    <2>5. pushToReadyQueue(p, block) = heap_insert(readyQueue, p, key)
      BY <1>3 DEF pushToReadyQueue, key
    <2> HIDE DEF D
    <2> QED
      BY <1>3, <2>3, <2>4, <2>5 DEF QueueHolds
  <1> QED
    BY <1>2, <1>3

(* What schedule takes out in one round, and what it leaves.               *)
First(q) == IF Ring THEN frontData(q) ELSE heapMin(q)

Left(q) == IF Ring THEN dequeue(q) ELSE heap_extract_min(q)

(* One round takes out one of the processes, and only that.                *)
LEMMA TakeHolds ==
    ASSUME NEW q, NEW I, QueueHolds(Ring, q, I), q.size > 0
    PROVE  First(q) \in I /\ QueueHolds(Ring, Left(q), I \ {First(q)})
  <1>1. PICK n : IF Ring THEN \E e : RingHolds(q, e, n) /\ I = {e[i] : i \in 1..n}
                 ELSE \E C : HeapHolds(q, C, n) /\ I = {c.data : c \in C}
    BY DEF QueueHolds
  <1>2. CASE Ring
    <2>1. PICK e : RingHolds(q, e, n) /\ I = {e[i] : i \in 1..n}
      BY <1>1, <1>2
    <2>2. n \in Nat /\ n > 0 /\ First(q) = e[1] /\ \A i, j \in 1..n : e[i] = e[j] => i = j
      BY <1>2, <2>1, RingFacts DEF First
    <2> DEFINE t == [i \in 1..(n - 1) |-> e[i + 1]]
    <2>3. RingHolds(dequeue(q), t, n - 1)
      BY <2>1, <2>2, DequeueHolds
    <2>4. I \ {e[1]} = {t[i] : i \in 1..(n - 1)}
      <3>1. \A i \in 1..(n - 1) : t[i] = e[i + 1] /\ i + 1 \in 1..n /\ i + 1 # 1
        BY <2>2
      <3>2. \A i \in 1..n : i # 1 => i - 1 \in 1..(n - 1) /\ t[i - 1] = e[i]
        BY <2>2
      <3>3. 1 \in 1..n
        BY <2>2
      <3> HIDE DEF t
      <3> QED
        BY <2>1, <2>2, <3>1, <3>2, <3>3
    <2>5. Left(q) = dequeue(q) /\ e[1] \in I
      BY <1>2, <2>1, <2>2 DEF Left
    <2> HIDE DEF t
    <2> QED
      BY <1>2, <2>2, <2>3, <2>4, <2>5 DEF QueueHolds
  <1>3. CASE ~Ring
    <2>1. PICK C : HeapHolds(q, C, n) /\ I = {c.data : c \in C}
      BY <1>1, <1>3
    <2>2. n > 0 /\ Filled(q.slots, C, n)
      BY <2>1 DEF HeapHolds
    <2>3. PICK c \in C : heapMin(q) = c.data /\ HeapHolds(heap_extract_min(q), C \ {c}, n - 1)
      BY <2>1, <2>2, HeapExtractHolds
    <2>4. \A b \in C : b.data = c.data => b = c
      BY <2>2 DEF Filled
    <2>5. I \ {c.data} = {b.data : b \in C \ {c}}
      BY <2>1, <2>4
    <2>6. Left(q) = heap_extract_min(q) /\ First(q) = c.data /\ c.data \in I
      BY <1>3, <2>1, <2>3 DEF Left, First
    <2> QED
      BY <1>3, <2>3, <2>5, <2>6 DEF QueueHolds
  <1> QED
    BY <1>2, <1>3

(* schedule takes the first entry, for none that is queued is not READY.   *)
LEMMA ScheduleTakes ==
    ASSUME NEW q, NEW I, QueueHolds(Ring, q, I), q.size > 0,
           NEW state, \A p \in I : state[p] = "READY"
    PROVE  schedule(q, state) = [queue |-> Left(q), next |-> First(q)]
  <1> DEFINE n == q.size
             x == [queue |-> q, next |-> NULL]
             y == [queue |-> Left(q), next |-> First(q)]
             takeOut(t) == TakeOut(t, state)
             T == [k \in 0..n |-> IF k = 0 THEN {x} ELSE {y}]
             step == [t \in {x, y} |-> takeOut(t)]
  <1>0. n \in Nat /\ n > 0
    BY QueueFacts
  <1>1. First(q) \in I /\ First(q) # NULL
    BY TakeHolds, QueueFacts DEF Procs, NULL
  <1>2. takeOut(x) = y
    <2>1. x.next = NULL /\ x.queue = q
      OBVIOUS
    <2>2. state[First(q)] = "READY" /\ ~isEmpty(q)
      BY <1>0, <1>1 DEF isEmpty
    <2> HIDE DEF x
    <2> QED
      BY <2>1, <2>2, Zenon DEF TakeOut, First, Left
  <1>3. takeOut(y) = y
    <2>1. y.next # NULL
      BY <1>1
    <2> HIDE DEF y
    <2> QED
      BY <2>1, Zenon DEF TakeOut
  <1> HIDE DEF n
  <1>4. x \in T[0]
    BY <1>0
  <1>5. \A k \in 1..n : \A t \in T[k - 1] : takeOut(t) \in T[k] /\ step[t] = takeOut(t)
    <2> TAKE k \in 1..n
    <2>1. k \in 0..n /\ k - 1 \in 0..n /\ k # 0
      BY <1>0
    <2> HIDE DEF x, y, takeOut
    <2> QED
      BY <1>2, <1>3, <2>1
  <1>6. \E f : f = [k \in 0..n |-> IF k = 0 THEN x ELSE takeOut(f[k - 1])]
    <2> HIDE DEF T, x, step, takeOut
    <2>a. \A k \in 1..n : \A w \in T[k - 1] : step[w] \in T[k]
      BY <1>5
    <2>1. PICK f : IsRun(f, step, x, n) /\ \A k \in 0..n : f[k] \in T[k]
      BY <1>0, <1>4, <2>a, LoopRuns
    <2>2. \A k \in 1..n : step[f[k - 1]] = takeOut(f[k - 1])
      BY <1>0, <1>5, <2>1
    <2>3. \A k \in 0..n : (IF k = 0 THEN x ELSE step[f[k - 1]])
                           = (IF k = 0 THEN x ELSE takeOut(f[k - 1]))
      BY <1>0, <2>2
    <2>4. f = [k \in 0..n |-> IF k = 0 THEN x ELSE takeOut(f[k - 1])]
      BY <2>1, <2>3, Zenon DEF IsRun
    <2> QED
      BY <2>4
  <1>7. ASSUME NEW f, f = [k \in 0..n |-> IF k = 0 THEN x ELSE takeOut(f[k - 1])]
        PROVE  f[n] \in T[n]
    <2> HIDE DEF T, x, takeOut
    <2>1. f[0] = x /\ \A k \in 1..n : f[k] = takeOut(f[k - 1])
      BY <1>0, <1>7
    <2>2. \A k \in 1..n : f[k - 1] \in T[k - 1] => f[k] \in T[k]
      BY <1>5, <2>1
    <2> QED
      BY <1>0, <1>4, <2>1, <2>2, RunStays
  <1>8. Iterate(takeOut, x, n) \in T[n]
    <2> HIDE DEF T, x
    <2> QED
      BY <1>6, <1>7 DEF Iterate
  <1>9. schedule(q, state) = Iterate(takeOut, x, n)
    BY DEF schedule, n
  <1>10. T[n] = {y}
    BY <1>0
  <1> HIDE DEF x, y, T
  <1> QED
    BY <1>8, <1>9, <1>10 DEF y

-----------------------------------------------------------------------------
(* What the scheduler keeps agrees.                                        *)

(* The PCBs, with the bounds of what the policy looks at.                  *)
Blocks ==
    {b \in [state : {"READY", "RUNNING"}, remaining : Nat, priority : Nat] :
        /\ schedulerType = SRTN => b.remaining <= MaxWork
        /\ schedulerType = HPF => b.priority \in 1..MaxPriority}

(* The processes that have a PCB and do not run.                           *)
Waiting == DOMAIN pcb \ {currentProcess}

StoreTypeOK ==
    /\ schedulerType \in {RR, SRTN, HPF}
    /\ fetched \subseteq Procs
    /\ exited \in BOOLEAN
    /\ pcb \in [DOMAIN pcb -> Blocks]
    /\ currentProcess \in Procs \cup {NULL}

(* The inductive invariant: list, queue and PCBs agree on the processes.   *)
StoreInv ==
    /\ StoreTypeOK
    /\ DOMAIN pcb \subseteq fetched
    /\ segments = DOMAIN pcb
    /\ ListHolds(pcbTable, DOMAIN pcb)
    /\ QueueHolds(Ring, readyQueue, Waiting)
    /\ \A p \in Waiting : pcb[p].state = "READY"
    /\ currentProcess # NULL => currentProcess \in DOMAIN pcb
    /\ exited => DOMAIN pcb = {}

(* initScheduler.                                                          *)
LEMMA InitStore == Init => StoreInv
  <1> SUFFICES ASSUME Init PROVE StoreInv
    OBVIOUS
  <1>1. pcb = <<>> /\ DOMAIN pcb = {} /\ Waiting = {}
    BY DEF Init, Waiting
  <1>2. ListHolds(pcbTable, DOMAIN pcb)
    BY <1>1, EmptyListHolds DEF Init
  <1>3. QueueHolds(Ring, readyQueue, Waiting)
    <2>1. CASE Ring
      <3>1. readyQueue = createQueue /\ Ring = TRUE
        BY <2>1 DEF Init, Ring
      <3> QED
        BY <1>1, <3>1, EmptyQueueHolds
    <2>2. CASE ~Ring
      <3>1. readyQueue = heap_create /\ Ring = FALSE
        BY <2>2 DEF Init, Ring
      <3> QED
        BY <1>1, <3>1, EmptyQueueHolds
    <2> QED
      BY <2>1, <2>2
  <1>4. StoreTypeOK
    <2>1. pcb \in [DOMAIN pcb -> Blocks]
      BY <1>1
    <2> QED
      BY <2>1 DEF Init, StoreTypeOK
  <1> QED
    BY <1>1, <1>2, <1>3, <1>4 DEF Init, StoreInv

LEMMA HeapKeyIsInt ==
    ASSUME NEW p \in Procs, NEW b \in Blocks
    PROVE  HeapKey(p, b) \in Int
  <1>1. p \in Int /\ b.remaining \in Int /\ b.priority \in Int
    BY DEF Procs, Blocks
  <1> QED
    BY <1>1 DEF HeapKey

(* A new process goes into the table, the queue and the PCBs.              *)
LEMMA FetchKeeps ==
    ASSUME StoreInv, ~exited, NEW p \in Procs, NEW work \in Works, NEW priority \in Priorities,
           Fetch(p, work, priority)
    PROVE  StoreInv'
  <1> DEFINE block == [state |-> "READY", remaining |-> work, priority |-> priority]
  <1>1. p \notin fetched /\ p \notin DOMAIN pcb /\ p # currentProcess /\ DOMAIN pcb \subseteq Procs
    BY DEF Fetch, StoreInv, StoreTypeOK, NULL, Procs
  <1>2. block \in Blocks
    <2>1. work \in Nat /\ (schedulerType = SRTN => work <= MaxWork)
      BY StoreAssumption DEF Works
    <2>2. priority \in Nat /\ (schedulerType = HPF => priority \in 1..MaxPriority)
      BY StoreAssumption DEF Priorities
    <2> QED
      BY <2>1, <2>2 DEF Blocks
  <1> HIDE DEF block
  <1>3. pcb' = [x \in DOMAIN pcb \cup {p} |-> IF x = p THEN block ELSE pcb[x]]
    BY DEF Fetch, Put, block
  <1>4. DOMAIN pcb' = DOMAIN pcb \cup {p} /\ Waiting' = Waiting \cup {p} /\ UNCHANGED <<schedulerType, currentProcess, exited>>
    BY <1>1, <1>3 DEF Waiting, Fetch
  <1>5. StoreTypeOK'
    <2>1. pcb' \in [DOMAIN pcb' -> Blocks]
      BY <1>2, <1>3 DEF StoreInv, StoreTypeOK
    <2>2. Blocks' = Blocks
      BY <1>4 DEF Blocks
    <2> QED
      BY <1>4, <2>1, <2>2 DEF StoreInv, StoreTypeOK, Fetch
  <1>6. ListHolds(pcbTable', DOMAIN pcb')
    <2>1. ListHolds(pcbTable, DOMAIN pcb) /\ Cardinality(DOMAIN pcb) < MaxProcs
      BY <1>1, RoomLeft DEF StoreInv
    <2>2. pcbTable' = insertAtFront(pcbTable, p)
      BY DEF Fetch
    <2> QED
      BY <1>1, <1>4, <2>1, <2>2, StoreAssumption, InsertHolds
  <1>7. QueueHolds(Ring', readyQueue', Waiting')
    <2>1. p \notin Waiting /\ QueueHolds(Ring, readyQueue, Waiting)
      BY <1>1 DEF Waiting, StoreInv
    <2>2. readyQueue' = pushToReadyQueue(p, block) /\ Ring' = Ring
      BY <1>4 DEF Fetch, block, Ring
    <2>3. HeapKey(p, block) \in Int
      BY <1>2, HeapKeyIsInt
    <2> QED
      BY <1>4, <2>1, <2>2, <2>3, PushHolds
  <1>8. \A x \in Waiting' : pcb'[x].state = "READY"
    <2>1. block.state = "READY"
      BY DEF block
    <2> QED
      BY <1>1, <1>3, <1>4, <2>1 DEF StoreInv, Waiting
  <1>9. fetched' = fetched \cup {p} /\ segments' = segments \cup {p}
    BY DEF Fetch
  <1> QED
    BY <1>4, <1>5, <1>6, <1>7, <1>8, <1>9 DEF StoreInv

LEMMA ServeKeeps ==
    ASSUME StoreInv, Serve
    PROVE  StoreInv'
  <1> DEFINE c == currentProcess
             b == [pcb[c] EXCEPT !.remaining = pcb[c].remaining - 1]
  <1>1. c \in DOMAIN pcb /\ pcb[c] \in Blocks /\ pcb[c].remaining > 0
    BY DEF Serve, StoreInv, StoreTypeOK
  <1>2. b \in Blocks
    BY <1>1, StoreAssumption DEF Blocks
  <1>3. pcb' = [x \in DOMAIN pcb |-> IF x = c THEN b ELSE pcb[x]]
    <2>1. pcb' = [pcb EXCEPT ![c] = b]
      BY DEF Serve
    <2> HIDE DEF b
    <2> QED
      BY <2>1 DEF StoreInv, StoreTypeOK
  <1> HIDE DEF b
  <1>4. DOMAIN pcb' = DOMAIN pcb /\ Waiting' = Waiting /\ Blocks' = Blocks /\ Ring' = Ring
    BY <1>3 DEF Waiting, Serve, Blocks, Ring
  <1>5. StoreTypeOK'
    BY <1>2, <1>3, <1>4 DEF StoreInv, StoreTypeOK, Serve
  <1>6. \A x \in Waiting' : pcb'[x].state = "READY"
    BY <1>3, <1>4 DEF StoreInv, Waiting
  <1> QED
    BY <1>4, <1>5, <1>6 DEF StoreInv, Serve

(* The process taken from the queue is the one that runs.                  *)
LEMMA DispatchKeeps ==
    ASSUME StoreInv, Dispatch
    PROVE  StoreInv'
  <1> DEFINE p == First(readyQueue)
             b == [pcb[p] EXCEPT !.state = "RUNNING"]
  <1>1. currentProcess = NULL /\ readyQueue.size > 0 /\ QueueHolds(Ring, readyQueue, Waiting)
    BY QueueFacts DEF Dispatch, isEmpty, StoreInv
  <1>2. p \in Waiting /\ QueueHolds(Ring, Left(readyQueue), Waiting \ {p})
    BY <1>1, TakeHolds
  <1>3. \A x \in Waiting : States(pcb)[x] = "READY"
    BY DEF States, Waiting, StoreInv
  <1>4. schedule(readyQueue, States(pcb)) = [queue |-> Left(readyQueue), next |-> p]
    BY <1>1, <1>3, ScheduleTakes
  <1>5. p \in DOMAIN pcb /\ p # NULL /\ p \in Procs /\ pcb[p] \in Blocks
    BY <1>2, QueueFacts, <1>1 DEF Waiting, Procs, NULL, StoreInv, StoreTypeOK
  <1> HIDE DEF p
  <1>6. readyQueue' = Left(readyQueue) /\ currentProcess' = p /\ pcb' = [pcb EXCEPT ![p].state = "RUNNING"]
        /\ UNCHANGED <<schedulerType, segments, pcbTable, fetched, exited>>
    BY <1>4, <1>5 DEF Dispatch
  <1>7. b \in Blocks
    BY <1>5 DEF Blocks
  <1>8. pcb' = [x \in DOMAIN pcb |-> IF x = p THEN b ELSE pcb[x]]
    BY <1>6 DEF StoreInv, StoreTypeOK
  <1> HIDE DEF b
  <1>9. DOMAIN pcb' = DOMAIN pcb /\ Waiting' = Waiting \ {p} /\ Blocks' = Blocks /\ Ring' = Ring
    BY <1>1, <1>5, <1>6, <1>8 DEF Waiting, Blocks, Ring, StoreInv, StoreTypeOK, NULL, Procs
  <1>10. StoreTypeOK'
    BY <1>5, <1>6, <1>7, <1>8, <1>9 DEF StoreInv, StoreTypeOK
  <1>11. \A x \in Waiting' : pcb'[x].state = "READY"
    BY <1>8, <1>9 DEF StoreInv, Waiting
  <1> QED
    BY <1>2, <1>5, <1>6, <1>9, <1>10, <1>11 DEF StoreInv

(* The process put back may be the one taken.                              *)
LEMMA ExpireQuantumKeeps ==
    ASSUME StoreInv, ExpireQuantum
    PROVE  StoreInv'
  <1> DEFINE c == currentProcess
             ready == [pcb EXCEPT ![c].state = "READY"]
             pushed == pushToReadyQueue(c, pcb[c])
             p == First(pushed)
             b == [ready[p] EXCEPT !.state = "RUNNING"]
             all == DOMAIN pcb
  <1>1. c \in all /\ c # NULL /\ c \in Procs /\ pcb[c] \in Blocks /\ c \notin Waiting /\ Waiting \cup {c} = all
    BY DEF ExpireQuantum, StoreInv, StoreTypeOK, Waiting
  <1>2. QueueHolds(Ring, pushed, all)
    <2>1. HeapKey(c, pcb[c]) \in Int
      BY <1>1, HeapKeyIsInt
    <2>2. QueueHolds(Ring, readyQueue, Waiting)
      BY DEF StoreInv
    <2> QED
      BY <1>1, <2>1, <2>2, PushHolds
  <1> HIDE DEF pushed
  <1>3. pushed.size > 0
    <2>1. IsFiniteSet(all) /\ pushed.size \in Nat /\ Cardinality(all) = pushed.size
      BY <1>2, QueueFacts
    <2> QED
      BY <1>1, <2>1, FS_EmptySet
  <1>4. p \in all /\ QueueHolds(Ring, Left(pushed), all \ {p})
    BY <1>2, <1>3, TakeHolds
  <1>5. ready \in [all -> Blocks] /\ \A x \in all : ready[x].state = "READY"
    <2> DEFINE d == [pcb[c] EXCEPT !.state = "READY"]
    <2>1. d \in Blocks /\ d.state = "READY"
      BY <1>1 DEF Blocks
    <2>2. ready = [x \in all |-> IF x = c THEN d ELSE pcb[x]]
      BY DEF StoreInv, StoreTypeOK
    <2> HIDE DEF d, ready
    <2> QED
      BY <1>1, <2>1, <2>2 DEF StoreInv, StoreTypeOK, Waiting
  <1> HIDE DEF ready
  <1>6. schedule(pushed, States(ready)) = [queue |-> Left(pushed), next |-> p]
    <2>1. \A x \in all : States(ready)[x] = "READY"
      BY <1>5 DEF States
    <2> QED
      BY <1>2, <1>3, <2>1, ScheduleTakes
  <1> HIDE DEF p
  <1>7. readyQueue' = Left(pushed) /\ currentProcess' = p /\ pcb' = [ready EXCEPT ![p].state = "RUNNING"]
        /\ UNCHANGED <<schedulerType, segments, pcbTable, fetched, exited>>
    <2> DEFINE taken == schedule(pushed, States(ready))
    <2>1. /\ readyQueue' = taken.queue /\ currentProcess' = taken.next
          /\ pcb' = [ready EXCEPT ![taken.next].state = "RUNNING"]
          /\ UNCHANGED <<schedulerType, segments, pcbTable, fetched, exited>>
      BY Zenon DEF ExpireQuantum, ready, pushed
    <2>2. taken.queue = Left(pushed) /\ taken.next = p
      BY <1>6
    <2> HIDE DEF taken
    <2> QED
      BY <2>1, <2>2
  <1>8. b \in Blocks
    BY <1>4, <1>5 DEF Blocks
  <1>9. pcb' = [x \in all |-> IF x = p THEN b ELSE ready[x]]
    BY <1>5, <1>7
  <1> HIDE DEF b
  <1>10. DOMAIN pcb' = all /\ Waiting' = all \ {p} /\ Blocks' = Blocks /\ Ring' = Ring
    BY <1>7, <1>9 DEF Waiting, Blocks, Ring
  <1>11. p \in Procs
    BY <1>2, <1>4, QueueFacts
  <1>12. StoreTypeOK'
    BY <1>5, <1>7, <1>8, <1>9, <1>10, <1>11 DEF StoreInv, StoreTypeOK
  <1>13. \A x \in Waiting' : pcb'[x].state = "READY"
    BY <1>5, <1>9, <1>10
  <1> QED
    BY <1>4, <1>7, <1>10, <1>12, <1>13 DEF StoreInv

(* The PCB freed is in the table and not in the queue.                     *)
LEMMA handleProcessExitKeeps ==
    ASSUME StoreInv, handleProcessExit
    PROVE  StoreInv'
  <1> DEFINE c == currentProcess
  <1>1. c \in DOMAIN pcb /\ c \in Procs
    BY DEF handleProcessExit, StoreInv, StoreTypeOK
  <1>2. pcb' = [p \in DOMAIN pcb \ {c} |-> pcb[p]] /\ currentProcess' = NULL
        /\ pcbTable' = removeFromList(pcbTable, c) /\ segments' = segments \ {c}
        /\ UNCHANGED <<schedulerType, readyQueue, fetched, exited>>
    BY DEF handleProcessExit
  <1>3. DOMAIN pcb' = DOMAIN pcb \ {c} /\ Waiting' = Waiting /\ Blocks' = Blocks /\ Ring' = Ring
    BY <1>2 DEF Waiting, Blocks, Ring, StoreInv, StoreTypeOK, NULL, Procs
  <1>4. StoreTypeOK'
    BY <1>2, <1>3 DEF StoreInv, StoreTypeOK
  <1>5. ListHolds(pcbTable', DOMAIN pcb')
    BY <1>1, <1>2, <1>3, RemoveHolds DEF StoreInv
  <1>6. \A x \in Waiting' : pcb'[x].state = "READY"
    BY <1>2, <1>3 DEF StoreInv, Waiting
  <1> QED
    BY <1>2, <1>3, <1>4, <1>5, <1>6 DEF StoreInv

LEMMA ListedIs ==
    ASSUME NEW l, NEW D, ListHolds(l, D)
    PROVE  Listed(l) = D
  BY ListFacts DEF Listed

(* Nothing is left in table, queue and segments.                           *)
LEMMA schedulerClearResourcesKeeps ==
    ASSUME StoreInv, schedulerClearResources
    PROVE  StoreInv'
  <1>1. Found(pcbTable) = DOMAIN pcb /\ freeList(pcbTable) = <<>>
    BY ListedIs, ListFacts DEF Found, StoreInv
  <1>2. pcb' = <<>> /\ DOMAIN pcb' = {} /\ segments' = {} /\ Waiting' = {}
    BY <1>1 DEF schedulerClearResources, StoreInv, Waiting
  <1>3. pcbTable' = createList
    BY <1>1 DEF schedulerClearResources, createList
  <1>4. UNCHANGED <<schedulerType, fetched>> /\ currentProcess' = NULL /\ exited' = TRUE /\ Ring' = Ring
    BY DEF schedulerClearResources, Ring
  <1>5. QueueHolds(Ring', readyQueue', Waiting')
    <2>1. CASE Ring
      <3>1. PICK n, e : RingHolds(readyQueue, e, n)
        BY <2>1 DEF StoreInv, QueueHolds
      <3>2. destroyQueue(readyQueue) = <<>>
        BY <3>1, RingFacts
      <3>3. readyQueue' = createQueue
        BY <2>1, <3>2 DEF schedulerClearResources, createQueue
      <3>4. Ring' = TRUE
        BY <1>4, <2>1 DEF Ring
      <3> QED
        BY <1>2, <3>3, <3>4, EmptyQueueHolds
    <2>2. CASE ~Ring
      <3>1. readyQueue' = heap_create
        BY <2>2 DEF schedulerClearResources
      <3>2. Ring' = FALSE
        BY <1>4, <2>2 DEF Ring
      <3> QED
        BY <1>2, <3>1, <3>2, EmptyQueueHolds
    <2> QED
      BY <2>1, <2>2
  <1>6. StoreTypeOK'
    <2>1. pcb' \in [DOMAIN pcb' -> Blocks']
      BY <1>2
    <2> QED
      BY <1>4, <2>1 DEF StoreTypeOK, StoreInv
  <1> QED
    BY <1>2, <1>3, <1>4, <1>5, <1>6, EmptyListHolds DEF StoreInv

(* Every step keeps it.                                                    *)
LEMMA NextStore == StoreInv /\ [Next]_vars => StoreInv'
  <1> SUFFICES ASSUME StoreInv, [Next]_vars PROVE StoreInv'
    OBVIOUS
  <1>1. CASE UNCHANGED vars
    BY <1>1 DEF vars, StoreInv, StoreTypeOK, Blocks, Waiting, Ring
  <1>2. CASE Next
    BY <1>2, FetchKeeps, ServeKeeps, ExpireQuantumKeeps, DispatchKeeps, handleProcessExitKeeps,
       schedulerClearResourcesKeeps DEF Next
  <1> QED
    BY <1>1, <1>2

(* The invariant holds in every state.                                     *)
THEOREM StoreInvariant == Spec => []StoreInv
  BY InitStore, NextStore, PTL DEF Spec

(* No node of ring or heap is ever lost or misplaced and the size is       *)
(* right, whatever calls of enqueue, dequeue, heap_insert,                 *)
(* heap_extract_min and schedule came before.                              *)
THEOREM QueueIsWhole == Spec => []QueueWhole
  <1>1. StoreInv => QueueWhole
    <2> SUFFICES ASSUME StoreInv PROVE QueueWhole
      OBVIOUS
    <2>1. QueueHolds(Ring, readyQueue, Waiting)
      BY DEF StoreInv
    <2>2. CASE Ring
      <3>1. PICK n, e : RingHolds(readyQueue, e, n)
        BY <2>1, <2>2 DEF QueueHolds
      <3> QED
        BY <2>2, <3>1, RingFacts DEF QueueWhole
    <2>3. CASE ~Ring
      <3>1. PICK n, C : HeapHolds(readyQueue, C, n)
        BY <2>1, <2>3 DEF QueueHolds
      <3>2. readyQueue.size = n /\ DOMAIN readyQueue.slots = 0..(n - 1) /\ n <= readyQueue.capacity
        BY <3>1 DEF HeapHolds, Filled
      <3>3. \A i \in 1..(n - 1) :
               readyQueue.slots[(i - 1) \div 2].priority <= readyQueue.slots[i].priority
        BY <3>1 DEF HeapHolds, InOrder, InOrderAt, Parent
      <3> QED
        BY <2>3, <3>2, <3>3 DEF QueueWhole
    <2> QED
      BY <2>2, <2>3
  <1> QED
    BY <1>1, StoreInvariant, PTL

(* The items of QueueWhole and PcbsTracked are the processes that wait.    *)
LEMMA QueuedIs ==
    ASSUME NEW I, QueueHolds(Ring, readyQueue, I)
    PROVE  {Queued[i] : i \in DOMAIN Queued} = I /\ Len(Queued) = readyQueue.size
  <1>1. PICK n : IF Ring THEN \E e : RingHolds(readyQueue, e, n) /\ I = {e[i] : i \in 1..n}
                 ELSE \E C : HeapHolds(readyQueue, C, n) /\ I = {c.data : c \in C}
    BY DEF QueueHolds
  <1>2. CASE Ring
    <2>1. PICK e : RingHolds(readyQueue, e, n) /\ I = {e[i] : i \in 1..n}
      BY <1>1, <1>2
    <2>2. n \in Nat /\ readyQueue.size = n /\ e \in [1..n -> Procs]
          /\ e = [i \in DOMAIN RingNodes(readyQueue) |->
                     readyQueue.nodes[RingNodes(readyQueue)[i]].data]
      BY <2>1, RingFacts
    <2>3. Queued = e
      BY <1>2, <2>2 DEF Queued
    <2>4. DOMAIN e = 1..n /\ Len(e) = n
      BY <2>2
    <2> QED
      BY <2>1, <2>2, <2>3, <2>4
  <1>3. CASE ~Ring
    <2>1. PICK C : HeapHolds(readyQueue, C, n) /\ I = {c.data : c \in C}
      BY <1>1, <1>3
    <2>2. n \in Nat /\ readyQueue.size = n /\ C = {readyQueue.slots[i] : i \in 0..(n - 1)}
      BY <2>1 DEF HeapHolds, Filled
    <2>3. Queued = [i \in 1..n |-> readyQueue.slots[i - 1].data]
      BY <1>3, <2>2 DEF Queued
    <2>4. DOMAIN Queued = 1..n /\ Len(Queued) = n
      BY <2>2, <2>3
    <2>5. \A i \in 1..n : i - 1 \in 0..(n - 1) /\ Queued[i] = readyQueue.slots[i - 1].data
      BY <2>2, <2>3
    <2>6. \A i \in 0..(n - 1) : i + 1 \in 1..n /\ Queued[i + 1] = readyQueue.slots[i].data
      BY <2>2, <2>3
    <2>7. \A c : c \in C <=> \E i \in 0..(n - 1) : c = readyQueue.slots[i]
      BY <2>2
    <2>8. \A p : p \in I <=> \E i \in 1..n : p = Queued[i]
      BY <2>1, <2>5, <2>6, <2>7
    <2>9. {Queued[i] : i \in 1..n} = I
      BY <2>8
    <2> QED
      BY <2>2, <2>4, <2>9
  <1> QED
    BY <1>2, <1>3

(* No PCB is freed while the queue or currentProcess points at it, and     *)
(* none is forgotten: handleProcessExit frees the only one it should.      *)
THEOREM PcbsAreTracked == Spec => []PcbsTracked
  <1>1. StoreInv => PcbsTracked
    <2> SUFFICES ASSUME StoreInv PROVE PcbsTracked
      OBVIOUS
    <2>1. QueueHolds(Ring, readyQueue, Waiting) /\ ListHolds(pcbTable, DOMAIN pcb)
      BY DEF StoreInv
    <2>2. {Queued[i] : i \in DOMAIN Queued} = Waiting /\ Len(Queued) = Cardinality(Waiting)
      BY <2>1, QueuedIs, QueueFacts
    <2>3. DOMAIN pcb = Waiting \cup ({currentProcess} \ {NULL}) /\ currentProcess \notin Waiting
      <3>1. DOMAIN pcb \subseteq Procs
        BY DEF StoreInv, StoreTypeOK
      <3>2. NULL \notin DOMAIN pcb
        BY <3>1 DEF NULL, Procs
      <3>3. currentProcess # NULL => currentProcess \in DOMAIN pcb
        BY DEF StoreInv
      <3> QED
        BY <3>2, <3>3 DEF Waiting
    <2>4. Listed(pcbTable) = DOMAIN pcb /\ Len(ListNodes(pcbTable)) = pcbTable.size
          /\ pcbTable.size = Cardinality(DOMAIN pcb)
      BY <2>1, ListedIs, ListFacts
    <2> QED
      BY <2>2, <2>3, <2>4 DEF PcbsTracked
  <1> QED
    BY <1>1, StoreInvariant, PTL

(* schedulerClearResources leaves no remaining-time segment behind, at     *)
(* whatever moment it comes.                                               *)
THEOREM SegmentsAreRemoved == Spec => []SegmentsRemoved
  <1>1. StoreInv => SegmentsRemoved
    BY DEF StoreInv, SegmentsRemoved
  <1> QED
    BY <1>1, StoreInvariant, PTL

-----------------------------------------------------------------------------
(* The queue of the scheduler is an ordered queue.                         *)

(* An entry of the abstract queue.                                         *)
Entry == [item : Procs, key : Int]

(* e is the queue of n cells in the order of their keys.                   *)
ByKey(e, C, n) ==
    /\ e \in [1..n -> Entry]
    /\ C = {[data |-> e[i].item, priority |-> e[i].key] : i \in 1..n}
    /\ \A i, j \in 1..n : i < j => e[i].key < e[j].key

(* The key tells the process.                                              *)
OwnKeys(C) == \A c \in C : \E first \in Nat : c.priority = first * 10000 + c.data

(* The entries of the queue in the order in which they will leave.         *)
InLine(ring, q, e, n) ==
    IF ring THEN \E d : RingHolds(q, d, n) /\ e = [i \in 1..n |-> [item |-> d[i], key |-> 0]]
    ELSE \E C : HeapHolds(q, C, n) /\ ByKey(e, C, n) /\ OwnKeys(C)

LEMMA LineFacts ==
    ASSUME NEW ring, NEW q, NEW e, NEW n, InLine(ring, q, e, n)
    PROVE  /\ n \in Nat /\ q.size = n
           /\ e \in [1..n -> Entry] /\ e \in Seq(Entry) /\ Len(e) = n
           /\ QueueHolds(ring, q, {e[i].item : i \in 1..n})
  <1>1. n \in Nat /\ q.size = n /\ e \in [1..n -> Entry]
    <2>1. CASE ring
      <3>1. PICK d : RingHolds(q, d, n) /\ e = [i \in 1..n |-> [item |-> d[i], key |-> 0]]
        BY <2>1 DEF InLine
      <3> QED
        BY <3>1, RingFacts DEF Entry
    <2>2. CASE ~ring
      BY <2>2 DEF InLine, HeapHolds, ByKey
    <2> QED
      BY <2>1, <2>2
  <1>2. e \in Seq(Entry) /\ Len(e) = n
    BY <1>1
  <1>3. QueueHolds(ring, q, {e[i].item : i \in 1..n})
    <2>1. CASE ring
      <3>1. PICK d : RingHolds(q, d, n) /\ e = [i \in 1..n |-> [item |-> d[i], key |-> 0]]
        BY <2>1 DEF InLine
      <3>2. \A i \in 1..n : e[i].item = d[i]
        BY <3>1
      <3>3. {e[i].item : i \in 1..n} = {d[i] : i \in 1..n}
        BY <3>2
      <3> QED
        BY <2>1, <3>1, <3>3 DEF QueueHolds
    <2>2. CASE ~ring
      <3>1. PICK C : HeapHolds(q, C, n) /\ ByKey(e, C, n)
        BY <2>2 DEF InLine
      <3> DEFINE cell(i) == [data |-> e[i].item, priority |-> e[i].key]
      <3>2. \A c : c \in C <=> \E i \in 1..n : c = cell(i)
        BY <3>1 DEF ByKey
      <3>3. \A i \in 1..n : cell(i).data = e[i].item
        OBVIOUS
      <3> HIDE DEF cell
      <3>4. \A x : x \in {e[i].item : i \in 1..n} <=> \E c \in C : x = c.data
        BY <3>2, <3>3
      <3>5. {e[i].item : i \in 1..n} = {c.data : c \in C}
        BY <3>4
      <3> QED
        BY <2>2, <3>1, <3>5 DEF QueueHolds
    <2> QED
      BY <2>1, <2>2
  <1> QED
    BY <1>1, <1>2, <1>3

(* Where the abstract queue puts an entry.                                 *)
Place(e, n, key) == CHOOSE i \in 0..n : \A j \in 1..n : j > i <=> e[j].key > key

LEMMA PlaceIs ==
    ASSUME NEW n \in Nat, NEW e, NEW key, NEW i \in 0..n,
           \A j \in 1..n : j > i <=> e[j].key > key
    PROVE  Place(e, n, key) = i
  <1>1. \A l \in 0..n : (\A j \in 1..n : j > l <=> e[j].key > key) => l = i
    <2> SUFFICES ASSUME NEW l \in 0..n, l # i,
                        \A j \in 1..n : j > l <=> e[j].key > key
                 PROVE  FALSE
      OBVIOUS
    <2>1. CASE l < i
      BY <2>1
    <2>2. CASE l > i
      <3>1. l \in 1..n /\ l > i /\ ~(l > l)
        BY <2>2
      <3> QED
        BY <3>1
    <2> QED
      BY <2>1, <2>2
  <1> QED
    BY <1>1 DEF Place

(* The queue with a new entry in its place.                                *)
With(e, n, x) ==
    LET i == Place(e, n, x.key)
    IN  [k \in 1..(n + 1) |-> IF k <= i THEN e[k] ELSE IF k = i + 1 THEN x ELSE e[k - 1]]

(* In an ordered queue there is such a place.                              *)
LEMMA PlaceExists ==
    ASSUME NEW n \in Nat, NEW e \in [1..n -> Entry], NEW key \in Int,
           \A i, j \in 1..n : i < j => e[i].key < e[j].key
    PROVE  \E i \in 0..n : \A j \in 1..n : j > i <=> e[j].key > key
  <1> DEFINE T == {j \in 1..n : e[j].key > key}
  <1>1. \A j \in 1..n : e[j].key \in Int
    BY DEF Entry
  <1>2. CASE T = {}
    BY <1>2
  <1>3. CASE T # {}
    <2>1. PICK m \in T : \A j \in T : m <= j
      <3>1. T \subseteq Nat
        OBVIOUS
      <3> HIDE DEF T
      <3> QED
        BY <1>3, <3>1, LeastNumber
    <2>2. m \in 1..n /\ m - 1 \in 0..n /\ e[m].key > key
      BY <2>1
    <2>3. ASSUME NEW j \in 1..n PROVE j > m - 1 <=> e[j].key > key
      <3>1. CASE j < m
        BY <2>1, <2>2, <3>1
      <3>2. CASE j = m
        BY <2>2, <3>2
      <3>3. CASE j > m
        BY <1>1, <2>2, <3>3
      <3> QED
        BY <2>2, <3>1, <3>2, <3>3
    <2> QED
      BY <2>2, <2>3
  <1> QED
    BY <1>2, <1>3

(* The factor of the key is above every id.                                *)
IdsFitKey == MaxProcs < 10000

(* Then no two processes have the same key.                                *)
LEMMA KeyIsNew ==
    ASSUME IdsFitKey, NEW C, OwnKeys(C), \A c \in C : c.data \in Procs,
           NEW p \in Procs, \A c \in C : c.data # p, NEW first \in Nat
    PROVE  \A c \in C : c.priority # first * 10000 + p
  <1> SUFFICES ASSUME NEW c \in C PROVE c.priority # first * 10000 + p
    OBVIOUS
  <1>1. PICK other \in Nat : c.priority = other * 10000 + c.data
    BY DEF OwnKeys
  <1>2. c.data \in 1..MaxProcs /\ p \in 1..MaxProcs /\ c.data # p
    BY DEF Procs
  <1> DEFINE d == c.data
  <1>3. d \in Int /\ p \in Int /\ 1 <= d /\ d <= 9999 /\ 1 <= p /\ p <= 9999 /\ d # p
    BY <1>2, StoreAssumption DEF IdsFitKey
  <1> HIDE DEF d
  <1>4. other * 10000 + d # first * 10000 + p
    BY <1>3
  <1> QED
    BY <1>1, <1>4 DEF d

(* Put in there, the order is kept.                                        *)
LEMMA WithByKey ==
    ASSUME NEW C, NEW n \in Nat, NEW e, ByKey(e, C, n),
           NEW p \in Procs, NEW key \in Int, \A c \in C : c.priority # key
    PROVE  ByKey(With(e, n, [item |-> p, key |-> key]),
                 C \cup {[data |-> p, priority |-> key]}, n + 1)
  <1> DEFINE x == [item |-> p, key |-> key]
             i == Place(e, n, key)
             s == [k \in 1..(n + 1) |-> IF k <= i THEN e[k] ELSE IF k = i + 1 THEN x ELSE e[k - 1]]
             cell(y) == [data |-> y.item, priority |-> y.key]
  <1>1. e \in [1..n -> Entry] /\ \A j, k \in 1..n : j < k => e[j].key < e[k].key
    BY DEF ByKey
  <1>2. \A c : c \in C <=> \E k \in 1..n : c = cell(e[k])
    BY DEF ByKey
  <1>3. PICK l \in 0..n : \A j \in 1..n : j > l <=> e[j].key > key
    BY <1>1, PlaceExists
  <1>4. i \in 0..n /\ \A j \in 1..n : j > i <=> e[j].key > key
    BY <1>3, PlaceIs
  <1>5. With(e, n, x) = s
    BY DEF With
  <1> HIDE DEF i
  <1>6. x \in Entry /\ x.key = key /\ cell(x) = [data |-> p, priority |-> key]
    BY DEF Entry
  <1>7. \A k \in 1..n : e[k].key \in Int /\ e[k].key # key
    <2> TAKE k \in 1..n
    <2>1. cell(e[k]) \in C
      BY <1>2
    <2>2. cell(e[k]).priority = e[k].key
      OBVIOUS
    <2> QED
      BY <1>1, <2>1, <2>2 DEF Entry
  <1> HIDE DEF x
  <1>8. /\ \A k \in 1..n : k <= i => s[k] = e[k] /\ k \in 1..(n + 1)
        /\ i + 1 \in 1..(n + 1) /\ s[i + 1] = x
        /\ \A k \in 1..n : k > i => s[k + 1] = e[k] /\ k + 1 \in 1..(n + 1)
        /\ \A k \in 1..(n + 1) : \/ k <= i /\ k \in 1..n /\ s[k] = e[k]
                                 \/ k = i + 1 /\ s[k] = x
                                 \/ k > i + 1 /\ k - 1 \in 1..n /\ s[k] = e[k - 1]
    BY <1>4
  <1>9. s \in [1..(n + 1) -> Entry]
    BY <1>1, <1>4, <1>6
  <1> HIDE DEF s
  <1>10. \A j, k \in 1..(n + 1) : j < k => s[j].key < s[k].key
    <2> SUFFICES ASSUME NEW j \in 1..(n + 1), NEW k \in 1..(n + 1), j < k
                 PROVE  s[j].key < s[k].key
      OBVIOUS
    <2>1. CASE j <= i /\ k <= i
      <3>1. j \in 1..n /\ k \in 1..n /\ s[j] = e[j] /\ s[k] = e[k]
        BY <1>4, <1>8, <2>1
      <3> QED
        BY <1>1, <3>1
    <2>2. CASE j <= i /\ k = i + 1
      <3>1. j \in 1..n /\ s[j] = e[j] /\ s[k] = x /\ ~(j > i)
        BY <1>4, <1>8, <2>2
      <3> QED
        BY <1>4, <1>6, <1>7, <3>1
    <2>3. CASE j <= i /\ k > i + 1
      <3>1. j \in 1..n /\ k - 1 \in 1..n /\ s[j] = e[j] /\ s[k] = e[k - 1] /\ j < k - 1
        BY <1>4, <1>8, <2>3
      <3> QED
        BY <1>1, <3>1
    <2>4. CASE j = i + 1 /\ k > i + 1
      <3>1. k - 1 \in 1..n /\ s[j] = x /\ s[k] = e[k - 1] /\ k - 1 > i
        BY <1>4, <1>8, <2>4
      <3> QED
        BY <1>4, <1>6, <1>7, <3>1
    <2>5. CASE j > i + 1 /\ k > i + 1
      <3>1. j - 1 \in 1..n /\ k - 1 \in 1..n /\ s[j] = e[j - 1] /\ s[k] = e[k - 1] /\ j - 1 < k - 1
        BY <1>4, <1>8, <2>5
      <3> QED
        BY <1>1, <3>1
    <2> QED
      BY <1>4, <2>1, <2>2, <2>3, <2>4, <2>5
  <1>11. \A c : c \in C \cup {cell(x)} <=> \E k \in 1..(n + 1) : c = cell(s[k])
    <2> HIDE DEF cell
    <2> TAKE c
    <2>1. ASSUME c \in C PROVE \E k \in 1..(n + 1) : c = cell(s[k])
      <3>1. PICK k \in 1..n : c = cell(e[k])
        BY <1>2, <2>1
      <3>2. CASE k <= i
        BY <1>8, <3>1, <3>2
      <3>3. CASE k > i
        BY <1>8, <3>1, <3>3
      <3> QED
        BY <1>4, <3>2, <3>3
    <2>2. ASSUME NEW k \in 1..(n + 1) PROVE cell(s[k]) \in C \cup {cell(x)}
      BY <1>2, <1>8
    <2> QED
      BY <1>8, <2>1, <2>2
  <1>12. C \cup {cell(x)} = {[data |-> s[k].item, priority |-> s[k].key] : k \in 1..(n + 1)}
    BY <1>11
  <1>13. ByKey(s, C \cup {cell(x)}, n + 1)
    <2> HIDE DEF cell
    <2> QED
      BY <1>9, <1>10, <1>12 DEF ByKey
  <1> QED
    BY <1>5, <1>6, <1>13 DEF x

(* The key of the abstract queue.                                          *)
QueueKey(p, block) == IF Ring THEN 0 ELSE HeapKey(p, block)

(* The queue of entries does what the ring or the heap does: a push ...    *)
LEMMA PushInLine ==
    ASSUME IdsFitKey,
           NEW e, NEW n, InLine(Ring, readyQueue, e, n),
           NEW p \in Procs, \A i \in 1..n : e[i].item # p, NEW block \in Blocks
    PROVE  InLine(Ring, pushToReadyQueue(p, block),
                  With(e, n, [item |-> p, key |-> QueueKey(p, block)]), n + 1)
  <1> DEFINE key == QueueKey(p, block)
             x == [item |-> p, key |-> key]
  <1>0. n \in Nat /\ e \in [1..n -> Entry]
    <2>1. n \in Nat
      BY LineFacts
    <2>2. e \in [1..n -> Entry]
      BY LineFacts
    <2> QED
      BY <2>1, <2>2
  <1>1. CASE Ring
    <2>1. PICK d : RingHolds(readyQueue, d, n) /\ e = [i \in 1..n |-> [item |-> d[i], key |-> 0]]
      BY <1>1 DEF InLine
    <2>2. \A i \in 1..n : d[i] # p /\ e[i].key = 0 /\ e[i] = [item |-> d[i], key |-> 0]
      BY <2>1
    <2>2a. \A i \in 1..n : p # d[i]
      BY <2>2
    <2>3. n < MaxProcs
      <3>1. QueueHolds(TRUE, readyQueue, {d[i] : i \in 1..n})
        BY <2>1 DEF QueueHolds
      <3> DEFINE I == {d[i] : i \in 1..n}
      <3>2. p \notin I
        BY <2>2a
      <3>a. QueueHolds(TRUE, readyQueue, I)
        BY <3>1
      <3> HIDE DEF I
      <3>3. I \subseteq Procs /\ Cardinality(I) = readyQueue.size
        BY <3>a, QueueFacts, Zenon
      <3>4. readyQueue.size = n
        BY <2>1, RingFacts
      <3> QED
        BY <3>2, <3>3, <3>4, RoomLeft
    <2> DEFINE t == [i \in 1..(n + 1) |-> IF i = n + 1 THEN p ELSE d[i]]
    <2>4. RingHolds(enqueue(readyQueue, p), t, n + 1)
      BY <2>1, <2>2, <2>3, StoreAssumption, EnqueueHolds
    <2>5. key = 0 /\ Place(e, n, 0) = n
      <3>1. \A j \in 1..n : j > n <=> e[j].key > 0
        BY <1>0, <2>2
      <3> QED
        BY <1>0, <1>1, <3>1, PlaceIs DEF QueueKey
    <2>6. \A k \in 1..(n + 1) : (IF k <= n THEN e[k] ELSE IF k = n + 1 THEN x ELSE e[k - 1])
                                 = [item |-> t[k], key |-> 0]
      BY <1>0, <2>2, <2>5
    <2>7. With(e, n, x) = [k \in 1..(n + 1) |-> [item |-> t[k], key |-> 0]]
      <3>1. x.key = 0
        BY <2>5
      <3>2. With(e, n, x) = [k \in 1..(n + 1) |-> IF k <= n THEN e[k] ELSE IF k = n + 1 THEN x ELSE e[k - 1]]
        BY <2>5, <3>1 DEF With
      <3> HIDE DEF x, t
      <3> QED
        BY <2>6, <3>2
    <2>8. pushToReadyQueue(p, block) = enqueue(readyQueue, p)
      BY <1>1 DEF pushToReadyQueue
    <2> HIDE DEF t, x
    <2>9. InLine(Ring, pushToReadyQueue(p, block), With(e, n, x), n + 1)
      BY <1>1, <2>4, <2>7, <2>8 DEF InLine
    <2> QED
      BY <2>9 DEF x
  <1>2. CASE ~Ring
    <2>1. PICK C : HeapHolds(readyQueue, C, n) /\ ByKey(e, C, n) /\ OwnKeys(C)
      BY <1>2 DEF InLine
    <2> DEFINE cell == [data |-> p, priority |-> key]
    <2>2. \A c \in C : c.data \in Procs /\ c.data # p
      <3>1. \A c \in C : \E i \in 1..n : c = [data |-> e[i].item, priority |-> e[i].key]
        BY <2>1 DEF ByKey
      <3>2. \A i \in 1..n : e[i].item \in Procs
        BY <1>0 DEF Entry
      <3> QED
        BY <3>1, <3>2
    <2>3. PICK first \in Nat : key = first * 10000 + p
      BY <1>2 DEF QueueKey, HeapKey, Blocks
    <2>4. key \in Int
      BY <2>3 DEF Procs
    <2>5. \A c \in C : c.priority # key
      BY <2>1, <2>2, <2>3, KeyIsNew
    <2> HIDE DEF key
    <2>6. HeapHolds(heap_insert(readyQueue, p, key), C \cup {cell}, n + 1)
      BY <2>1, <2>2, <2>4, HeapInsertHolds
    <2>7. ByKey(With(e, n, x), C \cup {cell}, n + 1)
      BY <1>0, <2>1, <2>4, <2>5, WithByKey
    <2>8. OwnKeys(C \cup {cell})
      <3>1. cell.priority = first * 10000 + cell.data
        BY <2>3
      <3> HIDE DEF cell
      <3> QED
        BY <2>1, <3>1 DEF OwnKeys
    <2>9. pushToReadyQueue(p, block) = heap_insert(readyQueue, p, key)
      BY <1>2 DEF pushToReadyQueue, QueueKey, key
    <2> HIDE DEF x, cell
    <2>10. InLine(Ring, pushToReadyQueue(p, block), With(e, n, x), n + 1)
      BY <1>2, <2>6, <2>7, <2>8, <2>9 DEF InLine
    <2> QED
      BY <2>10 DEF x, key
  <1> QED
    BY <1>1, <1>2

(* ... and a pop.                                                          *)
LEMMA TakeInLine ==
    ASSUME NEW q, NEW e, NEW n, InLine(Ring, q, e, n), n > 0
    PROVE  First(q) = e[1].item /\ InLine(Ring, Left(q), [i \in 1..(n - 1) |-> e[i + 1]], n - 1)
  <1> DEFINE t == [i \in 1..(n - 1) |-> e[i + 1]]
  <1>0. n \in Nat /\ e \in [1..n -> Entry] /\ 1 \in 1..n
    <2>1. n \in Nat /\ e \in [1..n -> Entry]
      BY LineFacts, Zenon
    <2> QED
      BY <2>1
  <1>1. CASE Ring
    <2>1. PICK d : RingHolds(q, d, n) /\ e = [i \in 1..n |-> [item |-> d[i], key |-> 0]]
      BY <1>1 DEF InLine
    <2> DEFINE r == [i \in 1..(n - 1) |-> d[i + 1]]
    <2>2. RingHolds(dequeue(q), r, n - 1) /\ frontData(q) = d[1]
      BY <2>1, DequeueHolds, RingFacts
    <2>3. \A i \in 1..(n - 1) : e[i + 1] = [item |-> r[i], key |-> 0]
      BY <1>0, <2>1
    <2>4. t = [i \in 1..(n - 1) |-> [item |-> r[i], key |-> 0]]
      <3> HIDE DEF r
      <3> QED
        BY <2>3
    <2>5. First(q) = e[1].item /\ Left(q) = dequeue(q)
      BY <1>0, <1>1, <2>1, <2>2 DEF First, Left
    <2> HIDE DEF r, t
    <2>6. InLine(Ring, Left(q), t, n - 1)
      BY <1>1, <2>2, <2>4, <2>5 DEF InLine
    <2> QED
      BY <2>5, <2>6 DEF t
  <1>2. CASE ~Ring
    <2>1. PICK C : HeapHolds(q, C, n) /\ ByKey(e, C, n) /\ OwnKeys(C)
      BY <1>2 DEF InLine
    <2>2. PICK c \in C : /\ heapMin(q) = c.data
                         /\ \A b \in C : c.priority <= b.priority
                         /\ HeapHolds(heap_extract_min(q), C \ {c}, n - 1)
      BY <2>1, HeapExtractHolds
    <2> DEFINE cell(i) == [data |-> e[i].item, priority |-> e[i].key]
    <2>3. /\ \A b : b \in C <=> \E i \in 1..n : b = cell(i)
          /\ \A i, j \in 1..n : i < j => e[i].key < e[j].key
      BY <2>1 DEF ByKey
    <2>4. \A i \in 1..n : e[i].key \in Int /\ cell(i).priority = e[i].key /\ cell(i).data = e[i].item
      BY <1>0 DEF Entry
    <2> HIDE DEF cell
    <2>5. c = cell(1)
      <3>1. PICK i \in 1..n : c = cell(i)
        BY <2>3
      <3>2. cell(1) \in C
        BY <1>0, <2>3
      <3>3. e[i].key <= e[1].key
        BY <1>0, <2>2, <2>4, <3>1, <3>2
      <3>4. i = 1
        BY <1>0, <2>3, <2>4, <3>3
      <3> QED
        BY <3>1, <3>4
    <2>6. \A i, j \in 1..n : cell(i) = cell(j) => i = j
      <3> SUFFICES ASSUME NEW i \in 1..n, NEW j \in 1..n, cell(i) = cell(j) PROVE i = j
        OBVIOUS
      <3>1. e[i].key = e[j].key /\ e[i].key \in Int
        BY <2>4
      <3>2. ~(i < j) /\ ~(j < i)
        BY <2>3, <3>1
      <3> QED
        BY <3>2
    <2>7. \A b : b \in C \ {c} <=> \E i \in 1..(n - 1) : b = cell(i + 1)
      <3>1. \A i \in 1..(n - 1) : i + 1 \in 1..n /\ i + 1 # 1
        BY <1>0
      <3>2. \A i \in 1..n : i # 1 => i - 1 \in 1..(n - 1) /\ (i - 1) + 1 = i
        BY <1>0
      <3> TAKE b
      <3>3. ASSUME b \in C \ {c} PROVE \E i \in 1..(n - 1) : b = cell(i + 1)
        BY <2>3, <2>5, <3>2, <3>3
      <3>4. ASSUME NEW i \in 1..(n - 1) PROVE cell(i + 1) \in C \ {c}
        BY <1>0, <2>3, <2>5, <2>6, <3>1
      <3> QED
        BY <3>3, <3>4
    <2>8. t \in [1..(n - 1) -> Entry] /\ \A i \in 1..(n - 1) : t[i] = e[i + 1] /\ i + 1 \in 1..n
      BY <1>0
    <2> HIDE DEF t
    <2>9. C \ {c} = {[data |-> t[i].item, priority |-> t[i].key] : i \in 1..(n - 1)}
      <3>1. \A i \in 1..(n - 1) : cell(i + 1) = [data |-> t[i].item, priority |-> t[i].key]
        BY <2>8 DEF cell
      <3>2. \A b : b \in C \ {c} <=> \E i \in 1..(n - 1) : b = [data |-> t[i].item, priority |-> t[i].key]
        BY <2>7, <3>1
      <3> QED
        BY <3>2
    <2>10. \A i, j \in 1..(n - 1) : i < j => t[i].key < t[j].key
      BY <2>3, <2>8
    <2>11. ByKey(t, C \ {c}, n - 1) /\ OwnKeys(C \ {c})
      BY <2>1, <2>8, <2>9, <2>10 DEF ByKey, OwnKeys
    <2>12. First(q) = e[1].item /\ Left(q) = heap_extract_min(q)
      BY <1>0, <1>2, <2>2, <2>4, <2>5 DEF First, Left
    <2>13. InLine(Ring, Left(q), t, n - 1)
      BY <1>2, <2>2, <2>11, <2>12 DEF InLine
    <2> QED
      BY <2>12, <2>13 DEF t
  <1> QED
    BY <1>1, <1>2

(* The entries of the abstract queue.                                      *)
LEMMA EntriesAre ==
    ASSUME NEW e, NEW n, InLine(Ring, readyQueue, e, n)
    PROVE  Entries = e
  <1>0. n \in Nat /\ e \in [1..n -> Entry] /\ readyQueue.size = n
    BY LineFacts
  <1>1. CASE Ring
    <2>1. PICK d : RingHolds(readyQueue, d, n) /\ e = [i \in 1..n |-> [item |-> d[i], key |-> 0]]
      BY <1>1 DEF InLine
    <2>2. Queued = d /\ DOMAIN d = 1..n
      BY <1>1, <2>1, RingFacts DEF Queued
    <2> QED
      BY <1>1, <2>1, <2>2 DEF Entries, RingEntries
  <1>2. CASE ~Ring
    <2>1. PICK C : HeapHolds(readyQueue, C, n) /\ ByKey(e, C, n)
      BY <1>2 DEF InLine
    <2> DEFINE slots == readyQueue.slots
               entry(i) == [item |-> slots[i].data, key |-> slots[i].priority]
               held == {entry(i) : i \in 0..(n - 1)}
               below(x) == {f \in held : f.key < x.key}
               E == {e[i] : i \in 1..n}
    <2>2. /\ \A i, j \in 1..n : i < j => e[i].key < e[j].key
          /\ \A i \in 1..n : e[i] = [item |-> e[i].item, key |-> e[i].key] /\ e[i].key \in Int
      BY <1>0, <2>1 DEF ByKey, Entry
    <2>3. held = E
      <3>1. \A c : c \in C <=> \E i \in 1..n : c = [data |-> e[i].item, priority |-> e[i].key]
        BY <2>1 DEF ByKey
      <3>2. \A c : c \in C <=> \E i \in 0..(n - 1) : c = slots[i]
        BY <2>1 DEF HeapHolds, Filled
      <3>3. ASSUME NEW i \in 0..(n - 1) PROVE entry(i) \in E
        <4>1. PICK j \in 1..n : slots[i] = [data |-> e[j].item, priority |-> e[j].key]
          BY <3>1, <3>2
        <4>2. entry(i) = e[j]
          BY <2>2, <4>1
        <4> QED
          BY <4>2
      <3>4. ASSUME NEW j \in 1..n PROVE e[j] \in held
        <4>1. PICK i \in 0..(n - 1) : slots[i] = [data |-> e[j].item, priority |-> e[j].key]
          BY <3>1, <3>2
        <4>2. entry(i) = e[j]
          BY <2>2, <4>1
        <4> QED
          BY <4>2
      <3> HIDE DEF entry
      <3> QED
        BY <3>3, <3>4
    <2> HIDE DEF entry, held
    <2>4. ASSUME NEW j \in 1..n PROVE Cardinality(below(e[j])) = j - 1
      <3> DEFINE m == j - 1
                 g == [i \in 1..m |-> e[i]]
      <3>1. m \in Nat /\ \A i \in 1..m : i \in 1..n /\ i < j
        BY <1>0
      <3>2. \A i \in 1..m : e[i] \in below(e[j])
        BY <2>2, <2>3, <3>1
      <3>3. \A x \in below(e[j]) : \E i \in 1..m : x = e[i]
        <4> TAKE x \in below(e[j])
        <4>1. PICK i \in 1..n : x = e[i] /\ e[i].key < e[j].key
          BY <2>3
        <4>2. i < j
          BY <1>0, <2>2, <4>1
        <4>3. i \in 1..m
          BY <1>0, <4>2
        <4> QED
          BY <4>1, <4>3
      <3>4. \A i, k \in 1..m : e[i] = e[k] => i = k
        <4> SUFFICES ASSUME NEW i \in 1..m, NEW k \in 1..m, e[i] = e[k] PROVE i = k
          OBVIOUS
        <4>0. i \in 1..n /\ k \in 1..n /\ e[i].key = e[k].key /\ e[i].key \in Int
          BY <2>2, <3>1
        <4>1. ~(i < k) /\ ~(k < i)
          BY <2>2, <4>0
        <4> QED
          BY <3>1, <4>1
      <3> HIDE DEF m, below
      <3>5. g \in [1..m -> below(e[j])] /\ \A i \in 1..m : g[i] = e[i]
        BY <3>2
      <3> HIDE DEF g
      <3>6. g \in Bijection(1..m, below(e[j]))
        BY <3>3, <3>4, <3>5, Fun_IsBij
      <3>7. ExistsBijection(1..m, below(e[j]))
        BY <3>6 DEF ExistsBijection
      <3>8. Cardinality(below(e[j])) = m
        BY <3>1, <3>7, FS_CountingElements, FS_NatBijection
      <3> QED
        BY <3>8 DEF m
    <2> HIDE DEF below
    <2>5. ASSUME NEW k \in 1..n
          PROVE  (CHOOSE x \in held : Cardinality(below(x)) = k - 1) = e[k]
      <3>1. e[k] \in held /\ Cardinality(below(e[k])) = k - 1
        BY <2>3, <2>4
      <3>2. ASSUME NEW x \in held, Cardinality(below(x)) = k - 1 PROVE x = e[k]
        <4>1. PICK j \in 1..n : x = e[j]
          BY <2>3
        <4>2. j - 1 = k - 1
          BY <2>4, <3>2, <4>1
        <4> QED
          BY <1>0, <4>1, <4>2
      <3> QED
        BY <3>1, <3>2
    <2>6. HeapEntries = [k \in 1..n |-> CHOOSE x \in held : Cardinality(below(x)) = k - 1]
      BY <1>0 DEF HeapEntries, held, below, entry
    <2>7. e = [k \in 1..n |-> e[k]]
      BY <1>0
    <2>8. HeapEntries = e
      BY <2>5, <2>6, <2>7, Zenon
    <2> QED
      BY <1>2, <2>8 DEF Entries
  <1> QED
    BY <1>1, <1>2

(* The queue has such an order.                                            *)
LineInv == \E e, n : InLine(Ring, readyQueue, e, n)

(* True in every state (EntriesAre).                                       *)
EntriesInv == \A e, n : InLine(Ring, readyQueue, e, n) => Entries = e

LEMMA EntriesAlways == EntriesInv
  BY EntriesAre DEF EntriesInv

(* The entries are for the processes that wait.                            *)
LEMMA LineItems ==
    ASSUME StoreInv, NEW e, NEW n, InLine(Ring, readyQueue, e, n)
    PROVE  {e[i].item : i \in 1..n} = Waiting
  <1> DEFINE I == {e[i].item : i \in 1..n}
  <1>1. QueueHolds(Ring, readyQueue, I)
    BY LineFacts, Zenon
  <1>2. QueueHolds(Ring, readyQueue, Waiting)
    BY DEF StoreInv
  <1> HIDE DEF I
  <1>3. {Queued[i] : i \in DOMAIN Queued} = I
    BY <1>1, QueuedIs
  <1>4. {Queued[i] : i \in DOMAIN Queued} = Waiting
    BY <1>2, QueuedIs
  <1> QED
    BY <1>3, <1>4 DEF I

LEMMA QueueKeyIsKey ==
    ASSUME StoreTypeOK, NEW p \in Procs, NEW block \in Blocks
    PROVE  QueueKey(p, block) \in EntryKeys /\ QueueKey(p, block) \in Int
  <1>1. CASE Ring
    BY <1>1 DEF QueueKey, EntryKeys
  <1>2. CASE schedulerType = SRTN /\ ~Ring
    <2>1. block.remaining \in 0..MaxWork
      BY <1>2, StoreAssumption DEF Blocks
    <2>2. QueueKey(p, block) = block.remaining * 10000 + p
      BY <1>2 DEF QueueKey, HeapKey
    <2> QED
      BY <2>1, <2>2 DEF EntryKeys, Procs
  <1>3. CASE schedulerType # SRTN /\ ~Ring
    <2>0. schedulerType = HPF
      BY <1>3 DEF StoreTypeOK, Ring
    <2>1. block.priority \in 1..MaxPriority
      BY <2>0, StoreAssumption DEF Blocks
    <2>2. QueueKey(p, block) = block.priority * 10000 + p
      BY <1>3 DEF QueueKey, HeapKey
    <2> QED
      BY <2>1, <2>2 DEF EntryKeys, Procs
  <1> QED
    BY <1>1, <1>2, <1>3

(* ReadyQueue puts a new entry in the same place.                          *)
LEMMA InsertedIs ==
    ASSUME NEW e, NEW n, InLine(Ring, readyQueue, e, n), Entries = e,
           NEW p \in Procs, NEW key \in Int, Ring => key = 0
    PROVE  /\ Abstract!Inserted(p, key) = With(e, n, [item |-> p, key |-> key])
           /\ With(e, n, [item |-> p, key |-> key]) \in [1..(n + 1) -> Entry]
  <1> DEFINE x == [item |-> p, key |-> key]
             i == Place(e, n, key)
  <1>1. n \in Nat /\ e \in [1..n -> Entry] /\ e \in Seq(Entry) /\ Len(e) = n
    BY LineFacts, Zenon
  <1>2. \E l \in 0..n : \A j \in 1..n : j > l <=> e[j].key > key
    <2>1. CASE Ring
      <3>0. PICK d : e = [j \in 1..n |-> [item |-> d[j], key |-> 0]]
        BY <2>1 DEF InLine
      <3>1. \A j \in 1..n : e[j].key = 0
        BY <3>0
      <3>2. n \in 0..n /\ \A j \in 1..n : j > n <=> e[j].key > key
        BY <1>1, <2>1, <3>1
      <3> QED
        BY <3>2
    <2>2. CASE ~Ring
      <3>1. \A j, k \in 1..n : j < k => e[j].key < e[k].key
        BY <2>2 DEF InLine, ByKey
      <3> QED
        BY <1>1, <3>1, PlaceExists
    <2> QED
      BY <2>1, <2>2
  <1>3. i \in 0..n
    BY <1>1, <1>2, PlaceIs
  <1>4. Abstract!Inserted(p, key) = PutIn(e, i, x)
    <2>1. Abstract!Inserted(p, key) = PutIn(e, CHOOSE l \in 0..Len(e) : \A j \in 1..Len(e) : j > l <=> e[j].key > key, x)
      BY Zenon DEF Abstract!Inserted, PutIn
    <2> HIDE DEF x
    <2> QED
      BY <1>1, <2>1 DEF Place
  <1>5. x \in Entry /\ x.key = key
    BY DEF Entry
  <1> DEFINE s == [k \in 1..(n + 1) |-> IF k <= i THEN e[k] ELSE IF k = i + 1 THEN x ELSE e[k - 1]]
  <1>6. With(e, n, x) = s
    <2> HIDE DEF x
    <2> QED
      BY <1>5 DEF With
  <1> HIDE DEF i, x
  <1>7. PutIn(e, i, x) = s
    <2>1. e \in Seq(Entry) /\ x \in Entry /\ i \in 0..Len(e)
      BY <1>1, <1>3, <1>5
    <2>2. PutIn(e, i, x) = Shaped(e, i, x)
      BY <2>1, InsertedShape, Zenon
    <2> QED
      BY <1>1, <2>2 DEF Shaped
  <1>8. s \in [1..(n + 1) -> Entry]
    BY <1>1, <1>3, <1>5
  <1> QED
    BY <1>4, <1>6, <1>7, <1>8 DEF x

(* The queue after a step of the scheduler, and what it does to the        *)
(* abstract queue.                                                         *)
LEMMA LineInit == Init => InLine(Ring, readyQueue, <<>>, 0)
  <1> SUFFICES ASSUME Init PROVE InLine(Ring, readyQueue, <<>>, 0)
    OBVIOUS
  <1>1. CASE Ring
    <2>1. <<>> = [i \in 1..0 |-> [item |-> <<>>[i], key |-> 0]]
      OBVIOUS
    <2> QED
      BY <1>1, <2>1, EmptyRingHolds DEF Init, InLine
  <1>2. CASE ~Ring
    <2>1. ByKey(<<>>, {}, 0) /\ OwnKeys({})
      BY DEF ByKey, OwnKeys
    <2> QED
      BY <1>2, <2>1, EmptyHeapHolds DEF Init, InLine
  <1> QED
    BY <1>1, <1>2

(* The key of the abstract queue for the process that is pushed.           *)
LEMMA FetchLine ==
    ASSUME IdsFitKey, StoreInv, NEW e, NEW n, InLine(Ring, readyQueue, e, n),
           NEW p \in Procs, NEW work \in Works, NEW priority \in Priorities,
           Fetch(p, work, priority)
    PROVE  \E key \in EntryKeys :
               /\ key \in Int /\ (Ring => key = 0)
               /\ InLine(Ring', readyQueue', With(e, n, [item |-> p, key |-> key]), n + 1)
  <1> DEFINE block == [state |-> "READY", remaining |-> work, priority |-> priority]
             key == QueueKey(p, block)
  <1>1. p \notin fetched /\ p \notin Waiting
    BY DEF Fetch, StoreInv, Waiting
  <1>2. block \in Blocks
    <2>1. work \in Nat /\ (schedulerType = SRTN => work <= MaxWork)
      BY StoreAssumption DEF Works
    <2>2. priority \in Nat /\ (schedulerType = HPF => priority \in 1..MaxPriority)
      BY StoreAssumption DEF Priorities
    <2> QED
      BY <2>1, <2>2 DEF Blocks
  <1>3. readyQueue' = pushToReadyQueue(p, block) /\ Ring' = Ring
    BY DEF Fetch, Ring
  <1> HIDE DEF block
  <1>4. \A i \in 1..n : e[i].item # p
    BY <1>1, LineItems
  <1>5. InLine(Ring, pushToReadyQueue(p, block), With(e, n, [item |-> p, key |-> key]), n + 1)
    BY <1>2, <1>4, PushInLine
  <1>6. key \in EntryKeys /\ key \in Int /\ (Ring => key = 0)
    BY <1>2, QueueKeyIsKey DEF QueueKey, StoreInv
  <1> HIDE DEF key
  <1> QED
    BY <1>3, <1>5, <1>6

(* The first entry and what is left of the queue.                          *)
Rest(e, n) == [i \in 1..(n - 1) |-> e[i + 1]]

LEMMA DispatchLine ==
    ASSUME StoreInv, NEW e, NEW n, InLine(Ring, readyQueue, e, n), Dispatch
    PROVE  /\ n > 0 /\ currentProcess' = e[1].item
           /\ InLine(Ring', readyQueue', Rest(e, n), n - 1)
  <1>1. readyQueue.size = n /\ n \in Nat
    BY LineFacts, Zenon
  <1>2. readyQueue.size > 0 /\ QueueHolds(Ring, readyQueue, Waiting)
    BY <1>1 DEF Dispatch, isEmpty, StoreInv
  <1>3. \A x \in Waiting : States(pcb)[x] = "READY"
    BY DEF States, Waiting, StoreInv
  <1>4. schedule(readyQueue, States(pcb)) = [queue |-> Left(readyQueue), next |-> First(readyQueue)]
    BY <1>2, <1>3, ScheduleTakes
  <1>5. readyQueue' = Left(readyQueue) /\ currentProcess' = First(readyQueue) /\ Ring' = Ring
    BY <1>4 DEF Dispatch, Ring
  <1>6. First(readyQueue) = e[1].item /\ InLine(Ring, Left(readyQueue), Rest(e, n), n - 1)
    BY <1>1, <1>2, TakeInLine DEF Rest
  <1> QED
    BY <1>1, <1>2, <1>5, <1>6

LEMMA ExpireQuantumLine ==
    ASSUME IdsFitKey, StoreInv, NEW e, NEW n, InLine(Ring, readyQueue, e, n), ExpireQuantum
    PROVE  \E key \in EntryKeys :
               LET s == With(e, n, [item |-> currentProcess, key |-> key]) IN
               /\ key \in Int /\ (Ring => key = 0)
               /\ currentProcess # NULL /\ currentProcess \in Procs
               /\ currentProcess' = s[1].item
               /\ InLine(Ring', readyQueue', Rest(s, n + 1), n)
  <1> DEFINE c == currentProcess
             ready == [pcb EXCEPT ![c].state = "READY"]
             pushed == pushToReadyQueue(c, pcb[c])
             all == DOMAIN pcb
             key == QueueKey(c, pcb[c])
             s == With(e, n, [item |-> c, key |-> key])
  <1>0. n \in Nat
    BY LineFacts, Zenon
  <1>1. c \in all /\ c # NULL /\ c \in Procs /\ pcb[c] \in Blocks /\ c \notin Waiting /\ Waiting \cup {c} = all
    BY DEF ExpireQuantum, StoreInv, StoreTypeOK, Waiting
  <1>2. QueueHolds(Ring, pushed, all)
    <2>1. HeapKey(c, pcb[c]) \in Int
      BY <1>1, HeapKeyIsInt
    <2>2. QueueHolds(Ring, readyQueue, Waiting)
      BY DEF StoreInv
    <2> QED
      BY <1>1, <2>1, <2>2, PushHolds
  <1>3. \A i \in 1..n : e[i].item # c
    BY <1>1, LineItems
  <1>4. InLine(Ring, pushed, s, n + 1)
    BY <1>1, <1>3, PushInLine
  <1>5. key \in EntryKeys /\ key \in Int /\ (Ring => key = 0)
    BY <1>1, QueueKeyIsKey DEF QueueKey, StoreInv
  <1> HIDE DEF pushed, s, key
  <1>6. pushed.size = n + 1 /\ n + 1 > 0 /\ (n + 1) - 1 = n
    <2>1. pushed.size = n + 1
      BY <1>4, LineFacts, Zenon
    <2> QED
      BY <1>0, <2>1
  <1>7. \A x \in all : ready[x].state = "READY"
    <2>1. ready = [x \in all |-> IF x = c THEN [pcb[c] EXCEPT !.state = "READY"] ELSE pcb[x]]
      BY DEF StoreInv, StoreTypeOK
    <2>2. [pcb[c] EXCEPT !.state = "READY"].state = "READY"
      BY <1>1 DEF Blocks
    <2> HIDE DEF ready
    <2> QED
      BY <1>1, <2>1, <2>2 DEF StoreInv, StoreTypeOK, Waiting
  <1> HIDE DEF ready
  <1>8. schedule(pushed, States(ready)) = [queue |-> Left(pushed), next |-> First(pushed)]
    <2>1. \A x \in all : States(ready)[x] = "READY"
      <3>1. DOMAIN ready = all
        BY DEF ready
      <3> QED
        BY <1>7, <3>1 DEF States
    <2> QED
      BY <1>2, <1>6, <2>1, ScheduleTakes
  <1>9. readyQueue' = Left(pushed) /\ currentProcess' = First(pushed) /\ Ring' = Ring
    <2> DEFINE taken == schedule(pushed, States(ready))
    <2>1. readyQueue' = taken.queue /\ currentProcess' = taken.next /\ UNCHANGED schedulerType
      BY Zenon DEF ExpireQuantum, ready, pushed
    <2>2. taken.queue = Left(pushed) /\ taken.next = First(pushed)
      BY <1>8
    <2> HIDE DEF taken
    <2> QED
      BY <2>1, <2>2 DEF Ring
  <1>10. First(pushed) = s[1].item /\ InLine(Ring, Left(pushed), Rest(s, n + 1), n)
    <2> DEFINE m == n + 1
    <2>1. m > 0 /\ m - 1 = n /\ InLine(Ring, pushed, s, m)
      BY <1>4, <1>6
    <2> HIDE DEF m
    <2>2. First(pushed) = s[1].item /\ InLine(Ring, Left(pushed), [i \in 1..(m - 1) |-> s[i + 1]], m - 1)
      BY <2>1, TakeInLine, Zenon
    <2>3. Rest(s, m) = [i \in 1..(m - 1) |-> s[i + 1]]
      BY DEF Rest
    <2>4. First(pushed) = s[1].item /\ InLine(Ring, Left(pushed), Rest(s, m), n)
      BY <2>1, <2>2, <2>3, Zenon
    <2> QED
      BY <2>4 DEF m
  <1> QED
    BY <1>1, <1>5, <1>9, <1>10 DEF s

(* Nothing is queued once the scheduler has cleaned up.                    *)
LEMMA ClearLine ==
    ASSUME StoreInv, schedulerClearResources
    PROVE  InLine(Ring', readyQueue', <<>>, 0)
  <1>1. QueueHolds(Ring, readyQueue, Waiting) /\ Ring' = Ring
    BY DEF StoreInv, schedulerClearResources, Ring
  <1>2. CASE Ring
    <2>1. PICK n, e : RingHolds(readyQueue, e, n)
      BY <1>1, <1>2 DEF QueueHolds
    <2>2. destroyQueue(readyQueue) = <<>>
      BY <2>1, RingFacts
    <2>3. readyQueue' = createQueue
      BY <1>2, <2>2 DEF schedulerClearResources, createQueue
    <2>4. <<>> = [i \in 1..0 |-> [item |-> <<>>[i], key |-> 0]]
      OBVIOUS
    <2> QED
      BY <1>1, <1>2, <2>3, <2>4, EmptyRingHolds DEF InLine
  <1>3. CASE ~Ring
    <2>1. readyQueue' = heap_create
      BY <1>3 DEF schedulerClearResources
    <2>2. ByKey(<<>>, {}, 0) /\ OwnKeys({})
      BY DEF ByKey, OwnKeys
    <2> QED
      BY <1>1, <1>3, <2>1, <2>2, EmptyHeapHolds DEF InLine
  <1> QED
    BY <1>2, <1>3

(* The actions that leave the queue alone.                                 *)
LEMMA QueueFrame ==
    ASSUME UNCHANGED <<schedulerType, readyQueue>>
    PROVE  Entries' = Entries /\ Ring' = Ring
  BY DEF Entries, RingEntries, HeapEntries, Queued, Ring

(* The queue stays in order.                                               *)
LEMMA NextLine ==
    ASSUME IdsFitKey, StoreInv, LineInv, [Next]_vars
    PROVE  LineInv'
  <1>1. PICK e, n : InLine(Ring, readyQueue, e, n)
    BY DEF LineInv
  <1>2. CASE UNCHANGED <<schedulerType, readyQueue>>
    <2>1. Ring' = Ring /\ readyQueue' = readyQueue
      BY <1>2 DEF Ring
    <2> QED
      BY <1>1, <2>1 DEF LineInv
  <1>3. ASSUME NEW p \in Procs, NEW work \in Works, NEW priority \in Priorities,
               Fetch(p, work, priority)
        PROVE  LineInv'
    BY <1>1, <1>3, FetchLine DEF LineInv
  <1>4. CASE ExpireQuantum
    BY <1>1, <1>4, ExpireQuantumLine DEF LineInv
  <1>5. CASE Dispatch
    BY <1>1, <1>5, DispatchLine DEF LineInv
  <1>6. CASE schedulerClearResources
    BY <1>6, ClearLine DEF LineInv
  <1> QED
    BY <1>2, <1>3, <1>4, <1>5, <1>6 DEF Next, vars, Serve, handleProcessExit

LEMMA RestIsTail ==
    ASSUME NEW n \in Nat, n > 0, NEW s \in [1..n -> Entry]
    PROVE  s # <<>> /\ Head(s) = s[1] /\ Tail(s) = Rest(s, n)
  <1>1. s \in Seq(Entry) /\ Len(s) = n
    OBVIOUS
  <1>2. Tail(s) = [i \in 1..(n - 1) |-> s[i + 1]]
    <2> DEFINE t == Tail(s)
    <2>1. t \in Seq(Entry) /\ Len(t) = n - 1 /\ \A i \in 1..(n - 1) : t[i] = s[i + 1]
      BY <1>1, HeadTailProperties
    <2> HIDE DEF t
    <2>2. t = [i \in 1..(n - 1) |-> t[i]]
      BY <2>1
    <2>3. t = [i \in 1..(n - 1) |-> s[i + 1]]
      BY <2>1, <2>2
    <2> QED
      BY <2>3 DEF t
  <1> QED
    BY <1>1, <1>2 DEF Rest

(* Each step of the scheduler is one of ReadyQueue, or changes nothing     *)
(* there.                                                                  *)
LEMMA FetchAdds ==
    ASSUME IdsFitKey, StoreInv, LineInv, EntriesInv, EntriesInv',
           NEW p \in Procs, NEW work \in Works, NEW priority \in Priorities,
           Fetch(p, work, priority)
    PROVE  Abstract!Next
  <1>1. PICK e, n : InLine(Ring, readyQueue, e, n)
    BY DEF LineInv
  <1>2. Entries = e
    BY <1>1 DEF EntriesInv
  <1>3. PICK key \in EntryKeys :
            /\ key \in Int /\ (Ring => key = 0)
            /\ InLine(Ring', readyQueue', With(e, n, [item |-> p, key |-> key]), n + 1)
    BY <1>1, FetchLine
  <1> DEFINE s == With(e, n, [item |-> p, key |-> key])
  <1>4. Abstract!Inserted(p, key) = s
    BY <1>1, <1>2, <1>3, InsertedIs
  <1>5. InLine(Ring', readyQueue', s, n + 1)
    BY <1>3
  <1> HIDE DEF s
  <1>6. Entries' = s
    BY <1>5, Zenon DEF EntriesInv
  <1>7. UNCHANGED currentProcess
    BY DEF Fetch
  <1>8. Abstract!Add(p, key)
    BY <1>4, <1>6, <1>7, Zenon DEF Abstract!Add
  <1> QED
    BY <1>3, <1>8, Zenon DEF Abstract!Next

LEMMA ExpireQuantumPutsBack ==
    ASSUME IdsFitKey, StoreInv, LineInv, EntriesInv, EntriesInv', ExpireQuantum
    PROVE  Abstract!Next
  <1>1. PICK e, n : InLine(Ring, readyQueue, e, n)
    BY DEF LineInv
  <1>2. Entries = e /\ n \in Nat
    <2>1. n \in Nat
      BY <1>1, LineFacts, Zenon
    <2> QED
      BY <1>1, <2>1 DEF EntriesInv
  <1> DEFINE c == currentProcess
             with(key) == With(e, n, [item |-> c, key |-> key])
  <1>3. PICK key \in EntryKeys :
            /\ key \in Int /\ (Ring => key = 0)
            /\ c # NULL /\ c \in Procs
            /\ currentProcess' = with(key)[1].item
            /\ InLine(Ring', readyQueue', Rest(with(key), n + 1), n)
    BY <1>1, ExpireQuantumLine
  <1> DEFINE s == with(key)
  <1>4. Abstract!Inserted(c, key) = s /\ s \in [1..(n + 1) -> Entry]
    BY <1>1, <1>2, <1>3, InsertedIs
  <1>5. /\ InLine(Ring', readyQueue', Rest(s, n + 1), n)
        /\ currentProcess' = s[1].item
    BY <1>3
  <1> HIDE DEF with, s
  <1>6. Entries' = Rest(s, n + 1)
    BY <1>5, Zenon DEF EntriesInv
  <1>7. s # <<>> /\ Head(s) = s[1] /\ Tail(s) = Rest(s, n + 1)
    <2> DEFINE m == n + 1
    <2>1. m \in Nat /\ m > 0 /\ s \in [1..m -> Entry]
      BY <1>2, <1>4
    <2> HIDE DEF m
    <2>2. s # <<>> /\ Head(s) = s[1] /\ Tail(s) = Rest(s, m)
      BY <2>1, RestIsTail
    <2> QED
      BY <2>2 DEF m
  <1>8. Abstract!TakeFrom(s)
    BY <1>5, <1>6, <1>7 DEF Abstract!TakeFrom
  <1>9. Abstract!PutBackAndTake(key)
    BY <1>3, <1>4, <1>8, Zenon DEF Abstract!PutBackAndTake
  <1> QED
    BY <1>3, <1>9, Zenon DEF Abstract!Next

LEMMA DispatchTakes ==
    ASSUME StoreInv, LineInv, EntriesInv, EntriesInv', Dispatch
    PROVE  Abstract!Next
  <1>1. PICK e, n : InLine(Ring, readyQueue, e, n)
    BY DEF LineInv
  <1>2. Entries = e /\ n \in Nat /\ e \in [1..n -> Entry]
    <2>1. n \in Nat /\ e \in [1..n -> Entry]
      BY <1>1, LineFacts, Zenon
    <2> QED
      BY <1>1, <2>1 DEF EntriesInv
  <1>3. /\ n > 0 /\ currentProcess' = e[1].item
        /\ InLine(Ring', readyQueue', Rest(e, n), n - 1)
    BY <1>1, DispatchLine
  <1>4. Entries' = Rest(e, n)
    BY <1>3, Zenon DEF EntriesInv
  <1>5. e # <<>> /\ Head(e) = e[1] /\ Tail(e) = Rest(e, n)
    BY <1>2, <1>3, RestIsTail
  <1>6. Abstract!TakeFrom(Entries)
    BY <1>2, <1>3, <1>4, <1>5 DEF Abstract!TakeFrom
  <1>7. currentProcess = NULL
    BY DEF Dispatch
  <1> QED
    BY <1>6, <1>7 DEF Abstract!Take, Abstract!Next

LEMMA StoreStepMaps ==
    ASSUME IdsFitKey, StoreInv, LineInv, EntriesInv, EntriesInv', [Next]_vars
    PROVE  [Abstract!Next]_(Abstract!vars)
  <1>1. ASSUME NEW p \in Procs, NEW work \in Works, NEW priority \in Priorities,
               Fetch(p, work, priority)
        PROVE  Abstract!Next
    BY <1>1, FetchAdds
  <1>2. ASSUME Serve PROVE UNCHANGED Abstract!vars
    <2>1. UNCHANGED <<schedulerType, readyQueue>> /\ UNCHANGED currentProcess
      BY <1>2 DEF Serve
    <2> QED
      BY <2>1, QueueFrame DEF Abstract!vars
  <1>3. ASSUME ExpireQuantum PROVE Abstract!Next
    BY <1>3, ExpireQuantumPutsBack
  <1>4. ASSUME Dispatch PROVE Abstract!Next
    BY <1>4, DispatchTakes
  <1>5. ASSUME handleProcessExit PROVE Abstract!Next
    <2>1. UNCHANGED <<schedulerType, readyQueue>> /\ currentProcess' = NULL
      BY <1>5 DEF handleProcessExit
    <2> QED
      BY <2>1, QueueFrame DEF Abstract!Leave, Abstract!Next
  <1>6. ASSUME schedulerClearResources PROVE Abstract!Next
    <2>1. Entries' = <<>>
      BY <1>6, ClearLine DEF EntriesInv
    <2>2. currentProcess' = NULL
      BY <1>6 DEF schedulerClearResources
    <2> QED
      BY <2>1, <2>2 DEF Abstract!Clear, Abstract!Next
  <1>7. ASSUME UNCHANGED vars PROVE UNCHANGED Abstract!vars
    <2>1. UNCHANGED <<schedulerType, readyQueue>> /\ UNCHANGED currentProcess
      BY <1>7 DEF vars
    <2> QED
      BY <2>1, QueueFrame DEF Abstract!vars
  <1> QED
    BY <1>1, <1>2, <1>3, <1>4, <1>5, <1>6, <1>7 DEF Next

(* The queue of the scheduler implements ReadyQueue: ring and heap hand    *)
(* out what an ordered queue would, for fewer than 10000 processes.        *)
THEOREM QueueIsOrdered == IdsFitKey => (Spec => ImplementsReadyQueue)
  <1> SUFFICES ASSUME IdsFitKey PROVE Spec => ImplementsReadyQueue
    OBVIOUS
  <1>1. Init => LineInv
    BY LineInit DEF LineInv
  <1>2. StoreInv /\ LineInv /\ [Next]_vars => LineInv'
    BY NextLine
  <1>3. Init => Abstract!Init
    <2> SUFFICES ASSUME Init PROVE Abstract!Init
      OBVIOUS
    <2>1. Entries = <<>>
      BY LineInit, EntriesAre
    <2> QED
      BY <2>1 DEF Init, Abstract!Init
  <1>4. StoreInv /\ LineInv /\ EntriesInv /\ EntriesInv' /\ [Next]_vars
            => [Abstract!Next]_(Abstract!vars)
    BY StoreStepMaps
  <1>5. EntriesInv
    BY EntriesAlways
  <1> QED
    BY <1>1, <1>2, <1>3, <1>4, <1>5, StoreInvariant, PTL
       DEF Spec, ImplementsReadyQueue, Abstract!Spec
=============================================================================
