----------------------------- MODULE RouteProofs -----------------------------
(***************************************************************************)
(* Proofs about routes, for every route: that validate refuses exactly the *)
(* routes that cannot be walked, whichever node Kahn's algorithm pops      *)
(* first, and the lemmas about numbers and routes the proofs about the     *)
(* line and the simulator use.                                             *)
(***************************************************************************)
EXTENDS Route, FiniteSetTheorems, WellFoundedInduction, TLAPS

-----------------------------------------------------------------------------
(* Numbers.  Induction is over a set of numbers, from the least one.        *)

LEMMA LeastNumber ==
  ASSUME NEW T \in SUBSET Nat, T # {}
  PROVE  \E n \in T : \A m \in T : n <= m
<1> DEFINE R == {ss \in Nat \X Nat : ss[1] < ss[2]}
<1>1. IsWellFoundedOn(R, Nat)
  BY NatLessThanWellFounded DEF OpToRel
<1> HIDE DEF R
<1>2. PICK n \in T : \A m \in T : ~(<<m, n>> \in R)
  BY <1>1, WFMin
<1>3. \A m \in T : ~(m < n)
  BY <1>2 DEF R
<1> QED  BY <1>3

LEMMA Induction ==
  ASSUME NEW S, 0 \in S, \A n \in Nat : n \in S => n + 1 \in S
  PROVE  Nat \subseteq S
<1> DEFINE T == {n \in Nat : n \notin S}
<1> SUFFICES ASSUME T # {} PROVE FALSE
  OBVIOUS
<1>1. PICK n \in T : \A m \in T : n <= m
  BY LeastNumber
<1>2. n # 0 /\ n - 1 \in Nat /\ n - 1 \notin T
  BY <1>1
<1>3. (n - 1) + 1 \in S
  BY <1>2
<1> QED  BY <1>1, <1>3

\* A step iterated from a start.
LEMMA Iterated ==
  ASSUME NEW T, NEW a \in T, NEW G \in [T -> T]
  PROVE  \E f \in [Nat -> T] : f[0] = a /\ \A n \in Nat : f[n + 1] = G[f[n]]
<1> DEFINE Upto(n) == {g \in [0..n -> T] : g[0] = a /\ \A m \in 0..(n - 1) : g[m + 1] = G[g[m]]}
<1>1. \A n \in Nat : Upto(n) # {}
  <2> DEFINE S == {n \in Nat : Upto(n) # {}}
  <2>1. 0 \in S
    <3>1. [m \in 0..0 |-> a] \in Upto(0)
      OBVIOUS
    <3> QED  BY <3>1
  <2>2. ASSUME NEW n \in Nat, n \in S PROVE n + 1 \in S
    <3>1. PICK g \in Upto(n) : TRUE
      BY <2>2
    <3> DEFINE h == [m \in 0..(n + 1) |-> IF m <= n THEN g[m] ELSE G[g[n]]]
    <3>2. h \in Upto(n + 1)
      <4>1. h \in [0..(n + 1) -> T] /\ h[0] = a
        BY <3>1
      <4>2. \A m \in 0..n : h[m + 1] = G[h[m]]
        BY <3>1
      <4>3. (n + 1) - 1 = n
        OBVIOUS
      <4> QED  BY ONLY <4>1, <4>2, <4>3
    <3>3. Upto(n + 1) # {}
      BY ONLY <3>2
    <3> QED  BY ONLY n \in Nat, <3>3
  <2> QED  BY <2>1, <2>2, Induction
<1>2. \A n \in Nat : \A g \in Upto(n), h \in Upto(n + 1) : g[n] = h[n]
  <2> SUFFICES ASSUME NEW n \in Nat, NEW g \in Upto(n), NEW h \in Upto(n + 1)
               PROVE  g[n] = h[n]
    OBVIOUS
  <2> DEFINE S == {m \in Nat : m <= n => g[m] = h[m]}
  <2>1. 0 \in S
    OBVIOUS
  <2>2. ASSUME NEW m \in Nat, m \in S PROVE m + 1 \in S
    <3> SUFFICES ASSUME m + 1 <= n PROVE g[m + 1] = h[m + 1]
      OBVIOUS
    <3>1. m \in 0..(n - 1) /\ m \in 0..((n + 1) - 1)
      OBVIOUS
    <3> QED  BY <2>2, <3>1
  <2> HIDE DEF S
  <2>3. n \in S
    BY <2>1, <2>2, Induction
  <2> QED  BY <2>3 DEF S
<1> DEFINE f == [n \in Nat |-> (CHOOSE g \in Upto(n) : TRUE)[n]]
<1> HIDE DEF Upto
<1>3. \A n \in Nat : \E g \in Upto(n) : f[n] = g[n]
  <2> TAKE n \in Nat
  <2>1. (CHOOSE g \in Upto(n) : TRUE) \in Upto(n)
    BY <1>1
  <2> QED  BY <2>1
<1> HIDE DEF f
<1>4. f[0] = a
  <2>1. PICK g \in Upto(0) : f[0] = g[0]
    BY <1>3
  <2> QED  BY <2>1 DEF Upto
<1>5. \A n \in Nat : f[n + 1] = G[f[n]]
  <2> TAKE n \in Nat
  <2>1. PICK h \in Upto(n + 1) : f[n + 1] = h[n + 1]
    BY <1>3
  <2>2. PICK g \in Upto(n) : f[n] = g[n]
    BY <1>3
  <2>3. h[n + 1] = G[h[n]]
    BY <2>1 DEF Upto
  <2> QED  BY <1>2, <2>1, <2>2, <2>3
<1>6. f \in [Nat -> T]
  <2>1. \A n \in Nat : f[n] \in T
    BY <1>3 DEF Upto
  <2> QED  BY <2>1 DEF f
<1> QED  BY <1>4, <1>5, <1>6

LEMMA MinIsLeast ==
  ASSUME NEW T \in SUBSET Nat, T # {}
  PROVE  Min(T) \in T /\ \A m \in T : Min(T) <= m
BY LeastNumber DEF Min

LEMMA LargerOfTwo ==
  ASSUME NEW m \in Nat, NEW n \in Nat
  PROVE  Max({m, n}) \in Nat /\ Max({m, n}) >= m /\ Max({m, n}) >= n
<1>1. \E x \in {m, n} : \A y \in {m, n} : x >= y
  OBVIOUS
<1> QED  BY <1>1 DEF Max

-----------------------------------------------------------------------------
(* Routes. *)

\* What validate checks before it looks for cycles, the entry aside.
Sound(r) ==
  /\ IsRoute(r)
  /\ Cardinality(Seqs(r)) = Len(r)
  /\ \A i \in DOMAIN r : Predecessors(r[i]) \subseteq Seqs(r)

LEMMA RoutesAreSequences ==
  ASSUME NEW r, IsRoute(r)
  PROVE  Len(r) \in Nat /\ DOMAIN r = 1..Len(r)
BY DEF IsRoute

\* An operation's seq tells it apart.
LEMMA SeqsAreKeys ==
  ASSUME NEW r, Sound(r), NEW i \in DOMAIN r, NEW j \in DOMAIN r, r[i].seq = r[j].seq
  PROVE  i = j
<1> DEFINE g == [k \in 1..Len(r) |-> r[k].seq]
<1>1. Len(r) \in Nat /\ DOMAIN r = 1..Len(r)
  BY RoutesAreSequences DEF Sound
<1>2. g \in Surjection(1..Len(r), Seqs(r))
  BY <1>1 DEF Surjection, Seqs
<1>3. IsFiniteSet(1..Len(r)) /\ Cardinality(1..Len(r)) = Len(r)
  <2>1. \A n \in Nat : IsFiniteSet(1..n) /\ Cardinality(1..n) = n
    BY FS_Interval
  <2> QED  BY <1>1, <2>1
<1>4. Cardinality(Seqs(r)) = Len(r)
  BY DEF Sound
<1> HIDE DEF g
<1>5. g \in Injection(1..Len(r), Seqs(r))
  BY <1>2, <1>3, <1>4, FS_Surjection
<1>6. g[i] = g[j]
  BY <1>1 DEF g
<1> QED  BY <1>1, <1>5, <1>6 DEF Injection, IsInjective

LEMMA SeqsAreFinite ==
  ASSUME NEW r, IsRoute(r)
  PROVE  IsFiniteSet(Seqs(r)) /\ Seqs(r) \subseteq Nat
<1> DEFINE g == [k \in 1..Len(r) |-> r[k].seq]
<1>1. Len(r) \in Nat /\ DOMAIN r = 1..Len(r)
  BY RoutesAreSequences
<1>2. g \in Surjection(1..Len(r), Seqs(r))
  BY <1>1 DEF Surjection, Seqs
<1>3. IsFiniteSet(1..Len(r))
  BY <1>1, FS_Interval
<1> HIDE DEF g
<1>4. IsFiniteSet(Seqs(r))
  BY <1>2, <1>3, FS_Surjection
<1> QED  BY <1>4 DEF IsRoute, Seqs

LEMMA OperationOfSeq ==
  ASSUME NEW r, Sound(r), NEW i \in DOMAIN r
  PROVE  Operation(r, r[i].seq) = r[i]
<1> DEFINE T == {k \in DOMAIN r : r[k].seq = r[i].seq}
<1>1. T \in SUBSET Nat /\ i \in T
  BY RoutesAreSequences DEF Sound
<1>2. Min(T) \in T
  BY <1>1, MinIsLeast
<1>3. Min(T) = i
  BY <1>2, SeqsAreKeys
<1> QED  BY <1>3 DEF Operation, Position

-----------------------------------------------------------------------------
(* Kahn's algorithm: edges not taken off yet. *)

\* The places in the list of s that name an operation outside V.
Waiting(r, s, V) ==
  {k \in DOMAIN Operation(r, s).predecessors : Operation(r, s).predecessors[k] \notin V}

\* They can be counted; there are none when all that s lists is in V.
LEMMA WaitingIsCounted ==
  ASSUME NEW r, Sound(r), NEW s \in Seqs(r), NEW V
  PROVE  /\ IsFiniteSet(Waiting(r, s, V)) /\ Cardinality(Waiting(r, s, V)) \in Nat
         /\ Cardinality(Waiting(r, s, V)) = 0 <=> Predecessors(Operation(r, s)) \subseteq V
<1>1. PICK i \in DOMAIN r : s = r[i].seq
  BY DEF Seqs
<1>2. Operation(r, s) = r[i] /\ r[i].predecessors \in Seq(Nat)
  BY <1>1, OperationOfSeq DEF Sound, IsRoute
<1> DEFINE list == Operation(r, s).predecessors
<1>3. Len(list) \in Nat /\ DOMAIN list = 1..Len(list)
  BY <1>2
<1>4. IsFiniteSet(DOMAIN list)
  BY <1>3, FS_Interval
<1>5. Waiting(r, s, V) \in SUBSET DOMAIN list
  BY DEF Waiting
<1> HIDE DEF list
<1>6. IsFiniteSet(Waiting(r, s, V))
  BY <1>4, <1>5, FS_Subset
<1>7. Cardinality(Waiting(r, s, V)) \in Nat
  BY <1>6, FS_CardinalityType
<1>8. Cardinality(Waiting(r, s, V)) = 0 <=> Waiting(r, s, V) = {}
  BY <1>6, FS_EmptySet
<1>9. Waiting(r, s, V) = {} <=> Predecessors(Operation(r, s)) \subseteq V
  BY DEF Waiting, Predecessors
<1> QED  BY <1>6, <1>7, <1>8, <1>9

\* Before any is taken off they are the whole list.
LEMMA WaitingAtFirst ==
  ASSUME NEW r, Sound(r), NEW s \in Seqs(r)
  PROVE  /\ Cardinality(Waiting(r, s, {})) = Len(Operation(r, s).predecessors)
         /\ Operation(r, s).predecessors = <<>> <=> Predecessors(Operation(r, s)) = {}
<1>1. PICK i \in DOMAIN r : s = r[i].seq
  BY DEF Seqs
<1>2. Operation(r, s) = r[i] /\ r[i].predecessors \in Seq(Nat)
  BY <1>1, OperationOfSeq DEF Sound, IsRoute
<1>3. PICK list \in Seq(Nat) : list = Operation(r, s).predecessors
  BY <1>2
<1>4. Len(list) \in Nat /\ DOMAIN list = 1..Len(list) /\ (list = <<>> <=> Len(list) = 0)
  BY <1>3
<1>5. \A n \in Nat : Cardinality(1..n) = n
  BY FS_Interval
<1>6. Waiting(r, s, {}) = 1..Len(list)
  BY <1>3, <1>4 DEF Waiting
<1>7. Predecessors(Operation(r, s)) = {list[k] : k \in 1..Len(list)}
  BY <1>3, <1>4 DEF Predecessors
<1>8. Cardinality(Waiting(r, s, {})) = Len(list)
  BY <1>4, <1>5, <1>6
<1>9. list = <<>> <=> {list[k] : k \in 1..Len(list)} = {}
  <2> DEFINE L == {list[k] : k \in 1..Len(list)}
  <2>1. CASE Len(list) = 0
    <3>1. L = {}
      BY <2>1
    <3> QED  BY <1>4, <2>1, <3>1
  <2>2. CASE Len(list) # 0
    <3>1. 1 \in 1..Len(list)
      BY <1>4, <2>2
    <3>2. list[1] \in L
      BY <3>1
    <3> HIDE DEF L
    <3>3. L # {}
      BY <3>2
    <3> QED  BY <1>4, <2>2, <3>3 DEF L
  <2> QED  BY <2>1, <2>2
<1> QED  BY <1>3, <1>7, <1>8, <1>9

LEMMA EdgesAreCounted ==
  ASSUME NEW r, Sound(r), NEW s \in Seqs(r), NEW v
  PROVE  Edges(r, v, s) \in Nat
<1> DEFINE E == {k \in DOMAIN Operation(r, s).predecessors :
                   Operation(r, s).predecessors[k] = v}
           W == Waiting(r, s, {})
<1>1. IsFiniteSet(W)
  BY WaitingIsCounted
<1>2. E \in SUBSET W
  BY DEF Waiting
<1>3. Edges(r, v, s) = Cardinality(E)
  BY DEF Edges
<1> HIDE DEF E, W
<1>4. IsFiniteSet(E)
  BY <1>1, <1>2, FS_Subset
<1> QED  BY <1>3, <1>4, FS_CardinalityType

\* Taking the edges of one more operation off leaves those outside V and it.
LEMMA EdgesTakenOff ==
  ASSUME NEW r, Sound(r), NEW s \in Seqs(r), NEW V, NEW v, v \notin V
  PROVE  Cardinality(Waiting(r, s, V)) - Edges(r, v, s)
           = Cardinality(Waiting(r, s, V \cup {v}))
<1> DEFINE W == Waiting(r, s, V)
           E == {k \in DOMAIN Operation(r, s).predecessors :
                   Operation(r, s).predecessors[k] = v}
<1>1. Edges(r, v, s) = Cardinality(E)
  BY DEF Edges
<1>2. W \cap E = E /\ Waiting(r, s, V \cup {v}) = W \ E
  BY DEF Waiting
<1>3. IsFiniteSet(W)
  BY WaitingIsCounted
<1> HIDE DEF W, E
<1>5. Cardinality(W \ E) = Cardinality(W) - Cardinality(W \cap E)
  BY <1>3, FS_Difference
<1> QED  BY <1>1, <1>2, <1>5 DEF W
-----------------------------------------------------------------------------
(* Kahn's algorithm: what holds after every turn. *)

\* V holds what has been popped, ranked in that order: what is queued is what waits
\* for nothing outside V, and each operation of V ranks after those it lists.
Sorted(r, k, V, rank) ==
  /\ V \subseteq Seqs(r) /\ IsFiniteSet(V)
  /\ k.visited = Cardinality(V)
  /\ k.queue \subseteq Seqs(r) /\ V \cap k.queue = {}
  /\ k.indegree = [s \in Seqs(r) |-> Cardinality(Waiting(r, s, V))]
  /\ \A s \in Seqs(r) : s \in V \cup k.queue <=> k.indegree[s] = 0
  /\ rank \in [V -> 1..k.visited]
  /\ \A s, t \in V : s \in Predecessors(Operation(r, t)) => rank[s] < rank[t]

LEMMA StartIsSorted ==
  ASSUME NEW r, Sound(r)
  PROVE  Sorted(r, KahnStart(r), {}, [s \in {} |-> 1])
<1> DEFINE k == KahnStart(r)
<1>1. k.visited = 0 /\ k.queue = {s \in Seqs(r) : Operation(r, s).predecessors = <<>>}
  BY DEF KahnStart
<1>2. k.indegree = [s \in Seqs(r) |-> Cardinality(Waiting(r, s, {}))]
  BY WaitingAtFirst DEF KahnStart
<1>3. IsFiniteSet({}) /\ Cardinality({}) = 0
  BY FS_EmptySet
<1>4. \A s \in Seqs(r) : s \in k.queue <=> k.indegree[s] = 0
  <2> TAKE s \in Seqs(r)
  <2>1. Cardinality(Waiting(r, s, {})) = 0 <=> Predecessors(Operation(r, s)) \subseteq {}
    BY WaitingIsCounted
  <2>2. Operation(r, s).predecessors = <<>> <=> Predecessors(Operation(r, s)) = {}
    BY WaitingAtFirst
  <2> QED  BY <1>1, <1>2, <2>1, <2>2
<1> HIDE DEF k
<1>5. [s \in {} |-> 1] \in [{} -> 1..k.visited]
  OBVIOUS
<1> QED  BY <1>1, <1>2, <1>3, <1>4, <1>5 DEF Sorted, k

\* A turn pops a node and keeps all that.
LEMMA StepIsSorted ==
  ASSUME NEW r, Sound(r), NEW k, NEW V, NEW rank, Sorted(r, k, V, rank), k.queue # {}
  PROVE  \E W, place : /\ Sorted(r, KahnStep(r, k), W, place)
                       /\ KahnStep(r, k).visited = k.visited + 1
<1> DEFINE seq == CHOOSE s \in k.queue : TRUE
           left == [s \in Seqs(r) |-> k.indegree[s] - Edges(r, seq, s)]
           W == V \cup {seq}
           place == [s \in W |-> IF s = seq THEN k.visited + 1 ELSE rank[s]]
           n == KahnStep(r, k)
<1>1. seq \in k.queue /\ seq \in Seqs(r) /\ seq \notin V
  BY DEF Sorted
<1>2. /\ n.indegree = left /\ n.visited = k.visited + 1
      /\ n.queue = (k.queue \ {seq}) \cup {s \in Seqs(r) : k.indegree[s] > 0 /\ left[s] = 0}
  BY DEF KahnStep
<1> HIDE DEF seq, n
<1>3. /\ W \subseteq Seqs(r) /\ IsFiniteSet(W)
      /\ k.visited \in Nat /\ k.visited + 1 = Cardinality(W)
  <2>1. IsFiniteSet(V) /\ k.visited = Cardinality(V)
    BY DEF Sorted
  <2>2. IsFiniteSet(V \cup {seq}) /\ Cardinality(V \cup {seq}) = Cardinality(V) + 1
    BY <1>1, <2>1, FS_AddElement
  <2>3. Cardinality(V) \in Nat
    BY <2>1, FS_CardinalityType
  <2> QED  BY <1>1, <2>1, <2>2, <2>3 DEF Sorted
<1>4. \A s \in Seqs(r) : /\ k.indegree[s] = Cardinality(Waiting(r, s, V)) /\ k.indegree[s] \in Nat
                         /\ left[s] = Cardinality(Waiting(r, s, W)) /\ left[s] \in Nat
  <2> TAKE s \in Seqs(r)
  <2>1. k.indegree[s] = Cardinality(Waiting(r, s, V))
    BY DEF Sorted
  <2>2. Cardinality(Waiting(r, s, V)) - Edges(r, seq, s) = Cardinality(Waiting(r, s, W))
    BY <1>1, EdgesTakenOff
  <2>3. Cardinality(Waiting(r, s, V)) \in Nat /\ Cardinality(Waiting(r, s, W)) \in Nat
    BY WaitingIsCounted
  <2> QED  BY <2>1, <2>2, <2>3
<1>5. left = [s \in Seqs(r) |-> Cardinality(Waiting(r, s, W))]
  BY <1>4
<1>6. \A s \in Seqs(r) : k.indegree[s] = 0 => left[s] = 0
  <2> TAKE s \in Seqs(r)
  <2>1. k.indegree[s] = 0 <=> Predecessors(Operation(r, s)) \subseteq V
    BY <1>4, WaitingIsCounted
  <2>2. left[s] = 0 <=> Predecessors(Operation(r, s)) \subseteq W
    BY <1>4, WaitingIsCounted
  <2> QED  BY <2>1, <2>2
<1>7. \A s \in Seqs(r) : s \in W \cup n.queue <=> left[s] = 0
  <2> TAKE s \in Seqs(r)
  <2>1. s \in V \cup k.queue <=> k.indegree[s] = 0
    BY DEF Sorted
  <2>2. s \in W \cup n.queue <=> s \in V \cup k.queue \/ (k.indegree[s] > 0 /\ left[s] = 0)
    <3> HIDE DEF left
    <3> QED  BY <1>1, <1>2
  <2> HIDE DEF left
  <2> QED  BY <1>4, <1>6, <2>1, <2>2
<1>8. n.queue \subseteq Seqs(r) /\ W \cap n.queue = {}
  <2>1. \A s \in W : k.indegree[s] = 0
    BY <1>1 DEF Sorted
  <2>2. \A s \in W : ~(k.indegree[s] > 0)
    BY <2>1
  <2> HIDE DEF left
  <2> QED  BY <1>2, <2>2 DEF Sorted
<1>9. place \in [W -> 1..(k.visited + 1)]
  BY <1>1, <1>3 DEF Sorted
<1>10. \A s, t \in W : s \in Predecessors(Operation(r, t)) => place[s] < place[t]
  <2> SUFFICES ASSUME NEW s \in W, NEW t \in W, s \in Predecessors(Operation(r, t))
               PROVE  place[s] < place[t]
    OBVIOUS
  <2>1. t \in Seqs(r) /\ k.indegree[t] = 0
    BY <1>1 DEF Sorted
  <2>2. Predecessors(Operation(r, t)) \subseteq V
    BY <1>4, <2>1, WaitingIsCounted
  <2>3. s \in V /\ s # seq
    BY <1>1, <2>2
  <2>4. rank[s] \in 1..k.visited
    BY <2>3 DEF Sorted
  <2>5. CASE t = seq
    BY <1>3, <2>3, <2>4, <2>5
  <2>6. CASE t # seq
    BY <2>3, <2>6 DEF Sorted
  <2> QED  BY <2>5, <2>6
<1> HIDE DEF left, place, W
<1>11. Sorted(r, n, W, place)
  BY <1>2, <1>3, <1>5, <1>7, <1>8, <1>9, <1>10 DEF Sorted
<1> QED  BY <1>2, <1>11 DEF n

\* The turns AssertAcyclic takes.
IsRun(r, turn) ==
  /\ turn[0] = KahnStart(r)
  /\ \A n \in 0..(Len(r) - 1) : turn[n + 1] = KahnStep(r, turn[n])

KahnStates(r) == [indegree : [Seqs(r) -> Int], queue : SUBSET Seqs(r), visited : Nat]

LEMMA AcyclicIsRun ==
  ASSUME NEW r, Sound(r)
  PROVE  \E turn : IsRun(r, turn) /\ (AssertAcyclic(r) <=> turn[Len(r)].visited = Len(r))
<1> DEFINE T == KahnStates(r)
           Body(g) == [n \in 0..Len(r) |->
                         IF n = 0 THEN KahnStart(r) ELSE KahnStep(r, g[n - 1])]
           turn == CHOOSE g : g = Body(g)
<1>1. AssertAcyclic(r) <=> turn[Len(r)].visited = Len(r)
  BY DEF AssertAcyclic
<1>2. KahnStart(r) \in T
  <2>1. \A s \in Seqs(r) : Len(Operation(r, s).predecessors) \in Int
    <3> TAKE s \in Seqs(r)
    <3>1. Cardinality(Waiting(r, s, {})) \in Nat
      BY WaitingIsCounted
    <3> QED  BY <3>1, WaitingAtFirst
  <2> QED  BY <2>1 DEF KahnStart, KahnStates
<1>3. \A k \in T : KahnStep(r, k) \in T
  <2> TAKE k \in T
  <2>1. CASE k.queue = {}
    BY <2>1 DEF KahnStep
  <2>2. CASE k.queue # {}
    <3> DEFINE seq == CHOOSE s \in k.queue : TRUE
               left == [s \in Seqs(r) |-> k.indegree[s] - Edges(r, seq, s)]
    <3>1. \A s \in Seqs(r) : Edges(r, seq, s) \in Int
      BY EdgesAreCounted
    <3>2. left \in [Seqs(r) -> Int]
      BY <3>1 DEF KahnStates
    <3>3. PICK queue \in SUBSET Seqs(r) :
            KahnStep(r, k) = [indegree |-> left, queue |-> queue, visited |-> k.visited + 1]
      BY <2>2 DEF KahnStep, KahnStates
    <3>4. k.visited + 1 \in Nat
      BY DEF KahnStates
    <3> HIDE DEF left
    <3> QED  BY <3>2, <3>3, <3>4 DEF KahnStates
  <2> QED  BY <2>1, <2>2
<1> DEFINE G == [k \in T |-> KahnStep(r, k)]
<1>4. G \in [T -> T]
  BY <1>3
<1>5. \A k \in T : G[k] = KahnStep(r, k)
  OBVIOUS
<1> HIDE DEF T, G
<1>6. PICK f \in [Nat -> T] : f[0] = KahnStart(r) /\ \A n \in Nat : f[n + 1] = G[f[n]]
  BY <1>2, <1>4, Iterated
<1>7. Len(r) \in Nat
  BY RoutesAreSequences DEF Sound
<1>8. turn = Body(turn)
  <2> DEFINE h == [n \in 0..Len(r) |-> f[n]]
  <2>1. \A n \in 0..Len(r) : h[n] = Body(h)[n]
    <3> TAKE n \in 0..Len(r)
    <3>1. CASE n = 0
      BY <1>6, <3>1
    <3>2. CASE n # 0
      <4>1. n - 1 \in Nat /\ n - 1 \in 0..Len(r) /\ n = (n - 1) + 1
        BY <1>7, <3>2
      <4>2. f[n] = KahnStep(r, f[n - 1])
        BY <1>5, <1>6, <4>1
      <4> QED  BY <3>2, <4>1, <4>2
    <3> QED  BY <3>1, <3>2
  <2>2. h = Body(h)
    BY <2>1
  <2> HIDE DEF Body, h
  <2> QED  BY <2>2
<1>9. \A n \in 0..Len(r) :
        turn[n] = IF n = 0 THEN KahnStart(r) ELSE KahnStep(r, turn[n - 1])
  <2> HIDE DEF turn
  <2> QED  BY <1>8
<1> HIDE DEF turn
<1>10. turn[0] = KahnStart(r)
  BY <1>7, <1>9
<1>11. \A n \in 0..(Len(r) - 1) : turn[n + 1] = KahnStep(r, turn[n])
  <2> TAKE n \in 0..(Len(r) - 1)
  <2>1. n + 1 \in 0..Len(r) /\ n + 1 # 0 /\ (n + 1) - 1 = n
    BY <1>7
  <2> QED  BY <1>9, <2>1
<1> QED  BY <1>1, <1>10, <1>11 DEF IsRun

\* After n turns either n nodes have been popped or nothing is queued any more.
LEMMA TurnsAreSorted ==
  ASSUME NEW r, Sound(r), NEW turn, IsRun(r, turn), NEW n \in 0..Len(r)
  PROVE  /\ \E V, rank : Sorted(r, turn[n], V, rank)
         /\ turn[n].queue = {} \/ turn[n].visited = n
<1> DEFINE Good(m) == /\ \E V, rank : Sorted(r, turn[m], V, rank)
                      /\ turn[m].queue = {} \/ turn[m].visited = m
           S == {m \in Nat : m <= Len(r) => Good(m)}
<1>1. 0 \in S
  <2>1. turn[0] = KahnStart(r)
    BY DEF IsRun
  <2>2. \E V, rank : Sorted(r, turn[0], V, rank)
    BY <2>1, StartIsSorted
  <2>3. turn[0].visited = 0
    BY <2>1 DEF KahnStart
  <2> QED  BY <2>2, <2>3
<1>2. ASSUME NEW m \in Nat, m \in S
      PROVE  m + 1 \in S
  <2> SUFFICES ASSUME m + 1 <= Len(r)
               PROVE  Good(m + 1)
    OBVIOUS
  <2>1. m \in 0..(Len(r) - 1) /\ m <= Len(r)
    BY RoutesAreSequences DEF Sound
  <2>2. turn[m + 1] = KahnStep(r, turn[m])
    BY <2>1 DEF IsRun
  <2>3. Good(m)
    BY <1>2, <2>1
  <2>4. PICK V, rank : Sorted(r, turn[m], V, rank)
    BY <2>3
  <2>5. CASE turn[m].queue = {}
    <3>1. turn[m + 1] = turn[m]
      BY <2>2, <2>5 DEF KahnStep
    <3> QED  BY <2>4, <2>5, <3>1
  <2>6. CASE turn[m].queue # {}
    <3>1. turn[m].visited = m
      BY <2>3, <2>6
    <3>2. PICK W, place : /\ Sorted(r, KahnStep(r, turn[m]), W, place)
                          /\ KahnStep(r, turn[m]).visited = turn[m].visited + 1
      BY <2>4, <2>6, StepIsSorted
    <3> QED  BY <2>2, <3>1, <3>2
  <2> QED  BY <2>5, <2>6
<1> HIDE DEF S
<1>3. n \in S
  BY <1>1, <1>2, Induction, RoutesAreSequences DEF Sound
<1> QED  BY <1>3, RoutesAreSequences DEF S, Sound

-----------------------------------------------------------------------------
(* What validate accepts. *)

\* When every node has been popped, their ranks are an order to walk the route in.
LEMMA SortedIsWalkable ==
  ASSUME NEW r, Sound(r), r # <<>>, NEW k, NEW V, NEW rank, Sorted(r, k, V, rank),
         k.visited = Len(r)
  PROVE  Walkable(r)
<1>1. V = Seqs(r)
  <2>1. IsFiniteSet(Seqs(r)) /\ V \in SUBSET Seqs(r) /\ Cardinality(Seqs(r)) = Cardinality(V)
    BY SeqsAreFinite DEF Sound, Sorted
  <2> QED  BY <2>1, FS_Subset
<1> DEFINE place == [i \in DOMAIN r |-> rank[r[i].seq]]
<1>2. \A i \in DOMAIN r : r[i].seq \in V
  BY <1>1 DEF Seqs
<1>3. DOMAIN r = 1..Len(r)
  BY RoutesAreSequences DEF Sound
<1>4. place \in [DOMAIN r -> DOMAIN r]
  BY <1>2, <1>3 DEF Sorted
<1>5. \A i, j \in DOMAIN r : r[i].seq \in Predecessors(r[j]) => place[i] < place[j]
  BY <1>2, OperationOfSeq DEF Sorted
<1> HIDE DEF place
<1>6. \A i, j \in DOMAIN r : r[i].seq = r[j].seq => i = j
  BY SeqsAreKeys
<1> QED  BY <1>4, <1>5, <1>6 DEF Walkable, Sound

\* In a route that can be walked nothing is left when the queue is empty.
LEMMA EmptyQueueIsAll ==
  ASSUME NEW r, Sound(r), Walkable(r), NEW k, NEW V, NEW rank, Sorted(r, k, V, rank),
         k.queue = {}
  PROVE  k.visited = Len(r)
<1>1. V = Seqs(r)
  <2> SUFFICES ASSUME V # Seqs(r) PROVE FALSE
    OBVIOUS
  <2>1. PICK place \in [DOMAIN r -> DOMAIN r] :
          \A i, j \in DOMAIN r : r[i].seq \in Predecessors(r[j]) => place[i] < place[j]
    BY DEF Walkable
  <2> DEFINE T == {place[i] : i \in {j \in DOMAIN r : r[j].seq \notin V}}
  <2>2. T \subseteq Nat /\ T # {}
    <3>1. PICK s \in Seqs(r) : s \notin V
      BY DEF Sorted
    <3>2. PICK i \in DOMAIN r : r[i].seq = s
      BY DEF Seqs
    <3>3. place[i] \in T
      BY <3>1, <3>2
    <3>4. T \subseteq DOMAIN r /\ DOMAIN r \subseteq Nat
      BY <2>1, RoutesAreSequences DEF Sound
    <3> HIDE DEF T
    <3> QED  BY <3>3, <3>4
  <2>3. PICK least \in T : \A m \in T : least <= m
    BY <2>2, LeastNumber
  <2>4. PICK i \in DOMAIN r : r[i].seq \notin V /\ \A m \in T : place[i] <= m
    BY <2>3
  <2>5. r[i].seq \in Seqs(r) /\ Operation(r, r[i].seq) = r[i]
    BY OperationOfSeq DEF Seqs
  <2>6. Cardinality(Waiting(r, r[i].seq, V)) # 0
    BY <2>4, <2>5 DEF Sorted
  <2>7. PICK s \in Predecessors(r[i]) : s \notin V
    BY <2>5, <2>6, WaitingIsCounted
  <2>8. PICK j \in DOMAIN r : r[j].seq = s
    BY <2>7 DEF Sound, Seqs
  <2>9. place[j] \in T /\ place[j] < place[i]
    BY <2>1, <2>7, <2>8
  <2>10. place[i] \in Nat /\ place[j] \in Nat /\ place[i] <= place[j]
    BY <2>1, <2>4, <2>9, RoutesAreSequences DEF Sound
  <2> QED  BY <2>9, <2>10
<1> QED  BY <1>1 DEF Sorted, Sound

LEMMA AcyclicIsWalkable ==
  ASSUME NEW r, Sound(r), r # <<>>
  PROVE  AssertAcyclic(r) <=> Walkable(r)
<1>1. PICK turn : IsRun(r, turn) /\ (AssertAcyclic(r) <=> turn[Len(r)].visited = Len(r))
  BY AcyclicIsRun
<1>2. Len(r) \in 0..Len(r)
  BY RoutesAreSequences DEF Sound
<1>3. /\ \E V, rank : Sorted(r, turn[Len(r)], V, rank)
      /\ turn[Len(r)].queue = {} \/ turn[Len(r)].visited = Len(r)
  BY <1>1, <1>2, TurnsAreSorted
<1>4. PICK V, rank : Sorted(r, turn[Len(r)], V, rank)
  BY <1>3
<1>5. turn[Len(r)].visited = Len(r) => Walkable(r)
  BY <1>4, SortedIsWalkable
<1>6. Walkable(r) => turn[Len(r)].visited = Len(r)
  BY <1>3, <1>4, EmptyQueueIsAll
<1> QED  BY <1>1, <1>5, <1>6

LEMMA WalkableIsSound ==
  ASSUME NEW r, IsRoute(r), Walkable(r)
  PROVE  /\ Sound(r)
         /\ \A i \in DOMAIN r : r[i].seq \notin Predecessors(r[i])
         /\ \E i \in DOMAIN r : r[i].predecessors = <<>>
<1>1. Len(r) \in Nat /\ DOMAIN r = 1..Len(r) /\ r # <<>>
  BY RoutesAreSequences DEF Walkable
<1>2. PICK place \in [DOMAIN r -> DOMAIN r] :
        \A i, j \in DOMAIN r : r[i].seq \in Predecessors(r[j]) => place[i] < place[j]
  BY DEF Walkable
<1>3. \A i \in DOMAIN r : r[i].seq \notin Predecessors(r[i])
  BY <1>1, <1>2
<1>4. Cardinality(Seqs(r)) = Len(r)
  <2> DEFINE g == [k \in 1..Len(r) |-> r[k].seq]
  <2>1. g \in Surjection(1..Len(r), Seqs(r))
    BY <1>1 DEF Surjection, Seqs
  <2>2. \A i, j \in 1..Len(r) : g[i] = g[j] => i = j
    BY <1>1 DEF Walkable
  <2>3. IsFiniteSet(1..Len(r)) /\ Cardinality(1..Len(r)) = Len(r)
    <3>1. \A n \in Nat : IsFiniteSet(1..n) /\ Cardinality(1..n) = n
      BY FS_Interval
    <3> QED  BY <1>1, <3>1
  <2> HIDE DEF g
  <2>4. g \in Injection(1..Len(r), Seqs(r))
    BY <2>1, <2>2 DEF Injection, IsInjective, Surjection
  <2> QED  BY <2>1, <2>3, <2>4, FS_Surjection
<1>5. Sound(r)
  BY <1>4 DEF Sound, Walkable
<1>6. \E i \in DOMAIN r : r[i].predecessors = <<>>
  <2> DEFINE T == {place[i] : i \in DOMAIN r}
  <2>1. T \subseteq Nat /\ T # {}
    <3>1. 1 \in DOMAIN r
      BY <1>1 DEF IsRoute
    <3> QED  BY <1>1, <1>2, <3>1
  <2>2. PICK i \in DOMAIN r : \A m \in T : place[i] <= m
    BY <2>1, LeastNumber
  <2>3. Predecessors(r[i]) = {}
    <3> SUFFICES ASSUME NEW s \in Predecessors(r[i]) PROVE FALSE
      OBVIOUS
    <3>1. PICK j \in DOMAIN r : r[j].seq = s
      BY DEF Walkable, Seqs
    <3>2. place[j] < place[i] /\ place[j] \in T
      BY <1>2, <3>1
    <3>3. place[i] \in Nat /\ place[j] \in Nat
      BY <1>1, <1>2
    <3> HIDE DEF T
    <3>4. place[i] <= place[j]
      BY <2>2, <3>2
    <3> QED  BY <3>2, <3>3, <3>4
  <2>4. Operation(r, r[i].seq) = r[i] /\ r[i].seq \in Seqs(r)
    BY <1>5, OperationOfSeq DEF Seqs
  <2> QED  BY <1>5, <2>3, <2>4, WaitingAtFirst
<1> QED  BY <1>3, <1>5, <1>6

\* validate accepts exactly the routes whose operations can be put in an order in
\* which each comes after those it lists: Kahn's counting misses no cycle, refuses no
\* route without one, counts a predecessor listed twice twice, and does not depend
\* on which of the queued nodes is popped (Route::validate, assert_acyclic).
THEOREM ValidateMeansWalkable ==
  \A r : IsRoute(r) => (Validate(r) <=> Walkable(r))
<1> SUFFICES ASSUME NEW r, IsRoute(r)
             PROVE  Validate(r) <=> Walkable(r)
  OBVIOUS
<1>1. Validate(r) => Walkable(r)
  <2> SUFFICES ASSUME Validate(r) PROVE Walkable(r)
    OBVIOUS
  <2>1. Sound(r) /\ r # <<>> /\ AssertAcyclic(r)
    BY DEF Validate, Sound
  <2> QED  BY <2>1, AcyclicIsWalkable
<1>2. Walkable(r) => Validate(r)
  <2> SUFFICES ASSUME Walkable(r) PROVE Validate(r)
    OBVIOUS
  <2>1. /\ Sound(r) /\ r # <<>>
        /\ \A i \in DOMAIN r : r[i].seq \notin Predecessors(r[i])
        /\ \E i \in DOMAIN r : r[i].predecessors = <<>>
    BY WalkableIsSound DEF Walkable
  <2>2. AssertAcyclic(r)
    BY <2>1, AcyclicIsWalkable
  <2> QED  BY <2>1, <2>2 DEF Validate, Sound
<1> QED  BY <1>1, <1>2
-----------------------------------------------------------------------------
(* Something to do. *)

\* The first required operation that is missing, in an order of the route, is ready.
LEMMA MissingIsReady ==
  ASSUME NEW r, IsRoute(r), Walkable(r), NEW done, ~IsComplete(r, done)
  PROVE  ReadyPositions(r, done) # {}
<1>1. Sound(r) /\ DOMAIN r \subseteq Nat
  BY WalkableIsSound, RoutesAreSequences
<1>2. PICK place \in [DOMAIN r -> DOMAIN r] :
        \A i, j \in DOMAIN r : r[i].seq \in Predecessors(r[j]) => place[i] < place[j]
  BY DEF Walkable
<1> DEFINE Missing == {i \in DOMAIN r : r[i].requirement = "REQUIRED" /\ r[i].seq \notin done}
           T == {place[i] : i \in Missing}
<1>3. T \subseteq Nat /\ T # {}
  <2>1. PICK i \in Missing : TRUE
    BY DEF IsComplete
  <2>2. place[i] \in T
    BY <2>1
  <2>3. T \subseteq DOMAIN r
    BY <1>2
  <2> HIDE DEF T
  <2> QED  BY <1>1, <2>2, <2>3
<1>4. PICK i \in Missing : \A m \in T : place[i] <= m
  BY <1>3, LeastNumber
<1>5. \A p \in Predecessors(r[i]) :
        p \in done \/ (p \in Seqs(r) /\ Operation(r, p).requirement = "OPTIONAL")
  <2> SUFFICES ASSUME NEW p \in Predecessors(r[i]), p \notin done
               PROVE  p \in Seqs(r) /\ Operation(r, p).requirement = "OPTIONAL"
    OBVIOUS
  <2>1. p \in Seqs(r)
    BY <1>1 DEF Sound
  <2>2. PICK j \in DOMAIN r : r[j].seq = p
    BY <2>1 DEF Seqs
  <2>3. place[j] < place[i] /\ place[i] \in Nat /\ place[j] \in Nat
    BY <1>1, <1>2, <2>2
  <2>4. place[j] \notin T
    <3> HIDE DEF T
    <3> QED  BY <1>4, <2>3
  <2>5. j \notin Missing
    BY <2>4
  <2>6. r[j].requirement = "OPTIONAL"
    BY <1>1, <2>2, <2>5 DEF Sound, IsRoute
  <2> QED  BY <1>1, <2>1, <2>2, <2>6, OperationOfSeq
<1>6. i \in ReadyPositions(r, done)
  BY <1>5 DEF ReadyPositions, PredecessorsSatisfied
<1> QED  BY <1>6

\* And when nothing is done yet, the operations that list nothing are.
LEMMA EntryIsReady ==
  ASSUME NEW r, IsRoute(r), Walkable(r)
  PROVE  ReadyPositions(r, {}) # {}
<1>1. PICK i \in DOMAIN r : r[i].predecessors = <<>>
  BY WalkableIsSound
<1>2. Predecessors(r[i]) = {}
  BY <1>1 DEF Predecessors
<1> QED  BY <1>2 DEF ReadyPositions, PredecessorsSatisfied
=============================================================================
