---------------------------- MODULE RecallProofs ----------------------------
(***************************************************************************)
(* Proofs about Recall, for any tenants, units, lots, connections, months, *)
(* bounds on the records and cap on the depth of a walk.                   *)
(*                                                                         *)
(* A walk over the genealogy is a function of its depth that refers to     *)
(* itself, so what it holds is proved by induction, over a set of numbers  *)
(* (RouteProofs has the lemmas): rises and falls are walks without a cap,  *)
(* which exist because a step can be iterated (Iterated), and each query   *)
(* is one of them down to the cap.                                         *)
(*                                                                         *)
(* That a statement sees its own tenant's records only is not inductive:   *)
(* it depends on what the connection's setting is when it borrows a        *)
(* transaction, and on what the other connections are about to commit.     *)
(* IInv adds whose context each transaction runs in, that what it has      *)
(* written is its tenant's, and that a tenant being provisioned has no     *)
(* record yet.  HistoryInv adds, for HistoryHoldsCommitted, that what a    *)
(* reading has read so far holds what was committed before it began, and   *)
(* that every row of a measurement has the columns of some value.          *)
(***************************************************************************)
EXTENDS Recall, RouteProofs

-----------------------------------------------------------------------------
(* The walks.  A rise is the walk up from a set of units, without the cap.  *)

IsRise(f, graph, units, from) ==
  /\ f \in [Nat -> SUBSET units]
  /\ f[0] = from
  /\ \A n \in Nat : f[n + 1] = ParentsOf(graph, f[n])

LEMMA RiseExists ==
  ASSUME NEW graph, NEW units, NEW from \in SUBSET units,
         \A l \in graph : l.parent \in units
  PROVE  \E f : IsRise(f, graph, units, from)
<1> DEFINE T == SUBSET units
           G == [X \in T |-> ParentsOf(graph, X)]
<1>1. G \in [T -> T] /\ from \in T
  BY DEF ParentsOf
<1> HIDE DEF T, G
<1>2. PICK f \in [Nat -> T] : f[0] = from /\ \A n \in Nat : f[n + 1] = G[f[n]]
  BY <1>1, Iterated
<1>3. \A n \in Nat : f[n + 1] = ParentsOf(graph, f[n])
  BY <1>2 DEF G
<1> QED  BY <1>2, <1>3 DEF IsRise, T

\* The parents of the links a lot is in.
Holders(graph, lot) == {l.parent : l \in {k \in graph : k.lot = lot}}

\* The recall by lot is the rise from those, down to the cap.
LEMMA RecallIsRise ==
  ASSUME NEW graph, NEW units, NEW lot, NEW f, IsRise(f, graph, units, Holders(graph, lot))
  PROVE  UnitsAffectedByLot(graph, lot) = UNION {f[d] : d \in 0..DepthCap}
<1> DEFINE Body(g) == [d \in 0..DepthCap |->
                         IF d = 0 THEN {l.parent : l \in {k \in graph : k.lot = lot}}
                                  ELSE ParentsOf(graph, g[d - 1])]
           r == CHOOSE g : g = Body(g)
<1>1. UnitsAffectedByLot(graph, lot) = UNION {r[d] : d \in 0..DepthCap}
  BY DEF UnitsAffectedByLot
<1>2. r = Body(r)
  <2> DEFINE h == [d \in 0..DepthCap |-> f[d]]
  <2>1. \A d \in 0..DepthCap : h[d] = Body(h)[d]
    <3> TAKE d \in 0..DepthCap
    <3>1. CASE d = 0
      BY <3>1, DepthCapAssumption DEF IsRise, Holders
    <3>2. CASE d # 0
      <4>1. d - 1 \in Nat /\ d - 1 \in 0..DepthCap /\ d = (d - 1) + 1
        BY <3>2, DepthCapAssumption
      <4>2. f[d] = ParentsOf(graph, f[d - 1])
        BY <4>1 DEF IsRise
      <4> QED  BY <3>2, <4>1, <4>2
    <3> QED  BY <3>1, <3>2
  <2>2. h = Body(h)
    BY <2>1
  <2> HIDE DEF Body, h
  <2> QED  BY <2>2
<1>3. \A d \in 0..DepthCap :
        r[d] = IF d = 0 THEN Holders(graph, lot) ELSE ParentsOf(graph, r[d - 1])
  <2> HIDE DEF r
  <2> QED  BY <1>2 DEF Holders
<1> HIDE DEF r
<1>4. \A d \in 0..DepthCap : r[d] = f[d]
  <2> DEFINE S == {n \in Nat : n <= DepthCap => r[n] = f[n]}
  <2>1. 0 \in S
    BY <1>3, DepthCapAssumption DEF IsRise
  <2>2. ASSUME NEW n \in Nat, n \in S PROVE n + 1 \in S
    <3> SUFFICES ASSUME n + 1 <= DepthCap PROVE r[n + 1] = f[n + 1]
      OBVIOUS
    <3>1. n \in 0..DepthCap /\ n + 1 \in 0..DepthCap /\ (n + 1) - 1 = n /\ n + 1 # 0
      BY DepthCapAssumption
    <3>2. r[n] = f[n]
      BY <2>2, <3>1
    <3> QED  BY <1>3, <3>1, <3>2 DEF IsRise
  <2> HIDE DEF S
  <2>3. Nat \subseteq S
    BY <2>1, <2>2, Induction
  <2> QED  BY <2>3, DepthCapAssumption DEF S
<1> QED  BY <1>1, <1>4

-----------------------------------------------------------------------------
(* Exactness of the recall. *)

\* Closed under "went into": every unit a member or the lot went into is a member.
Closed(graph, lot, S) == \A l \in graph : l.lot = lot \/ l.child \in S => l.parent \in S

\* A recall stays within every closed set.
LEMMA RecallIsWithin ==
  ASSUME NEW graph, NEW units, NEW lot, NEW f, IsRise(f, graph, units, Holders(graph, lot)),
         NEW S, Closed(graph, lot, S)
  PROVE  \A n \in Nat : f[n] \subseteq S
<1> DEFINE N == {n \in Nat : f[n] \subseteq S}
<1>1. 0 \in N
  BY DEF IsRise, Holders, Closed
<1>2. ASSUME NEW n \in Nat, n \in N PROVE n + 1 \in N
  BY <1>2 DEF IsRise, ParentsOf, Closed
<1> QED  BY <1>1, <1>2, Induction

\* The units at and below a level of a rise, and all the parents there are.
UpTo(f, n) == UNION {f[m] : m \in 0..n}
AllParents(graph) == {l.parent : l \in graph}

\* A level with a unit no level below it has has at least as many units at and below it as
\* its number says.
LEMMA NewLevelIsHigh ==
  ASSUME NEW graph, NEW units, NEW from, NEW f, IsRise(f, graph, units, from),
         IsFiniteSet(AllParents(graph) \cup from)
  PROVE  \A n \in Nat : \A u \in f[n] :
           (\A m \in 0..(n - 1) : u \notin f[m]) =>
             /\ IsFiniteSet(UpTo(f, n))
             /\ Cardinality(UpTo(f, n)) >= n + 1
<1> DEFINE all == AllParents(graph) \cup from
           Below(n) == UpTo(f, n)
           New(n, u) == u \in f[n] /\ \A m \in 0..(n - 1) : u \notin f[m]
           N == {n \in Nat : (\E u : New(n, u)) => Cardinality(Below(n)) >= n + 1}
<1>1. \A n \in Nat : f[n] \subseteq all
  <2> TAKE n \in Nat
  <2>1. CASE n = 0
    BY <2>1 DEF IsRise
  <2>2. CASE n # 0
    <3>1. n - 1 \in Nat /\ n = (n - 1) + 1
      BY <2>2
    <3>2. f[n] = ParentsOf(graph, f[n - 1])
      BY <3>1 DEF IsRise
    <3> QED  BY <3>2 DEF ParentsOf, AllParents
  <2> QED  BY <2>1, <2>2
<1>2. \A n \in Nat : Below(n) \subseteq all
  BY <1>1 DEF UpTo
<1>3. \A n \in Nat : IsFiniteSet(Below(n)) /\ Cardinality(Below(n)) \in Nat
  BY <1>2, FS_Subset, FS_CardinalityType
<1>4. \A n \in Nat : Below(n + 1) = Below(n) \cup f[n + 1]
  BY DEF UpTo
<1>5. 0 \in N
  <2> SUFFICES ASSUME NEW u \in f[0] PROVE Cardinality(Below(0)) >= 1
    OBVIOUS
  <2>1. u \in Below(0)
    BY DEF UpTo
  <2>2. Cardinality(Below(0)) # 0
    BY <1>3, <2>1, FS_EmptySet
  <2>3. Cardinality(Below(0)) \in Nat
    BY <1>3
  <2> HIDE DEF Below
  <2> QED  BY <2>2, <2>3
<1>6. ASSUME NEW n \in Nat, n \in N PROVE n + 1 \in N
  <2> SUFFICES ASSUME NEW u, New(n + 1, u)
               PROVE  Cardinality(Below(n + 1)) >= n + 2
    OBVIOUS
  <2>1. PICK v \in f[n] : \E l \in graph : l.child = v /\ l.parent = u
    <3>1. u \in ParentsOf(graph, f[n])
      BY DEF IsRise
    <3> QED  BY <3>1 DEF ParentsOf
  <2>2. New(n, v)
    <3> SUFFICES ASSUME NEW m \in 0..(n - 1), v \in f[m] PROVE FALSE
      OBVIOUS
    <3>1. u \in f[m + 1]
      BY <2>1 DEF IsRise, ParentsOf
    <3> QED  BY <3>1
  <2>3. Cardinality(Below(n)) >= n + 1
    BY <1>6, <2>2
  <2>4. u \notin Below(n) /\ u \in Below(n + 1)
    BY DEF UpTo
  <2>5. /\ IsFiniteSet(Below(n) \cup {u})
        /\ Cardinality(Below(n) \cup {u}) = Cardinality(Below(n)) + 1
    <3> HIDE DEF Below
    <3> QED  BY <1>3, <2>4, FS_AddElement
  <2>6. Cardinality(Below(n) \cup {u}) <= Cardinality(Below(n + 1))
    <3>1. Below(n) \cup {u} \subseteq Below(n + 1)
      BY <1>4, <2>4
    <3> HIDE DEF Below
    <3> QED  BY <1>3, <3>1, FS_Subset
  <2> HIDE DEF Below
  <2> QED  BY <1>3, <2>3, <2>5, <2>6
<1> HIDE DEF N
<1>7. Nat \subseteq N
  BY <1>5, <1>6, Induction
<1> QED  BY <1>3, <1>7 DEF N

\* The units a lot is in: those in every closed set.
HeldBy(graph, units, lot) == {u \in units : \A S \in SUBSET units : Closed(graph, lot, S) => u \in S}

LEMMA ParentsAreFinite ==
  ASSUME NEW graph, IsFiniteSet(graph)
  PROVE  IsFiniteSet(AllParents(graph))
<1> DEFINE P == AllParents(graph)
           g == [l \in graph |-> l.parent]
<1>1. g \in Surjection(graph, P)
  BY DEF Surjection, AllParents
<1> HIDE DEF P, g
<1> QED  BY <1>1, FS_Surjection DEF P

\* A recall by lot names no unit the lot is not in, and names them all unless they
\* are more than the cap on the depth explains.
LEMMA RecallByLotIsExact ==
  ASSUME NEW graph, NEW units, NEW lot, IsFiniteSet(graph),
         \A l \in graph : l.parent \in units
  PROVE  LET held  == HeldBy(graph, units, lot)
             named == UnitsAffectedByLot(graph, lot)
         IN  /\ named \subseteq held
             /\ named = held \/ Cardinality(held) > DepthCap + 1
<1> DEFINE held  == HeldBy(graph, units, lot)
           named == UnitsAffectedByLot(graph, lot)
           P == AllParents(graph)
<1>1. Holders(graph, lot) \in SUBSET units /\ Holders(graph, lot) \subseteq P
  BY DEF Holders, AllParents
<1>2. PICK f : IsRise(f, graph, units, Holders(graph, lot))
  BY <1>1, RiseExists
<1>3. named = UNION {f[d] : d \in 0..DepthCap}
  BY <1>2, RecallIsRise
<1>4. \A n \in Nat : f[n] \subseteq held
  <2> SUFFICES ASSUME NEW n \in Nat, NEW u \in f[n], NEW S \in SUBSET units,
                      Closed(graph, lot, S)
               PROVE  u \in S
    BY <1>2 DEF HeldBy, IsRise
  <2> QED  BY <1>2, RecallIsWithin
<1>5. named \subseteq held /\ held \subseteq units /\ DepthCap \in Nat
  BY <1>3, <1>4, DepthCapAssumption DEF HeldBy
<1>6. IsFiniteSet(held)
  <2>1. P \in SUBSET units /\ Closed(graph, lot, P)
    BY DEF Closed, AllParents
  <2>3. held \subseteq P
    BY <2>1 DEF HeldBy
  <2>2. IsFiniteSet(P)
    BY ParentsAreFinite
  <2> QED  BY <2>2, <2>3, FS_Subset
<1>7. CASE Closed(graph, lot, named)
  <2>1. held \subseteq named
    BY <1>5, <1>7 DEF HeldBy
  <2> QED  BY <1>5, <2>1
<1>8. CASE ~Closed(graph, lot, named)
  <2>1. PICK l \in graph : (l.lot = lot \/ l.child \in named) /\ l.parent \notin named
    BY <1>8 DEF Closed
  <2>2. l.lot # lot
    BY <1>2, <1>3, <2>1, DepthCapAssumption DEF Holders, IsRise
  <2>3. \A n \in Nat : l.child \in f[n] => l.parent \in f[n + 1]
    BY <1>2 DEF IsRise, ParentsOf
  <2>4. \A n \in 0..(DepthCap - 1) : l.child \notin f[n]
    <3> TAKE n \in 0..(DepthCap - 1)
    <3>1. n \in Nat /\ n + 1 \in 0..DepthCap
      BY <1>5
    <3> QED  BY <1>3, <2>1, <2>3, <3>1
  <2>5. l.child \in f[DepthCap]
    <3>1. PICK n \in 0..DepthCap : l.child \in f[n]
      BY <1>3, <2>1, <2>2
    <3>2. n = DepthCap
      BY <1>5, <2>4, <3>1
    <3> QED  BY <3>1, <3>2
  <2>6. IsFiniteSet(P \cup Holders(graph, lot))
    <3>1. P \cup Holders(graph, lot) = P
      BY <1>1
    <3> QED  BY <3>1, ParentsAreFinite
  <2>7. IsFiniteSet(named) /\ Cardinality(named) >= DepthCap + 1
    <3>1. \A n \in Nat : \A u \in f[n] :
            (\A m \in 0..(n - 1) : u \notin f[m]) =>
              /\ IsFiniteSet(UpTo(f, n)) /\ Cardinality(UpTo(f, n)) >= n + 1
      BY <1>2, <2>6, NewLevelIsHigh
    <3> QED  BY <1>3, <1>5, <2>4, <2>5, <3>1 DEF UpTo
  <2>8. l.parent \in held
    <3>1. l.parent \in f[DepthCap + 1] /\ DepthCap + 1 \in Nat
      BY <1>5, <2>3, <2>5
    <3> QED  BY <1>4, <3>1
  <2>9. Cardinality(held) > DepthCap + 1
    <3> HIDE DEF held, named
    <3>1. named \cup {l.parent} \subseteq held
      BY <1>5, <2>8
    <3>2. Cardinality(named \cup {l.parent}) <= Cardinality(held)
      BY <1>6, <3>1, FS_Subset
    <3>3. Cardinality(named \cup {l.parent}) = Cardinality(named) + 1
      BY <2>1, <2>7, FS_AddElement
    <3>4. Cardinality(held) \in Nat /\ Cardinality(named) \in Nat
      BY <1>6, <2>7, FS_CardinalityType
    <3> QED  BY <1>5, <2>7, <3>2, <3>3, <3>4
  <2> QED  BY <1>5, <2>9
<1> QED  BY <1>7, <1>8

-----------------------------------------------------------------------------
(* The two directions of trace.  A fall is the walk down from a unit,       *)
(* without the cap: level n holds the links at depth n + 1.                 *)

IsFall(g, graph, root) ==
  /\ g \in [Nat -> SUBSET graph]
  /\ g[0] = {l \in graph : l.parent = root}
  /\ \A n \in Nat : g[n + 1] = {l \in graph : l.parent \in {k.child : k \in g[n]}}

LEMMA FallExists ==
  ASSUME NEW graph, NEW root
  PROVE  \E g : IsFall(g, graph, root)
<1> DEFINE T == SUBSET graph
           G == [X \in T |-> {l \in graph : l.parent \in {k.child : k \in X}}]
           from == {l \in graph : l.parent = root}
<1>1. G \in [T -> T] /\ from \in T
  OBVIOUS
<1> HIDE DEF T, G, from
<1>2. PICK g \in [Nat -> T] : g[0] = from /\ \A n \in Nat : g[n + 1] = G[g[n]]
  BY <1>1, Iterated
<1>3. \A n \in Nat : g[n + 1] = {l \in graph : l.parent \in {k.child : k \in g[n]}}
  BY <1>2 DEF G
<1> QED  BY <1>2, <1>3 DEF IsFall, T, from

LEMMA DescendantsAreFall ==
  ASSUME NEW graph, NEW root, NEW g, IsFall(g, graph, root)
  PROVE  Descendants(graph, root) =
           UNION {{[depth |-> d, child |-> l.child, lot |-> l.lot] : l \in g[d - 1]} :
                    d \in 1..DepthCap}
<1> DEFINE Level(h, d) == {l \in graph : \/ d = 1 /\ l.parent = root
                                         \/ d > 1 /\ l.parent \in {k.child : k \in h[d - 1]}}
           Body(h) == [d \in 1..DepthCap |-> Level(h, d)]
           w == CHOOSE h : h = Body(h)
<1>1. Descendants(graph, root) =
        UNION {{[depth |-> d, child |-> l.child, lot |-> l.lot] : l \in w[d]} :
                 d \in 1..DepthCap}
  BY DEF Descendants
<1>2. \A d \in Nat \ {0} : /\ d - 1 \in Nat
                          /\ d > 1 => d - 2 \in Nat /\ d - 1 = (d - 2) + 1
  OBVIOUS
<1>3. w = Body(w)
  <2> DEFINE h == [d \in 1..DepthCap |-> g[d - 1]]
  <2>1. \A d \in 1..DepthCap : h[d] = Level(h, d)
    <3> TAKE d \in 1..DepthCap
    <3>1. CASE d = 1
      BY <3>1 DEF IsFall
    <3>2. CASE d # 1
      <4>1. d - 1 \in 1..DepthCap /\ d > 1 /\ d - 2 \in Nat /\ d - 1 = (d - 2) + 1
        BY <3>2, DepthCapAssumption
      <4>2. g[d - 1] = {l \in graph : l.parent \in {k.child : k \in g[d - 2]}}
        BY <4>1 DEF IsFall
      <4>3. h[d] = g[d - 1] /\ h[d - 1] = g[d - 2]
        BY <4>1
      <4> HIDE DEF h
      <4> QED  BY <3>2, <4>1, <4>2, <4>3
    <3> QED  BY <3>1, <3>2
  <2>2. h = Body(h)
    <3> HIDE DEF Level
    <3> QED  BY <2>1
  <2> HIDE DEF Body, h
  <2> QED  BY <2>2
<1>4. \A d \in 1..DepthCap : w[d] = Level(w, d)
  <2> HIDE DEF w, Level
  <2> QED  BY <1>3
<1> HIDE DEF w
<1>5. \A d \in 1..DepthCap : w[d] = g[d - 1]
  <2> DEFINE S == {n \in Nat : n + 1 <= DepthCap => w[n + 1] = g[n]}
  <2>1. 0 \in S
    <3>1. w[1] = {l \in graph : l.parent = root}
      BY <1>4, DepthCapAssumption
    <3>2. w[0 + 1] = g[0]
      BY <3>1 DEF IsFall
    <3> QED  BY <3>2
  <2>2. ASSUME NEW n \in Nat, n \in S PROVE n + 1 \in S
    <3> SUFFICES ASSUME (n + 1) + 1 <= DepthCap PROVE w[(n + 1) + 1] = g[n + 1]
      OBVIOUS
    <3>1. /\ (n + 1) + 1 \in 1..DepthCap /\ (n + 1) + 1 > 1 /\ (n + 1) + 1 # 1
          /\ ((n + 1) + 1) - 1 = n + 1 /\ n + 1 <= DepthCap
      BY DepthCapAssumption
    <3>2. w[n + 1] = g[n]
      BY <2>2, <3>1
    <3>3. w[(n + 1) + 1] = {l \in graph : l.parent \in {k.child : k \in w[n + 1]}}
      BY <1>4, <3>1
    <3> QED  BY <3>2, <3>3 DEF IsFall
  <2> HIDE DEF S
  <2>3. Nat \subseteq S
    BY <2>1, <2>2, Induction
  <2> TAKE d \in 1..DepthCap
  <2>4. d - 1 \in Nat /\ (d - 1) + 1 = d /\ d <= DepthCap
    BY DepthCapAssumption
  <2> QED  BY <2>3, <2>4 DEF S
<1> QED  BY <1>1, <1>5

LEMMA AncestorsAreRise ==
  ASSUME NEW graph, NEW units, NEW leaf, NEW f, IsRise(f, graph, units, {leaf})
  PROVE  Ancestors(graph, leaf) =
           UNION {{[depth |-> d, parent |-> p] : p \in f[d]} : d \in 1..DepthCap}
<1> DEFINE Level(h, d) == ParentsOf(graph, IF d = 1 THEN {leaf} ELSE h[d - 1])
           Body(h) == [d \in 1..DepthCap |-> Level(h, d)]
           w == CHOOSE h : h = Body(h)
<1>1. Ancestors(graph, leaf) =
        UNION {{[depth |-> d, parent |-> p] : p \in w[d]} : d \in 1..DepthCap}
  BY DEF Ancestors
<1>2. w = Body(w)
  <2> DEFINE h == [d \in 1..DepthCap |-> f[d]]
  <2>1. \A d \in 1..DepthCap : h[d] = Level(h, d)
    <3> TAKE d \in 1..DepthCap
    <3>1. d - 1 \in Nat /\ d = (d - 1) + 1
      BY DepthCapAssumption
    <3>2. h[d] = ParentsOf(graph, f[d - 1])
      BY <3>1 DEF IsRise
    <3>3. CASE d = 1
      BY <3>2, <3>3 DEF IsRise
    <3>4. CASE d # 1
      <4>1. h[d - 1] = f[d - 1]
        BY <3>4, DepthCapAssumption
      <4> QED  BY <3>2, <3>4, <4>1
    <3> QED  BY <3>3, <3>4
  <2>2. h = Body(h)
    <3> HIDE DEF Level
    <3> QED  BY <2>1
  <2> HIDE DEF Body, h
  <2> QED  BY <2>2
<1>3. \A d \in 1..DepthCap : w[d] = Level(w, d)
  <2> HIDE DEF w, Level
  <2> QED  BY <1>2
<1> HIDE DEF w
<1>4. \A d \in 1..DepthCap : w[d] = f[d]
  <2> DEFINE S == {n \in Nat : n + 1 <= DepthCap => w[n + 1] = f[n + 1]}
  <2>1. 0 \in S
    <3>1. w[1] = ParentsOf(graph, {leaf})
      BY <1>3, DepthCapAssumption
    <3> QED  BY <3>1 DEF IsRise
  <2>2. ASSUME NEW n \in Nat, n \in S PROVE n + 1 \in S
    <3> SUFFICES ASSUME (n + 1) + 1 <= DepthCap PROVE w[(n + 1) + 1] = f[(n + 1) + 1]
      OBVIOUS
    <3>1. /\ (n + 1) + 1 \in 1..DepthCap /\ (n + 1) + 1 # 1
          /\ ((n + 1) + 1) - 1 = n + 1 /\ n + 1 <= DepthCap /\ n + 1 \in Nat
      BY DepthCapAssumption
    <3>2. w[n + 1] = f[n + 1]
      BY <2>2, <3>1
    <3>3. w[(n + 1) + 1] = ParentsOf(graph, w[n + 1])
      BY <1>3, <3>1
    <3>4. f[(n + 1) + 1] = ParentsOf(graph, f[n + 1])
      BY <3>1 DEF IsRise
    <3> QED  BY <3>2, <3>3, <3>4
  <2> HIDE DEF S
  <2>3. Nat \subseteq S
    BY <2>1, <2>2, Induction
  <2> TAKE d \in 1..DepthCap
  <2>4. d - 1 \in Nat /\ (d - 1) + 1 = d /\ d <= DepthCap
    BY DepthCapAssumption
  <2> QED  BY <2>3, <2>4 DEF S
<1> QED  BY <1>1, <1>4

\* A unit below which a lot is found is one that the recall of the lot names.
LEMMA ComponentsAreRecalled ==
  ASSUME NEW graph, NEW units, NEW lot, NEW u, \A l \in graph : l.parent \in units,
         \E b \in Descendants(graph, u) : b.lot = lot
  PROVE  u \in UnitsAffectedByLot(graph, lot)
<1>1. Holders(graph, lot) \in SUBSET units
  BY DEF Holders
<1>2. PICK f : IsRise(f, graph, units, Holders(graph, lot))
  BY <1>1, RiseExists
<1>3. PICK g : IsFall(g, graph, u)
  BY FallExists
<1> DEFINE S == {n \in Nat : \A l \in g[n], j \in Nat : l.parent \in f[j] => u \in f[j + n]}
<1>4. 0 \in S
  BY <1>3 DEF IsFall
<1>5. ASSUME NEW n \in Nat, n \in S PROVE n + 1 \in S
  <2> SUFFICES ASSUME NEW l \in g[n + 1], NEW j \in Nat, l.parent \in f[j]
               PROVE  u \in f[j + (n + 1)]
    OBVIOUS
  <2>1. PICK k \in g[n] : k.child = l.parent
    BY <1>3 DEF IsFall
  <2>2. k \in graph
    BY <1>3, <2>1 DEF IsFall
  <2>3. k.parent \in f[j + 1]
    BY <1>2, <2>1, <2>2 DEF IsRise, ParentsOf
  <2>4. u \in f[(j + 1) + n]
    BY <1>5, <2>1, <2>3
  <2> QED  BY <2>4
<1> HIDE DEF S
<1>6. Nat \subseteq S
  BY <1>4, <1>5, Induction
<1>7. PICK d \in 1..DepthCap : \E l \in g[d - 1] : l.lot = lot
  BY <1>3, DescendantsAreFall
<1>8. PICK l \in g[d - 1] : l.lot = lot
  BY <1>7
<1>9. d - 1 \in Nat /\ d - 1 \in 0..DepthCap /\ 0 + (d - 1) = d - 1
  BY DepthCapAssumption
<1>10. l \in graph
  BY <1>3, <1>8, <1>9 DEF IsFall
<1>11. l.parent \in f[0]
  BY <1>2, <1>8, <1>10 DEF IsRise, Holders
<1>12. u \in f[d - 1]
  BY <1>6, <1>8, <1>9, <1>11 DEF S
<1> QED  BY <1>2, <1>9, <1>12, RecallIsRise

\* A rise from each unit.
Rises(up, graph, units) == \A w \in units : IsRise(up[w], graph, units, {w})

\* A rise may be made one level at its start first.
LEMMA RiseFromParents ==
  ASSUME NEW graph, NEW units, NEW up, Rises(up, graph, units),
         \A l \in graph : l.parent \in units,
         NEW v \in units
  PROVE  \A n \in Nat : \A u : u \in up[v][n + 1] <=> \E w \in ParentsOf(graph, {v}) : u \in up[w][n]
<1> DEFINE P == ParentsOf(graph, {v})
           Agree(n) == \A u : u \in up[v][n + 1] <=> \E w \in P : u \in up[w][n]
           S == {n \in Nat : Agree(n)}
<1>1. P \subseteq units
  BY DEF ParentsOf
<1>2. Agree(0)
  <2>1. up[v][0 + 1] = P
    BY DEF IsRise, Rises
  <2>2. \A w \in P : up[w][0] = {w}
    BY <1>1 DEF IsRise, Rises
  <2> HIDE DEF P
  <2> QED  BY <2>1, <2>2
<1>3. ASSUME NEW n \in Nat, Agree(n) PROVE Agree(n + 1)
  <2> SUFFICES ASSUME NEW u
               PROVE  u \in up[v][(n + 1) + 1] <=> \E w \in P : u \in up[w][n + 1]
    OBVIOUS
  <2>1. up[v][(n + 1) + 1] = ParentsOf(graph, up[v][n + 1])
    BY DEF IsRise, Rises
  <2>2. \A w \in P : up[w][n + 1] = ParentsOf(graph, up[w][n])
    BY <1>1 DEF IsRise, Rises
  <2> HIDE DEF P
  <2>3. \A x : x \in up[v][n + 1] <=> \E w \in P : x \in up[w][n]
    BY <1>3
  <2>4. u \in ParentsOf(graph, up[v][n + 1])
          <=> \E l \in graph : l.parent = u /\ \E w \in P : l.child \in up[w][n]
    BY <2>3 DEF ParentsOf
  <2>5. \A w \in P : u \in up[w][n + 1] <=> \E l \in graph : l.parent = u /\ l.child \in up[w][n]
    BY <2>2 DEF ParentsOf
  <2> QED  BY <2>1, <2>4, <2>5
<1> HIDE DEF Agree
<1>4. Nat \subseteq S
  <2>1. 0 \in S /\ \A n \in Nat : n \in S => n + 1 \in S
    BY <1>2, <1>3
  <2> HIDE DEF S
  <2> QED  BY <2>1, Induction
<1> QED  BY <1>4 DEF Agree

\* A unit is found above another exactly when that is found below it, at the same
\* depth.
LEMMA TraceBothWays ==
  ASSUME NEW graph, NEW units, NEW u \in units, NEW v \in units, NEW d \in 1..DepthCap,
         \A l \in graph : /\ l.parent \in units
                          /\ l.child \in units => l.lot = None
                          /\ l.lot = None => l.child \in units
  PROVE  [depth |-> d, child |-> v, lot |-> None] \in Descendants(graph, u)
           <=> [depth |-> d, parent |-> u] \in Ancestors(graph, v)
<1>1. PICK g : IsFall(g, graph, u)
  BY FallExists
<1> DEFINE up == [w \in units |-> CHOOSE f : IsRise(f, graph, units, {w})]
<1>2. Rises(up, graph, units)
  <2> SUFFICES ASSUME NEW w \in units PROVE IsRise(up[w], graph, units, {w})
    BY DEF Rises
  <2>1. \E f : IsRise(f, graph, units, {w})
    BY RiseExists
  <2> QED  BY <2>1
<1> HIDE DEF up
<1> DEFINE S == {n \in Nat : \A w \in units : (\E l \in g[n] : l.child = w) <=> u \in up[w][n + 1]}
<1>3. \A w \in units, n \in Nat :
        u \in up[w][n + 1] <=> \E x \in ParentsOf(graph, {w}) : u \in up[x][n]
  <2> HIDE DEF S
  <2> QED  BY <1>2, RiseFromParents
<1>4. 0 \in S
  <2>1. ASSUME NEW w \in units PROVE up[w][0 + 1] = ParentsOf(graph, {w})
    <3>1. IsRise(up[w], graph, units, {w}) /\ 0 \in Nat
      BY <1>2 DEF Rises
    <3> QED  BY ONLY <3>1 DEF IsRise
  <2>2. \A w \in units : (\E l \in g[0] : l.child = w) <=> u \in ParentsOf(graph, {w})
    BY <1>1 DEF IsFall, ParentsOf
  <2> QED  BY <2>1, <2>2
<1>5. ASSUME NEW n \in Nat, n \in S PROVE n + 1 \in S
  <2> SUFFICES ASSUME NEW w \in units
               PROVE  (\E l \in g[n + 1] : l.child = w) <=> u \in up[w][(n + 1) + 1]
    OBVIOUS
  <2>1. (\E l \in g[n + 1] : l.child = w)
          <=> \E l \in graph : l.child = w /\ \E k \in g[n] : k.child = l.parent
    BY <1>1 DEF IsFall
  <2>2. \A l \in graph : (\E k \in g[n] : k.child = l.parent) <=> u \in up[l.parent][n + 1]
    BY <1>5
  <2>3. u \in up[w][(n + 1) + 1] <=> \E x \in ParentsOf(graph, {w}) : u \in up[x][n + 1]
    BY <1>3
  <2>4. (\E x \in ParentsOf(graph, {w}) : u \in up[x][n + 1])
          <=> \E l \in graph : l.child = w /\ u \in up[l.parent][n + 1]
    BY DEF ParentsOf
  <2> QED  BY <2>1, <2>2, <2>3, <2>4
<1> HIDE DEF S
<1>6. Nat \subseteq S
  BY <1>4, <1>5, Induction
<1>7. d - 1 \in Nat /\ (d - 1) + 1 = d
  BY DepthCapAssumption
<1>8. (\E l \in g[d - 1] : l.child = v) <=> u \in up[v][d]
  BY <1>6, <1>7 DEF S
<1>9. [depth |-> d, child |-> v, lot |-> None] \in Descendants(graph, u)
        <=> \E l \in g[d - 1] : l.child = v
  <2>1. [depth |-> d, child |-> v, lot |-> None] \in Descendants(graph, u)
          <=> \E l \in g[d - 1] : l.child = v /\ l.lot = None
    BY <1>1, DescendantsAreFall
  <2>2. \A l \in g[d - 1] : l.child = v => l.lot = None
    BY <1>1, <1>7 DEF IsFall
  <2> QED  BY <2>1, <2>2
<1>10. [depth |-> d, parent |-> u] \in Ancestors(graph, v) <=> u \in up[v][d]
  <2>1. IsRise(up[v], graph, units, {v})
    BY <1>2 DEF Rises
  <2> DEFINE Row(n, p) == [depth |-> n, parent |-> p]
  <2>2. Ancestors(graph, v) = UNION {{Row(n, p) : p \in up[v][n]} : n \in 1..DepthCap}
    BY <2>1, AncestorsAreRise
  <2>3. \A n, p : Row(d, u) = Row(n, p) <=> d = n /\ u = p
    OBVIOUS
  <2> HIDE DEF Row
  <2>4. Row(d, u) \in Ancestors(graph, v) <=> \E n \in 1..DepthCap : \E p \in up[v][n] : Row(d, u) = Row(n, p)
    BY <2>2
  <2>5. Row(d, u) \in Ancestors(graph, v) <=> u \in up[v][d]
    BY <2>3, <2>4
  <2> QED  BY <2>5 DEF Row
<1> QED  BY <1>8, <1>9, <1>10

-----------------------------------------------------------------------------
(* The invariant. *)

Drafts == [links : SUBSET LinkRecords, rows : SUBSET RowRecords, tenants : SUBSET Tenants]

\* What transactions hold is what the schema allows, and a row is in the
\* partition its commit will find it in.
DraftsAreTyped ==
  /\ draft \in [Conns -> Drafts]
  /\ \A c \in Conns : /\ \A l \in draft[c].links : Allowed(l)
                      /\ \A r \in draft[c].rows : r.part = PartitionFor(r.month)
                      /\ IsFiniteSet(draft[c].rows) /\ IsFiniteSet(draft[c].links)
  /\ IsFiniteSet(rows) /\ IsFiniteSet(links)

\* A tenant's transaction runs in its tenant's context; the administrator's runs
\* in that of a tenant that is not there yet, and no two do at once.
ContextIsOwn ==
  /\ \A c \in Conns :
       /\ owner[c] \in Tenants =>
            setting[c] = owner[c] /\ owner[c] \in provisioned /\ draft[c].tenants = {}
       /\ owner[c] = Admin =>
            /\ setting[c] \in Tenants \ provisioned
            /\ draft[c] = [Nothing EXCEPT !.tenants = {setting[c]}]
  /\ \A c, d \in Conns : owner[c] = Admin /\ owner[d] = Admin => c = d

\* Every record is that of a tenant there is and of a unit of that tenant.
RecordsBelong ==
  /\ \A x \in links \cup rows : x.tenant \in provisioned
  /\ \A c \in Conns : \A x \in draft[c].links \cup draft[c].rows : x.tenant = owner[c]
  /\ \A r \in rows : r.unit \in UnitsOf[r.tenant]
  /\ \A c \in Conns : \A r \in draft[c].rows : r.unit \in UnitsOf[r.tenant]

IInv == TypeOK /\ DraftsAreTyped /\ ContextIsOwn /\ RecordsBelong

-----------------------------------------------------------------------------
(* Constants. *)

LEMMA NoneIsNobody == /\ None # Admin /\ Admin \notin Tenants /\ None \notin Tenants
                      /\ None \notin Units /\ None \notin Months
<1>1. None \notin Tenants \cup {Admin}
  BY RecallAssumption, Zenon
<1>2. None \notin UNION {UnitsOf[t] : t \in Tenants}
  BY RecallAssumption, Zenon
<1>3. None \notin Nat /\ Admin \notin Tenants
  BY RecallAssumption, Zenon
<1>4. Months \subseteq Nat
  BY DEF Months
<1> QED  BY <1>1, <1>2, <1>3, <1>4 DEF Units

LEMMA SomeMonths == LastMonth \in Months /\ 1 \in Months /\ LastMonth \in Nat
<1>1. LastMonth \in Nat \ {0}
  BY RecallAssumption, Zenon
<1> QED  BY <1>1 DEF Months

LEMMA CoveredAreMonths == ASSUME NEW m PROVE Covered(m) \subseteq Months
BY DEF Covered

LEMMA NoRowsAreFinite == IsFiniteSet({})
BY FS_EmptySet

LEMMA InitIInv == Init => IInv
<1> SUFFICES ASSUME Init PROVE IInv
  OBVIOUS
<1>1. 1 \in Months /\ First \in Tenants
  BY SomeMonths, RecallAssumption, Zenon
<1>2. TypeOK
  BY <1>1, CoveredAreMonths DEF Init, TypeOK, Nothing
<1>3. DraftsAreTyped
  BY NoRowsAreFinite DEF Init, DraftsAreTyped, Drafts, Nothing
<1>4. ContextIsOwn
  BY NoneIsNobody DEF Init, ContextIsOwn
<1>5. RecordsBelong
  BY DEF Init, RecordsBelong, Nothing
<1> QED  BY <1>2, <1>3, <1>4, <1>5 DEF IInv

\* The readings of a history and the passing of months change nothing else.
LEMMA SameRecords ==
  ASSUME IInv, UNCHANGED <<committed, months, owner, setting, draft>>, today' \in Months
  PROVE  IInv'
<1>1. TypeOK'
  BY DEF IInv, TypeOK, committed, PartitionFor
<1>2. DraftsAreTyped'
  BY DEF IInv, DraftsAreTyped, committed, PartitionFor
<1>3. ContextIsOwn'
  BY DEF IInv, ContextIsOwn, committed
<1>4. RecordsBelong'
  BY DEF IInv, RecordsBelong, committed
<1> QED  BY <1>1, <1>2, <1>3, <1>4 DEF IInv

-----------------------------------------------------------------------------
(* Transactions. *)

LEMMA TenantStep ==
  ASSUME IInv, NEW c \in Conns, NEW t \in Tenants, Tenant(c, t)
  PROVE  IInv'
<1> USE DEF IInv
<1>1. /\ owner[c] = None /\ t \in provisioned /\ draft[c] = Nothing
      /\ owner' = [owner EXCEPT ![c] = t]
      /\ setting' = [setting EXCEPT ![c] = t]
      /\ UNCHANGED <<links, rows, provisioned, months, today, draft>>
  BY DEF Tenant, TypeOK, committed
<1>2. TypeOK'
  BY <1>1, NoneIsNobody DEF TypeOK, PartitionFor
<1>3. DraftsAreTyped'
  BY <1>1 DEF DraftsAreTyped, PartitionFor
<1>4. ContextIsOwn'
  BY <1>1, NoneIsNobody DEF ContextIsOwn, TypeOK, Nothing
<1>5. RecordsBelong'
  BY <1>1 DEF RecordsBelong, TypeOK, Nothing
<1> QED  BY <1>2, <1>3, <1>4, <1>5

LEMMA ProvisionStep ==
  ASSUME IInv, NEW c \in Conns, NEW t \in Tenants, ProvisionTenant(c, t)
  PROVE  IInv'
<1> USE DEF IInv
<1>1. /\ owner[c] = None /\ t \notin provisioned /\ draft[c] = Nothing
      /\ \A d \in Conns : draft[d].tenants = {}
      /\ owner' = [owner EXCEPT ![c] = Admin]
      /\ setting' = [setting EXCEPT ![c] = t]
      /\ UNCHANGED <<links, rows, provisioned, months, today>>
  BY DEF ProvisionTenant, TypeOK, committed
<1>2. draft' = [draft EXCEPT ![c] = [Nothing EXCEPT !.tenants = {t}]]
  <2>1. draft' = [draft EXCEPT ![c].tenants = {t}]
    BY DEF ProvisionTenant
  <2> QED  BY <1>1, <2>1 DEF DraftsAreTyped, Drafts
<1>3. TypeOK'
  BY <1>1, <1>2, NoneIsNobody DEF TypeOK, PartitionFor, Nothing
<1>4. DraftsAreTyped'
  BY <1>1, <1>2, NoRowsAreFinite DEF DraftsAreTyped, Drafts, PartitionFor, Nothing
<1>5. \A d \in Conns : owner[d] # Admin
  BY <1>1 DEF ContextIsOwn, TypeOK, Nothing
<1>6. ContextIsOwn'
  BY <1>1, <1>2, <1>5, NoneIsNobody DEF ContextIsOwn, TypeOK, Nothing, DraftsAreTyped
<1>7. RecordsBelong'
  BY <1>1, <1>2 DEF RecordsBelong, TypeOK, Nothing, DraftsAreTyped
<1> QED  BY <1>3, <1>4, <1>6, <1>7

\* A transaction that ends takes its context and its draft with it.
LEMMA EndsLeaves ==
  ASSUME IInv, NEW c \in Conns, Ends(c)
  PROVE  /\ owner' \in [Conns -> Tenants \cup {Admin, None}]
         /\ setting' \in [Conns -> Tenants \cup {None}]
         /\ draft' \in [Conns -> Drafts]
         /\ owner'[c] = None /\ setting'[c] = None /\ draft'[c] = Nothing
         /\ \A d \in Conns \ {c} : /\ owner'[d] = owner[d] /\ setting'[d] = setting[d]
                                    /\ draft'[d] = draft[d]
         /\ UNCHANGED <<months, today>>
BY DEF IInv, TypeOK, DraftsAreTyped, Drafts, Ends, Nothing

LEMMA DraftsStay ==
  ASSUME IInv, NEW c \in Conns, draft' \in [Conns -> Drafts], draft'[c] = Nothing,
         \A d \in Conns \ {c} : draft'[d] = draft[d], UNCHANGED months, IsFiniteSet(rows'),
         IsFiniteSet(links')
  PROVE  DraftsAreTyped'
<1>1. ASSUME NEW d \in Conns
      PROVE  /\ \A l \in draft'[d].links : Allowed(l)
             /\ \A r \in draft'[d].rows : r.part = PartitionFor(r.month)
             /\ IsFiniteSet(draft'[d].rows) /\ IsFiniteSet(draft'[d].links)
  <2>1. CASE d = c
    <3>1. draft'[d].links = {} /\ draft'[d].rows = {}
      BY <2>1 DEF Nothing
    <3> QED  BY <3>1, NoRowsAreFinite
  <2>2. CASE d # c
    BY <2>2 DEF IInv, DraftsAreTyped
  <2> QED  BY <2>1, <2>2
<1> QED  BY <1>1 DEF DraftsAreTyped, PartitionFor

LEMMA RollbackStep ==
  ASSUME IInv, NEW c \in Conns, Rollback(c)
  PROVE  IInv'
<1> USE DEF IInv
<1>1. UNCHANGED <<links, rows, provisioned>> /\ Ends(c)
  BY DEF Rollback, committed
<1>2. TypeOK'
  BY <1>1, EndsLeaves DEF TypeOK, PartitionFor, Nothing
<1>3. DraftsAreTyped'
  BY <1>1, EndsLeaves, DraftsStay DEF DraftsAreTyped
<1>4. ContextIsOwn'
  BY <1>1, EndsLeaves, NoneIsNobody DEF ContextIsOwn
<1>5. RecordsBelong'
  BY <1>1, EndsLeaves DEF RecordsBelong, Nothing
<1> QED  BY <1>2, <1>3, <1>4, <1>5

LEMMA CommitStep ==
  ASSUME IInv, NEW c \in Conns, Commit(c)
  PROVE  IInv'
<1> USE DEF IInv
<1>1. /\ Ends(c)
      /\ links' = links \cup draft[c].links
      /\ rows' = rows \cup draft[c].rows
      /\ provisioned' = provisioned \cup draft[c].tenants
  BY DEF Commit
<1>2. owner[c] \in Tenants \/ owner[c] = Admin
  BY <1>1 DEF Ends, TypeOK
<1>3. draft[c] \in Drafts
  BY DEF DraftsAreTyped
<1>4. TypeOK'
  <2>1. /\ links' \subseteq LinkRecords /\ rows' \subseteq RowRecords
        /\ provisioned' \subseteq Tenants
    BY <1>1, <1>3 DEF TypeOK, Drafts
  <2>2. \A l \in links' : Allowed(l)
    BY <1>1 DEF TypeOK, DraftsAreTyped
  <2>3. \A r \in rows' : r.part = PartitionFor(r.month)'
    BY <1>1, EndsLeaves DEF TypeOK, DraftsAreTyped, PartitionFor
  <2> QED  BY <1>1, <2>1, <2>2, <2>3, EndsLeaves DEF TypeOK, Nothing
<1>5. DraftsAreTyped'
  <2>1. IsFiniteSet(rows')
    BY <1>1, FS_Union DEF DraftsAreTyped
  <2>2. IsFiniteSet(links')
    BY <1>1, FS_Union DEF DraftsAreTyped
  <2> QED  BY <1>1, <2>1, <2>2, EndsLeaves, DraftsStay
<1>6. ContextIsOwn'
  <2>1. /\ owner'[c] = None /\ None \notin Tenants /\ None # Admin
        /\ \A d \in Conns \ {c} :
             owner'[d] = owner[d] /\ setting'[d] = setting[d] /\ draft'[d] = draft[d]
    BY <1>1, EndsLeaves, NoneIsNobody
  <2>2. ASSUME NEW d \in Conns, owner'[d] \in Tenants
        PROVE  setting'[d] = owner'[d] /\ owner'[d] \in provisioned' /\ draft'[d].tenants = {}
    BY <1>1, <2>1, <2>2 DEF ContextIsOwn
  <2>3. ASSUME NEW d \in Conns, owner'[d] = Admin
        PROVE  /\ setting'[d] \in Tenants \ provisioned'
               /\ draft'[d] = [Nothing EXCEPT !.tenants = {setting'[d]}]
    <3>1. d # c /\ owner[d] = Admin
      BY <2>1, <2>3
    <3>2. owner[c] \in Tenants /\ draft[c].tenants = {}
      BY <1>2, <3>1 DEF ContextIsOwn
    <3> QED  BY <1>1, <2>1, <3>1, <3>2 DEF ContextIsOwn
  <2>4. ASSUME NEW d \in Conns, NEW e \in Conns, owner'[d] = Admin, owner'[e] = Admin
        PROVE  d = e
    BY <2>1, <2>4 DEF ContextIsOwn
  <2> QED  BY <2>2, <2>3, <2>4 DEF ContextIsOwn, Nothing
<1>7. RecordsBelong'
  <2>1. \A x \in draft[c].links \cup draft[c].rows : x.tenant \in provisioned
    BY <1>2 DEF ContextIsOwn, RecordsBelong, Nothing
  <2> QED  BY <1>1, <2>1, EndsLeaves DEF RecordsBelong, Nothing
<1> QED  BY <1>4, <1>5, <1>6, <1>7

-----------------------------------------------------------------------------
(* Writes. *)

LEMMA LinkStep ==
  ASSUME IInv, NEW c \in Conns, NEW l \in LinkRecords, l.tenant = owner[c], Link(c, l)
  PROVE  IInv'
<1> USE DEF IInv
<1>1. /\ owner[c] \in Tenants /\ Allowed(l)
      /\ draft' = [draft EXCEPT ![c].links = @ \cup {l}]
      /\ UNCHANGED <<links, rows, provisioned, months, today, owner, setting>>
  BY DEF Link, MayWrite, committed
<1>2. /\ draft' \in [Conns -> Drafts]
      /\ draft'[c].links = draft[c].links \cup {l}
      /\ draft'[c].rows = draft[c].rows /\ draft'[c].tenants = draft[c].tenants
      /\ \A d \in Conns \ {c} : draft'[d] = draft[d]
  BY <1>1 DEF DraftsAreTyped, Drafts
<1>3. owner[c] # None /\ owner[c] # Admin
  BY <1>1, NoneIsNobody
<1>4. TypeOK'
  BY <1>1, <1>2, <1>3 DEF TypeOK, PartitionFor
<1>5. DraftsAreTyped'
  <2>1. IsFiniteSet(draft'[c].links)
    <3>1. IsFiniteSet(draft[c].links)
      BY DEF DraftsAreTyped
    <3>2. IsFiniteSet(draft[c].links \cup {l})
      BY <3>1, FS_AddElement
    <3> QED  BY <1>2, <3>2
  <2> QED  BY <1>1, <1>2, <2>1 DEF DraftsAreTyped, PartitionFor
<1>6. ContextIsOwn'
  BY <1>1, <1>2, <1>3 DEF ContextIsOwn
<1>7. RecordsBelong'
  BY <1>1, <1>2 DEF RecordsBelong
<1> QED  BY <1>4, <1>5, <1>6, <1>7

LEMMA AppendRowStep ==
  ASSUME IInv, NEW c \in Conns, NEW unit \in UnitsOf[owner[c]], NEW table \in Tables,
         NEW month \in Months, NEW value, NEW point \in Points \cup {None},
         table = "measurement" => value \in Values,
         AppendRow(c, unit, table, month, value, point)
  PROVE  IInv'
<1> USE DEF IInv
<1> DEFINE row == [tenant |-> owner[c], unit |-> unit, table |-> table, month |-> month,
                   seq  |-> Cardinality(RowsOf(c, unit, Tables)),
                   part |-> PartitionFor(month),
                   cols |-> IF table = "measurement" THEN Columns(value) ELSE None,
                   point |-> point]
<1>1. /\ owner[c] \in Tenants
      /\ draft' = [draft EXCEPT ![c].rows = @ \cup {row}]
      /\ UNCHANGED <<links, rows, provisioned, months, today, owner, setting>>
  BY DEF AppendRow, MayWrite, committed
<1>2. row \in RowRecords
  <2>1. Cardinality(RowsOf(c, unit, Tables)) \in Nat
    <3>1. RowsOf(c, unit, Tables) \subseteq rows \cup draft[c].rows
      BY DEF RowsOf, SeenRows, Visible
    <3>2. IsFiniteSet(rows \cup draft[c].rows)
      BY FS_Union DEF DraftsAreTyped
    <3> QED  BY <3>1, <3>2, FS_Subset, FS_CardinalityType
  <2>2. unit \in Units
    BY <1>1 DEF Units
  <2>3. PartitionFor(month) \in Months \cup {None}
    BY DEF PartitionFor
  <2>4. (IF table = "measurement" THEN Columns(value) ELSE None)
          \in {Columns(v) : v \in Values} \cup {None}
    OBVIOUS
  <2> QED  BY <1>1, <2>1, <2>2, <2>3, <2>4 DEF RowRecords
<1>3. /\ row.tenant = owner[c] /\ row.unit = unit /\ row.month = month
      /\ row.part = PartitionFor(month)
  OBVIOUS
<1> HIDE DEF row
<1>4. /\ draft' \in [Conns -> Drafts]
      /\ draft'[c].rows = draft[c].rows \cup {row}
      /\ draft'[c].links = draft[c].links /\ draft'[c].tenants = draft[c].tenants
      /\ \A d \in Conns \ {c} : draft'[d] = draft[d]
  BY <1>1, <1>2 DEF DraftsAreTyped, Drafts
<1>5. owner[c] # None /\ owner[c] # Admin
  BY <1>1, NoneIsNobody
<1>6. TypeOK'
  BY <1>1, <1>2, <1>4, <1>5 DEF TypeOK, PartitionFor
<1>7. DraftsAreTyped'
  <2>1. IsFiniteSet(draft'[c].rows)
    <3>1. IsFiniteSet(draft[c].rows)
      BY DEF DraftsAreTyped
    <3>2. IsFiniteSet(draft[c].rows \cup {row})
      BY <3>1, FS_AddElement
    <3> QED  BY <1>4, <3>2
  <2>2. ASSUME NEW d \in Conns
        PROVE  /\ \A l \in draft'[d].links : Allowed(l)
               /\ \A r \in draft'[d].rows : r.part = PartitionFor(r.month)
               /\ IsFiniteSet(draft'[d].rows) /\ IsFiniteSet(draft'[d].links)
    BY <1>3, <1>4, <2>1 DEF DraftsAreTyped
  <2> QED  BY <1>1, <1>4, <2>2 DEF DraftsAreTyped, PartitionFor
<1>8. ContextIsOwn'
  BY <1>1, <1>4, <1>5 DEF ContextIsOwn
<1>9. RecordsBelong'
  BY <1>1, <1>3, <1>4 DEF RecordsBelong
<1> QED  BY <1>6, <1>7, <1>8, <1>9

-----------------------------------------------------------------------------
(* Partitions. *)

\* No row is of a month that gets its partition now: the default partition holds
\* none of them and no transaction holds any row.
LEMMA EnsureStep ==
  ASSUME IInv, EnsurePartitions
  PROVE  IInv'
<1> USE DEF IInv
<1>1. /\ months' = months \cup Covered(today)
      /\ \A r \in rows : r.part = None => r.month \notin Covered(today)
      /\ UNCHANGED <<links, rows, provisioned, today, owner, setting, draft>>
  BY DEF EnsurePartitions, committed
<1>2. \A c \in Conns : draft[c].rows = {}
  <2>1. UNION {draft[c]["rows"] : c \in Conns} = {}
    BY DEF EnsurePartitions, Drafted
  <2> QED  BY <2>1
<1>3. \A r \in rows : PartitionFor(r.month)' = PartitionFor(r.month)
  <2> TAKE r \in rows
  <2>1. r.part = PartitionFor(r.month) /\ r.month \in Months
    BY DEF TypeOK, RowRecords
  <2>2. CASE r.month \in months
    BY <1>1, <2>2 DEF PartitionFor
  <2>3. CASE r.month \notin months
    BY <1>1, <2>1, <2>3 DEF PartitionFor
  <2> QED  BY <2>2, <2>3
<1>4. TypeOK'
  BY <1>1, <1>3, CoveredAreMonths DEF TypeOK
<1>5. DraftsAreTyped'
  BY <1>1, <1>2 DEF DraftsAreTyped
<1>6. ContextIsOwn' /\ RecordsBelong'
  BY <1>1 DEF ContextIsOwn, RecordsBelong
<1> QED  BY <1>4, <1>5, <1>6

-----------------------------------------------------------------------------
(* The invariant. *)

LEMMA WorkStep ==
  ASSUME IInv, NEW c \in Conns, Work(c)
  PROVE  IInv'
<1>1. CASE Commit(c) \/ Rollback(c)
  BY <1>1, CommitStep, RollbackStep
<1>2. CASE \E t \in Tenants : Tenant(c, t) \/ ProvisionTenant(c, t)
  BY <1>2, TenantStep, ProvisionStep
<1>3. ASSUME owner[c] \in Tenants, NEW u \in UnitsOf[owner[c]]
      PROVE  u \in Units
  BY <1>3 DEF Units
<1>4. ASSUME owner[c] \in Tenants,
             NEW u \in UnitsOf[owner[c]], NEW child \in UnitsOf[owner[c]],
             LinkChildUnit(c, u, child)
      PROVE  IInv'
  <2> DEFINE l == [tenant |-> owner[c], parent |-> u, child |-> child, lot |-> None]
  <2>1. l \in LinkRecords /\ l.tenant = owner[c] /\ Link(c, l)
    BY <1>3, <1>4 DEF LinkRecords, LinkChildUnit
  <2> HIDE DEF l
  <2> QED  BY <2>1, LinkStep
<1>5. ASSUME owner[c] \in Tenants, NEW u \in UnitsOf[owner[c]], NEW lot \in Lots,
             LinkLot(c, u, lot)
      PROVE  IInv'
  <2> DEFINE l == [tenant |-> owner[c], parent |-> u, child |-> None, lot |-> lot]
  <2>1. l \in LinkRecords /\ l.tenant = owner[c] /\ Link(c, l)
    BY <1>3, <1>5 DEF LinkRecords, LinkLot
  <2> HIDE DEF l
  <2> QED  BY <2>1, LinkStep
<1>6. ASSUME NEW u \in UnitsOf[owner[c]], NEW m \in DeviceMonths, NEW v \in Values,
             owner[c] \in Tenants, NEW p \in NamedBy[owner[c]],
             AppendRow(c, u, "measurement", m, v, p)
      PROVE  IInv'
  <2>1. m \in Months
    BY SomeMonths DEF IInv, TypeOK, DeviceMonths
  <2>2. p \in Points \cup {None}
    BY <1>6 DEF Points
  <2> QED  BY <1>6, <2>1, <2>2, AppendRowStep DEF Tables
<1>7. ASSUME NEW u \in UnitsOf[owner[c]], AppendRow(c, u, "unit_event", today, None, None)
      PROVE  IInv'
  <2>1. today \in Months
    BY DEF IInv, TypeOK
  <2> QED  BY <1>7, <2>1, AppendRowStep DEF Tables
<1>8. ASSUME UNCHANGED <<committed, months, today, owner, setting, draft>>
      PROVE  IInv'
  BY <1>8, SameRecords DEF IInv, TypeOK
<1> QED
  BY <1>1, <1>2, <1>4, <1>5, <1>6, <1>7, <1>8
     DEF Work, ReadHead, ReadEvents, ReadMeasurements, ReadComponents, Reads

LEMMA IInvStep == IInv /\ [Next]_vars => IInv'
<1> SUFFICES ASSUME IInv, [Next]_vars PROVE IInv'
  OBVIOUS
<1>1. CASE UNCHANGED vars
  BY <1>1, SameRecords DEF vars, IInv, TypeOK
<1>2. CASE NextMonth
  <2>1. today' \in Months
    BY <1>2, SomeMonths DEF NextMonth, IInv, TypeOK, Months
  <2> QED  BY <1>2, <2>1, SameRecords DEF NextMonth
<1> QED  BY <1>1, <1>2, EnsureStep, WorkStep DEF Next

\* The records, the drafts and the connections keep their types, and no row is ever
\* outside the partition of its month while there is one.
THEOREM TypeCorrect == Spec => []TypeOK
<1>1. IInv => TypeOK
  BY DEF IInv
<1> QED  BY <1>1, InitIInv, IInvStep, PTL DEF Spec

\* Whatever tenants and administrators share the pool, a statement sees its own
\* tenant's records and no other (tenant_isolation, and SET LOCAL in store.rs).
THEOREM TenantsStayApart == Spec => []TenantsAreApart
<1>1. IInv => TenantsAreApart
  <2> SUFFICES ASSUME IInv, NEW c \in Conns, NEW x \in SeenLinks(c) \cup SeenRows(c)
               PROVE  owner[c] = x.tenant /\ x.tenant \in Tenants
    BY DEF TenantsAreApart
  <2> USE DEF IInv
  <2>1. /\ x \in links \cup rows \/ x \in draft[c].links \cup draft[c].rows
        /\ setting[c] # None /\ x.tenant = setting[c]
    BY DEF SeenLinks, SeenRows, Visible
  <2>2. CASE owner[c] \in Tenants
    BY <2>1, <2>2 DEF ContextIsOwn
  <2>3. CASE owner[c] = Admin
    BY <2>1, <2>3 DEF ContextIsOwn, RecordsBelong, Nothing
  <2>4. CASE owner[c] = None
    BY <2>1, <2>4 DEF TypeOK
  <2> QED  BY <2>2, <2>3, <2>4 DEF TypeOK
<1> QED  BY <1>1, InitIInv, IInvStep, PTL DEF Spec

-----------------------------------------------------------------------------
(* What the two directions of trace tell. *)

\* What a tenant's transaction sees is what its tenant committed and what it wrote.
LEMMA SeenIsOwn ==
  ASSUME IInv, NEW c \in Conns, owner[c] \in Tenants
  PROVE  /\ SeenLinks(c) = Committed(owner[c], links) \cup draft[c].links
         /\ SeenRows(c) = Committed(owner[c], rows) \cup draft[c].rows
         /\ {l \in SeenLinks(c) : l.tenant = owner[c]} = SeenLinks(c)
<1>1. setting[c] = owner[c] /\ setting[c] # None
  BY NoneIsNobody DEF IInv, ContextIsOwn
<1>2. \A x \in draft[c].links \cup draft[c].rows : x.tenant = owner[c]
  BY DEF IInv, RecordsBelong
<1> QED  BY <1>1, <1>2 DEF SeenLinks, SeenRows, Visible, Committed

\* The links it sees are finitely many, between units, and of one kind each.
LEMMA SeenLinksAreLinks ==
  ASSUME IInv, NEW c \in Conns
  PROVE  /\ IsFiniteSet(SeenLinks(c))
         /\ \A l \in SeenLinks(c) : /\ l.parent \in Units
                                    /\ l.child \in Units => l.lot = None
                                    /\ l.lot = None => l.child \in Units
<1>1. SeenLinks(c) \subseteq links \cup draft[c].links
  BY DEF SeenLinks, Visible
<1>2. IsFiniteSet(links \cup draft[c].links)
  BY FS_Union DEF IInv, DraftsAreTyped
<1>3. IsFiniteSet(SeenLinks(c))
  BY <1>1, <1>2, FS_Subset
<1>4. \A l \in SeenLinks(c) : l \in LinkRecords /\ Allowed(l)
  BY <1>1 DEF IInv, TypeOK, DraftsAreTyped
<1>5. \A l \in LinkRecords : l.parent \in Units /\ l.child \in Units \cup {None}
  BY DEF LinkRecords
<1> QED  BY <1>3, <1>4, <1>5, NoneIsNobody DEF Allowed

LEMMA LotRecall ==
  ASSUME IInv, NEW c \in Conns, owner[c] \in Tenants
  PROVE  LotRecallIsExact(c)
<1> DEFINE all == Committed(owner[c], links) \cup draft[c].links
<1>1. SeenLinks(c) = all /\ {l \in SeenLinks(c) : l.tenant = owner[c]} = all
  BY SeenIsOwn
<1>2. IsFiniteSet(all) /\ \A l \in all : l.parent \in Units
  BY <1>1, SeenLinksAreLinks
<1> SUFFICES ASSUME NEW lot \in Lots
             PROVE  /\ AffectedByLot(c, lot) \subseteq Implicated(all, lot)
                    /\ \/ AffectedByLot(c, lot) = Implicated(all, lot)
                       \/ Cardinality(Implicated(all, lot)) > DepthCap + 1
                    /\ \A u \in UnitsOf[owner[c]] :
                         (\E b \in Descendants(SeenLinks(c), u) : b.lot = lot)
                           => u \in AffectedByLot(c, lot)
  BY DEF LotRecallIsExact
<1> HIDE DEF all
<1>3. AffectedByLot(c, lot) = UnitsAffectedByLot(all, lot)
  BY <1>1 DEF AffectedByLot
<1>4. Implicated(all, lot) = HeldBy(all, Units, lot)
  BY DEF Implicated, HeldBy, Closed
<1>5. /\ UnitsAffectedByLot(all, lot) \subseteq HeldBy(all, Units, lot)
      /\ \/ UnitsAffectedByLot(all, lot) = HeldBy(all, Units, lot)
         \/ Cardinality(HeldBy(all, Units, lot)) > DepthCap + 1
  BY <1>2, RecallByLotIsExact
<1>6. ASSUME NEW u, \E b \in Descendants(all, u) : b.lot = lot
      PROVE  u \in UnitsAffectedByLot(all, lot)
  BY <1>2, <1>6, ComponentsAreRecalled
<1> QED  BY <1>1, <1>3, <1>4, <1>5, <1>6

LEMMA TraceAgrees ==
  ASSUME IInv, NEW c \in Conns, owner[c] \in Tenants
  PROVE  TraceIsSymmetric(c)
<1> SUFFICES ASSUME NEW u \in UnitsOf[owner[c]], NEW v \in UnitsOf[owner[c]],
                    NEW d \in 1..DepthCap
             PROVE  [depth |-> d, child |-> v, lot |-> None] \in Descendants(SeenLinks(c), u)
                      <=> [depth |-> d, parent |-> u] \in Ancestors(SeenLinks(c), v)
  BY DEF TraceIsSymmetric
<1>1. u \in Units /\ v \in Units
  BY DEF Units
<1> DEFINE seen == SeenLinks(c)
<1>2. \A l \in seen : /\ l.parent \in Units
                      /\ l.child \in Units => l.lot = None
                      /\ l.lot = None => l.child \in Units
  BY SeenLinksAreLinks
<1> HIDE DEF seen
<1>3. [depth |-> d, child |-> v, lot |-> None] \in Descendants(seen, u)
        <=> [depth |-> d, parent |-> u] \in Ancestors(seen, v)
  BY <1>1, <1>2, TraceBothWays
<1> QED  BY <1>3 DEF seen

LEMMA DeviceRecall ==
  ASSUME IInv, NEW c \in Conns, owner[c] \in Tenants
  PROVE  DeviceRecallIsExact(c)
<1> SUFFICES ASSUME NEW from \in Months, NEW to \in Months
             PROVE  MeasuredBetween(c, from, to) =
                      {u \in UnitsOf[owner[c]] : \E r \in rows \cup draft[c].rows :
                         r.unit = u /\ r.table = "measurement" /\ r.month \in from..(to - 1)}
  BY DEF DeviceRecallIsExact
<1>1. SeenRows(c) = Committed(owner[c], rows) \cup draft[c].rows
  BY SeenIsOwn
<1>2. \A r \in rows \cup draft[c].rows :
        /\ r.tenant \in Tenants /\ r.month \in Months /\ r.unit \in UnitsOf[r.tenant]
        /\ r.part = r.month \/ r.part = None
  BY DEF IInv, TypeOK, RowRecords, DraftsAreTyped, Drafts, RecordsBelong, PartitionFor
<1>3. \A r \in rows \cup draft[c].rows :
        r.unit \in UnitsOf[owner[c]] <=> r \in SeenRows(c) /\ r.tenant = owner[c]
  <2>1. \A t, s \in Tenants : t # s => UnitsOf[t] \cap UnitsOf[s] = {}
    BY RecallAssumption, Zenon
  <2>2. \A x \in draft[c].rows : x.tenant = owner[c]
    BY DEF IInv, RecordsBelong
  <2> QED  BY <1>1, <1>2, <2>1, <2>2 DEF Committed
<1>4. SeenRows(c) \subseteq rows \cup draft[c].rows
  BY DEF SeenRows, Visible
<1>5. Months \subseteq Nat
  BY DEF Months
<1>6. ASSUME NEW r \in rows \cup draft[c].rows
      PROVE  (/\ r.part = None \/ r.part \in from..(to - 1)
              /\ r.month >= from /\ r.month < to)
             <=> r.month \in from..(to - 1)
  <2>1. \A m \in Months : m >= from /\ m < to <=> m \in from..(to - 1)
    BY <1>5
  <2>2. r.month >= from /\ r.month < to <=> r.month \in from..(to - 1)
    BY <1>2, <2>1
  <2> QED  BY <1>2, <2>2
<1> DEFINE Found(r) == /\ r.part = None \/ r.part \in from..(to - 1)
                       /\ r.tenant = owner[c] /\ r.table = "measurement"
                       /\ r.month >= from /\ r.month < to
<1>7. \A r \in rows \cup draft[c].rows :
        r \in SeenRows(c) /\ Found(r)
          <=> r.unit \in UnitsOf[owner[c]] /\ r.table = "measurement" /\ r.month \in from..(to - 1)
  BY <1>3, <1>6
<1>8. MeasuredBetween(c, from, to) = {r.unit : r \in {q \in SeenRows(c) : Found(q)}}
  BY DEF MeasuredBetween
<1> HIDE DEF Found
<1> QED  BY <1>4, <1>7, <1>8

\* A recall by lot is exact up to the cap on the depth, a recall by device over any
\* window, and ancestors and descendants agree: units_affected_by_lot,
\* units_measured_by_device and the two walks of migration 0003, for every
\* genealogy the stations may commit.
THEOREM RecallTellsExactly == Spec => []RecallIsExact
<1>1. IInv => RecallIsExact
  BY LotRecall, TraceAgrees, DeviceRecall DEF RecallIsExact
<1> QED  BY <1>1, InitIInv, IInvStep, PTL DEF Spec
-----------------------------------------------------------------------------
(* A history read in four statements.  While it is read nothing is written  *)
(* on its connection, and what the others commit only adds to what it sees. *)

LEMMA DescendantsGrow ==
  ASSUME NEW some, NEW more, some \subseteq more, NEW root
  PROVE  Descendants(some, root) \subseteq Descendants(more, root)
<1>1. PICK g : IsFall(g, some, root)
  BY FallExists
<1>2. PICK h : IsFall(h, more, root)
  BY FallExists
<1> DEFINE S == {n \in Nat : g[n] \subseteq h[n]}
<1>3. 0 \in S
  BY <1>1, <1>2 DEF IsFall
<1>4. ASSUME NEW n \in Nat, n \in S PROVE n + 1 \in S
  <2>1. g[n + 1] = {l \in some : \E k \in g[n] : k.child = l.parent}
    BY <1>1 DEF IsFall
  <2>2. h[n + 1] = {l \in more : \E k \in h[n] : k.child = l.parent}
    BY <1>2 DEF IsFall
  <2> QED  BY <1>4, <2>1, <2>2
<1> HIDE DEF S
<1>5. Nat \subseteq S
  BY <1>3, <1>4, Induction
<1>6. \A d \in 1..DepthCap : g[d - 1] \subseteq h[d - 1]
  <2> TAKE d \in 1..DepthCap
  <2>1. d - 1 \in Nat
    BY DepthCapAssumption
  <2> QED  BY <1>5, <2>1 DEF S
<1>7. Descendants(some, root) =
        UNION {{[depth |-> d, child |-> l.child, lot |-> l.lot] : l \in g[d - 1]} : d \in 1..DepthCap}
  BY <1>1, DescendantsAreFall
<1>8. Descendants(more, root) =
        UNION {{[depth |-> d, child |-> l.child, lot |-> l.lot] : l \in h[d - 1]} : d \in 1..DepthCap}
  BY <1>2, DescendantsAreFall
<1> QED  BY <1>6, <1>7, <1>8

Steps == {"events", "measurements", "components", "done"}

\* The fields of a reading, whatever is in them.
IsReading(h) ==
  /\ h = [unit |-> h.unit, step |-> h.step, events |-> h.events,
          measurements |-> h.measurements, components |-> h.components,
          since |-> h.since]
  /\ h.since = [rows |-> h.since.rows, components |-> h.since.components]
  /\ h.step \in Steps

Of(table, found) == {r \in found : r.table = table}

\* What a reading has found is there now, and what was there when it began it has
\* found, of the tables it has read.
Follows(c, h) ==
  /\ IsReading(h)
  /\ owner[c] \in Tenants /\ draft[c] = Nothing
  /\ h.since.rows \cup h.events \cup h.measurements \subseteq RowsOf(c, h.unit, Tables)
  /\ h.since.components \cup h.components \subseteq Descendants(SeenLinks(c), h.unit)
  /\ \A r \in h.events \cup h.measurements : Readable(r)
  /\ h.step # "events" => Of("unit_event", h.since.rows) \subseteq h.events
  /\ h.step \in {"components", "done"} =>
       {r \in Of("measurement", h.since.rows) : Readable(r)} \subseteq h.measurements
  /\ h.step = "done" => h.since.components \subseteq h.components

HistoriesFollow == \A c \in Conns : history[c] # None => Follows(c, history[c])

\* What a row of measurement holds is the columns of a value.
IsStored(r) == r.table = "measurement" => \E v \in Values : r.cols = Columns(v)

ValuesAreStored ==
  /\ \A r \in rows : IsStored(r)
  /\ \A c \in Conns : \A r \in draft[c].rows : IsStored(r)

HistoryInv == HistoriesFollow /\ ValuesAreStored /\ DOMAIN history = Conns

LEMMA InitHistoryInv == Init => HistoryInv
BY DEF Init, HistoryInv, HistoriesFollow, ValuesAreStored, Nothing

\* A reading that makes no step goes on following while the others commit.
LEMMA FollowsStill ==
  ASSUME NEW c \in Conns, NEW h, Follows(c, h), owner'[c] = owner[c], setting'[c] = setting[c],
         draft'[c] = draft[c], links \subseteq links', rows \subseteq rows'
  PROVE  Follows(c, h)'
<1>1. draft[c] = Nothing
  BY DEF Follows
<1>2. SeenLinks(c) \subseteq SeenLinks(c)'
  BY DEF SeenLinks, Visible
<1>3. Descendants(SeenLinks(c), h.unit) \subseteq Descendants(SeenLinks(c)', h.unit)
  BY <1>2, DescendantsGrow
<1>4. RowsOf(c, h.unit, Tables) \subseteq RowsOf(c, h.unit, Tables)'
  BY DEF RowsOf, SeenRows, Visible
<1>5. Descendants(SeenLinks(c)', h.unit) = Descendants(SeenLinks(c), h.unit)'
  OBVIOUS
<1> QED  BY <1>1, <1>3, <1>4, <1>5 DEF Follows

\* A step that leaves a connection alone leaves its reading, if any, following.
LEMMA OthersFollow ==
  ASSUME HistoriesFollow, NEW d \in Conns, history'[d] # None,
         history'[d] = history[d], owner'[d] = owner[d], setting'[d] = setting[d],
         draft'[d] = draft[d], links \subseteq links', rows \subseteq rows'
  PROVE  Follows(d, history[d])'
<1>1. PICK h : h = history[d]
  OBVIOUS
<1>2. Follows(d, h)
  BY <1>1 DEF HistoriesFollow
<1>3. Follows(d, h)'
  BY <1>2, FollowsStill
<1>4. h = history'[d]
  BY <1>1
<1> QED  BY <1>3, <1>4 DEF Follows

\* A transaction that begins or ends is no reading's.
LEMMA BoundsFollow ==
  ASSUME IInv, HistoryInv, NEW c \in Conns,
         \/ Commit(c) \/ Rollback(c)
         \/ \E t \in Tenants : Tenant(c, t) \/ ProvisionTenant(c, t)
  PROVE  HistoryInv'
<1>1. /\ owner \in [Conns -> Tenants \cup {Admin, None}] /\ DOMAIN history = Conns
      /\ setting \in [Conns -> Tenants \cup {None}] /\ draft \in [Conns -> Drafts]
  BY DEF IInv, TypeOK, DraftsAreTyped, HistoryInv
<1>2. /\ \A d \in Conns \ {c} : /\ history'[d] = history[d] /\ owner'[d] = owner[d]
                                 /\ setting'[d] = setting[d] /\ draft'[d] = draft[d]
      /\ DOMAIN history' = Conns
      /\ links \subseteq links' /\ rows \subseteq rows'
      /\ rows' \subseteq rows \cup draft[c].rows
      /\ draft'[c].rows = {}
  BY <1>1 DEF Commit, Rollback, Ends, Tenant, ProvisionTenant, committed, Nothing,
             IInv, TypeOK, DraftsAreTyped, Drafts
<1>3. history'[c] = None
  <2>1. CASE Commit(c) \/ Rollback(c)
    BY <1>1, <2>1 DEF Commit, Rollback, Ends
  <2>2. CASE \E t \in Tenants : Tenant(c, t) \/ ProvisionTenant(c, t)
    <3>1. owner[c] = None /\ history' = history
      BY <2>2 DEF Tenant, ProvisionTenant
    <3> QED  BY <3>1, NoneIsNobody DEF HistoryInv, HistoriesFollow, Follows
  <2> QED  BY <2>1, <2>2
<1>4. HistoriesFollow'
  BY <1>2, <1>3, OthersFollow DEF HistoryInv, HistoriesFollow
<1>5. ValuesAreStored'
  BY <1>2 DEF HistoryInv, ValuesAreStored, IsStored
<1> QED  BY <1>2, <1>4, <1>5 DEF HistoryInv

\* A transaction that writes reads no history.
LEMMA WritesFollow ==
  ASSUME IInv, HistoryInv, NEW c \in Conns, MayWrite(c),
         NEW drafted \in Drafts, draft' = [draft EXCEPT ![c] = drafted],
         \A r \in drafted.rows : r \in draft[c].rows \/ IsStored(r),
         UNCHANGED <<links, rows, owner, setting, history>>
  PROVE  HistoryInv'
<1>1. /\ draft \in [Conns -> Drafts] /\ history[c] = None
      /\ \A d \in Conns \ {c} : draft'[d] = draft[d]
      /\ draft'[c] = drafted
  BY DEF IInv, DraftsAreTyped, MayWrite
<1>2. HistoriesFollow'
  BY <1>1, OthersFollow DEF HistoryInv, HistoriesFollow
<1>3. ValuesAreStored'
  BY <1>1 DEF HistoryInv, ValuesAreStored, IsStored
<1> QED  BY <1>2, <1>3 DEF HistoryInv

\* A step that writes nothing and reads nothing.
LEMMA CalendarFollows ==
  ASSUME HistoryInv, UNCHANGED <<links, rows, owner, setting, draft, history>>
  PROVE  HistoryInv'
<1>1. HistoriesFollow'
  BY OthersFollow DEF HistoryInv, HistoriesFollow
<1> QED  BY <1>1 DEF HistoryInv, ValuesAreStored, IsStored

\* A statement of a reading.
LEMMA StatementFollows ==
  ASSUME IInv, HistoryInv, NEW c \in Conns, NEW h, Follows(c, h),
         history' = [history EXCEPT ![c] = h],
         UNCHANGED <<links, rows, owner, setting, draft>>
  PROVE  HistoryInv'
<1>1. /\ DOMAIN history' = Conns /\ history'[c] = h
      /\ \A d \in Conns \ {c} : history'[d] = history[d]
  BY DEF HistoryInv
<1>2. Follows(c, h)'
  BY FollowsStill
<1>3. Follows(c, history[c])'
  BY <1>1, <1>2 DEF Follows
<1>4. HistoriesFollow'
  BY <1>1, <1>3, OthersFollow DEF HistoryInv, HistoriesFollow
<1> QED  BY <1>1, <1>4 DEF HistoryInv, ValuesAreStored, IsStored
LEMMA HeadFollows ==
  ASSUME IInv, HistoryInv, NEW c \in Conns, owner[c] \in Tenants, NEW unit, ReadHead(c, unit)
  PROVE  HistoryInv'
<1> DEFINE h == [unit |-> unit, step |-> "events", events |-> {}, measurements |-> {},
                 components |-> {},
                 since |-> [rows |-> RowsOf(c, unit, Tables),
                            components |-> Descendants(SeenLinks(c), unit)]]
<1>1. Follows(c, h)
  BY DEF ReadHead, Follows, IsReading, Steps
<1>2. history' = [history EXCEPT ![c] = h] /\ UNCHANGED <<links, rows, owner, setting, draft>>
  BY DEF ReadHead, committed
<1> HIDE DEF h
<1> QED  BY <1>1, <1>2, StatementFollows

\* The rows of a table are those of both that are in it.
LEMMA RowsOfOne ==
  ASSUME NEW c, NEW unit, NEW table \in Tables
  PROVE  RowsOf(c, unit, {table}) = Of(table, RowsOf(c, unit, Tables))
BY DEF RowsOf, Of

\* A statement changes its step and what it reads.
LEMMA ReadingWith ==
  ASSUME NEW h, IsReading(h), NEW next, NEW found
  PROVE  /\ [h EXCEPT !.step = next, !.events = found] =
              [unit |-> h.unit, step |-> next, events |-> found, measurements |-> h.measurements,
               components |-> h.components, since |-> h.since]
         /\ [h EXCEPT !.step = next, !.measurements = found] =
              [unit |-> h.unit, step |-> next, events |-> h.events, measurements |-> found,
               components |-> h.components, since |-> h.since]
         /\ [h EXCEPT !.step = next, !.components = found] =
              [unit |-> h.unit, step |-> next, events |-> h.events,
               measurements |-> h.measurements, components |-> found, since |-> h.since]
<1>1. PICK unit, step, events, measurements, components, since :
        h = [unit |-> unit, step |-> step, events |-> events, measurements |-> measurements,
             components |-> components, since |-> since]
  BY DEF IsReading
<1>2. PICK k : k = [unit |-> unit, step |-> next, events |-> events, measurements |-> measurements,
                    components |-> components, since |-> since]
  OBVIOUS
<1>3. [h EXCEPT !.step = next] = k
  BY <1>1, <1>2
<1>4. /\ [k EXCEPT !.events = found] =
           [unit |-> unit, step |-> next, events |-> found, measurements |-> measurements,
            components |-> components, since |-> since]
      /\ [k EXCEPT !.measurements = found] =
           [unit |-> unit, step |-> next, events |-> events, measurements |-> found,
            components |-> components, since |-> since]
      /\ [k EXCEPT !.components = found] =
           [unit |-> unit, step |-> next, events |-> events, measurements |-> measurements,
            components |-> found, since |-> since]
  BY <1>2
<1>5. /\ [h EXCEPT !.step = next, !.events = found] = [k EXCEPT !.events = found]
      /\ [h EXCEPT !.step = next, !.measurements = found] = [k EXCEPT !.measurements = found]
      /\ [h EXCEPT !.step = next, !.components = found] = [k EXCEPT !.components = found]
  BY <1>3
<1>6. /\ unit = h.unit /\ events = h.events /\ measurements = h.measurements
      /\ components = h.components /\ since = h.since
  BY <1>1
<1> QED  BY <1>4, <1>5, <1>6

LEMMA StatementsFollow ==
  ASSUME IInv, HistoryInv, NEW c \in Conns, history[c] # None,
         ReadEvents(c) \/ ReadMeasurements(c) \/ ReadComponents(c)
  PROVE  HistoryInv'
<1>1. PICK h : h = history[c]
  OBVIOUS
<1>2. Follows(c, h)
  BY <1>1 DEF HistoryInv, HistoriesFollow
<1>3. /\ RowsOf(c, h.unit, {"unit_event"}) = Of("unit_event", RowsOf(c, h.unit, Tables))
      /\ RowsOf(c, h.unit, {"measurement"}) = Of("measurement", RowsOf(c, h.unit, Tables))
  BY RowsOfOne DEF Tables
<1>4. IsReading(h) /\ h.since.rows \subseteq RowsOf(c, h.unit, Tables)
  BY <1>2 DEF Follows
<1>8. /\ owner[c] \in Tenants /\ setting[c] = owner[c]
      /\ SeenPoints(c) = PointsOf[owner[c]]
  BY <1>2, NoneIsNobody DEF Follows, IInv, ContextIsOwn, SeenPoints
<1>5. CASE ReadEvents(c)
  <2> DEFINE found == RowsOf(c, h.unit, {"unit_event"})
             k == [h EXCEPT !.step = "measurements", !["events"] = found]
  <2>1. /\ history' = [history EXCEPT ![c] = k] /\ h.step = "events"
        /\ UNCHANGED <<links, rows, owner, setting, draft>>
    BY <1>1, <1>5 DEF ReadEvents, Reads, committed
  <2>2. k = [h EXCEPT !.step = "measurements", !.events = found]
    OBVIOUS
  <2> HIDE DEF k
  <2>3. /\ k = [unit |-> h.unit, step |-> "measurements", events |-> found,
                measurements |-> h.measurements, components |-> h.components,
                since |-> h.since]
    BY <1>4, <2>2, ReadingWith
  <2>4. /\ found \subseteq RowsOf(c, h.unit, Tables) /\ Of("unit_event", h.since.rows) \subseteq found
        /\ \A r \in found : Readable(r)
    BY <1>3, <1>4 DEF Of, Readable
  <2> HIDE DEF found
  <2>5. Follows(c, k)
    BY <1>2, <2>1, <2>3, <2>4 DEF Follows, IsReading, Steps
  <2> QED  BY <2>1, <2>5, StatementFollows
<1>6. CASE ReadMeasurements(c)
  <2> DEFINE found == {r \in RowsOf(c, h.unit, {"measurement"}) : r.point \in SeenPoints(c)}
             k == [h EXCEPT !.step = "components", !["measurements"] = found]
  <2>1. /\ history' = [history EXCEPT ![c] = k] /\ h.step = "measurements"
        /\ UNCHANGED <<links, rows, owner, setting, draft>>
    BY <1>1, <1>6 DEF ReadMeasurements, Reads, committed
  <2>2. k = [h EXCEPT !.step = "components", !.measurements = found]
    OBVIOUS
  <2> HIDE DEF k
  <2>3. /\ k = [unit |-> h.unit, step |-> "components", events |-> h.events,
                measurements |-> found, components |-> h.components,
                since |-> h.since]
    BY <1>4, <2>2, ReadingWith
  <2>4. /\ found \subseteq RowsOf(c, h.unit, Tables)
        /\ {r \in Of("measurement", h.since.rows) : Readable(r)} \subseteq found
        /\ \A r \in found : Readable(r)
    <3>1. \A r \in RowsOf(c, h.unit, {"measurement"}) : r.tenant = owner[c] /\ r.table = "measurement"
      BY DEF RowsOf
    <3>2. Of("measurement", h.since.rows) \subseteq RowsOf(c, h.unit, {"measurement"})
      BY <1>3, <1>4 DEF Of
    <3>3. RowsOf(c, h.unit, {"measurement"}) \subseteq RowsOf(c, h.unit, Tables)
      BY <1>3 DEF Of
    <3> QED  BY <1>8, <3>1, <3>2, <3>3 DEF Readable
  <2> HIDE DEF found
  <2>5. Follows(c, k)
    BY <1>2, <2>1, <2>3, <2>4 DEF Follows, IsReading, Steps
  <2> QED  BY <2>1, <2>5, StatementFollows
<1>7. CASE ReadComponents(c)
  <2> DEFINE found == Descendants(SeenLinks(c), h.unit)
             k == [h EXCEPT !.step = "done", !["components"] = found]
  <2>1. /\ history' = [history EXCEPT ![c] = k] /\ h.step = "components"
        /\ UNCHANGED <<links, rows, owner, setting, draft>>
    BY <1>1, <1>7 DEF ReadComponents, Reads, committed
  <2>2. k = [h EXCEPT !.step = "done", !.components = found]
    OBVIOUS
  <2> HIDE DEF k
  <2>3. /\ k = [unit |-> h.unit, step |-> "done", events |-> h.events,
                measurements |-> h.measurements, components |-> found,
                since |-> h.since]
    BY <1>4, <2>2, ReadingWith
  <2>4. h.since.components \subseteq found
    BY <1>2 DEF Follows
  <2>5. found = Descendants(SeenLinks(c), h.unit)
    OBVIOUS
  <2> HIDE DEF found
  <2>6. Follows(c, k)
    BY <1>2, <2>1, <2>3, <2>4, <2>5 DEF Follows, IsReading, Steps
  <2> QED  BY <2>1, <2>6, StatementFollows
<1> QED  BY <1>5, <1>6, <1>7

LEMMA LinkFollows ==
  ASSUME IInv, HistoryInv, NEW c \in Conns, NEW l \in LinkRecords, Link(c, l)
  PROVE  HistoryInv'
<1>1. draft[c] \in Drafts
  BY DEF IInv, DraftsAreTyped
<1>2. PICK d : d = [draft[c] EXCEPT !.links = @ \cup {l}]
  OBVIOUS
<1>3. d \in Drafts /\ d.rows = draft[c].rows
  BY <1>1, <1>2 DEF Drafts
<1>4. draft' = [draft EXCEPT ![c] = d] /\ MayWrite(c)
      /\ UNCHANGED <<links, rows, owner, setting, history>>
  BY <1>2 DEF Link, committed
<1> QED  BY <1>3, <1>4, WritesFollow

LEMMA AppendRowFollows ==
  ASSUME IInv, IInv', HistoryInv, NEW c \in Conns, NEW unit, NEW table, NEW month, NEW value, NEW point,
         table = "measurement" => value \in Values,
         AppendRow(c, unit, table, month, value, point)
  PROVE  HistoryInv'
<1>1. PICK row : row = [tenant |-> owner[c], unit |-> unit, table |-> table, month |-> month,
                        seq  |-> Cardinality(RowsOf(c, unit, Tables)),
                        part |-> PartitionFor(month),
                        cols |-> IF table = "measurement" THEN Columns(value) ELSE None,
                        point |-> point]
  OBVIOUS
<1>2. IsStored(row)
  BY <1>1 DEF IsStored
<1>3. PICK d : d = [draft[c] EXCEPT !.rows = @ \cup {row}]
  OBVIOUS
<1>4. draft' = [draft EXCEPT ![c] = d] /\ MayWrite(c)
      /\ UNCHANGED <<links, rows, owner, setting, history>>
  BY <1>1, <1>3 DEF AppendRow, committed
<1>5. draft[c] \in Drafts /\ DOMAIN draft = Conns
  BY DEF IInv, DraftsAreTyped
<1>6. d.rows = draft[c].rows \cup {row}
  BY <1>3, <1>5 DEF Drafts
<1>7. draft'[c] \in Drafts /\ draft'[c] = d
  BY <1>4, <1>5 DEF IInv, DraftsAreTyped, Drafts
<1> QED  BY <1>2, <1>4, <1>6, <1>7, WritesFollow

LEMMA HistoryInvStep == IInv /\ IInv' /\ HistoryInv /\ [Next]_vars => HistoryInv'
<1> SUFFICES ASSUME IInv, IInv', HistoryInv, [Next]_vars PROVE HistoryInv'
  OBVIOUS
<1>1. CASE UNCHANGED vars \/ EnsurePartitions \/ NextMonth
  BY <1>1, CalendarFollows DEF vars, committed, EnsurePartitions, NextMonth
<1>2. ASSUME NEW c \in Conns, Work(c) PROVE HistoryInv'
  <2>1. CASE Commit(c) \/ Rollback(c) \/ \E t \in Tenants : Tenant(c, t) \/ ProvisionTenant(c, t)
    BY <2>1, BoundsFollow
  <2>2. ASSUME owner[c] \in Tenants, NEW u \in UnitsOf[owner[c]], ReadHead(c, u)
        PROVE  HistoryInv'
    BY <2>2, HeadFollows
  <2>3. ASSUME owner[c] \in Tenants, NEW u \in UnitsOf[owner[c]], NEW child \in UnitsOf[owner[c]],
               LinkChildUnit(c, u, child)
        PROVE  HistoryInv'
    <3>1. [tenant |-> owner[c], parent |-> u, child |-> child, lot |-> None] \in LinkRecords
      BY <2>3 DEF LinkRecords, Units
    <3> QED  BY <2>3, <3>1, LinkFollows DEF LinkChildUnit
  <2>4. ASSUME owner[c] \in Tenants, NEW u \in UnitsOf[owner[c]], NEW lot \in Lots,
               LinkLot(c, u, lot)
        PROVE  HistoryInv'
    <3>1. [tenant |-> owner[c], parent |-> u, child |-> None, lot |-> lot] \in LinkRecords
      BY <2>4 DEF LinkRecords, Units
    <3> QED  BY <2>4, <3>1, LinkFollows DEF LinkLot
  <2>5. ASSUME NEW u \in UnitsOf[owner[c]], NEW m \in DeviceMonths, NEW v \in Values,
               NEW p \in NamedBy[owner[c]], AppendRow(c, u, "measurement", m, v, p)
        PROVE  HistoryInv'
    BY <2>5, AppendRowFollows
  <2>6. ASSUME NEW u \in UnitsOf[owner[c]], AppendRow(c, u, "unit_event", today, None, None)
        PROVE  HistoryInv'
    BY <2>6, AppendRowFollows
  <2>7. CASE history[c] # None /\ (ReadEvents(c) \/ ReadMeasurements(c) \/ ReadComponents(c))
    BY <2>7, StatementsFollow
  <2> QED  BY <1>2, <2>1, <2>2, <2>3, <2>4, <2>5, <2>6, <2>7 DEF Work
<1> QED  BY <1>1, <1>2 DEF Next

\* What a value is stored as is read as that value.
LEMMA ValuesAreRead == ASSUME NEW v \in Values PROVE ValueFromColumns(Columns(v)) = v
<1>1. IsValue(v)
  BY ValuesAssumption
<1>2. CASE v.datatype = "NUMERIC"
  BY <1>2 DEF Columns, ValueFromColumns
<1>3. CASE v.datatype \in {"TEXT", "BARCODE"}
  BY <1>1, <1>3 DEF IsValue, Columns, ValueFromColumns
<1>4. CASE v.datatype = "BOOLEAN"
  BY <1>1, <1>4 DEF IsValue, Columns, ValueFromColumns
<1> QED  BY <1>1, <1>2, <1>3, <1>4 DEF IsValue

\* unit_history holds everything that was committed when it began but the readings
\* whose point is not on record, and nothing that is not committed, whatever stations
\* commit between its four statements; and every value that is stored can be read
\* back.
THEOREM HistoryIsWhole == Spec => []HistoryHoldsCommitted
<1>1. IInv /\ HistoryInv => HistoryHoldsCommitted
  <2> SUFFICES ASSUME IInv, HistoryInv, NEW c \in Conns, history[c] # None
               PROVE  LET h     == history[c]
                          found == h.events \cup h.measurements
                      IN  /\ \A r \in rows : r.table = "measurement" => ValueFromColumns(r.cols) \in Values
                          /\ h.step = "done" => /\ {r \in h.since.rows : Readable(r)} \subseteq found
                                                /\ found \subseteq {r \in rows : Readable(r)}
                                                /\ h.since.components \subseteq h.components
                                                /\ h.components \subseteq Descendants(links, h.unit)
    BY DEF HistoryHoldsCommitted
  <2>1. PICK h : h = history[c]
    OBVIOUS
  <2>2. Follows(c, h)
    BY <2>1 DEF HistoryInv, HistoriesFollow
  <2>3. ASSUME NEW r \in rows, r.table = "measurement"
        PROVE  ValueFromColumns(r.cols) \in Values
    <3>1. PICK v \in Values : r.cols = Columns(v)
      BY <2>3 DEF HistoryInv, ValuesAreStored, IsStored
    <3>2. ValueFromColumns(r.cols) = v
      BY <3>1, ValuesAreRead
    <3> QED  BY <3>2
  <2>4. /\ RowsOf(c, h.unit, Tables) \subseteq rows
        /\ \A r \in RowsOf(c, h.unit, Tables) : r.table \in Tables
    BY <2>2 DEF Follows, RowsOf, SeenRows, Visible, Nothing
  <2>5. Descendants(SeenLinks(c), h.unit) \subseteq Descendants(links, h.unit)
    <3>1. draft[c].links = {}
      BY <2>2 DEF Follows, Nothing
    <3>2. SeenLinks(c) \subseteq links
      BY <3>1 DEF SeenLinks, Visible
    <3> QED  BY <3>2, DescendantsGrow
  <2>6. ASSUME h.step = "done"
        PROVE  /\ {r \in h.since.rows : Readable(r)} \subseteq h.events \cup h.measurements
               /\ h.events \cup h.measurements \subseteq {r \in rows : Readable(r)}
               /\ h.since.components \subseteq h.components
               /\ h.components \subseteq Descendants(links, h.unit)
    BY <2>2, <2>4, <2>5, <2>6 DEF Follows, Of, Tables
  <2> QED  BY <2>1, <2>3, <2>6
<1> QED  BY <1>1, InitIInv, IInvStep, InitHistoryInv, HistoryInvStep, PTL DEF Spec
=============================================================================
