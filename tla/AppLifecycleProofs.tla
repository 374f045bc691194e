------------------------- MODULE AppLifecycleProofs -------------------------
(***************************************************************************)
(* The boot order of modular.Registry is right for any set of modules and  *)
(* any declared dependencies.  bootstrap.App uses the registry as          *)
(* ModuleOrder describes it, so its boot order is right, and modules start *)
(* after the modules they depend on.  A New that fails leaves nothing      *)
(* open, and nothing is closed under work that still runs.                 *)
(***************************************************************************)
EXTENDS AppLifecycle, FiniteSetTheorems, SequenceTheorems,
        WellFoundedInduction, TLAPS

-----------------------------------------------------------------------------
\* The registry

\* No name occurs twice in s.
Distinct(s) == \A i, j \in DOMAIN s : i # j => s[i] # s[j]

\* The positions of m's DependsOn() that name a module not sorted yet.
Waits(m) == {i \in DOMAIN dependsOn[m] : dependsOn[m][i] \notin Elements(sorted)}

\* What the loop of topologicalSort maintains.
SortInv ==
  /\ ~Unregistered
  /\ Distinct(sorted) /\ Distinct(queue)
  /\ Elements(sorted) \cap Elements(queue) = {}
  /\ Elements(sorted) \cup Elements(queue) \subseteq Elements(registered)
  /\ \A m \in Elements(registered) :
       /\ inDegree[m] = Cardinality(Waits(m))
       /\ inDegree[m] = 0 <=> m \in Elements(sorted) \cup Elements(queue)
  /\ Ordered

OrderType ==
  /\ dependsOn \in [Modules -> Seq(Modules)]
  /\ registered \in Seq(Modules)
  /\ queue \in Seq(Modules)
  /\ sorted \in Seq(Modules)
  /\ inDegree \in [Modules -> Int]

\* The inductive invariant of the registry.
OrderInv ==
  /\ OrderType
  /\ Distinct(registered)
  /\ outcome = "none" => sorted = <<>>
  /\ outcome = "sorting" => SortInv
  /\ OrderIsRight

\* A sequence without repetition is as long as the set of its elements is
\* large: what the comparison of len(sorted) with len(r.modules) rests on.
LEMMA DistinctLen ==
  ASSUME NEW S, NEW s \in Seq(S), Distinct(s)
  PROVE  IsFiniteSet(Elements(s)) /\ Cardinality(Elements(s)) = Len(s)
<1>1. DOMAIN s = 1..Len(s) /\ Len(s) \in Nat
  OBVIOUS
<1>2. s \in Bijection(1..Len(s), Elements(s))
  <2>1. s \in [1..Len(s) -> Elements(s)]
    BY <1>1 DEF Elements
  <2>2. \A a, b \in 1..Len(s) : s[a] = s[b] => a = b
    BY Zenon, <1>1 DEF Distinct
  <2>3. \A t \in Elements(s) : \E a \in 1..Len(s) : s[a] = t
    BY Zenon, <1>1 DEF Elements
  <2> QED BY Zenon, <2>1, <2>2, <2>3 DEF Bijection, Injection, Surjection, IsInjective
<1>3. ExistsBijection(1..Len(s), Elements(s))
  BY Zenon, <1>2 DEF ExistsBijection
<1>4. IsFiniteSet(1..Len(s))
  BY <1>1, FS_Interval
<1> QED BY Zenon, <1>1, <1>3, <1>4, FS_CountingElements, FS_Bijection

\* A nonempty set of naturals has a least member.
LEMMA Least ==
  ASSUME NEW T \in SUBSET Nat, T # {}
  PROVE  \E x \in T : \A y \in T : x <= y
<1>1. \E x \in T : \A y \in T : <<y, x>> \notin OpToRel(<, Nat)
  BY Zenon, NatLessThanWellFounded, WFMin
<1>2. \A x, y \in Nat : y < x => <<y, x>> \in OpToRel(<, Nat)
  BY Zenon DEF OpToRel
<1>3. \E x \in T : \A y \in T : ~(y < x)
  BY Zenon, <1>1, <1>2, Zenon
<1> QED BY <1>3

\* The modules of a complete order form no cycle: of the members of a cycle
\* the first in the order would come before one of its dependencies.
LEMMA OrderedIsAcyclic ==
  ASSUME OrderType, Ordered, Elements(sorted) = Elements(registered),
         Distinct(sorted)
  PROVE  ~Cyclic
<1> SUFFICES ASSUME NEW S \in SUBSET Elements(registered), S # {},
                    \A m \in S : Elements(dependsOn[m]) \cap S # {}
             PROVE  FALSE
  BY Zenon DEF Cyclic
<1> DEFINE T == {i \in DOMAIN sorted : sorted[i] \in S}
<1>1. DOMAIN sorted = 1..Len(sorted) /\ Len(sorted) \in Nat
  BY DEF OrderType
<1>2. T \in SUBSET Nat /\ T # {}
  <2>1. PICK m \in S : TRUE
    BY Zenon
  <2>2. PICK i \in DOMAIN sorted : sorted[i] = m
    BY Zenon DEF Elements
  <2> QED BY <1>1, <2>2
<1>3. PICK i \in T : \A j \in T : i <= j
  BY Zenon, <1>2, Least
<1>4. PICK d \in Elements(dependsOn[sorted[i]]) : d \in S
  BY Zenon
<1>5. PICK j \in 1..(i - 1) : sorted[j] = d
  BY Zenon DEF Ordered
<1>6. j \in T /\ j < i
  BY <1>1, <1>2, <1>4, <1>5
<1> QED BY <1>1, <1>3, <1>6

\* Listings yields sequences without repetition that have exactly the given
\* elements, if these are finitely many.
LEMMA ListingElements ==
  ASSUME NEW S, IsFiniteSet(S), NEW s \in Listings(S)
  PROVE  s \in Seq(S) /\ Distinct(s) /\ Elements(s) = S
<1>1. Cardinality(S) \in Nat
  BY Zenon, FS_CardinalityType
<1>2. s \in [1..Cardinality(S) -> S] /\ Distinct(s)
  BY Zenon DEF Listings, Distinct
<1>3. s \in Seq(S) /\ Len(s) = Cardinality(S)
  BY <1>1, <1>2
<1>4. Elements(s) \in SUBSET S
  BY Zenon, <1>2 DEF Elements
<1> QED BY Zenon, <1>2, <1>3, <1>4, DistinctLen, FS_Subset

\* Joining two sequences that share no element.
LEMMA ConcatDistinct ==
  ASSUME NEW S, NEW s \in Seq(S), NEW t \in Seq(S), Distinct(s), Distinct(t),
         Elements(s) \cap Elements(t) = {}
  PROVE  /\ s \o t \in Seq(S) /\ Distinct(s \o t)
         /\ Elements(s \o t) = Elements(s) \cup Elements(t)
<1> DEFINE u == s \o t
<1>1. /\ u \in Seq(S) /\ DOMAIN u = 1..(Len(s) + Len(t))
      /\ DOMAIN s = 1..Len(s) /\ DOMAIN t = 1..Len(t)
      /\ Len(s) \in Nat /\ Len(t) \in Nat
      /\ \A i \in 1..Len(s) : u[i] = s[i]
      /\ \A i \in 1..Len(t) : u[Len(s) + i] = t[i]
      /\ \A i \in (Len(s) + 1)..(Len(s) + Len(t)) : u[i] = t[i - Len(s)]
  BY ConcatProperties
<1> HIDE DEF u
<1>2. Elements(s) \subseteq Elements(u)
  BY <1>1 DEF Elements
<1>3. Elements(t) \subseteq Elements(u)
  <2> SUFFICES ASSUME NEW i \in DOMAIN t PROVE t[i] \in Elements(u)
    BY Zenon DEF Elements
  <2>1. Len(s) + i \in DOMAIN u /\ u[Len(s) + i] = t[i]
    BY <1>1
  <2> QED BY Zenon, <2>1 DEF Elements
<1>4. \A i \in DOMAIN u : \/ i \in DOMAIN s /\ u[i] = s[i]
                          \/ i - Len(s) \in DOMAIN t /\ u[i] = t[i - Len(s)]
  BY <1>1
<1>5. Elements(u) \subseteq Elements(s) \cup Elements(t)
  BY Zenon, <1>4 DEF Elements
<1>6. Distinct(u)
  <2> SUFFICES ASSUME NEW i \in DOMAIN u, NEW j \in DOMAIN u, i # j
               PROVE  u[i] # u[j]
    BY Zenon DEF Distinct
  <2>1. CASE i \in DOMAIN s /\ u[i] = s[i] /\ j \in DOMAIN s /\ u[j] = s[j]
    BY Zenon, <2>1 DEF Distinct
  <2>2. CASE /\ i - Len(s) \in DOMAIN t /\ u[i] = t[i - Len(s)]
             /\ j - Len(s) \in DOMAIN t /\ u[j] = t[j - Len(s)]
    BY <1>1, <2>2 DEF Distinct
  <2>3. \A a \in DOMAIN s : \A b \in DOMAIN t : s[a] # t[b]
    BY Zenon DEF Elements
  <2> QED BY ZenonT(60), <1>4, <2>1, <2>2, <2>3
<1> QED BY Zenon, <1>1, <1>2, <1>3, <1>5, <1>6 DEF u

\* Unregistered and Cyclic depend on what is registered and declared only.
LEMMA SameGraph ==
  ASSUME dependsOn' = dependsOn, registered' = registered
  PROVE  (Unregistered' <=> Unregistered) /\ (Cyclic' <=> Cyclic)
<1>1. Unregistered' <=> Unregistered
  BY Zenon DEF Unregistered
<1>2. Cyclic' <=> Cyclic
  BY Zenon DEF Cyclic
<1> QED BY Zenon, <1>1, <1>2

\* Ordered depends on the order and on what is declared only.
LEMMA SameOrder ==
  ASSUME dependsOn' = dependsOn, sorted' = sorted
  PROVE  Ordered' <=> Ordered
BY DEF Ordered

\* OrderInit establishes the invariant, whatever the modules declare.
LEMMA OrderInitInv ==
  ASSUME OrderInit, dependsOn \in [Modules -> Seq(Modules)]
  PROVE  OrderInv
BY DEF OrderInit, OrderInv, OrderType, Distinct, OrderIsRight

\* Registry.Register preserves the invariant: a new name is appended.
LEMMA RegisterInv ==
  ASSUME OrderInv, NEW name \in Modules, Register(name)
  PROVE  OrderInv'
<1>1. CASE name \in Elements(registered)
  BY Zenon, <1>1 DEF OrderInv, OrderType, Register, OrderIsRight
<1>2. CASE name \notin Elements(registered)
  <2>1. registered' = Append(registered, name) /\ registered \in Seq(Modules)
    BY Zenon, <1>2 DEF Register, OrderInv, OrderType
  <2>2. /\ registered' \in Seq(Modules)
        /\ DOMAIN registered' = 1..(Len(registered) + 1)
        /\ DOMAIN registered = 1..Len(registered)
        /\ \A i \in 1..Len(registered) : registered'[i] = registered[i]
        /\ registered'[Len(registered) + 1] = name
    BY <2>1
  <2>3. Distinct(registered')
    BY <1>2, <2>2 DEF OrderInv, Distinct, Elements
  <2> QED BY Zenon, <1>2, <2>2, <2>3 DEF Register, OrderInv, OrderType, OrderIsRight
<1> QED BY Zenon, <1>1, <1>2

\* Modules() up to Kahn's loop: without dependencies any order is right,
\* and otherwise the loop starts with the modules that have none.
LEMMA BeginSortInv ==
  ASSUME OrderInv, BeginSort
  PROVE  OrderInv'
<1>t. /\ OrderType /\ Distinct(registered) /\ sorted = <<>>
      /\ DOMAIN registered = 1..Len(registered)
      /\ Elements(registered) \subseteq Modules
      /\ dependsOn' = dependsOn /\ registered' = registered
  BY DEF OrderInv, OrderType, BeginSort, Elements
<1>u. (Unregistered' <=> Unregistered) /\ (Cyclic' <=> Cyclic)
  BY Zenon, <1>t, SameGraph
<1>1. CASE ~hasDependencies
  <2>1. sorted' = registered /\ outcome' = "ok" /\ UNCHANGED <<inDegree, queue>>
    BY ZenonT(60), <1>1 DEF BeginSort
  <2>2. \A m \in Elements(registered) : Elements(dependsOn[m]) = {}
    BY <1>1 DEF hasDependencies, Elements
  <2>3. ~Unregistered /\ ~Cyclic
    BY Zenon, <2>2 DEF Unregistered, Cyclic
  <2>4. \A i \in DOMAIN registered : registered[i] \in Elements(registered)
    BY Zenon DEF Elements
  <2>5. OrderIsRight'
    <3>1. Ordered'
      BY ZenonT(60), <1>t, <2>1, <2>2, <2>4 DEF Ordered
    <3> QED BY ZenonT(60), <1>t, <1>u, <2>1, <2>3, <3>1 DEF OrderIsRight
  <2> QED BY ZenonT(60), <1>t, <2>1, <2>5 DEF OrderInv, OrderType, Distinct
<1>2. CASE hasDependencies /\ Unregistered
  BY ZenonT(60), <1>t, <1>u, <1>2 DEF BeginSort, OrderInv, OrderType, OrderIsRight, Distinct
<1>3. CASE hasDependencies /\ ~Unregistered
  <2> DEFINE Roots == {m \in Elements(registered) : dependsOn[m] = <<>>}
  <2>1. /\ inDegree' = [m \in Modules |-> IF m \in Elements(registered)
                                          THEN Len(dependsOn[m]) ELSE 0]
        /\ queue' \in Listings(Roots)
        /\ outcome' = "sorting"
        /\ sorted' = <<>>
    BY Zenon, <1>t, <1>3 DEF BeginSort
  <2>2. IsFiniteSet(Roots)
    <3>1. IsFiniteSet(Elements(registered))
      BY Zenon, <1>t, DistinctLen DEF OrderType
    <3> QED BY Zenon, <3>1, FS_Subset
  <2>3. queue' \in Seq(Roots) /\ Distinct(queue') /\ Elements(queue') = Roots
    BY ZenonT(60), <2>1, <2>2, ListingElements
  <2>4. queue' \in Seq(Modules)
    BY <1>t, <2>3
  <2>5. ASSUME NEW m \in Elements(registered)
        PROVE  /\ inDegree'[m] = Cardinality(Waits(m)')
               /\ inDegree'[m] = 0 <=> m \in Roots
    <3>1. dependsOn[m] \in Seq(Modules) /\ m \in Modules
      BY Zenon, <1>t DEF OrderType
    <3>2. Waits(m)' = 1..Len(dependsOn[m])
      BY <1>t, <2>1, <3>1 DEF Waits, Elements
    <3>3. Cardinality(1..Len(dependsOn[m])) = Len(dependsOn[m])
      BY <3>1, FS_Interval
    <3> QED BY <2>1, <3>1, <3>2, <3>3
  <2>6. SortInv'
    <3>1. Elements(sorted') = {} /\ DOMAIN sorted' = {}
      BY <2>1 DEF Elements
    <3> QED BY <1>t, <1>u, <1>3, <2>3, <2>5, <3>1
            DEF SortInv, Distinct, Ordered, Elements
  <2> QED BY <1>t, <2>1, <2>4, <2>6 DEF OrderInv, OrderType, OrderIsRight, Distinct
<1> QED BY ZenonT(60), <1>1, <1>2, <1>3

\* A round of the loop preserves the invariant.  The head of the queue
\* waits for nothing, so it may be sorted; the modules it releases are
\* those whose count of unsorted dependencies drops to zero.
LEMMA SortNextInv ==
  ASSUME OrderInv, SortNext
  PROVE  OrderInv'
<1> DEFINE h == Head(queue)
           R == Elements(registered)
           Done == Elements(sorted)
           Q == Elements(queue)
<1>t. /\ OrderType /\ SortInv /\ Distinct(registered)
      /\ outcome = "sorting" /\ outcome' = "sorting" /\ queue # <<>>
      /\ dependsOn' = dependsOn /\ registered' = registered
      /\ sorted' = Append(sorted, h)
  BY Zenon DEF OrderInv, SortNext
<1>f. IsFiniteSet(R) /\ R \subseteq Modules
  <2>1. registered \in Seq(Modules)
    BY Zenon, <1>t DEF OrderType
  <2>2. R \subseteq Modules
    BY <2>1 DEF Elements
  <2> QED BY Zenon, <1>t, <2>1, <2>2, DistinctLen
<1>q. /\ Tail(queue) \in Seq(Modules) /\ h \in Modules /\ h \in Q
      /\ Elements(Tail(queue)) = Q \ {h}
      /\ Distinct(Tail(queue))
  <2>1. /\ queue \in Seq(Modules) /\ h = queue[1] /\ Len(queue) \in Nat \ {0}
        /\ DOMAIN queue = 1..Len(queue)
        /\ Tail(queue) \in Seq(Modules)
        /\ DOMAIN Tail(queue) = 1..(Len(queue) - 1)
        /\ \A i \in 1..(Len(queue) - 1) : Tail(queue)[i] = queue[i + 1]
    BY <1>t DEF OrderType
  <2>2. Distinct(queue)
    BY Zenon, <1>t DEF SortInv
  <2>3. Elements(Tail(queue)) \subseteq Q \ {h}
    BY <2>1, <2>2 DEF Elements, Distinct
  <2>4. ASSUME NEW m \in Q \ {h} PROVE m \in Elements(Tail(queue))
    <3>1. PICK i \in DOMAIN queue : queue[i] = m
      BY Zenon DEF Elements
    <3>2. i - 1 \in DOMAIN Tail(queue) /\ Tail(queue)[i - 1] = m
      BY <2>1, <3>1
    <3> QED BY Zenon, <3>2 DEF Elements
  <2>5. Distinct(Tail(queue))
    BY <2>1, <2>2 DEF Distinct
  <2>6. h \in Modules /\ h \in Q
    BY <2>1 DEF Elements
  <2>7. Elements(Tail(queue)) = Q \ {h}
    BY Zenon, <2>3, <2>4
  <2> QED BY Zenon, <2>1, <2>5, <2>6, <2>7
<1>h. h \notin Done /\ h \in R /\ inDegree[h] = 0
  BY Zenon, <1>t, <1>q DEF SortInv
<1>s. /\ sorted \in Seq(Modules) /\ sorted' \in Seq(Modules)
      /\ DOMAIN sorted = 1..Len(sorted) /\ Len(sorted) \in Nat
      /\ DOMAIN sorted' = 1..(Len(sorted) + 1)
      /\ \A i \in 1..Len(sorted) : sorted'[i] = sorted[i]
      /\ sorted'[Len(sorted) + 1] = h
  BY <1>t, <1>q DEF OrderType
<1>e. Elements(sorted') = Done \cup {h}
  BY <1>s DEF Elements
<1>d. Distinct(sorted')
  BY <1>s, <1>h, <1>t DEF SortInv, Distinct, Elements
<1>w. ASSUME NEW m \in R
      PROVE  /\ IsFiniteSet(Waits(m)) /\ Cardinality(Waits(m)) \in Nat
             /\ Waits(m)' \subseteq Waits(m)
             /\ Occurrences(h, m) \in Nat
             /\ Cardinality(Waits(m)') = Cardinality(Waits(m)) - Occurrences(h, m)
  <2> DEFINE H == {i \in DOMAIN dependsOn[m] : dependsOn[m][i] = h}
  <2>1. IsFiniteSet(DOMAIN dependsOn[m])
    <3>1. dependsOn[m] \in Seq(Modules)
      BY Zenon, <1>t, <1>f DEF OrderType
    <3>2. /\ DOMAIN dependsOn[m] = 1..Len(dependsOn[m])
          /\ Len(dependsOn[m]) \in Int /\ 1 \in Int
      BY <3>1
    <3> QED BY Zenon, <3>2, FS_Interval
  <2>2. IsFiniteSet(Waits(m)) /\ IsFiniteSet(H)
    BY Zenon, <2>1, FS_Subset DEF Waits
  <2>3. Waits(m)' = Waits(m) \ H
    BY Zenon, <1>t, <1>e DEF Waits
  <2>4. Waits(m) \cap H = H
    BY Zenon, <1>h DEF Waits
  <2>5. Cardinality(Waits(m) \ H) = Cardinality(Waits(m)) - Cardinality(H)
    <3>1. Cardinality(Waits(m) \ H) = Cardinality(Waits(m)) - Cardinality(Waits(m) \cap H)
      BY Zenon, <2>2, FS_Difference
    <3> QED BY Zenon, <2>4, <3>1
  <2> QED BY Zenon, <2>2, <2>3, <2>5, FS_CardinalityType DEF Occurrences
<1>r. PICK released \in Listings(Released(h)) : queue' = Tail(queue) \o released
  BY Zenon DEF SortNext
<1>l. /\ released \in Seq(Modules) /\ Distinct(released)
      /\ Elements(released) = Released(h)
  <2>1. Released(h) \in SUBSET R
    BY Zenon DEF Released
  <2>2. IsFiniteSet(Released(h))
    BY Zenon, <1>f, <2>1, FS_Subset
  <2>3. released \in Seq(Released(h)) /\ Distinct(released)
        /\ Elements(released) = Released(h)
    BY Zenon, <2>2, ListingElements
  <2> QED BY <1>f, <2>1, <2>3
<1>i. /\ inDegree' \in [Modules -> Int]
      /\ \A m \in R : inDegree'[m] = inDegree[m] - Occurrences(h, m)
  <2>1. \A m \in R : Occurrences(h, m) \in Int
    BY <1>w
  <2>2. inDegree' = [m \in Modules |-> inDegree[m] -
                       IF m \in R THEN Occurrences(h, m) ELSE 0]
    BY Zenon DEF SortNext
  <2>3. inDegree \in [Modules -> Int]
    BY Zenon, <1>t DEF OrderType
  <2> QED BY <1>f, <2>1, <2>2, <2>3
<1>c. \A m \in R : inDegree[m] = Cardinality(Waits(m))
  BY Zenon, <1>t DEF SortInv
<1>z. \A m \in R : inDegree[m] = 0 <=> m \in Done \cup Q
  BY Zenon, <1>t DEF SortInv
<1>a. Released(h) \cap (Done \cup Q) = {}
  BY <1>z, <1>w, <1>c DEF Released
<1>b. /\ queue' \in Seq(Modules) /\ Distinct(queue')
      /\ Elements(queue') = (Q \ {h}) \cup Released(h)
  <2> DEFINE t == Tail(queue)
  <2>1. /\ t \in Seq(Modules) /\ Elements(t) = Q \ {h} /\ Distinct(t)
        /\ released \in Seq(Modules) /\ Distinct(released)
        /\ Elements(released) = Released(h)
        /\ queue' = t \o released
        /\ Elements(t) \cap Elements(released) = {}
    BY ZenonT(60), <1>q, <1>l, <1>r, <1>a
  <2> HIDE DEF t
  <2>2. queue' \in Seq(Modules) /\ Elements(queue') = Elements(t) \cup Elements(released)
        /\ Distinct(queue')
    BY <2>1, ConcatDistinct
  <2> QED BY Zenon, <2>1, <2>2
<1>1. ASSUME NEW m \in R
      PROVE  /\ inDegree'[m] = Cardinality(Waits(m)')
             /\ inDegree'[m] = 0 <=> m \in Elements(sorted') \cup Elements(queue')
  <2>1. inDegree'[m] = Cardinality(Waits(m)')
    BY Zenon, <1>i, <1>w, <1>c
  <2>2. CASE m \in Done \cup Q
    <3>1. Waits(m) = {}
      BY ZenonT(60), <1>w, <1>c, <1>z, <2>2, FS_EmptySet
    <3>2. Waits(m)' = {}
      BY Zenon, <1>w, <3>1
    <3> QED BY <2>1, <2>2, <3>2, <1>e, <1>b, FS_EmptySet
  <2>3. CASE m \notin Done \cup Q
    <3>1. inDegree[m] \in Nat /\ inDegree[m] # 0
      BY Zenon, <1>w, <1>c, <1>z, <2>3
    <3>2. inDegree'[m] = 0 <=> m \in Released(h)
      BY <1>i, <1>w, <3>1 DEF Released
    <3> QED BY ZenonT(60), <2>1, <2>3, <3>2, <1>e, <1>b, <1>q
  <2> QED BY ZenonT(60), <2>2, <2>3, <2>1
<1>2. Ordered'
  <2> SUFFICES ASSUME NEW i \in DOMAIN sorted',
                      NEW d \in Elements(dependsOn[sorted'[i]])
               PROVE  \E j \in 1..(i - 1) : sorted'[j] = d
    BY Zenon, <1>t DEF Ordered
  <2>1. CASE i \in DOMAIN sorted
    <3>1. PICK j \in 1..(i - 1) : sorted[j] = d
      BY ZenonT(60), <1>t, <1>s, <2>1 DEF SortInv, Ordered
    <3> QED BY <1>s, <2>1, <3>1
  <2>2. CASE i = Len(sorted) + 1
    <3>1. Waits(h) = {}
      BY ZenonT(60), <1>w, <1>c, <1>h, FS_EmptySet
    <3>2. d \in Done
      BY <1>s, <2>2, <3>1 DEF Waits, Elements
    <3>3. PICK j \in DOMAIN sorted : sorted[j] = d
      BY Zenon, <3>2 DEF Elements
    <3> QED BY <1>s, <2>2, <3>3
  <2> QED BY <1>s, <2>1, <2>2
<1>3. SortInv'
  <2>1. ~Unregistered'
    BY Zenon, <1>t, SameGraph DEF SortInv
  <2>2. Elements(sorted') \cap Elements(queue') = {}
    BY <1>e, <1>b, <1>a, <1>q, <1>t DEF SortInv
  <2>3. Elements(sorted') \cup Elements(queue') \subseteq Elements(registered')
    BY Zenon, <1>e, <1>b, <1>h, <1>t DEF SortInv, Released
  <2> QED BY ZenonT(60), <1>t, <1>d, <1>b, <2>1, <2>2, <2>3, <1>1, <1>2 DEF SortInv
<1> QED BY Zenon, <1>t, <1>s, <1>b, <1>i, <1>3 DEF OrderInv, OrderType, OrderIsRight

\* The end of the loop: if every module is sorted the order is right, and
\* otherwise each of the others waits for another of them.
LEMMA EndSortInv ==
  ASSUME OrderInv, EndSort
  PROVE  OrderInv'
<1> DEFINE R == Elements(registered)
           Done == Elements(sorted)
<1>t. /\ OrderType /\ SortInv /\ Distinct(registered) /\ queue = <<>>
      /\ UNCHANGED <<dependsOn, registered, inDegree, queue, sorted>>
      /\ outcome' = IF Len(sorted) = Len(registered) THEN "ok" ELSE "error"
  BY Zenon DEF OrderInv, EndSort
<1>u. (Unregistered' <=> Unregistered) /\ (Cyclic' <=> Cyclic)
  BY Zenon, <1>t, SameGraph
<1>l. /\ IsFiniteSet(R) /\ Cardinality(R) = Len(registered)
      /\ Cardinality(Done) = Len(sorted) /\ Done \in SUBSET R
  BY Zenon, <1>t, DistinctLen DEF OrderType, SortInv
<1>1. CASE Len(sorted) = Len(registered)
  <2>1. Done = R
    BY Zenon, <1>l, <1>1, FS_Subset
  <2>2. ~Unregistered /\ ~Cyclic
    BY Zenon, <1>t, <2>1, OrderedIsAcyclic DEF SortInv
  <2>3. Ordered
    BY Zenon, <1>t DEF SortInv
  <2>4. OrderIsRight'
    <3>1. Ordered'
      BY Zenon, <1>t, <2>3, SameOrder
    <3> QED BY Zenon, <1>t, <1>u, <1>1, <2>1, <2>2, <3>1 DEF OrderIsRight
  <2> QED BY Zenon, <1>t, <1>1, <2>4 DEF OrderInv, OrderType
<1>2. CASE Len(sorted) # Len(registered)
  <2> DEFINE S == R \ Done
  <2>1. S \in SUBSET R /\ S # {}
    <3>1. Done # R
      BY Zenon, <1>l, <1>2
    <3> QED BY Zenon, <1>l, <3>1
  <2>2. ASSUME NEW m \in S PROVE Elements(dependsOn[m]) \cap S # {}
    <3>1. m \notin Done \cup Elements(queue)
      BY <1>t DEF Elements
    <3>2. Cardinality(Waits(m)) # 0
      BY Zenon, <1>t, <3>1 DEF SortInv
    <3>3. PICK i \in DOMAIN dependsOn[m] : dependsOn[m][i] \notin Done
      BY Zenon, <3>2, FS_EmptySet DEF Waits
    <3>4. dependsOn[m][i] \in Elements(dependsOn[m])
      BY Zenon DEF Elements
    <3>5. dependsOn[m][i] \in R
      BY Zenon, <1>t, <3>4 DEF SortInv, Unregistered
    <3> QED BY Zenon, <3>3, <3>4, <3>5
  <2>3. Cyclic
    BY Zenon, <2>1, <2>2 DEF Cyclic
  <2> QED BY Zenon, <1>t, <1>u, <1>2, <2>3 DEF OrderInv, OrderType, OrderIsRight
<1> QED BY Zenon, <1>1, <1>2

\* Every step of the registry preserves the invariant.
LEMMA OrderStep ==
  ASSUME OrderInv, OrderNext \/ UNCHANGED orderVars
  PROVE  OrderInv'
<1>1. ASSUME NEW name \in Modules, Register(name) PROVE OrderInv'
  BY Zenon, <1>1, RegisterInv
<1>2. CASE BeginSort
  BY Zenon, <1>2, BeginSortInv
<1>3. CASE SortNext
  BY ZenonT(60), <1>3, SortNextInv
<1>4. CASE EndSort
  BY Zenon, <1>4, EndSortInv
<1>5. CASE UNCHANGED orderVars
  <2>1. (Unregistered' <=> Unregistered) /\ (Cyclic' <=> Cyclic)
    BY Zenon, <1>5, SameGraph DEF orderVars
  <2>2. \A m : Waits(m)' = Waits(m)
    BY Zenon, <1>5 DEF orderVars, Waits
  <2>3. SortInv => SortInv'
    BY <1>5, <2>1, <2>2 DEF orderVars, SortInv, Ordered
  <2>4. OrderIsRight'
    <3>1. Ordered' <=> Ordered
      BY Zenon, <1>5, SameOrder DEF orderVars
    <3> QED BY Zenon, <1>5, <2>1, <3>1 DEF orderVars, OrderInv, OrderIsRight
  <2> QED BY Zenon, <1>5, <2>3, <2>4 DEF orderVars, OrderInv, OrderType
<1> QED BY Zenon, <1>1, <1>2, <1>3, <1>4, <1>5 DEF OrderNext

\* Registry.Modules(), for every set of modules and every DependsOn():
\* it returns an order in which each registered module comes once and
\* after its dependencies exactly when there is such an order.
THEOREM RegistryOrderIsRight == OrderSpec => []OrderIsRight
<1>1. OrderInit /\ dependsOn \in [Modules -> Seq(Modules)] => OrderInv
  BY Zenon, OrderInitInv
<1>2. OrderInv /\ [OrderNext]_orderVars => OrderInv'
  BY Zenon, OrderStep
<1>3. OrderInv => OrderIsRight
  BY Zenon DEF OrderInv
<1> QED BY <1>1, <1>2, <1>3, PTL DEF OrderSpec

-----------------------------------------------------------------------------
\* The modules of the application

\* How far Run has started the modules of the boot order.
StartInv ==
  /\ conf \in Configs
  /\ done \in Nat
  /\ phase \in {"new", "unwind", "aborted", "register", "wire", "refused"}
       => started = {}
  /\ phase \in {"wire", "start"} => outcome = "ok"
  /\ phase = "start" => /\ done <= Len(sorted)
                        /\ started = {sorted[i] : i \in 1..done}
  /\ DependenciesStartFirst

LifecycleInv == OrderInv /\ StartInv

\* Every step of the application is a step of the registry or leaves the
\* registry alone.
LEMMA StepsTheRegistry ==
  ASSUME LifecycleInv, [Next]_vars
  PROVE  OrderNext \/ UNCHANGED orderVars
<1>1. CASE RegisterModules
  <2>1. CASE conf.manifest[done + 1] \in conf.enabled
    <3>1. conf.manifest \in Seq(Modules) /\ done \in Nat /\ done < Len(conf.manifest)
      BY Zenon, <1>1, ConfigsAssumption DEF LifecycleInv, StartInv, RegisterModules
    <3>2. conf.manifest[done + 1] \in Modules
      BY <3>1
    <3>3. Register(conf.manifest[done + 1])
      BY Zenon, <1>1, <2>1 DEF RegisterModules
    <3> QED BY Zenon, <3>2, <3>3 DEF OrderNext
  <2>2. CASE conf.manifest[done + 1] \notin conf.enabled
    BY Zenon, <1>1, <2>2 DEF RegisterModules
  <2> QED BY Zenon, <2>1, <2>2
<1>2. CASE OrderModules
  BY Zenon, <1>2 DEF OrderModules, OrderNext
<1>3. CASE NewStep \/ NewFails \/ Unwind \/ RegisterModule \/ CallRun \/ OnStart
  BY Zenon, <1>3 DEF NewStep, NewFails, Unwind, RegisterModule, CallRun, OnStart
<1>4. CASE SpawnAll \/ Cancel \/ StartGRPC \/ BeginPoll \/ EndPoll \/ StopNext
  BY Zenon, <1>4 DEF SpawnAll, Cancel, StartGRPC, BeginPoll, EndPoll, StopNext
<1>5. ASSUME NEW s \in Servers,
             StartHTTP(s) \/ ServeReturns(s) \/ BeginRequest(s) \/ EndRequest(s)
      PROVE  UNCHANGED orderVars
  BY Zenon, <1>5 DEF StartHTTP, ServeReturns, BeginRequest, EndRequest
<1>6. ASSUME NEW g \in Goroutines, LoopReturns(g)
      PROVE  UNCHANGED orderVars
  BY Zenon, <1>6 DEF LoopReturns
<1>7. CASE \/ StopTimeout \/ RunReturns \/ Publish \/ HandlerReturns
           \/ CallShutdown \/ ShutdownReturns
  BY Zenon, <1>7 DEF StopTimeout, RunReturns, Publish, HandlerReturns, CallShutdown,
              ShutdownReturns
<1>8. ASSUME NEW e \in CloserNames, CloseEntry(e)
      PROVE  UNCHANGED orderVars
  BY Zenon, <1>8 DEF CloseEntry
<1>9. CASE UNCHANGED vars
  BY Zenon, <1>9 DEF vars
<1> QED BY ZenonT(60), <1>1, <1>2, <1>3, <1>4, <1>5, <1>6, <1>7, <1>8, <1>9 DEF Next

\* The steps that neither start a module nor lead to the start phase.
LEMMA StartUnaffected ==
  ASSUME StartInv, UNCHANGED <<orderVars, conf, started>>, done' \in Nat,
         \/ UNCHANGED <<phase, done>>
         \/ phase' \in {"run", "returned", "shutdown", "down"}
         \/ /\ phase \in {"new", "unwind"}
            /\ phase' \in {"new", "unwind", "aborted", "register"}
         \/ phase = "wire" /\ phase' \in {"wire", "refused"}
  PROVE  StartInv'
<1>1. /\ dependsOn' = dependsOn /\ sorted' = sorted /\ outcome' = outcome
      /\ conf' = conf /\ started' = started
  BY Zenon DEF orderVars
<1>2. DependenciesStartFirst'
  BY Zenon, <1>1 DEF StartInv, DependenciesStartFirst
<1> QED BY Zenon, <1>1, <1>2 DEF StartInv

\* OnStart goes through the boot order, in which dependencies come first.
LEMMA StartsInOrder ==
  ASSUME OrderInv, StartInv, OnStart
  PROVE  StartInv'
<1>t. /\ phase = "start" /\ done < Len(sorted) /\ done \in Nat
      /\ started = {sorted[i] : i \in 1..done} /\ outcome = "ok"
      /\ conf' = conf /\ dependsOn' = dependsOn /\ sorted' = sorted
      /\ outcome' = outcome /\ conf \in Configs
  BY Zenon DEF StartInv, OnStart, orderVars
<1>1. CASE started' = started \cup {sorted[done + 1]} /\ done' = done + 1
           /\ phase' = phase
  <2>1. sorted \in Seq(Modules)
    BY Zenon DEF OrderInv, OrderType
  <2>2. done' \in Nat /\ done' <= Len(sorted)
    BY <1>t, <1>1, <2>1
  <2>3. started' = {sorted[i] : i \in 1..done'}
    BY <1>t, <1>1
  <2>4. \A d \in Elements(dependsOn[sorted[done + 1]]) : d \in started
    <3>1. done + 1 \in DOMAIN sorted
      BY <1>t, <2>1
    <3>2. Ordered
      BY Zenon, <1>t DEF OrderInv, OrderIsRight
    <3>3. \A d \in Elements(dependsOn[sorted[done + 1]]) :
            \E j \in 1..((done + 1) - 1) : sorted[j] = d
      BY Zenon, <3>1, <3>2, Zenon DEF Ordered
    <3>4. 1..((done + 1) - 1) = 1..done
      BY <1>t
    <3> QED BY Zenon, <1>t, <3>3, <3>4
  <2>5. DependenciesStartFirst'
    BY Zenon, <1>t, <1>1, <2>4 DEF StartInv, DependenciesStartFirst
  <2> QED BY <1>t, <1>1, <2>2, <2>3, <2>5 DEF StartInv
<1>2. CASE phase' = "returned" /\ started' = started /\ done' = done
  <2>1. DependenciesStartFirst'
    BY Zenon, <1>t, <1>2 DEF StartInv, DependenciesStartFirst
  <2> QED BY Zenon, <1>t, <1>2, <2>1 DEF StartInv
<1> QED BY Zenon, <1>1, <1>2 DEF OnStart

\* Every step of the application preserves StartInv.
LEMMA StartStep ==
  ASSUME OrderInv, StartInv, [Next]_vars
  PROVE  StartInv'
<1>n. done \in Nat /\ conf \in Configs
  BY Zenon DEF StartInv
<1>1. CASE OnStart
  BY Zenon, <1>1, StartsInOrder
<1>2. CASE RegisterModules \/ OrderModules
  <2>1. /\ started' = {} /\ conf' = conf
        /\ phase' \in {"register", "refused", "wire"}
        /\ phase' = "wire" => outcome' = "ok"
    BY Zenon, <1>2 DEF RegisterModules, OrderModules, StartInv
  <2>2. done' \in Nat
    BY <1>n, <1>2 DEF RegisterModules, OrderModules
  <2> QED BY Zenon, <1>n, <2>1, <2>2 DEF StartInv, DependenciesStartFirst
<1>3. CASE CallRun
  <2>1. /\ started' = {} /\ conf' = conf /\ done' = 0 /\ phase' = "start"
        /\ outcome' = "ok" /\ sorted' = sorted
    BY Zenon, <1>3 DEF CallRun, StartInv, orderVars
  <2>2. Len(sorted) \in Nat
    BY DEF OrderInv, OrderType
  <2>3. {sorted'[i] : i \in 1..0} = {}
    OBVIOUS
  <2> QED BY <1>n, <2>1, <2>2, <2>3 DEF StartInv, DependenciesStartFirst
<1>4. CASE NewStep \/ NewFails \/ Unwind \/ RegisterModule
  BY <1>n, <1>4, StartUnaffected DEF NewStep, NewFails, Unwind, RegisterModule
<1>5. CASE SpawnAll \/ Cancel \/ StartGRPC \/ BeginPoll \/ EndPoll \/ StopNext
  BY Zenon, <1>n, <1>5, StartUnaffected
     DEF SpawnAll, Cancel, StartGRPC, BeginPoll, EndPoll, StopNext
<1>6. ASSUME NEW s \in Servers,
             StartHTTP(s) \/ ServeReturns(s) \/ BeginRequest(s) \/ EndRequest(s)
      PROVE  StartInv'
  BY Zenon, <1>n, <1>6, StartUnaffected
     DEF StartHTTP, ServeReturns, BeginRequest, EndRequest
<1>7. ASSUME NEW g \in Goroutines, LoopReturns(g)
      PROVE  StartInv'
  BY Zenon, <1>n, <1>7, StartUnaffected DEF LoopReturns
<1>8. CASE \/ StopTimeout \/ RunReturns \/ Publish \/ HandlerReturns
           \/ CallShutdown \/ ShutdownReturns
  BY Zenon, <1>n, <1>8, StartUnaffected
     DEF StopTimeout, RunReturns, Publish, HandlerReturns, CallShutdown,
         ShutdownReturns
<1>9. ASSUME NEW e \in CloserNames, CloseEntry(e)
      PROVE  StartInv'
  BY Zenon, <1>n, <1>9, StartUnaffected DEF CloseEntry
<1>10. CASE UNCHANGED vars
  BY Zenon, <1>n, <1>10, StartUnaffected DEF vars
<1> QED BY ZenonT(60), <1>1, <1>2, <1>3, <1>4, <1>5, <1>6, <1>7, <1>8, <1>9, <1>10 DEF Next

\* The invariant of the application's modules.
LEMMA LifecycleInvariant == Spec => []LifecycleInv
<1>1. Init => LifecycleInv
  <2> SUFFICES ASSUME Init PROVE LifecycleInv
    BY Zenon
  <2>1. OrderInv
    BY Zenon, ConfigsAssumption, OrderInitInv DEF Init
  <2>2. StartInv
    BY Zenon DEF Init, OrderInit, StartInv, DependenciesStartFirst
  <2> QED BY Zenon, <2>1, <2>2 DEF LifecycleInv
<1>2. LifecycleInv /\ [Next]_vars => LifecycleInv'
  BY Zenon, StepsTheRegistry, OrderStep, StartStep DEF LifecycleInv
<1> QED BY <1>1, <1>2, PTL DEF Spec

\* App.RegisterModules accepts a manifest exactly when its modules can be
\* ordered, and then boots them in a right order.
THEOREM BootOrderIsRight == Spec => []OrderIsRight
<1>1. LifecycleInv => OrderIsRight
  BY Zenon DEF LifecycleInv, OrderInv
<1> QED BY <1>1, LifecycleInvariant, PTL

\* App.Run starts no module before the modules it depends on.
THEOREM StartsDependenciesFirst == Spec => []DependenciesStartFirst
<1>1. LifecycleInv => DependenciesStartFirst
  BY Zenon DEF LifecycleInv, StartInv
<1> QED BY <1>1, LifecycleInvariant, PTL

-----------------------------------------------------------------------------
\* What is open while work goes on

Failing == phase \in {"new", "unwind", "aborted"}
Needed  == {"event-bus", "stream", "cache", "write-db", "read-db"}
Watcher == {"off", "spawned", "http", "metrics", "grpc", "done"}

WorkType ==
  /\ open \in Seq(Resources)
  /\ go \in [Goroutines -> Watcher \cup {"serving", "polling"}]
  /\ go["watcher"] \in Watcher
  /\ down \subseteq Servers
  /\ active \in [Servers -> Nat]
  /\ handlers \in Nat

\* New has opened what its steps up to done open.  After New a resource is
\* open, or its closer has run, after those of the priorities before it.
OpenInv ==
  /\ phase = "aborted" => open = <<>>
  /\ phase = "new" =>
       /\ done < Len(NewSteps)
       /\ \A j \in 1..done : NewSteps[j] \in Resources => NewSteps[j] \in Elements(open)
  /\ Failing => handlers = 0 /\ \A s \in Servers : active[s] = 0
  /\ ~Failing => \A r \in Needed : r \in Elements(open) \/ r \in closed
  /\ phase \notin {"shutdown", "down"} => closed = {}
  /\ "event-bus" \in closed => Elements(sorted) \subseteq closed
  /\ \A r \in {"cache", "write-db", "read-db"} : r \in closed => "event-bus" \in closed
  /\ started \subseteq Elements(sorted)

\* The places of the context-watcher at which server s may have requests.
Before(s) ==
  {"spawned", "http"} \cup (IF s \in {"metrics", "grpc"} THEN {"metrics"} ELSE {})
    \cup (IF s = "grpc" THEN {"grpc"} ELSE {})

\* A server whose Stop returned has no requests, unless the time was up.
RunInv ==
  /\ phase # "run" => \A g \in Goroutines : go[g] \in {"off", "done"}
  /\ phase = "run" => go["watcher"] # "off"
  /\ ~conf.metrics => go["metrics"] = "off" /\ active["metrics"] = 0
  /\ go["watcher"] \in {"http", "metrics", "grpc", "done"} => "http" \in down
  /\ go["watcher"] \in {"metrics", "grpc", "done"} /\ conf.metrics => "metrics" \in down
  /\ go["watcher"] \in {"grpc", "done"} => "grpc" \in down
  /\ ~stopExpired => \A s \in Servers : active[s] > 0 => go["watcher"] \in Before(s)

\* A bus that is closed has no handlers, unless Close gave up.
BusInv == stopExpired \/ gaveUp \/ handlers = 0 \/ "event-bus" \notin closed

WorkInv == WorkType /\ OpenInv /\ RunInv /\ BusInv

LEMMA LastPart ==
  ASSUME NEW S, NEW s \in Seq(S), NEW t \in Seq(S)
  PROVE  /\ s \o t \in Seq(S) /\ Len(s \o t) \in Nat /\ Len(t) \in Nat
         /\ Len(s \o t) = Len(s) + Len(t)
         /\ \A k \in 1..Len(t) : Len(s) + k \in 1..Len(s \o t) /\ (s \o t)[Len(s) + k] = t[k]
<1>1. /\ s \o t \in Seq(S) /\ Len(s) \in Nat /\ Len(t) \in Nat /\ Len(s \o t) = Len(s) + Len(t)
      /\ \A i \in 1..(Len(s) + Len(t)) : (s \o t)[i] = IF i <= Len(s) THEN s[i] ELSE t[i - Len(s)]
  BY ConcatProperties
<1>2. ASSUME NEW k \in 1..Len(t)
      PROVE  Len(s) + k \in 1..(Len(s) + Len(t)) /\ ~(Len(s) + k <= Len(s)) /\ (Len(s) + k) - Len(s) = k
  BY <1>1
<1> QED BY <1>1, <1>2

LEMMA NewStepsFact ==
  /\ Len(NewSteps) \in Nat /\ Len(NewSteps) > 0
  /\ \A r \in Needed : \E j \in 1..Len(NewSteps) : NewSteps[j] = r
<1> DEFINE s == <<"config", "logger">> \o (IF conf.tracing THEN <<"tracer">> ELSE <<>>)
           t == <<"write-db", "read-db", "cache", "jwt", "event-bus", "stream">>
           Names == {"config", "logger", "tracer", "write-db", "read-db", "cache", "jwt",
                     "event-bus", "stream"}
<1>1. t \in Seq(Names)
  OBVIOUS
<1>2. s \in Seq(Names)
  <2>1. <<"config", "logger">> \in Seq(Names) /\ <<"tracer">> \in Seq(Names) /\ <<>> \in Seq(Names)
    OBVIOUS
  <2>2. (IF conf.tracing THEN <<"tracer">> ELSE <<>>) \in Seq(Names)
    BY Zenon, <2>1
  <2> HIDE DEF Names
  <2> QED BY Zenon, <2>1, <2>2, LastPart
<1>3. NewSteps = s \o t
  BY Zenon DEF NewSteps
<1>4. /\ Len(t) = 6
      /\ t[1] = "write-db" /\ t[2] = "read-db" /\ t[3] = "cache" /\ t[5] = "event-bus" /\ t[6] = "stream"
  BY Zenon
<1>5. \A r \in Needed : \E k \in 1..Len(t) : t[k] = r
  BY <1>4 DEF Needed
<1> HIDE DEF s, t, Names
<1>a. /\ Len(s \o t) \in Nat /\ Len(s \o t) = Len(s) + Len(t)
      /\ \A k \in 1..Len(t) : Len(s) + k \in 1..Len(s \o t) /\ (s \o t)[Len(s) + k] = t[k]
  BY <1>1, <1>2, LastPart
<1>b. Len(s) \in Nat
  BY <1>2
<1>6. /\ Len(NewSteps) \in Nat /\ Len(NewSteps) = Len(s) + 6 /\ Len(s) \in Nat
      /\ \A k \in 1..Len(t) : Len(s) + k \in 1..Len(NewSteps) /\ NewSteps[Len(s) + k] = t[k]
  BY Zenon, <1>a, <1>b, <1>3, <1>4
<1>7. Len(NewSteps) > 0
  BY <1>6
<1> QED BY Zenon, <1>5, <1>6, <1>7

LEMMA WithoutFact ==
  ASSUME NEW S, NEW s \in Seq(S), NEW n \in DOMAIN s
  PROVE  /\ Without(s, n) \in Seq(S)
         /\ \A x \in Elements(s) : x # s[n] => x \in Elements(Without(s, n))
<1>1. Len(s) \in Nat /\ DOMAIN s = 1..Len(s) /\ n \in 1..Len(s) /\ Len(s) - 1 \in Nat
  OBVIOUS
<1>2. /\ DOMAIN Without(s, n) = 1..(Len(s) - 1)
      /\ \A i \in 1..(Len(s) - 1) : Without(s, n)[i] = IF i < n THEN s[i] ELSE s[i + 1]
  BY Zenon DEF Without
<1>3. \A i \in 1..(Len(s) - 1) : i \in 1..Len(s) /\ i + 1 \in 1..Len(s)
  BY <1>1
<1>4. Without(s, n) \in [1..(Len(s) - 1) -> S]
  BY <1>1, <1>3 DEF Without
<1>5. Without(s, n) \in Seq(S)
  BY <1>1, <1>4
<1>6. ASSUME NEW j \in 1..Len(s), s[j] # s[n]
      PROVE  \E i \in 1..(Len(s) - 1) : Without(s, n)[i] = s[j]
  <2>1. CASE j < n
    <3>1. j \in 1..(Len(s) - 1)
      BY <1>1, <2>1
    <3> QED BY Zenon, <1>2, <2>1, <3>1
  <2>2. CASE j > n
    <3>1. j - 1 \in 1..(Len(s) - 1) /\ ~(j - 1 < n) /\ (j - 1) + 1 = j
      BY <1>1, <2>2
    <3> QED BY Zenon, <1>2, <3>1
  <2> QED BY <1>1, <1>6, <2>1, <2>2
<1>7. ASSUME NEW x \in Elements(s), x # s[n] PROVE x \in Elements(Without(s, n))
  <2>1. PICK j \in 1..Len(s) : x = s[j]
    BY Zenon, <1>1 DEF Elements
  <2>2. PICK i \in 1..(Len(s) - 1) : Without(s, n)[i] = s[j]
    BY Zenon, <1>6, <1>7, <2>1
  <2>3. i \in DOMAIN Without(s, n)
    BY Zenon, <1>2
  <2> QED BY Zenon, <2>1, <2>2, <2>3 DEF Elements
<1> QED BY Zenon, <1>5, <1>7

LEMMA WorkInit == Init => WorkInv
<1> SUFFICES ASSUME Init PROVE WorkInv
  BY Zenon
<1>1. WorkType
  BY DEF Init, WorkType, Goroutines, Servers, Watcher
<1>2. OpenInv
  <2>1. /\ phase = "new" /\ done = 0 /\ handlers = 0 /\ closed = {} /\ started = {}
        /\ \A s \in Servers : active[s] = 0
    BY Zenon DEF Init
  <2> QED BY <2>1, NewStepsFact DEF OpenInv, Failing
<1>3. RunInv /\ BusInv
  BY DEF Init, RunInv, BusInv, Goroutines, Servers
<1> QED BY Zenon, <1>1, <1>2, <1>3 DEF WorkInv

\* What the steps of New, of the registry and of Shutdown leave alone.
LEMMA RunFrame ==
  ASSUME RunInv, UNCHANGED <<conf, run>>, phase' = phase \/ phase' # "run", phase # "run"
  PROVE  RunInv'
BY Zenon DEF RunInv, run, Before

LEMMA NewStepInv ==
  ASSUME LifecycleInv, WorkInv, NewStep \/ NewFails \/ Unwind
  PROVE  WorkInv'
<1>1. WorkType /\ OpenInv /\ RunInv /\ BusInv /\ done \in Nat
  BY Zenon DEF WorkInv, LifecycleInv, StartInv
<1>2. /\ phase \in {"new", "unwind"} /\ phase' \in {"new", "unwind", "aborted", "register"}
      /\ UNCHANGED <<orderVars, conf, run, handlers, closed, gaveUp, started>>
  BY Zenon DEF NewStep, NewFails, Unwind, rest
<1>3. RunInv' /\ BusInv'
  BY Zenon, <1>1, <1>2, RunFrame DEF BusInv, run
<1>4. /\ handlers' = 0 /\ closed' = {} /\ started' \subseteq Elements(sorted')
      /\ sorted' = sorted /\ \A s \in Servers : active'[s] = 0
  BY Zenon, <1>1, <1>2 DEF OpenInv, Failing, run, orderVars
<1>5. open' \in Seq(Resources) => WorkType'
  BY Zenon, <1>1, <1>2 DEF WorkType, run
<1>6. NewSteps' = NewSteps
  BY Zenon, <1>2 DEF NewSteps
<1>7. open \in Seq(Resources)
  BY Zenon, <1>1 DEF WorkType
<1>8. CASE NewFails
  <2>1. phase' = "unwind" /\ open' = open
    BY Zenon, <1>8 DEF NewFails
  <2>2. OpenInv'
    BY Zenon, <1>4, <2>1 DEF OpenInv, Failing
  <2> QED BY Zenon, <1>3, <1>5, <1>7, <2>1, <2>2 DEF WorkInv
<1>9. CASE Unwind
  <2> DEFINE left == {i \in DOMAIN open : open[i] \in Closers}
             last == CHOOSE i \in left : \A j \in left : j <= i
  <2>1. left = DOMAIN open
    BY <1>7 DEF Closers, Resources
  <2>2. CASE left = {}
    <3>1. phase' = "aborted" /\ open' = open
      BY Zenon, <1>9, <2>2 DEF Unwind
    <3>2. open = <<>>
      BY <1>7, <2>1, <2>2
    <3>3. OpenInv'
      BY Zenon, <1>4, <3>1, <3>2 DEF OpenInv, Failing
    <3> QED BY Zenon, <1>3, <1>5, <1>7, <3>1, <3>3 DEF WorkInv
  <2>3. CASE left # {}
    <3>1. phase' = phase /\ phase = "unwind" /\ open' = Without(open, last)
      BY Zenon, <1>9, <2>3 DEF Unwind
    <3>2. \E i \in left : \A j \in left : j <= i
      <4>1. Len(open) \in left /\ \A j \in left : j <= Len(open)
        BY <1>7, <2>1, <2>3
      <4> QED BY Zenon, <4>1
    <3>3. last \in DOMAIN open
      BY Zenon, <3>2
    <3>4. open' \in Seq(Resources)
      BY Zenon, <1>7, <3>1, <3>3, WithoutFact
    <3>5. OpenInv'
      BY Zenon, <1>4, <3>1 DEF OpenInv, Failing
    <3> QED BY Zenon, <1>3, <1>5, <3>4, <3>5 DEF WorkInv
  <2> QED BY Zenon, <2>2, <2>3
<1>10. CASE NewStep
  <2>1. /\ phase = "new" /\ done < Len(NewSteps)
        /\ \A j \in 1..done : NewSteps[j] \in Resources => NewSteps[j] \in Elements(open)
        /\ open' = IF NewSteps[done + 1] \in Resources THEN Append(open, NewSteps[done + 1]) ELSE open
    BY Zenon, <1>1, <1>10 DEF NewStep, OpenInv
  <2>2. /\ open' \in Seq(Resources)
        /\ Elements(open) \subseteq Elements(open')
        /\ NewSteps[done + 1] \in Resources => NewSteps[done + 1] \in Elements(open')
    <3>1. CASE NewSteps[done + 1] \notin Resources
      BY Zenon, <1>7, <2>1, <3>1
    <3>2. ASSUME NEW x \in Resources, x = NewSteps[done + 1], open' = Append(open, x)
          PROVE  /\ open' \in Seq(Resources)
                 /\ Elements(open) \subseteq Elements(open')
                 /\ x \in Elements(open')
      <4>1. /\ open' \in Seq(Resources) /\ DOMAIN open' = 1..(Len(open) + 1)
            /\ DOMAIN open = 1..Len(open) /\ Len(open) \in Nat
            /\ \A i \in 1..Len(open) : open'[i] = open[i]
            /\ open'[Len(open) + 1] = x
        BY <1>7, <3>2
      <4>2. Len(open) + 1 \in DOMAIN open' /\ \A i \in DOMAIN open : i \in DOMAIN open'
        BY <4>1
      <4> QED BY Zenon, <4>1, <4>2 DEF Elements
    <3> QED BY Zenon, <2>1, <3>1, <3>2
  <2>3. \A j \in 1..(done + 1) : NewSteps[j] \in Resources => NewSteps[j] \in Elements(open')
    <3>1. \A j \in 1..(done + 1) : j \in 1..done \/ j = done + 1
      BY <1>1
    <3> QED BY Zenon, <2>1, <2>2, <3>1
  <2>4. CASE done + 1 = Len(NewSteps)
    <3>1. phase' = "register"
      BY ZenonT(60), <1>10, <2>4 DEF NewStep
    <3>2. \A r \in Needed : r \in Elements(open')
      BY <2>3, <2>4, NewStepsFact DEF Needed, Resources
    <3>3. OpenInv'
      BY ZenonT(60), <1>4, <3>1, <3>2 DEF OpenInv, Failing
    <3> QED BY Zenon, <1>3, <1>5, <2>2, <3>3 DEF WorkInv
  <2>5. CASE done + 1 # Len(NewSteps)
    <3>1. phase' = "new" /\ done' = done + 1
      BY Zenon, <1>10, <2>5 DEF NewStep
    <3>2. done' < Len(NewSteps)
      BY <1>1, <2>1, <2>5, <3>1, NewStepsFact
    <3>3. OpenInv'
      BY ZenonT(60), <1>4, <1>6, <2>3, <3>1, <3>2 DEF OpenInv, Failing
    <3> QED BY Zenon, <1>3, <1>5, <2>2, <3>3 DEF WorkInv
  <2> QED BY Zenon, <2>4, <2>5
<1> QED BY Zenon, <1>8, <1>9, <1>10

\* A step of the main goroutine between New and the end of Shutdown.
LEMMA MainInv ==
  ASSUME LifecycleInv, WorkInv, UNCHANGED <<conf, open, run, handlers, closed, gaveUp>>,
         ~Failing, phase' \notin {"new", "unwind", "aborted"},
         phase \in {"shutdown", "down"} => phase' \in {"shutdown", "down"},
         phase' = "run" => phase = "run",
         phase = "run" => phase' = "run" \/ \A g \in Goroutines : go[g] \in {"off", "done"},
         sorted' = sorted \/ phase = "register",
         started' \subseteq Elements(sorted')
  PROVE  WorkInv'
<1>1. WorkType /\ OpenInv /\ RunInv /\ BusInv
  BY Zenon DEF WorkInv
<1>2. WorkType' /\ BusInv'
  BY Zenon, <1>1 DEF WorkType, BusInv, run
<1>3. OpenInv'
  <2>1. "event-bus" \in closed' => Elements(sorted') \subseteq closed'
    BY Zenon, <1>1 DEF OpenInv
  <2>2. /\ closed' = closed /\ open' = open /\ handlers' = handlers
        /\ phase' \notin {"shutdown", "down"} => closed' = {}
    BY Zenon, <1>1 DEF OpenInv
  <2> QED BY Zenon, <1>1, <2>1, <2>2 DEF OpenInv, Failing
<1>4. RunInv'
  BY Zenon, <1>1 DEF RunInv, run, Before
<1> QED BY Zenon, <1>2, <1>3, <1>4 DEF WorkInv

LEMMA MainStep ==
  ASSUME LifecycleInv, WorkInv,
         \/ RegisterModules \/ OrderModules \/ RegisterModule \/ CallRun \/ OnStart
         \/ RunReturns \/ CallShutdown \/ ShutdownReturns
  PROVE  WorkInv'
<1>1. started \subseteq Elements(sorted) /\ done \in Nat /\ sorted \in Seq(Modules)
  BY Zenon DEF WorkInv, OpenInv, LifecycleInv, StartInv, OrderInv, OrderType
<1>2. CASE RegisterModules \/ OrderModules
  <2>1. started' = {} /\ phase = "register" /\ phase' \in {"register", "wire", "refused"}
    BY Zenon, <1>2 DEF RegisterModules, OrderModules, LifecycleInv, StartInv
  <2>2. UNCHANGED <<conf, open, run, handlers, closed, gaveUp>>
    BY Zenon, <1>2 DEF RegisterModules, OrderModules, rest
  <2> QED BY Zenon, <2>1, <2>2, MainInv DEF Failing
<1>3. CASE RegisterModule \/ CallRun \/ RunReturns \/ CallShutdown \/ ShutdownReturns
  <2>1. UNCHANGED <<conf, open, run, handlers, closed, gaveUp>> /\ started' = started /\ sorted' = sorted
    BY Zenon, <1>3 DEF RegisterModule, CallRun, RunReturns, CallShutdown, ShutdownReturns,
                       orderVars, rest
  <2>2. /\ ~Failing /\ phase' \notin {"new", "unwind", "aborted", "run"}
        /\ phase \in {"shutdown", "down"} => phase' \in {"shutdown", "down"}
        /\ phase = "run" => \A g \in Goroutines : go[g] \in {"off", "done"}
    BY Zenon, <1>3 DEF RegisterModule, CallRun, RunReturns, CallShutdown, ShutdownReturns, Failing
  <2> QED BY Zenon, <1>1, <2>1, <2>2, MainInv
<1>4. CASE OnStart
  <2>1. /\ UNCHANGED <<conf, open, run, handlers, closed, gaveUp>> /\ sorted' = sorted /\ phase = "start"
        /\ phase' \in {"start", "returned"} /\ done < Len(sorted)
        /\ started' = started \/ started' = started \cup {sorted[done + 1]}
    BY Zenon, <1>4 DEF OnStart, orderVars, rest
  <2>2. sorted[done + 1] \in Elements(sorted)
    BY <1>1, <2>1 DEF Elements
  <2>3. started' \subseteq Elements(sorted')
    BY Zenon, <1>1, <2>1, <2>2
  <2> QED BY Zenon, <2>1, <2>3, MainInv DEF Failing
<1> QED BY Zenon, <1>2, <1>3, <1>4

\* What New and Shutdown look at, and the steps of Run's goroutines leave alone.
LEMMA OpenFrame ==
  ASSUME OpenInv, UNCHANGED <<orderVars, conf, phase, done, open, closed, started, handlers>>,
         \A s \in Servers : active[s] = 0 => active'[s] = 0 \/ phase = "run"
  PROVE  OpenInv'
<1>1. NewSteps' = NewSteps /\ sorted' = sorted
  BY Zenon DEF NewSteps, orderVars
<1> QED BY Zenon, <1>1 DEF OpenInv, Failing

LEMMA SpawnStep ==
  ASSUME LifecycleInv, WorkInv, SpawnAll
  PROVE  WorkInv'
<1>1. WorkType /\ OpenInv /\ RunInv /\ BusInv /\ phase = "start" /\ phase' = "run"
  BY Zenon DEF WorkInv, SpawnAll
<1>2. /\ UNCHANGED <<conf, open, down, active, stopExpired, handlers, closed, gaveUp, started, done>>
      /\ sorted' = sorted
      /\ go' = [g \in Goroutines |-> IF g \in Spawned THEN "spawned" ELSE "off"]
  BY Zenon DEF SpawnAll, rest, orderVars
<1>3. /\ go'["watcher"] = "spawned" /\ (~conf.metrics => go'["metrics"] = "off")
      /\ go' \in [Goroutines -> Watcher \cup {"serving", "polling"}]
  BY Zenon, <1>2 DEF Goroutines, Servers, Spawned, Watcher
<1>4. WorkType'
  BY Zenon, <1>1, <1>2, <1>3 DEF WorkType, Watcher
<1>5. OpenInv' /\ BusInv'
  BY Zenon, <1>1, <1>2 DEF OpenInv, BusInv, Failing
<1>6. RunInv'
  BY Zenon, <1>1, <1>2, <1>3 DEF RunInv, Before
<1> QED BY Zenon, <1>4, <1>5, <1>6 DEF WorkInv

\* A goroutine other than the context-watcher moves on.
LEMMA GoStep ==
  ASSUME WorkInv, NEW g \in Goroutines \ {"watcher"}, go[g] \notin {"off", "done"},
         NEW to \in {"spawned", "serving", "polling", "done"}, Moves(g, to),
         UNCHANGED <<orderVars, conf, phase, done, open, down, active, stopExpired, rest, started>>
  PROVE  WorkInv'
<1>1. WorkType /\ OpenInv /\ RunInv /\ BusInv
  BY Zenon DEF WorkInv
<1>2. phase = "run"
  BY Zenon, <1>1 DEF RunInv
<1>3. /\ go' \in [Goroutines -> Watcher \cup {"serving", "polling"}]
      /\ go'["watcher"] = go["watcher"]
      /\ go["metrics"] = "off" => go'["metrics"] = "off"
  BY Zenon, <1>1 DEF WorkType, Moves, Watcher, Goroutines, Servers
<1>4. WorkType' /\ BusInv'
  BY Zenon, <1>1, <1>3 DEF WorkType, BusInv, rest
<1>5. OpenInv'
  BY Zenon, <1>1, OpenFrame DEF rest
<1>6. RunInv'
  BY Zenon, <1>1, <1>2, <1>3 DEF RunInv, Before
<1> QED BY Zenon, <1>4, <1>5, <1>6 DEF WorkInv

LEMMA GoSteps ==
  ASSUME WorkInv,
         \/ \E s \in Servers : StartHTTP(s) \/ ServeReturns(s)
         \/ StartGRPC \/ BeginPoll \/ EndPoll
         \/ \E g \in Goroutines : LoopReturns(g)
  PROVE  WorkInv'
<1>1. \A s \in Servers : s \in Goroutines \ {"watcher"}
  BY Zenon DEF Servers, Goroutines
<1>2. ASSUME NEW s \in Servers, StartHTTP(s) PROVE WorkInv'
  <2>1. /\ go[s] = "spawned" /\ (Moves(s, "done") \/ Moves(s, "serving"))
        /\ UNCHANGED <<orderVars, conf, phase, done, open, down, active, stopExpired, rest, started>>
    BY Zenon, <1>2 DEF StartHTTP
  <2> QED BY Zenon, <1>1, <2>1, GoStep
<1>3. ASSUME NEW s \in Servers, ServeReturns(s) PROVE WorkInv'
  BY Zenon, <1>1, <1>3, GoStep DEF ServeReturns
<1>4. CASE StartGRPC
  <2>1. /\ go["grpc"] = "spawned" /\ (Moves("grpc", "done") \/ Moves("grpc", "serving"))
        /\ UNCHANGED <<orderVars, conf, phase, done, open, down, active, stopExpired, rest, started>>
    BY Zenon, <1>4 DEF StartGRPC
  <2> QED BY Zenon, <1>1, <2>1, GoStep DEF Servers
<1>5. CASE BeginPoll \/ EndPoll
  <2>1. "worker" \in Goroutines \ {"watcher"}
    BY Zenon DEF Goroutines
  <2> QED BY Zenon, <1>5, <2>1, GoStep DEF BeginPoll, EndPoll
<1>6. ASSUME NEW g \in Goroutines, LoopReturns(g) PROVE WorkInv'
  <2>1. g \in Goroutines \ {"watcher"}
    BY Zenon, <1>6 DEF LoopReturns
  <2> QED BY Zenon, <1>6, <2>1, GoStep DEF LoopReturns
<1> QED BY ZenonT(60), <1>2, <1>3, <1>4, <1>5, <1>6

LEMMA RequestStep ==
  ASSUME WorkInv, NEW s \in Servers, BeginRequest(s) \/ EndRequest(s)
  PROVE  WorkInv'
<1>1. WorkType /\ OpenInv /\ RunInv /\ BusInv
  BY Zenon DEF WorkInv
<1>2. /\ UNCHANGED <<orderVars, conf, phase, done, open, go, down, stopExpired, rest, started>>
      /\ s \in Goroutines
  BY Zenon DEF BeginRequest, EndRequest, Goroutines
<1>3. CASE BeginRequest(s)
  <2>1. go[s] = "serving" /\ s \notin down /\ active' = [active EXCEPT ![s] = @ + 1]
    BY Zenon, <1>3 DEF BeginRequest
  <2>2. phase = "run"
    BY Zenon, <1>1, <1>2, <2>1 DEF RunInv
  <2>3. /\ active' \in [Servers -> Nat]
        /\ \A t \in Servers : t # s => active'[t] = active[t]
    BY <1>1, <2>1 DEF WorkType
  <2>4. go["watcher"] \in Watcher \ {"off"} /\ (s = "metrics" => conf.metrics)
    BY Zenon, <1>1, <2>1, <2>2 DEF RunInv, WorkType
  <2>5. go["watcher"] \in Before(s)
    BY Zenon, <1>1, <2>1, <2>4 DEF RunInv, Before, Servers, Watcher
  <2>6. WorkType' /\ BusInv'
    BY Zenon, <1>1, <1>2, <2>3 DEF WorkType, BusInv, rest
  <2>7. OpenInv'
    BY Zenon, <1>1, <1>2, <2>2, OpenFrame DEF rest
  <2>8. \A t \in Servers : active'[t] > 0 => active[t] > 0 \/ t = s
    BY Zenon, <2>3
  <2>9. ~conf.metrics => active'["metrics"] = 0
    BY Zenon, <1>1, <2>3, <2>4 DEF RunInv, Servers
  <2>10. RunInv'
    BY ZenonT(60), <1>1, <1>2, <2>5, <2>8, <2>9 DEF RunInv, Before
  <2> QED BY Zenon, <2>6, <2>7, <2>10 DEF WorkInv
<1>4. CASE EndRequest(s)
  <2>1. active[s] > 0 /\ active' = [active EXCEPT ![s] = @ - 1]
    BY Zenon, <1>4 DEF EndRequest
  <2>2. /\ active' \in [Servers -> Nat]
        /\ \A t \in Servers : (active'[t] > 0 => active[t] > 0) /\ (active[t] = 0 => active'[t] = 0)
    BY <1>1, <2>1 DEF WorkType
  <2>3. WorkType' /\ BusInv'
    BY Zenon, <1>1, <1>2, <2>2 DEF WorkType, BusInv, rest
  <2>4. OpenInv'
    BY Zenon, <1>1, <1>2, <2>2, OpenFrame DEF rest
  <2>5. RunInv'
    BY Zenon, <1>1, <1>2, <2>2 DEF RunInv, Before, Servers
  <2> QED BY Zenon, <2>3, <2>4, <2>5 DEF WorkInv
<1> QED BY Zenon, <1>3, <1>4

LEMMA StopStep ==
  ASSUME WorkInv, StopNext \/ StopTimeout
  PROVE  WorkInv'
<1>1. WorkType /\ OpenInv /\ RunInv /\ BusInv
  BY Zenon DEF WorkInv
<1>2. UNCHANGED <<orderVars, conf, phase, done, open, active, rest, started>>
  BY Zenon DEF StopNext, StopTimeout
<1>3. OpenInv'
  BY Zenon, <1>1, <1>2, OpenFrame DEF rest
<1>4. CASE StopTimeout
  <2>1. go' = go /\ down' = down /\ stopExpired' = TRUE
    BY Zenon, <1>4 DEF StopTimeout
  <2>2. WorkType' /\ BusInv'
    BY Zenon, <1>1, <1>2, <2>1 DEF WorkType, BusInv, rest
  <2>3. RunInv'
    BY Zenon, <1>1, <1>2, <2>1 DEF RunInv, Before
  <2> QED BY Zenon, <1>3, <2>2, <2>3 DEF WorkInv
<1>5. CASE StopNext
  <2>1. PICK to \in {"http", "metrics", "grpc", "done"} :
          /\ Moves("watcher", to)
          /\ down' = down \cup ({to} \cap Servers)
          /\ \/ go["watcher"] = "spawned" /\ to = "http"
             \/ /\ go["watcher"] = "http" /\ to = IF conf.metrics THEN "metrics" ELSE "grpc"
                /\ active["http"] = 0 \/ stopExpired
             \/ go["watcher"] = "metrics" /\ to = "grpc" /\ (active["metrics"] = 0 \/ stopExpired)
             \/ go["watcher"] = "grpc" /\ to = "done" /\ (active["grpc"] = 0 \/ stopExpired)
    <3>1. {"http"} \cap Servers = {"http"} /\ {"metrics"} \cap Servers = {"metrics"}
          /\ {"grpc"} \cap Servers = {"grpc"} /\ {"done"} \cap Servers = {}
      BY Zenon DEF Servers
    <3>2. CASE go["watcher"] = "spawned" /\ Moves("watcher", "http") /\ down' = down \cup {"http"}
      BY Zenon, <3>1, <3>2
    <3>3. CASE /\ go["watcher"] = "http" /\ (active["http"] = 0 \/ stopExpired)
               /\ Moves("watcher", IF conf.metrics THEN "metrics" ELSE "grpc")
               /\ down' = down \cup {IF conf.metrics THEN "metrics" ELSE "grpc"}
      BY Zenon, <3>1, <3>3
    <3>4. CASE /\ go["watcher"] = "metrics" /\ (active["metrics"] = 0 \/ stopExpired)
               /\ Moves("watcher", "grpc") /\ down' = down \cup {"grpc"}
      BY Zenon, <3>1, <3>4
    <3>5. CASE /\ go["watcher"] = "grpc" /\ (active["grpc"] = 0 \/ stopExpired)
               /\ Moves("watcher", "done") /\ down' = down
      BY Zenon, <3>1, <3>5
    <3> QED BY ZenonT(60), <1>5, <3>2, <3>3, <3>4, <3>5 DEF StopNext
  <2>2. stopExpired' = stopExpired
    BY Zenon, <1>5 DEF StopNext
  <2>3. /\ go' \in [Goroutines -> Watcher \cup {"serving", "polling"}] /\ go'["watcher"] = to
        /\ \A g \in Goroutines : g # "watcher" => go'[g] = go[g]
    BY Zenon, <1>1, <2>1 DEF WorkType, Moves, Goroutines, Watcher
  <2>4. phase = "run" /\ down' \subseteq Servers
    BY Zenon, <1>1, <2>1 DEF RunInv, WorkType, Goroutines
  <2>5. WorkType' /\ BusInv'
    BY ZenonT(60), <1>1, <1>2, <2>2, <2>3, <2>4 DEF WorkType, BusInv, rest, Watcher
  <2>6. go'["metrics"] = go["metrics"]
    BY Zenon, <2>3 DEF Goroutines, Servers
  <2>7. ~stopExpired => \A s \in Servers : active[s] > 0 => to \in Before(s)
    BY <1>1, <2>1 DEF RunInv, Before, Servers, WorkType
  <2>8. /\ "http" \in down'
        /\ to \in {"metrics", "grpc", "done"} /\ conf.metrics => "metrics" \in down'
        /\ to \in {"grpc", "done"} => "grpc" \in down'
    BY Zenon, <1>1, <2>1 DEF RunInv, Servers
  <2>9. RunInv'
    BY ZenonT(60), <1>1, <1>2, <2>2, <2>3, <2>4, <2>6, <2>7, <2>8 DEF RunInv, Before
  <2> QED BY Zenon, <1>3, <2>5, <2>9 DEF WorkInv
<1> QED BY Zenon, <1>4, <1>5

\* Only a server that still serves, or a module that still runs, publishes.
LEMMA BusStep ==
  ASSUME LifecycleInv, WorkInv, Publish \/ HandlerReturns
  PROVE  WorkInv'
<1>1. WorkType /\ OpenInv /\ RunInv /\ BusInv
  BY Zenon DEF WorkInv
<1>2. UNCHANGED <<orderVars, conf, phase, done, open, run, started, closed, gaveUp>>
  BY Zenon DEF Publish, HandlerReturns
<1>3. NewSteps' = NewSteps /\ sorted' = sorted
  BY Zenon, <1>2 DEF NewSteps, orderVars
<1>4. RunInv'
  BY Zenon, <1>1, <1>2 DEF RunInv, run, Before
<1>5. CASE HandlerReturns
  <2>1. handlers' = handlers - 1 /\ handlers > 0 /\ handlers' \in Nat
    BY <1>1, <1>5 DEF HandlerReturns, WorkType
  <2>2. WorkType' /\ BusInv'
    BY <1>1, <1>2, <2>1 DEF WorkType, BusInv, run
  <2>3. OpenInv'
    BY <1>1, <1>2, <1>3, <2>1 DEF OpenInv, Failing, run, WorkType
  <2> QED BY Zenon, <1>4, <2>2, <2>3 DEF WorkInv
<1>6. CASE Publish
  <2>1. /\ handlers' = handlers + 1 /\ handlers' \in Nat
        /\ (\E s \in Servers : active[s] > 0) \/ started \ closed # {}
    BY <1>1, <1>6 DEF Publish, WorkType, Servers
  <2>2. ~Failing
    BY <1>1, <2>1 DEF OpenInv, Failing, LifecycleInv, StartInv
  <2>3. WorkType'
    BY Zenon, <1>1, <1>2, <2>1 DEF WorkType, run
  <2>4. OpenInv'
    BY Zenon, <1>1, <1>2, <1>3, <2>2 DEF OpenInv, Failing
  <2>5. stopExpired \/ "event-bus" \notin closed
    <3>1. CASE \E s \in Servers : active[s] > 0
      <4>1. stopExpired \/ go["watcher"] \in {"spawned", "http", "metrics", "grpc"}
        BY Zenon, <1>1, <3>1 DEF RunInv, Before
      <4>2. stopExpired \/ phase = "run"
        BY Zenon, <1>1, <4>1 DEF RunInv, Goroutines
      <4> QED BY Zenon, <1>1, <4>2 DEF OpenInv
    <3>2. CASE started \ closed # {}
      BY Zenon, <1>1, <3>2 DEF OpenInv
    <3> QED BY Zenon, <2>1, <3>1, <3>2
  <2>6. BusInv'
    BY Zenon, <1>2, <2>5 DEF BusInv, run
  <2> QED BY ZenonT(60), <1>4, <2>3, <2>4, <2>6 DEF WorkInv
<1> QED BY Zenon, <1>5, <1>6

LEMMA PriorityFact ==
  ASSUME sorted \in Seq(Modules)
  PROVE  /\ DOMAIN Priority = Added
         /\ \A m \in Elements(sorted) : m \in Added /\ Priority[m] = 1
         /\ "event-bus" \in Added /\ Priority["event-bus"] = 2
         /\ \A r \in {"cache", "write-db", "read-db"} : r \in Added /\ Priority[r] > 2
<1>1. \A m \in Elements(sorted) : m \in Modules /\ m \notin Resources
  BY NamesAssumption DEF Elements
<1>2. Elements(sorted) \subseteq Added /\ Needed \subseteq Added
  BY Zenon DEF Added, Pools, Needed
<1>3. \A r \in Needed : r \notin Elements(sorted)
  BY Zenon, <1>1 DEF Needed, Resources
<1>4. DOMAIN Priority = Added
  BY Zenon DEF Priority
<1>5. \A m \in Elements(sorted) : m \in Added /\ Priority[m] = 1
  BY Zenon, <1>1, <1>2 DEF Priority, Resources, Pools
<1>6. Priority["event-bus"] = 2 /\ Priority["cache"] = 3
      /\ Priority["write-db"] = 4 /\ Priority["read-db"] = 4
  BY Zenon, <1>2, <1>3 DEF Priority, Needed, Pools
<1> QED BY <1>2, <1>4, <1>5, <1>6 DEF Needed

LEMMA CloseStep ==
  ASSUME LifecycleInv, WorkInv, NEW e, CloseEntry(e)
  PROVE  WorkInv'
<1>1. WorkType /\ OpenInv /\ RunInv /\ BusInv /\ sorted \in Seq(Modules)
  BY Zenon DEF WorkInv, LifecycleInv, OrderInv, OrderType
<1>2. /\ UNCHANGED <<orderVars, conf, phase, done, run, handlers, started>>
      /\ phase = "shutdown" /\ Ready(e) /\ closed' = closed \cup {e} /\ Close(e)
      /\ gaveUp' = gaveUp \/ gaveUp' = TRUE
      /\ e = "event-bus" /\ handlers > 0 => gaveUp' = TRUE
  BY Zenon DEF CloseEntry
<1>3. sorted' = sorted
  BY Zenon, <1>2 DEF orderVars
<1>4. /\ open' \in Seq(Resources)
      /\ \A r \in Elements(open) : r # e => r \in Elements(open')
  <2>1. open \in Seq(Resources)
    BY Zenon, <1>1 DEF WorkType
  <2>2. CASE e \notin Elements(open)
    BY Zenon, <1>2, <2>1, <2>2 DEF Close
  <2>3. CASE e \in Elements(open)
    <3>1. PICK n \in DOMAIN open : n = CHOOSE i \in DOMAIN open : open[i] = e
      BY Zenon, <2>3 DEF Elements
    <3>2. open[n] = e
      BY Zenon, <2>3, <3>1 DEF Elements
    <3>3. open' = Without(open, n)
      BY Zenon, <1>2, <2>3, <3>1 DEF Close
    <3> QED BY ZenonT(60), <2>1, <3>2, <3>3, WithoutFact
  <2> QED BY Zenon, <2>2, <2>3
<1>5. WorkType'
  BY Zenon, <1>1, <1>2, <1>4 DEF WorkType, run
<1>6. RunInv'
  BY Zenon, <1>1, <1>2 DEF RunInv, run, Before
<1>7. BusInv'
  BY <1>1, <1>2 DEF BusInv, run, WorkType
<1>8. \A f \in Added : Priority[f] < Priority[e] => f \in closed
  BY Zenon, <1>1, <1>2, PriorityFact DEF Ready
<1>9. "event-bus" \in closed' => Elements(sorted) \subseteq closed'
  <2>1. CASE e = "event-bus"
    <3>1. \A m \in Elements(sorted) : m \in closed
      BY <1>1, <1>8, <2>1, PriorityFact
    <3> QED BY Zenon, <1>2, <3>1
  <2>2. CASE e # "event-bus"
    BY Zenon, <1>1, <1>2, <2>2 DEF OpenInv
  <2> QED BY Zenon, <2>1, <2>2
<1>10. ASSUME NEW r \in {"cache", "write-db", "read-db"}, r \in closed'
       PROVE  "event-bus" \in closed'
  <2>1. CASE e = r
    BY ZenonT(60), <1>1, <1>2, <1>8, <2>1, PriorityFact
  <2>2. CASE e # r
    BY Zenon, <1>1, <1>2, <1>10, <2>2 DEF OpenInv
  <2> QED BY Zenon, <2>1, <2>2
<1>11. \A r \in Needed : r \in Elements(open') \/ r \in closed'
  BY Zenon, <1>1, <1>2, <1>4 DEF OpenInv, Failing
<1>12. OpenInv'
  BY ZenonT(60), <1>1, <1>2, <1>3, <1>9, <1>10, <1>11 DEF OpenInv, Failing
<1> QED BY Zenon, <1>5, <1>6, <1>7, <1>12 DEF WorkInv

LEMMA WorkStep ==
  ASSUME LifecycleInv, WorkInv, [Next]_vars
  PROVE  WorkInv'
<1>1. CASE Cancel \/ UNCHANGED vars
  <2>1. UNCHANGED <<orderVars, conf, phase, done, open, run, rest, started>>
    BY Zenon, <1>1 DEF Cancel, vars
  <2>2. OpenInv'
    BY Zenon, <2>1, OpenFrame DEF WorkInv, run, rest
  <2>3. WorkType' /\ RunInv' /\ BusInv'
    BY Zenon, <2>1 DEF WorkInv, WorkType, RunInv, BusInv, run, rest, Before
  <2> QED BY Zenon, <2>2, <2>3 DEF WorkInv
<1>2. CASE NewStep \/ NewFails \/ Unwind
  BY Zenon, <1>2, NewStepInv
<1>3. CASE \/ RegisterModules \/ OrderModules \/ RegisterModule \/ CallRun \/ OnStart
           \/ RunReturns \/ CallShutdown \/ ShutdownReturns
  BY Zenon, <1>3, MainStep
<1>4. CASE \/ \E s \in Servers : StartHTTP(s) \/ ServeReturns(s)
           \/ StartGRPC \/ BeginPoll \/ EndPoll
           \/ \E g \in Goroutines : LoopReturns(g)
  BY Zenon, <1>4, GoSteps
<1> QED BY <1>1, <1>2, <1>3, <1>4, SpawnStep, RequestStep, StopStep, BusStep, CloseStep DEF Next

LEMMA WorkInvariant == Spec => []WorkInv
<1>1. LifecycleInv /\ WorkInv /\ [Next]_vars => WorkInv'
  BY Zenon, WorkStep
<1> QED BY <1>1, WorkInit, LifecycleInvariant, PTL DEF Spec

\* A New that fails at any of its steps has closed all that it opened.
THEOREM NewLeaksNothingAlways == Spec => []NewLeaksNothing
<1>1. WorkInv => NewLeaksNothing
  BY Zenon DEF WorkInv, OpenInv, NewLeaksNothing
<1> QED BY <1>1, WorkInvariant, PTL

\* Neither New's failure nor Shutdown takes the pool or the stream from a relay
\* that polls, nor, unless one of its timeouts was reached, the pools and the
\* cache from a request or a bus handler that still runs.
THEOREM WorkHasResourcesAlways == Spec => []WorkHasResources
<1>1. WorkInv => WorkHasResources
  <2> SUFFICES ASSUME WorkInv PROVE WorkHasResources
    BY Zenon
  <2>1. WorkType /\ OpenInv /\ RunInv /\ BusInv
    BY Zenon DEF WorkInv
  <2>2. ASSUME phase = "run" PROVE Needed \subseteq Elements(open)
    BY Zenon, <2>1, <2>2 DEF OpenInv, Failing
  <2>3. go["worker"] = "polling" => {"write-db", "stream"} \subseteq Elements(open)
    <3>1. go["worker"] = "polling" => phase = "run"
      BY Zenon, <2>1 DEF RunInv, Goroutines
    <3> QED BY Zenon, <2>2, <3>1 DEF Needed
  <2>4. ASSUME ~stopExpired, ~gaveUp, NEW s \in Servers, active[s] > 0
        PROVE  {"write-db", "read-db", "cache"} \subseteq Elements(open)
    <3>1. go["watcher"] \in {"spawned", "http", "metrics", "grpc"}
      BY Zenon, <2>1, <2>4 DEF RunInv, Before
    <3>2. phase = "run"
      BY Zenon, <2>1, <3>1 DEF RunInv, Goroutines
    <3> QED BY Zenon, <2>2, <3>2 DEF Needed
  <2>5. ASSUME ~stopExpired, ~gaveUp, handlers > 0
        PROVE  {"write-db", "read-db", "cache"} \subseteq Elements(open)
    <3>1. "event-bus" \notin closed /\ ~Failing
      BY <2>1, <2>5 DEF BusInv, OpenInv, WorkType
    <3> QED BY Zenon, <2>1, <3>1 DEF OpenInv, Needed
  <2> QED BY Zenon, <2>3, <2>4, <2>5 DEF WorkHasResources
<1> QED BY <1>1, WorkInvariant, PTL
=============================================================================
