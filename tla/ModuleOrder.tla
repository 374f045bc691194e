---------------------------- MODULE ModuleOrder ----------------------------
(***************************************************************************)
(* modular.Registry: duplicate prevention and the boot order of modules.   *)
(* Kahn's algorithm is kept step by step, because the order in which a     *)
(* round of the loop appends the modules it released follows Go's map      *)
(* iteration and is arbitrary.                                             *)
(***************************************************************************)
EXTENDS Integers, FiniteSets, Sequences

CONSTANT
  Modules    \* module names

VARIABLES
  dependsOn,   \* what DependsOn() of each module returns; never changes
  registered,  \* Registry.modules: names in the order of registration
  inDegree,    \* dependencies of a module that are not sorted yet
  queue,       \* modules whose dependencies are sorted
  sorted,      \* the boot order so far
  outcome      \* of Register and Modules(): none, duplicate, sorting,
               \* ok or error

orderVars == <<dependsOn, registered, inDegree, queue, sorted, outcome>>

Elements(s) == {s[i] : i \in DOMAIN s}

\* How often module d occurs in m's DependsOn().
Occurrences(d, m) == Cardinality({i \in DOMAIN dependsOn[m] : dependsOn[m][i] = d})

\* The sequences that list each member of S once.
Listings(S) ==
  {f \in [1..Cardinality(S) -> S] : \A i, j \in DOMAIN f : i # j => f[i] # f[j]}

\* The members of q occur in s in the same order.
InOrderOf(q, s) ==
  \A i, j \in DOMAIN q : i < j =>
    \E k, l \in DOMAIN s : k < l /\ s[k] = q[i] /\ s[l] = q[j]

OrderInit ==
  /\ registered = <<>>
  /\ inDegree = [m \in Modules |-> 0]
  /\ queue = <<>>
  /\ sorted = <<>>
  /\ outcome = "none"

\* Registry.Register: a name that was seen before is an error.
Register(name) ==
  /\ outcome = "none"
  /\ IF name \in Elements(registered)
     THEN /\ outcome' = "duplicate"
          /\ UNCHANGED registered
     ELSE /\ registered' = Append(registered, name)
          /\ UNCHANGED outcome
  /\ UNCHANGED <<dependsOn, inDegree, queue, sorted>>

hasDependencies == \E m \in Elements(registered) : dependsOn[m] # <<>>

\* Some module depends on one that is not registered.
Unregistered ==
  \E m \in Elements(registered) :
    ~(Elements(dependsOn[m]) \subseteq Elements(registered))

\* Modules(), up to the loop of Kahn's algorithm.
BeginSort ==
  /\ outcome = "none"
  /\ \/ /\ ~hasDependencies
        /\ sorted' = registered
        /\ outcome' = "ok"
        /\ UNCHANGED <<inDegree, queue>>
     \/ /\ hasDependencies /\ Unregistered
        /\ outcome' = "error"
        /\ UNCHANGED <<inDegree, queue, sorted>>
     \/ /\ hasDependencies /\ ~Unregistered
        /\ inDegree' = [m \in Modules |-> IF m \in Elements(registered)
                                          THEN Len(dependsOn[m]) ELSE 0]
        /\ queue' \in Listings({m \in Elements(registered) : dependsOn[m] = <<>>})
        /\ InOrderOf(queue', registered)
        /\ outcome' = "sorting"
        /\ UNCHANGED sorted
  /\ UNCHANGED <<dependsOn, registered>>

\* The modules whose last unsorted dependency is name.
Released(name) ==
  {m \in Elements(registered) : /\ Occurrences(name, m) > 0
                                /\ inDegree[m] = Occurrences(name, m)}

\* One round of the loop: the head of the queue is sorted, and the modules
\* it releases join the queue in any order.
SortNext ==
  /\ outcome = "sorting"
  /\ queue # <<>>
  /\ sorted' = Append(sorted, Head(queue))
  /\ inDegree' = [m \in Modules |-> inDegree[m] -
                    IF m \in Elements(registered) THEN Occurrences(Head(queue), m)
                                                  ELSE 0]
  /\ \E released \in Listings(Released(Head(queue))) :
       queue' = Tail(queue) \o released
  /\ UNCHANGED <<dependsOn, registered, outcome>>

\* Mutant of EndSort: the modules that were never released are forgotten.
EndSort_NoCycleCheck ==
  /\ outcome = "sorting"
  /\ queue = <<>>
  /\ outcome' = "ok"
  /\ UNCHANGED <<dependsOn, registered, inDegree, queue, sorted>>

EndSort ==
  /\ outcome = "sorting"
  /\ queue = <<>>
  /\ outcome' = IF Len(sorted) = Len(registered) THEN "ok" ELSE "error"
  /\ UNCHANGED <<dependsOn, registered, inDegree, queue, sorted>>

\* What a caller may do with a registry whose modules declare dependsOn.
OrderNext ==
  \/ \E name \in Modules : Register(name)
  \/ BeginSort \/ SortNext \/ EndSort

OrderSpec ==
  /\ OrderInit /\ dependsOn \in [Modules -> Seq(Modules)]
  /\ [][OrderNext]_orderVars

-----------------------------------------------------------------------------

\* Some modules wait for each other: each has a dependency among them.
Cyclic ==
  \E S \in SUBSET Elements(registered) :
    S # {} /\ \A m \in S : Elements(dependsOn[m]) \cap S # {}

\* Every module in the order so far comes after its dependencies.
Ordered ==
  \A i \in DOMAIN sorted : \A d \in Elements(dependsOn[sorted[i]]) :
    \E j \in 1..(i - 1) : sorted[j] = d

\* Registry.Modules() returns an order exactly when one exists: every
\* registered module once and after everything it depends on.  It fails
\* exactly when a dependency is missing or the modules form a cycle.
OrderIsRight ==
  /\ outcome = "ok" =>
       /\ ~Unregistered /\ ~Cyclic
       /\ Elements(sorted) = Elements(registered)
       /\ Len(sorted) = Len(registered)
       /\ Ordered
  /\ outcome = "error" => Unregistered \/ Cyclic
=============================================================================
