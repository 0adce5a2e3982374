------------------------------ MODULE Topology ------------------------------
(***************************************************************************)
(* The configured dependency graph as the incident engine reads it: the    *)
(* assets, what each depends on, their configured position (sort_order,    *)
(* then id), and the two orders IncidentEngine derives from them.  The     *)
(* configuration loader accepts acyclic graphs only.                       *)
(***************************************************************************)
EXTENDS Naturals, FiniteSets

CONSTANTS
  Assets,      \* the configured assets
  DependsOn,   \* AssetDefinition.depends_on of every asset
  Position     \* the rank of every asset by (sort_order, id)

(***************************************************************************)
(* ReachIn[n][a] holds the assets at the end of a dependency path of       *)
(* exactly n edges that starts at a.                                       *)
(***************************************************************************)
ReachIn ==
  LET step[n \in 0..Cardinality(Assets)] ==
        IF n = 0
        THEN [a \in Assets |-> {a}]
        ELSE [a \in Assets |-> UNION {DependsOn[b] : b \in step[n - 1][a]}]
  IN  step

\* The members of the list _ancestors returns.
Ancestors(a) == {x \in Assets : \E n \in 1..Cardinality(Assets) : x \in ReachIn[n][a]}

Acyclic == \A a \in Assets : a \notin Ancestors(a)

ASSUME TopologyAssumption ==
  /\ IsFiniteSet(Assets)
  /\ DependsOn \in [Assets -> SUBSET Assets]
  /\ Position \in [Assets -> Nat]
  /\ \A a, b \in Assets : Position[a] = Position[b] => a = b
  /\ Acyclic

\* The longest distance at which the walk of _ancestors meets x from a.
Distance(a, x) ==
  LET lengths == {n \in 1..Cardinality(Assets) : x \in ReachIn[n][a]}
  IN  CHOOSE n \in lengths : \A m \in lengths : m <= n

\* Of the ancestors of a still to be examined, _ancestors lists x first:
\* the farthest one, and of those at one distance the first configured.
ExaminedFirst(a, x, walk) ==
  /\ x \in walk
  /\ \A y \in walk \ {x} :
       \/ Distance(a, x) > Distance(a, y)
       \/ Distance(a, x) = Distance(a, y) /\ Position[x] < Position[y]

\* Of the assets of a batch still to be reconciled, process_batch takes x first:
\* the one with the fewest ancestors, then the first configured.
ReconciledFirst(x, todo) ==
  LET depth(a) == Cardinality(Ancestors(a))
  IN  /\ x \in todo
      /\ \A y \in todo \ {x} :
           \/ depth(x) < depth(y)
           \/ depth(x) = depth(y) /\ Position[x] < Position[y]
=============================================================================
