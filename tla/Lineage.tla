------------------------------ MODULE Lineage ------------------------------
(***************************************************************************)
(* The lineage of one CIK's instruments (matcher/instruments.py,           *)
(* matcher/lineage_inference.py): what a rebuild of its rows makes of the  *)
(* amendments their mentions name, of ordinals in their names, and of      *)
(* splits and retirements.                                                 *)
(*                                                                         *)
(* A run of the module is one rebuild, from inputs of any kind the model   *)
(* and the texts may produce.  Instruments are numbered in the order of    *)
(* their ids.  An input says, of each instrument, which others its         *)
(* mentions name as amended, when it was first seen, its stem and ordinal  *)
(* ("Second Amended and Restated" is rank 2), and of which pairs borrowers *)
(* or start dates say that they cannot be successive.                      *)
(***************************************************************************)
EXTENDS Integers, FiniteSets

CONSTANTS
  Instrument,  \* the rows, as numbers in id order
  Named,       \* what mentions may name as amended: functions of instruments
  Seen,        \* the places, in filing order, where instruments may be first seen
  Day(_),      \* the filing date of a place
  Names,       \* what names may say, and borrowers: [stem, rank, apart]
  OtherLinks   \* the split and retirement pointers there may be: sets of pairs

None == 0

ASSUME LineageAssumption ==
  /\ Instrument \subseteq Nat \ {None} /\ IsFiniteSet(Instrument)
  /\ Named \subseteq [Instrument -> SUBSET Instrument]
  /\ \A named \in Named : \A i \in Instrument : i \notin named[i]
  /\ Seen \subseteq [Instrument -> Nat]
  /\ \A seen \in Seen : \A i, j \in Instrument :
       Day(seen[i]) \in Nat /\ (seen[i] <= seen[j] => Day(seen[i]) <= Day(seen[j]))
  /\ \A x \in Names : x.rank \in [Instrument -> Nat] /\ x.apart \subseteq Instrument \X Instrument
  /\ \A links \in OtherLinks : links \subseteq Instrument \X Instrument

VARIABLES
  input,     \* the input
  phase,     \* breaking, inferring, checking, rolling, done
  amends,    \* amends[i]: `amendment_of_debt_instrument_id`, or None
  visited,   \* breaking: what a walk has been through
  resolved,  \* checking: the inferred parents, child by child
  unchecked, \* checking: the children still to look at
  inferred,  \* the children with `amendment_inferred_by`
  others,    \* the split and retirement pointers, once the rollup reads them
  family     \* `lineage_family_id`

vars == <<input, phase, amends, visited, resolved, unchecked, inferred, others, family>>

-----------------------------------------------------------------------------
Least(S)    == CHOOSE i \in S : \A j \in S : i <= j
TheOnly(S)  == CHOOSE i \in S : TRUE

\* The k-th ancestor of each instrument under links, for k up to their number.
Ancestor(links) ==
  LET up[k \in 0 .. Cardinality(Instrument)] ==
        IF k = 0 THEN [i \in Instrument |-> i]
        ELSE LET before == up[k - 1]
             IN  [i \in Instrument |-> IF before[i] = None THEN None ELSE links[before[i]]]
  IN  up

Ancestors(links, i) ==
  LET up == Ancestor(links)
  IN  {up[k][i] : k \in 1 .. Cardinality(Instrument)} \ {None}

\* `derive_parent_links`: an ambiguous parent is none.
Derived(named) ==
  [i \in Instrument |-> IF Cardinality(named[i]) = 1 THEN TheOnly(named[i]) ELSE None]

Init ==
  /\ \E named \in Named, seen \in Seen, x \in Names :
       input = [named |-> named, seen |-> seen, stem |-> x.stem, rank |-> x.rank,
                apart |-> x.apart]
  /\ phase = "breaking"
  /\ amends = Derived(input.named)
  /\ visited = {} /\ resolved = <<>> /\ unchecked = {} /\ inferred = {}
  /\ others = {} /\ family = <<>>

-----------------------------------------------------------------------------
\* `break_amendment_cycles`

\* Faulty: ids alone say which is the newest.
LaterById(i, j) == i >= j

\* First seen in a later mention, or in the same one with the larger id.
Later(i, j) ==
  \/ input.seen[i] > input.seen[j]
  \/ input.seen[i] = input.seen[j] /\ i >= j

Newest(cycle) == CHOOSE i \in cycle : \A j \in cycle : Later(i, j)

\* The walk from the first instrument no walk has been through, up to one that
\* a walk has been through or that amends nothing.
Walk(start) ==
  LET up == Ancestor(amends)
  IN  {i \in Instrument : \E k \in DOMAIN up :
         up[k][start] = i /\ \A n \in 0 .. k : up[n][start] \notin visited}

CycleOf(path) == {i \in path : i \in Ancestors(amends, i)}

WalkOn ==
  /\ phase = "breaking" /\ visited # Instrument
  /\ LET path  == Walk(Least(Instrument \ visited))
         cycle == CycleOf(path)
     IN  /\ visited' = visited \cup path
         /\ amends' = [i \in Instrument |->
              IF i \in cycle /\ amends[i] = Newest(cycle) THEN None ELSE amends[i]]
  /\ UNCHANGED <<input, phase, resolved, unchecked, inferred, others, family>>

EndBreaking ==
  /\ phase = "breaking" /\ visited = Instrument
  /\ phase' = "inferring"
  /\ UNCHANGED <<input, amends, visited, resolved, unchecked, inferred, others, family>>

-----------------------------------------------------------------------------
\* `infer_amendment_parents`

Stem(i)  == {j \in Instrument : input.stem[j] = input.stem[i]}
Lower(i) == {j \in Stem(i) : input.rank[j] < input.rank[i]}

\* The states of the rank before i's, without those another of that rank amends.
Predecessors(links, i) ==
  LET before == {j \in Lower(i) : \A k \in Lower(i) : input.rank[k] <= input.rank[j]}
  IN  before \ {links[j] : j \in before}

Offered(links, i) ==
  IF links[i] # None THEN {}
  ELSE {p \in Predecessors(links, i) :
          /\ <<i, p>> \notin input.apart
          /\ Day(input.seen[p]) <= Day(input.seen[i])
          /\ links[p] # i}

\* One parent is offered, and does not get its child offered as parent.
SingledOut(links) ==
  LET one == {i \in Instrument : Cardinality(Offered(links, i)) = 1}
      offer == [i \in one |-> TheOnly(Offered(links, i))]
      mutual == {i \in one : offer[i] \in one /\ offer[offer[i]] = i}
  IN  [i \in one \ mutual |-> offer[i]]

Infer ==
  /\ phase = "inferring"
  /\ resolved' = SingledOut(amends)
  /\ unchecked' = DOMAIN resolved'
  /\ phase' = "checking"
  /\ UNCHANGED <<input, amends, visited, inferred, others, family>>

With(links, more) ==
  [i \in Instrument |-> IF i \in DOMAIN more THEN more[i] ELSE links[i]]

\* Faulty: only the extracted pointers are followed.
ClosesCycleOfExtracted(i) ==
  i \in {resolved[i]} \cup Ancestors(amends, resolved[i])

\* Following `parent_of` from the inferred parent leads back to the child.
ClosesCycle(i) == i \in Ancestors(With(amends, resolved), i)

CheckNext ==
  /\ phase = "checking" /\ unchecked # {}
  /\ LET i == Least(unchecked)
     IN  /\ unchecked' = unchecked \ {i}
         /\ resolved' = IF ClosesCycle(i)
                        THEN [j \in DOMAIN resolved \ {i} |-> resolved[j]] ELSE resolved
  /\ UNCHANGED <<input, phase, amends, visited, inferred, others, family>>

\* `apply_inferred_lineage`
Fill ==
  /\ phase = "checking" /\ unchecked = {}
  /\ amends' = With(amends, resolved)
  /\ inferred' = DOMAIN resolved
  /\ phase' = "rolling"
  /\ UNCHANGED <<input, visited, resolved, unchecked, others, family>>

-----------------------------------------------------------------------------
\* `apply_lifecycle_rollup`

Pointers(links) ==
  {<<i, amends[i]>> : i \in {i \in Instrument : amends[i] # None}} \cup links

Neighbors(links, S) ==
  UNION {{p[1], p[2]} : p \in {p \in Pointers(links) : p[1] \in S \/ p[2] \in S}}

Component(links, i) ==
  LET reached[n \in 0 .. Cardinality(Instrument)] ==
        IF n = 0 THEN {i}
        ELSE LET before == reached[n - 1] IN before \cup Neighbors(links, before)
  IN  reached[Cardinality(Instrument)]

\* Each instrument takes its component's smallest id.
Rollup(links) ==
  /\ phase = "rolling"
  /\ others' = links
  /\ family' = [i \in Instrument |-> Least(Component(links, i))]
  /\ phase' = "done"
  /\ UNCHANGED <<input, amends, visited, resolved, unchecked, inferred>>

IsHead(i) == \A j \in Instrument : amends[j] # i

Next == WalkOn \/ EndBreaking \/ Infer \/ CheckNext \/ Fill
        \/ \E links \in OtherLinks : Rollup(links)

Spec == Init /\ [][Next]_vars

-----------------------------------------------------------------------------
OnCycle(links) == {i \in Instrument : i \in Ancestors(links, i)}

(* When a rebuild is done, no instrument amends itself over any number of     *)
(* steps; pointers of every kind stay inside a family, a family is no larger  *)
(* than they make it, and every family has a head (instruments.py:30-37,      *)
(* 197-202).                                                                  *)
FamiliesHaveHeads ==
  phase = "done" =>
    /\ OnCycle(amends) = {}
    /\ \A p \in Pointers(others) : family[p[1]] = family[p[2]]
    /\ \A S \in (SUBSET Instrument) \ {{}} :
         (\A p \in Pointers(others) : p[1] \in S <=> p[2] \in S) =>
           {j \in Instrument : \E i \in S : family[i] = family[j]} = S
    /\ \A i \in Instrument : \E j \in Instrument : family[j] = family[i] /\ IsHead(j)

(* The extracted pointers that are left: one of each cycle is dropped, the    *)
(* one to what was first seen last, and none that is on no cycle.             *)
Extracted == [i \in Instrument |-> IF i \in inferred THEN None ELSE amends[i]]

KeptExtracted ==
  LET named == Derived(input.named)
      lost  == {i \in Instrument : named[i] # None /\ Extracted[i] = None}
  IN  /\ \A i \in Instrument \ lost : Extracted[i] = named[i]
      /\ lost \subseteq OnCycle(named)
      /\ \A i \in OnCycle(named) :
           LET cycle == Ancestors(named, i)
           IN  /\ Cardinality(lost \cap cycle) = 1
               /\ \A j \in lost \cap cycle, k \in cycle :
                    input.seen[k] <= input.seen[named[j]]

(* No pointer is lost but to a cycle: extracted ones as above; an inferred    *)
(* one that is singled out is refused only if it would close one with the     *)
(* pointers that were published, and never replaces an extracted one          *)
(* (instruments.py:197-202, lineage_inference.py:131-136).                    *)
OnlyCyclesLosePointers ==
  phase = "done" =>
    /\ KeptExtracted
    /\ LET single == SingledOut(Extracted)
       IN  /\ inferred \subseteq DOMAIN single
           /\ \A i \in DOMAIN single :
                IF i \in inferred THEN amends[i] = single[i]
                ELSE amends[i] = None /\ i \in {single[i]} \cup Ancestors(amends, single[i])
=============================================================================
