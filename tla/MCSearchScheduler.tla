-------------------------- MODULE MCSearchScheduler --------------------------
(* Small instances of SearchScheduler: the functions that a configuration   *)
(* file cannot write down.                                                  *)
EXTENDS SearchScheduler, TLC

CONSTANTS a, b, c, x, y

\* Searches a and b ask for every indexer, c only for the first one.
WantedMC   == [j \in Jobs |-> IF j = c THEN {x} ELSE Indexers]
\* c comes first.
PriorityMC == [j \in Jobs |-> IF j = c THEN 0 ELSE 1]
\* Without rate limiting nothing ever waits.
NoWaits    == [j \in Jobs |-> 0]
NoPeriods  == [l \in 0..Levels |-> 0]
PeriodsMC  == [l \in 0..Levels |-> 2 * l]
\* a keeps the whole interval, the others half of it.
IntervalMC == [j \in Jobs |-> IF j = a THEN MinInterval ELSE MinInterval \div 2]
\* a gives up on waits of more than one tick, the others never.
BudgetMC   == [j \in Jobs |-> IF j = a THEN 1 ELSE 0]
\* Searches and indexers are interchangeable where nothing tells them apart.
Symmetry   == Permutations(Jobs) \cup Permutations(Indexers)
=============================================================================
