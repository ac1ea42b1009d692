--------------------------- MODULE MCResourceSync ---------------------------
(* Small instances of ResourceSync for TLC. *)
EXTENDS ResourceSync, TLC

\* How often each environment move may happen; a move not named never does.
Limit(limits) ==
    [m \in EnvironmentMoves |-> IF m \in DOMAIN limits THEN limits[m] ELSE 0]

FaultBounds ==
    {Limit([edit |-> 2, fault |-> 1]),
     Limit([edit |-> 2, perses |-> 1]),
     Limit([edit |-> 1, perses |-> 1, fault |-> 1]),
     Limit([edit |-> 2, restart |-> 1])}
SelectorBounds ==
    {Limit([edit |-> 2, perses |-> 2, project |-> 1]),
     Limit([edit |-> 2, perses |-> 1, relabel |-> 1]),
     Limit([edit |-> 2, perses |-> 2, loss |-> 1])}
RecoveryBounds ==
    {Limit([edit |-> 2, fault |-> 1, credential |-> 1]),
     Limit([edit |-> 2, restart |-> 1, loss |-> 1])}
DeleteBounds == {Limit([edit |-> 2])}

\* instanceSelector absent: every label.
AnySelector == {Labels}
SomeSelectors == {{"l1"}, BadSelector}
MCSymmetry == Permutations(Instances) \cup Permutations(Objects)
=============================================================================
