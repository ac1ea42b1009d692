------------------------- MODULE MCPersesController -------------------------
(* Small instances of PersesController for TLC. *)
EXTENDS PersesController

Limit(limits) ==
    [m \in EnvironmentMoves |-> IF m \in DOMAIN limits THEN limits[m] ELSE 0]

\* With a SQL database a Perses is a Deployment, with a file database a
\* StatefulSet unless the file is in an emptyDir.
Sql == [content |-> "c1", database |-> {"sql"}, emptyDir |-> FALSE, mountsDefined |-> TRUE,
        tagged |-> TRUE, labels |-> "team-a", service |-> "svc", refs |-> {},
        annotations |-> NoMap, serviceAnnotations |-> {}]
File == [Sql EXCEPT !.database = {"file"}]
Volume == [File EXCEPT !.content = "c2", !.service = "svc2"]
EmptyDir == [File EXCEPT !.emptyDir = TRUE, !.refs = {"s1"},
                         !.annotations = {}, !.serviceAnnotations = {"a1"}]
BadMounts == [Sql EXCEPT !.mountsDefined = FALSE]
Untagged(s) == [s EXCEPT !.tagged = FALSE]
Relabelled == [Sql EXCEPT !.labels = "team-b"]

RolloutSpecs == {Volume, EmptyDir, BadMounts, Untagged(Sql), Untagged(File)}
LifecycleSpecs == {File}
RelabelSpecs == {Sql, Relabelled}
None == {}

RolloutBounds ==
    {Limit([edit |-> 2, secret |-> 1]), Limit([edit |-> 2, unlabel |-> 1])}
LifecycleBounds ==
    {Limit([edit |-> 2, fault |-> 1]), Limit([edit |-> 1, restart |-> 1]),
     Limit([edit |-> 1, tamper |-> 1]), Limit([edit |-> 1, unlabel |-> 1])}
EditBounds == {Limit([edit |-> 2])}
=============================================================================
