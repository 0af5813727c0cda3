---------------------------- MODULE MCReconciler ----------------------------
(* Instances of Reconciler for TLC. *)
EXTENDS Reconciler

\* An application with everything, and one with a larger claim and no more.
Rich  == [bytecode |-> TRUE, size |-> 1, kafka |-> TRUE, preview |-> TRUE]
Plain == [bytecode |-> FALSE, size |-> 1, kafka |-> FALSE, preview |-> FALSE]
Large == [bytecode |-> TRUE, size |-> 2, kafka |-> FALSE, preview |-> FALSE]

AllShapes == {Rich, Plain, Large}
RichOnly  == {Rich}
LargeOnly == {Large}

\* What config/rbac/role.yaml lists, and with KafkaSources as well.
RoleYaml == {"sa", "pvc", "ksvc"}
AllKinds == Kinds

\* A KafkaSource is not watched, so nobody repairs it.
Nothing  == {}
KsvcPvc  == {"ksvc", "pvc"}
=============================================================================
