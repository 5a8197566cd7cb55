----------------------------- MODULE MCWorkdir -----------------------------
(* Instances of Workdir.tla for TLC.                                       *)
EXTENDS Workdir

CONSTANTS o1, o2, cache

\* One controller.
AllNamespaced == [o \in Objects |-> "namespaced"]

\* Both controllers, an object of each scope.
OneOfEach == [o \in Objects |-> IF o = o1 THEN "namespaced" ELSE "cluster"]

=============================================================================
