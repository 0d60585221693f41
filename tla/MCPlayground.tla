---------------------------- MODULE MCPlayground ----------------------------
(* Instances of Playground and BuildCache for TLC. *)
EXTENDS Playground

\* two programs with packages of their own, one without that does not compile
MCSources == {"uses k1", "uses k2", "broken"}
MCGood == MCSources \ {"broken"}
MCPackagesOf == [s \in MCSources |->
    CASE s = "uses k1" -> {"k1"} [] s = "uses k2" -> {"k2"} [] OTHER -> {}]

MCTogether == {{"parallel"}}
MCAll == MCTogether \cup {{}, {"edit"}, {"flaky"}, {"kill"}}

\* overlapping checks race for the atom and the workspace, and one build is
\* enough for each of them to be admitted or refused; one caller comes again
\* and again where checks do not overlap
MCMaxBuilds == [h \in MCAll |-> IF h \in MCTogether THEN 1 ELSE 3]
MCCallers == [h \in MCAll |-> IF h \in MCTogether THEN Requests ELSE {CHOOSE r \in Requests : TRUE}]
MCMaxBuildsTogether == [h \in MCTogether |-> 2]
MCCallersTogether == [h \in MCTogether |-> Requests]
=============================================================================
