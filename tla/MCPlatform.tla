----------------------------- MODULE MCPlatform -----------------------------
(* Small instances of the components of Platform for TLC: what a            *)
(* configuration cannot write down.                                         *)
EXTENDS Platform

\* A room of three, which is changed once; and two products, the name of one
\* of which begins the name of the other.
MCCrew    == <<"a", "b", "c">>
MCRosters == {<<"c", "b">>}
MCLonger  == [s \in {"d", "dx"} |-> {"dx"} \ {s}]
=============================================================================
