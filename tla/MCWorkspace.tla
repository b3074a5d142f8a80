---------------------------- MODULE MCWorkspace ----------------------------
(* Small instances of Workspace: dsh, whose page reports presence, on docker, *)
(* and a product on ECI whose page does not.                                  *)
EXTENDS Workspace

CONSTANTS w

Dsh   == [reports |-> TRUE, cloud |-> FALSE]
Comfy == [reports |-> FALSE, cloud |-> TRUE]

MCBoth == {Dsh, Comfy}
MCDsh  == {Dsh}
=============================================================================
