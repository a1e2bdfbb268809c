----------------------------- MODULE NodeMachine -----------------------------
(***************************************************************************)
(* What the coordinator relies on when it asks the driver about the        *)
(* machine of one node: a machine is launched only when it is proven off,  *)
(* a launch that is not proven yet is neither off nor on, and off stays    *)
(* off until the next launch.  ScenarioInstance keeps one such machine per *)
(* node and generation.                                                    *)
(***************************************************************************)
VARIABLE vm

MachineInit == vm = "off"

Launch == vm = "off" /\ vm' = "launching"
Up     == vm = "launching" /\ vm' = "on"
Off    == vm \in {"launching", "on"} /\ vm' = "off"

MachineSpec == MachineInit /\ [][Launch \/ Up \/ Off]_vm
=============================================================================
