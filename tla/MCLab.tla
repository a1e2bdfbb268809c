------------------------------- MODULE MCLab -------------------------------
(***************************************************************************)
(* The four models of LabManager side by side.  They share no variable, so *)
(* their interleavings show nothing new: a theme is chosen at the start,   *)
(* and only the variables of its model move.  Two of the models are too    *)
(* large with all of their operations at once and are divided into themes. *)
(***************************************************************************)
EXTENDS LabDisks, LabImages, LabInstall, LabMachines, TLC

VARIABLES theme

Themes == {"moves", "snaps", "packs", "apply", "install", "machines"}

DiskOps == [moves |-> {"idle", "import", "run", "matrix", "stop", "reset", "remove", "restore", "drop", "finalize"},
            snaps |-> {"idle", "import", "run", "stop", "reset", "create", "revert", "delete"}]

MCInit == DisksInit /\ ImagesInit /\ InstallInit /\ MachinesInit /\ theme \in Themes

(* The disks without guest writes, with a death or a second launch; and one base with snapshots. *)
DisksMove ==
  /\ theme \in {"moves", "snaps"} /\ DisksNext
  /\ running'.op \in DiskOps[theme]
  /\ theme = "moves" => made'.moments = 1 /\ made'.launches + made'.deaths <= 2
  /\ theme = "snaps" => Cardinality(bases') <= 1 /\ kept' = kept
  /\ UNCHANGED <<imagesVars, installVars, machinesVars>>

(* The packs without the matrix, where one node at a time has another base or loses its own in part; and one node *)
(* with the matrix. *)
ImagesMove ==
  /\ theme \in {"packs", "apply"} /\ ImagesNext
  /\ theme = "packs" => task'.op # "matrix" /\ versions' <= 2 /\ Cardinality(leaving') <= 1
  /\ theme = "packs" => Cardinality(ruined') <= 1 /\ Cardinality({n \in Nodes : OtherSource \in published'[n]}) <= 1
  /\ theme = "apply" => task'.op # "pack" /\ Cardinality({n \in Nodes : yaml'[n] > 0}) <= 1
  /\ UNCHANGED <<disksVars, installVars, machinesVars>>

InstallMoves == theme = "install" /\ InstallNext /\ UNCHANGED <<disksVars, imagesVars, machinesVars>>
MachinesMove == theme = "machines" /\ MachinesNext /\ UNCHANGED <<disksVars, imagesVars, installVars>>

MCNext == (DisksMove \/ ImagesMove \/ InstallMoves \/ MachinesMove) /\ UNCHANGED theme

MCSpec == MCInit /\ [][MCNext]_<<disksVars, imagesVars, installVars, machinesVars, theme>>

Symmetry == Permutations(Names) \cup Permutations(Nodes) \cup Permutations(Profiles)
=============================================================================
