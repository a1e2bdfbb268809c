------------------------------ MODULE MCLinks ------------------------------
(***************************************************************************)
(* What ties a scene together, one at a time, as in MCLab: the commands on *)
(* a scene, the sessions of the attachment for Kali, the relay to a host   *)
(* outside and the loopback switch.                                        *)
(***************************************************************************)
EXTENDS SceneTransactions, KaliSessions, RelaySession, LoopbackSwitch, TLC

CONSTANTS m1, m2, Themes

VARIABLES theme

MCServices == <<"outer">>
MCMachines == <<"kali">>
MCReservation == m1 :> 1 @@ m2 :> 0 @@ OutsideMac :> 3

MCInit == SceneInit /\ KaliInit /\ RelayInit /\ SwitchInit /\ theme \in Themes

(* Two commands under way at a time: of the two, one is a start. *)
SceneMove ==
  /\ SceneNext
  /\ \A c \in Commands : \A d \in Commands \ {c} :
       cmds'[c] # Waiting /\ cmds'[d] # Waiting => (cmds'[c].op = "start") # (cmds'[d].op = "start")

(* A further session of the relay or a further generation of the scene, not both. *)
RelayMove == RelayNext /\ (relayGen' = 1 \/ prepared' <= 1)

MCNext ==
  /\ \/ theme = "scene" /\ SceneMove /\ UNCHANGED <<kaliVars, relayVars, switchVars>>
     \/ theme = "kali" /\ KaliNext /\ UNCHANGED <<sceneVars, relayVars, switchVars>>
     \/ theme = "relay" /\ RelayMove /\ UNCHANGED <<sceneVars, kaliVars, switchVars>>
     \/ theme = "switch" /\ SwitchNext /\ UNCHANGED <<sceneVars, kaliVars, relayVars>>
  /\ UNCHANGED theme

MCSpec == MCInit /\ [][MCNext]_<<sceneVars, kaliVars, relayVars, switchVars, theme>>

(* The parts that take turns share the names of their members, so that one permutation serves them all. *)
Symmetry == Permutations(Commands)
=============================================================================
