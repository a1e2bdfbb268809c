----------------------------- MODULE MCMachines -----------------------------
(***************************************************************************)
(* One leased instance, the driver that starts and stops the machine of a *)
(* node, and the agent inside such a machine, one at a time: the theme     *)
(* chosen at the start names the one that moves.  The instance fits the    *)
(* pool, and the stops that two leases ask for have keys of their own.     *)
(***************************************************************************)
EXTENDS ManagedInstanceProps, DriverLaunch, GuestAgent, TLC

CONSTANTS l1, l2, s1, s2, owner, Themes

VARIABLES theme

MCOwner == [i \in Managed |-> owner]
MCOne   == [i \in Managed |-> 1]
MCLimit == owner :> 1
MCStop  == [i \in Managed |-> "request-stop"]
MCStopKey == [l \in Leases |-> IF l = l1 THEN s1 ELSE s2]

MCInit == ManagedInit /\ DriverInit /\ GuestInit /\ theme \in Themes

(* Sessions are re-armed for either of the two attempts, not for both. *)
DriverMove ==
  /\ DriverNext
  /\ Cardinality({a \in LaunchNumbers : \E s \in Sessions : proc'[a][s] # "none"}) <= 1

MCNext ==
  /\ \/ theme = "managed" /\ ManagedNext /\ UNCHANGED <<dvars, guestVars>>
     \/ theme = "driver" /\ DriverMove /\ UNCHANGED <<mvars, guestVars>>
     \/ theme = "guest" /\ GuestNext /\ UNCHANGED <<mvars, dvars>>
  /\ UNCHANGED theme

MCSpec == MCInit /\ [][MCNext]_<<mvars, dvars, guestVars, theme>>

(* Keys may be exchanged, and leases together with their stop keys. *)
Symmetry ==
  {p \in Permutations(Leases \cup Keys) :
     \A l \in Leases : p[l] \in Leases /\ MCStopKey[p[l]] = p[MCStopKey[l]]}
=============================================================================
