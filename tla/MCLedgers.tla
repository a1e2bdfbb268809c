------------------------------ MODULE MCLedgers ------------------------------
(***************************************************************************)
(* The two ledgers that everything else leans on, the contract service and *)
(* the leases, and the draft of a scenario, one at a time: the theme       *)
(* chosen at the start names the one that moves, and the others stay as    *)
(* they were created.                                                      *)
(***************************************************************************)
EXTENDS LocalServiceProps, LeaseStoreProps, ScenarioDraft, TLC

CONSTANTS i1, i2, i3, p1, p2, m1, m2, x1

VARIABLES theme

(* One outcome of each sort: legal ends of the operations, a cancellation,
   an error, and values the service must not believe. *)
MCOutcomes ==
  {[state |-> s, cancelled |-> FALSE, error |-> FALSE] : s \in {"prepared", "stopped", "process-running"}}
  \cup {[state |-> "stopped", cancelled |-> TRUE, error |-> FALSE],
        [state |-> "failed", cancelled |-> FALSE, error |-> TRUE]}

MCAnyKind == {"start", "stop", "reset", "recover", "guest"}

(* Three leased instances of two principals: the disks of i1 and i2 are more
   than p1 may have, and the pool has room for two of the three. *)
MCOwner  == i1 :> p1 @@ i2 :> p1 @@ i3 :> p2
MCCost   == i1 :> 1 @@ i2 :> 1 @@ i3 :> 2
MCDisk   == i1 :> 1 @@ i2 :> 2 @@ i3 :> 1
MCLimit  == p1 :> 2 @@ p2 :> 2
MCExpiry == [i \in {i1, i2, i3} |-> "request-stop"]

(* An instance of two machines in one network of three addresses, the last of which is kept. *)
MCSources ==
  {[nets |-> x1 :> {1, 2, 3}, slot |-> 3,
    nodes |-> m1 :> [deps |-> {}, nics |-> x1 :> 1] @@ m2 :> [deps |-> {m1}, nics |-> x1 :> 2]]}
MCRanges == {{3, 4}, {5, 6}}

MCInit == Init /\ TimedInit /\ DraftInit /\ theme \in {"contract", "leases", "draft"}

(* All instances while the clocks agree; one of them while they part, by at
   most one by hand, or after the host has been booted again; a bounded time. *)
LeaseMove ==
  /\ TimedNext
  /\ clock'.boot # 1 \/ clock'.drift # 0 => storage' \subseteq {i1}
  /\ clock'.boot = 1 \/ clock'.drift = 0
  /\ real' <= MaxMono + 1 /\ \A l \in Leases : byHand'[l] \in -1..1

(* One validation at a time, in the first three revisions; another instance is selected in the first two. *)
DraftMove ==
  /\ DraftNext /\ Cardinality(asking') <= 1 /\ (asking' # {} => revision' <= 3)
  /\ (here' \/ revision' <= 2) /\ (generation' = 1 \/ acceptance' # {})

MCNext ==
  /\ \/ theme = "contract" /\ Next /\ UNCHANGED <<timedVars, draftVars>>
     \/ theme = "leases" /\ LeaseMove /\ UNCHANGED <<vars, draftVars>>
     \/ theme = "draft" /\ DraftMove /\ UNCHANGED <<vars, timedVars>>
  /\ UNCHANGED theme

MCSpec == MCInit /\ [][MCNext]_<<vars, timedVars, draftVars, theme>>

Symmetry == Permutations(Keys) \cup Permutations(Workers) \cup Permutations(Leases)
=============================================================================
