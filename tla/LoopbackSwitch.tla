--------------------------- MODULE LoopbackSwitch ---------------------------
(***************************************************************************)
(* The switch of a lab's loopback network: guests connect and send frames, *)
(* which are learned from, forwarded or flooded; DHCP requests are         *)
(* answered; and one outside machine may be let in by a challenge and then *)
(* only through a gate.  The switch handles one frame at a time; a peer    *)
(* may turn out to be gone when a frame is sent to it.                     *)
(* A session, its nonces and its token are one value.  Frames that the     *)
(* rate limit drops, captures and counters are left out.                   *)
(* Bounds: Connections, Addresses, MaxRounds connections made.             *)
(***************************************************************************)
EXTENDS Naturals, FiniteSets, FiniteSetsExt

CONSTANTS Connections, Macs, OutsideMac, Reservation, Pool, MaxRounds, NoPeer, Outside

ASSUME SwitchAssumption ==
  OutsideMac \notin Macs /\ {NoPeer, Outside} \cap Connections = {} /\ Pool \subseteq Nat /\ MaxRounds \in Nat

VARIABLES
  serving,  \* the process runs
  clients,  \* connections of guests
  macOf,    \* connection -> the guest's MAC
  learned,  \* LearningSwitch.mac_table: MAC -> peer
  leases,   \* MAC -> address given, 0 for none
  holds,    \* connection -> the address its guest uses
  outside,  \* the outside connection: "none", "pending", "challenged", "peer"
  admitted, \* authenticated_as
  rounds

switchVars == <<serving, clients, macOf, learned, leases, holds, outside, admitted, rounds>>

AllMacs == Macs \cup {OutsideMac}
Peers == clients \cup (IF outside = "peer" THEN {Outside} ELSE {})

SwitchInit ==
  /\ serving = FALSE /\ clients = {} /\ macOf = [p \in Connections |-> NoPeer] /\ learned = [m \in AllMacs |-> NoPeer]
  /\ leases = [m \in AllMacs |-> 0] /\ holds = [p \in Connections |-> 0] /\ outside = "none" /\ admitted = FALSE /\ rounds = 0

(* LearningSwitch.forget for every peer that went. *)
ForgottenFrom(table, gone) == [m \in AllMacs |-> IF table[m] \in gone THEN NoPeer ELSE table[m]]

SwitchStarts ==
  /\ ~serving /\ serving' = TRUE
  /\ leases' = [m \in AllMacs |-> 0]
  /\ UNCHANGED <<clients, macOf, learned, holds, outside, admitted, rounds>>

(* The end of serve: asked for, or an error that nothing catches: a bad length, or a reply to a guest that is gone. *)
Stops ==
  /\ serving' = FALSE /\ clients' = {} /\ learned' = [m \in AllMacs |-> NoPeer] /\ outside' = "none" /\ admitted' = FALSE
  /\ holds' = [p \in Connections |-> 0]
  /\ UNCHANGED <<macOf, leases, rounds>>

SwitchEnds == serving /\ Stops

ClientConnects(p, m) ==
  /\ serving /\ p \notin clients /\ rounds < MaxRounds /\ \A q \in clients : macOf[q] # m
  /\ clients' = clients \cup {p} /\ macOf' = [macOf EXCEPT ![p] = m] /\ rounds' = rounds + 1
  /\ UNCHANGED <<serving, learned, leases, holds, outside, admitted>>

ClientCloses(p) ==
  /\ p \in clients
  /\ clients' = clients \ {p} /\ learned' = ForgottenFrom(learned, {p}) /\ holds' = [holds EXCEPT ![p] = 0]
  /\ UNCHANGED <<serving, macOf, leases, outside, admitted, rounds>>

----------------------------------------------------------------------------
(* forwarding_targets, and what becomes of the peers that turn out to be gone. *)

Everyone == "everyone"

Targets(from, to, peers) ==
  IF to # Everyone /\ learned[to] = from THEN {}
  ELSE IF to # Everyone /\ learned[to] \in peers THEN {learned[to]}
  ELSE peers \ {from}

(* FrameGate.egress, with the quota: what may be dropped on the way to the outside. *)
LetOut(mac, to) == mac # OutsideMac /\ to \in {OutsideMac, Everyone}

Forwarded(from, mac, to, peers) ==
  \E sent \in {Targets(from, to, peers), Targets(from, to, peers) \ {Outside}} :
    \E gone \in SUBSET sent :
      /\ Outside \in sent => LetOut(mac, to)
      /\ clients' = clients \ gone
      /\ holds' = [p \in Connections |-> IF p \in gone THEN 0 ELSE holds[p]]
      /\ learned' = ForgottenFrom([learned EXCEPT ![mac] = from], gone)
      /\ IF Outside \in gone THEN outside' = "none" /\ admitted' = FALSE ELSE UNCHANGED <<outside, admitted>>

(* The source of a frame is what the guest writes there. *)
Frame(p, mac, to) ==
  /\ p \in clients
  /\ Forwarded(p, mac, to, Peers)
  /\ UNCHANGED <<serving, macOf, leases, rounds>>

----------------------------------------------------------------------------
(* dhcp_response and allocate.  A reservation comes first, then what was given before, then what is asked for. *)

Statics(m) == Reservation[m]
Used(m) == {leases[n] : n \in AllMacs \ {m}} \cup {Statics(n) : n \in AllMacs \ {m}}

Allocated(m, wanted) ==
  IF Statics(m) # 0 THEN Statics(m)
  ELSE IF leases[m] # 0 THEN leases[m]
  ELSE IF wanted \in Pool \ Used(m) THEN wanted
  ELSE IF Pool \ Used(m) # {} THEN Min(Pool \ Used(m)) ELSE 0

(* A request for an address that is another's, or not one's own, is not answered. *)
Answered(m, wanted) ==
  LET expected == IF Statics(m) # 0 THEN Statics(m) ELSE leases[m]
  IN /\ IF expected # 0 THEN wanted = expected ELSE wanted \in Pool
     /\ wanted \notin Used(m)

Discover(p, wanted) ==
  /\ p \in clients /\ Forwarded(p, macOf[p], Everyone, Peers)
  /\ leases' = IF Allocated(macOf[p], wanted) = 0 THEN leases ELSE [leases EXCEPT ![macOf[p]] = Allocated(macOf[p], wanted)]
  /\ UNCHANGED <<serving, macOf, rounds>>

Request(p, wanted) ==
  /\ p \in clients /\ Answered(macOf[p], wanted) /\ Allocated(macOf[p], wanted) # 0
  /\ leases' = [leases EXCEPT ![macOf[p]] = Allocated(macOf[p], wanted)]
  /\ \E gone \in SUBSET (Peers \ {p}) :
       /\ clients' = clients \ gone /\ learned' = ForgottenFrom([learned EXCEPT ![macOf[p]] = p], gone)
       /\ holds' = [q \in Connections |-> IF q \in gone THEN 0 ELSE IF q = p THEN Allocated(macOf[p], wanted) ELSE holds[q]]
       /\ IF Outside \in gone THEN outside' = "none" /\ admitted' = FALSE ELSE UNCHANGED <<outside, admitted>>
  /\ UNCHANGED <<serving, macOf, rounds>>

----------------------------------------------------------------------------
(* The outside connection: one at a time, heard only after the right token. *)

OutsideConnects ==
  /\ serving /\ outside = "none" /\ rounds < MaxRounds
  /\ outside' = "pending" /\ rounds' = rounds + 1
  /\ UNCHANGED <<serving, clients, macOf, learned, leases, holds, admitted>>

OutsideSpeaks ==
  /\ \/ outside = "pending" /\ outside' = "challenged" /\ UNCHANGED admitted
     \/ outside = "challenged" /\ outside' = "peer" /\ admitted' = TRUE
  /\ UNCHANGED <<serving, clients, macOf, learned, leases, holds, rounds>>

(* _drop_external: closed, too slow, too long, a wrong line, a wrong token or a bad frame. *)
DropOnlyCloses(table) == table
DropForgets(table) == ForgottenFrom(table, {Outside})

OutsideDropped ==
  /\ outside # "none"
  /\ outside' = "none" /\ admitted' = FALSE /\ learned' = DropForgets(learned)
  /\ UNCHANGED <<serving, clients, macOf, leases, holds, rounds>>

(* _external_ingress: its own source and a registered destination, within the quota. *)
OutsideFrame(to) ==
  /\ outside = "peer"
  /\ Forwarded(Outside, OutsideMac, to, clients)
  /\ UNCHANGED <<serving, macOf, leases, rounds>>

(* A renewal passes the gate and is answered. *)
OutsideRenews ==
  /\ outside = "peer" /\ Answered(OutsideMac, Statics(OutsideMac))
  /\ leases' = [leases EXCEPT ![OutsideMac] = Statics(OutsideMac)] /\ learned' = [learned EXCEPT ![OutsideMac] = Outside]
  /\ UNCHANGED <<serving, clients, macOf, holds, outside, admitted, rounds>>

SwitchNext ==
  \/ SwitchStarts \/ SwitchEnds \/ OutsideConnects \/ OutsideSpeaks \/ OutsideDropped \/ OutsideRenews
  \/ \E to \in AllMacs \cup {Everyone} : OutsideFrame(to) \/ \E p \in Connections, m \in AllMacs : Frame(p, m, to)
  \/ \E p \in Connections :
       \/ ClientCloses(p) \/ \E m \in Macs : ClientConnects(p, m)
       \/ \E wanted \in Pool \cup {0} : Discover(p, wanted) \/ Request(p, wanted)

SwitchSpec == SwitchInit /\ [][SwitchNext]_switchVars

(* No two machines on the switch use one address, and what is sent to a machine never goes to a connection that is *)
(* closed or to another outside session than the one admitted (forget_client, _drop_external, allocate).            *)
PeersAreTheirOwn ==
  /\ \A p, q \in clients : p # q /\ holds[p] # 0 => holds[p] # holds[q]
  /\ \A p \in clients : holds[p] # 0 => \A m \in AllMacs \ {macOf[p]} : Reservation[m] # holds[p]
  /\ \A m \in AllMacs : learned[m] \in Peers \cup {NoPeer}
  /\ outside = "peer" <=> admitted
=============================================================================
