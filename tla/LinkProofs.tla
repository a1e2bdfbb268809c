----------------------------- MODULE LinkProofs -----------------------------
(***************************************************************************)
(* Theorems about what ties a scene together: the loopback switch, the     *)
(* relay of an outside attachment, the assistant inside an outside Kali    *)
(* and the transactions of a scene, each for any number of connections,    *)
(* sessions, commands, tools and generations.                              *)
(***************************************************************************)
EXTENDS SceneTransactions, KaliSessions, RelaySession, LoopbackSwitch, TLAPS

(***************************************************************************)
(* The switch.  A guest uses only what is granted to its MAC, no two       *)
(* guests have one MAC, and nothing is learned or held without serving.    *)
(***************************************************************************)
SwitchShape ==
  /\ serving \in BOOLEAN
  /\ clients \subseteq Connections
  /\ DOMAIN macOf = Connections /\ DOMAIN learned = AllMacs /\ DOMAIN leases = AllMacs /\ DOMAIN holds = Connections
  /\ learned = [m \in AllMacs |-> learned[m]] /\ holds = [p \in Connections |-> holds[p]]
  /\ admitted = (outside = "peer")
  /\ ~serving => clients = {} /\ outside = "none"

GuestsApart == \A p, q \in clients : macOf[p] \in Macs /\ (p # q => macOf[p] # macOf[q])

HeldAsLeased ==
  \A p \in Connections : holds[p] # 0 =>
    /\ p \in clients /\ leases[macOf[p]] = holds[p]
    /\ Reservation[macOf[p]] # 0 => Reservation[macOf[p]] = holds[p]

AddressesApart ==
  /\ \A p, q \in clients : p # q /\ holds[p] # 0 => holds[p] # holds[q]
  /\ \A p \in clients : holds[p] # 0 => \A m \in AllMacs \ {macOf[p]} : Reservation[m] # holds[p]

LearnedFromPeers == \A m \in AllMacs : learned[m] \in Peers \cup {NoPeer}

SwitchIInv == SwitchShape /\ GuestsApart /\ HeldAsLeased /\ AddressesApart /\ LearnedFromPeers

LEMMA TargetsAreOthers ==
  ASSUME NEW from, NEW to, NEW peers
  PROVE  Targets(from, to, peers) \subseteq peers \ {from}
BY DEF Targets

(* A request is answered with what was asked for, and that is nobody else's. *)
LEMMA RequestGives ==
  ASSUME NEW m \in AllMacs, NEW wanted, Answered(m, wanted), Allocated(m, wanted) # 0
  PROVE  /\ Allocated(m, wanted) = wanted
         /\ \A n \in AllMacs \ {m} : leases[n] # wanted /\ Reservation[n] # wanted
         /\ Reservation[m] # 0 => Reservation[m] = wanted
BY DEF Answered, Allocated, Statics, Used

(* What is given to a MAC that has something is what it has. *)
LEMMA GivenBefore ==
  ASSUME NEW m \in AllMacs, NEW wanted, leases[m] # 0, Reservation[m] # 0 => Reservation[m] = leases[m]
  PROVE  Allocated(m, wanted) = leases[m]
BY DEF Allocated, Statics

(* Peers that go, whoever they are, leave the others as they were. *)
PeersGo(gone, from, mac) ==
  /\ clients' = clients \ gone
  /\ learned' = ForgottenFrom([learned EXCEPT ![mac] = from], gone)
  /\ IF Outside \in gone THEN outside' = "none" /\ admitted' = FALSE ELSE UNCHANGED <<outside, admitted>>

LEMMA PeersGone ==
  ASSUME SwitchShape, LearnedFromPeers, NEW gone, NEW from \in Peers, NEW mac \in AllMacs, from \notin gone,
         gone \subseteq Peers, PeersGo(gone, from, mac)
  PROVE  /\ LearnedFromPeers'
         /\ DOMAIN learned' = AllMacs /\ learned' = [m \in AllMacs |-> learned'[m]]
         /\ admitted' = (outside' = "peer")
         /\ clients' \subseteq clients
         /\ outside' \in {outside, "none"}
<1>1. Peers' = Peers \ gone
  BY SwitchAssumption DEF PeersGo, Peers, SwitchShape
<1>2. ASSUME NEW m \in AllMacs
      PROVE  learned'[m] = IF [learned EXCEPT ![mac] = from][m] \in gone THEN NoPeer ELSE [learned EXCEPT ![mac] = from][m]
  BY DEF PeersGo, ForgottenFrom
<1>3. ASSUME NEW m \in AllMacs
      PROVE  [learned EXCEPT ![mac] = from][m] \in Peers \cup {NoPeer}
  BY DEF SwitchShape, LearnedFromPeers
<1>4. LearnedFromPeers'
  BY <1>1, <1>2, <1>3 DEF LearnedFromPeers, AllMacs
<1>5. DOMAIN learned' = AllMacs /\ learned' = [m \in AllMacs |-> learned'[m]]
  BY DEF PeersGo, ForgottenFrom
<1>. QED  BY <1>4, <1>5 DEF PeersGo, SwitchShape

(* A frame on its way changes nothing but who is there. *)
LEMMA ForwardedKeeps ==
  ASSUME SwitchIInv, NEW from \in Peers, NEW mac \in AllMacs, NEW to, NEW peers \in SUBSET Peers,
         Forwarded(from, mac, to, peers), UNCHANGED <<serving, macOf>>,
         DOMAIN leases' = AllMacs, \A p \in Connections : holds[p] # 0 => leases'[macOf[p]] = leases[macOf[p]]
  PROVE  SwitchIInv'
<1>1. PICK gone : /\ gone \subseteq Targets(from, to, peers)
                  /\ PeersGo(gone, from, mac)
                  /\ holds' = [p \in Connections |-> IF p \in gone THEN 0 ELSE holds[p]]
  BY DEF Forwarded, PeersGo
<1>2. gone \subseteq Peers /\ from \notin gone
  BY <1>1, TargetsAreOthers
<1>3. /\ LearnedFromPeers'
      /\ DOMAIN learned' = AllMacs /\ learned' = [m \in AllMacs |-> learned'[m]]
      /\ admitted' = (outside' = "peer") /\ clients' \subseteq clients /\ outside' \in {outside, "none"}
  BY <1>1, <1>2, PeersGone DEF SwitchIInv
<1>4. SwitchShape'
  <2>1. AllMacs' = AllMacs
    BY DEF AllMacs
  <2>2. DOMAIN holds' = Connections /\ holds' = [p \in Connections |-> holds'[p]]
    BY <1>1
  <2>3. ~serving' => clients' = {} /\ outside' = "none"
    BY <1>3 DEF SwitchIInv, SwitchShape
  <2>. QED  BY <1>3, <2>1, <2>2, <2>3 DEF SwitchShape, SwitchIInv
<1>5. GuestsApart'
  BY <1>3 DEF GuestsApart, SwitchIInv
<1>6. \A p \in Connections : holds'[p] # 0 => holds[p] # 0 /\ holds'[p] = holds[p] /\ p \notin gone
  BY <1>1
<1>7. HeldAsLeased'
  BY <1>1, <1>6 DEF HeldAsLeased, SwitchIInv, PeersGo
<1>8. AddressesApart'
  <2>1. AllMacs' = AllMacs
    BY DEF AllMacs
  <2>2. clients' \subseteq Connections
    BY <1>3 DEF SwitchIInv, SwitchShape
  <2>3. ASSUME NEW p \in clients', NEW q \in clients', p # q, holds'[p] # 0
        PROVE  holds'[p] # holds'[q]
    <3>1. holds[p] # holds[q]
      BY <1>3, <1>6, <2>2, <2>3 DEF AddressesApart, SwitchIInv
    <3>. QED  BY <1>6, <2>2, <2>3, <3>1
  <2>4. ASSUME NEW p \in clients', holds'[p] # 0, NEW m \in AllMacs \ {macOf[p]}
        PROVE  Reservation[m] # holds'[p]
    BY <1>3, <1>6, <2>2, <2>4 DEF AddressesApart, SwitchIInv
  <2>. QED  BY <2>1, <2>3, <2>4 DEF AddressesApart
<1>. QED  BY <1>3, <1>4, <1>5, <1>7, <1>8 DEF SwitchIInv

LEMMA SwitchStarting == SwitchInit => SwitchIInv
BY DEF SwitchInit, SwitchIInv, SwitchShape, GuestsApart, HeldAsLeased, AddressesApart, LearnedFromPeers

LEMMA RequestStep ==
  ASSUME SwitchIInv, NEW p \in Connections, NEW wanted, Request(p, wanted)
  PROVE  SwitchIInv'
<1>. DEFINE mac == macOf[p]
<1>0. /\ p \in clients /\ mac \in Macs /\ mac \in AllMacs /\ p \in Peers
      /\ UNCHANGED <<serving, macOf>> /\ AllMacs' = AllMacs
  BY DEF Request, SwitchIInv, SwitchShape, GuestsApart, AllMacs, Peers
<1>1. /\ Allocated(mac, wanted) = wanted /\ wanted # 0
      /\ \A n \in AllMacs \ {mac} : leases[n] # wanted /\ Reservation[n] # wanted
      /\ Reservation[mac] # 0 => Reservation[mac] = wanted
  BY <1>0, RequestGives DEF Request
<1>2. PICK gone : /\ gone \subseteq Peers \ {p}
                  /\ PeersGo(gone, p, mac)
                  /\ holds' = [q \in Connections |-> IF q \in gone THEN 0 ELSE IF q = p THEN wanted ELSE holds[q]]
  BY <1>0, <1>1 DEF Request, PeersGo
<1>3. /\ LearnedFromPeers'
      /\ DOMAIN learned' = AllMacs /\ learned' = [m \in AllMacs |-> learned'[m]]
      /\ admitted' = (outside' = "peer") /\ clients' \subseteq clients /\ outside' \in {outside, "none"}
  <2>. HIDE DEF mac
  <2>. QED  BY <1>0, <1>2, PeersGone DEF SwitchIInv
<1>4. leases' = [leases EXCEPT ![mac] = wanted] /\ DOMAIN leases = AllMacs
  BY <1>0, <1>1 DEF Request, SwitchIInv, SwitchShape
<1>5. SwitchShape'
  <2>1. DOMAIN holds' = Connections /\ holds' = [q \in Connections |-> holds'[q]]
    BY <1>2
  <2>2. ~serving' => clients' = {} /\ outside' = "none"
    BY <1>0, <1>3 DEF SwitchIInv, SwitchShape
  <2>. QED  BY <1>0, <1>3, <1>4, <2>1, <2>2 DEF SwitchShape, SwitchIInv
<1>6. GuestsApart'
  BY <1>0, <1>3 DEF GuestsApart, SwitchIInv
<1>7. \A q \in Connections : holds'[q] # 0 => q \notin gone /\ holds'[q] = IF q = p THEN wanted ELSE holds[q]
  BY <1>2
<1>8. \A q \in clients : q # p => macOf[q] # mac /\ macOf[q] \in AllMacs
  BY <1>0 DEF SwitchIInv, GuestsApart, AllMacs
<1>9. HeldAsLeased'
  <2>. SUFFICES ASSUME NEW q \in Connections, holds'[q] # 0
                PROVE  /\ q \in clients' /\ leases'[macOf[q]] = holds'[q]
                       /\ Reservation[macOf[q]] # 0 => Reservation[macOf[q]] = holds'[q]
    BY <1>0 DEF HeldAsLeased
  <2>1. CASE q = p
    BY <1>0, <1>1, <1>2, <1>4, <1>7, <2>1 DEF PeersGo
  <2>2. CASE q # p
    <3>1. q \in clients /\ leases[macOf[q]] = holds[q] /\ (Reservation[macOf[q]] # 0 => Reservation[macOf[q]] = holds[q])
      BY <1>7, <2>2 DEF SwitchIInv, HeldAsLeased
    <3>. QED  BY <1>2, <1>4, <1>7, <1>8, <2>2, <3>1 DEF PeersGo
  <2>. QED  BY <2>1, <2>2
<1>10. AddressesApart'
  <2>1. ASSUME NEW q \in clients', holds'[q] # 0, NEW m \in AllMacs \ {macOf[q]}
        PROVE  Reservation[m] # holds'[q]
    BY <1>1, <1>3, <1>7, <2>1 DEF AddressesApart, SwitchIInv, SwitchShape
  <2>2. ASSUME NEW q \in clients', q # p, holds'[q] # 0
        PROVE  holds'[q] # wanted
    <3>1. q \in Connections /\ q \in clients /\ holds'[q] = holds[q]
      BY <1>3, <1>7, <2>2 DEF SwitchIInv, SwitchShape
    <3>. QED  BY <1>1, <1>8, <2>2, <3>1 DEF SwitchIInv, HeldAsLeased
  <2>3. ASSUME NEW q \in clients', NEW r \in clients', q # r, holds'[q] # 0
        PROVE  holds'[q] # holds'[r]
    <3>0. q \in Connections /\ r \in Connections /\ q \in clients /\ r \in clients
      BY <1>3 DEF SwitchIInv, SwitchShape
    <3>1. CASE q = p
      BY <1>7, <2>2, <2>3, <3>0, <3>1
    <3>2. CASE r = p
      BY <1>7, <2>2, <2>3, <3>0, <3>2
    <3>3. CASE q # p /\ r # p
      BY <1>7, <2>3, <3>0, <3>3 DEF AddressesApart, SwitchIInv
    <3>. QED  BY <3>1, <3>2, <3>3
  <2>. QED  BY <1>0, <2>1, <2>3 DEF AddressesApart
<1>. QED  BY <1>3, <1>5, <1>6, <1>9, <1>10 DEF SwitchIInv

LEMMA SwitchStep == SwitchIInv /\ [SwitchNext]_switchVars => SwitchIInv'
<1>. SUFFICES ASSUME SwitchIInv, [SwitchNext]_switchVars
              PROVE  SwitchIInv'
  OBVIOUS
<1>. USE DEF SwitchIInv
<1>0. /\ AllMacs' = AllMacs /\ OutsideMac \in AllMacs /\ OutsideMac \notin Macs
      /\ \A p \in clients : p \in Connections /\ macOf[p] \in Macs /\ macOf[p] \in AllMacs
  BY SwitchAssumption DEF AllMacs, SwitchShape, GuestsApart
<1>1. CASE UNCHANGED switchVars
  BY <1>1 DEF switchVars, SwitchShape, GuestsApart, HeldAsLeased, AddressesApart, LearnedFromPeers, Peers, AllMacs
<1>2. CASE SwitchStarts
  <2>1. clients = {} /\ \A p \in Connections : holds[p] = 0
    BY <1>2 DEF SwitchStarts, SwitchShape, HeldAsLeased
  <2>. QED  BY <1>0, <1>2, <2>1 DEF SwitchStarts, SwitchShape, GuestsApart, HeldAsLeased, AddressesApart, LearnedFromPeers, Peers
<1>3. CASE SwitchEnds
  BY <1>0, <1>3 DEF SwitchEnds, Stops, SwitchShape, GuestsApart, HeldAsLeased, AddressesApart, LearnedFromPeers, Peers
<1>4. CASE OutsideConnects
  <2>1. Peers' = Peers
    BY <1>4 DEF OutsideConnects, Peers
  <2>. QED  BY <1>0, <1>4, <2>1 DEF OutsideConnects, SwitchShape, GuestsApart, HeldAsLeased, AddressesApart, LearnedFromPeers
<1>5. CASE OutsideSpeaks
  <2>1. Peers \subseteq Peers'
    BY <1>5 DEF OutsideSpeaks, Peers
  <2>. QED  BY <1>0, <1>5, <2>1 DEF OutsideSpeaks, SwitchShape, GuestsApart, HeldAsLeased, AddressesApart, LearnedFromPeers
<1>6. CASE OutsideDropped
  <2>1. clients' = clients /\ Peers' = Peers \ {Outside}
    BY <1>6, SwitchAssumption DEF OutsideDropped, Peers, SwitchShape
  <2>2. LearnedFromPeers'
    BY <1>0, <1>6, <2>1 DEF OutsideDropped, DropForgets, ForgottenFrom, LearnedFromPeers
  <2>. QED  BY <1>0, <1>6, <2>2 DEF OutsideDropped, DropForgets, ForgottenFrom, SwitchShape, GuestsApart, HeldAsLeased, AddressesApart
<1>7. CASE OutsideRenews
  <2>1. Peers' = Peers /\ Outside \in Peers
    BY <1>7 DEF OutsideRenews, Peers
  <2>2. LearnedFromPeers'
    BY <1>0, <1>7, <2>1 DEF OutsideRenews, LearnedFromPeers, SwitchShape
  <2>3. \A p \in Connections : holds[p] # 0 => leases'[macOf[p]] = leases[macOf[p]]
    BY <1>0, <1>7 DEF OutsideRenews, HeldAsLeased, SwitchShape
  <2>4. HeldAsLeased'
    BY <1>0, <1>7, <2>3 DEF OutsideRenews, HeldAsLeased
  <2>. QED  BY <1>0, <1>7, <2>2, <2>4 DEF OutsideRenews, SwitchShape, GuestsApart, AddressesApart
<1>8. ASSUME NEW to, OutsideFrame(to)
      PROVE  SwitchIInv'
  <2>1. Outside \in Peers /\ clients \in SUBSET Peers
    BY <1>8 DEF OutsideFrame, Peers
  <2>. QED  BY <1>0, <1>8, <2>1, ForwardedKeeps DEF OutsideFrame, SwitchShape
<1>9. ASSUME NEW p \in Connections, NEW m \in AllMacs, NEW to, Frame(p, m, to)
      PROVE  SwitchIInv'
  <2>1. p \in Peers
    BY <1>9 DEF Frame, Peers
  <2>. QED  BY <1>0, <1>9, <2>1, ForwardedKeeps DEF Frame, SwitchShape
<1>10. ASSUME NEW p \in Connections, ClientCloses(p)
       PROVE  SwitchIInv'
  <2>1. Peers' = Peers \ {p}
    BY <1>10, SwitchAssumption DEF ClientCloses, Peers, SwitchShape
  <2>2. LearnedFromPeers'
    BY <1>0, <1>10, <2>1 DEF ClientCloses, ForgottenFrom, LearnedFromPeers
  <2>3. HeldAsLeased' /\ AddressesApart'
    BY <1>0, <1>10 DEF ClientCloses, HeldAsLeased, AddressesApart, SwitchShape
  <2>. QED  BY <1>0, <1>10, <2>2, <2>3 DEF ClientCloses, ForgottenFrom, SwitchShape, GuestsApart
<1>11. ASSUME NEW p \in Connections, NEW m \in Macs, ClientConnects(p, m)
       PROVE  SwitchIInv'
  <2>1. Peers \subseteq Peers' /\ holds[p] = 0
    BY <1>11 DEF ClientConnects, Peers, HeldAsLeased
  <2>2. macOf' = [macOf EXCEPT ![p] = m] /\ DOMAIN macOf = Connections /\ clients' = clients \cup {p} /\ p \notin clients
    BY <1>11 DEF ClientConnects, SwitchShape
  <2>3. GuestsApart'
    BY <1>0, <1>11, <2>2 DEF ClientConnects, GuestsApart
  <2>4. HeldAsLeased' /\ AddressesApart'
    BY <1>0, <1>11, <2>1, <2>2 DEF ClientConnects, HeldAsLeased, AddressesApart
  <2>5. LearnedFromPeers'
    BY <1>0, <1>11, <2>1 DEF ClientConnects, LearnedFromPeers
  <2>. QED  BY <1>0, <1>11, <2>2, <2>3, <2>4, <2>5 DEF ClientConnects, SwitchShape
<1>12. ASSUME NEW p \in Connections, NEW wanted, Discover(p, wanted)
       PROVE  SwitchIInv'
  <2>1. p \in Peers /\ macOf[p] \in AllMacs /\ p \in clients
    BY <1>0, <1>12 DEF Discover, Peers
  <2>2. holds[p] # 0 => Allocated(macOf[p], wanted) = leases[macOf[p]]
    BY <1>0, <2>1, GivenBefore DEF HeldAsLeased
  <2>3. DOMAIN leases' = AllMacs
    BY <1>12 DEF Discover, SwitchShape
  <2>4. \A q \in Connections : holds[q] # 0 => leases'[macOf[q]] = leases[macOf[q]]
    BY <1>0, <1>12, <2>1, <2>2 DEF Discover, HeldAsLeased, SwitchShape, GuestsApart
  <2>. QED  BY <1>12, <2>1, <2>3, <2>4, ForwardedKeeps DEF Discover
<1>13. ASSUME NEW p \in Connections, NEW wanted, Request(p, wanted)
       PROVE  SwitchIInv'
  BY <1>13, RequestStep
<1>. QED
  BY <1>1, <1>2, <1>3, <1>4, <1>5, <1>6, <1>7, <1>8, <1>9, <1>10, <1>11, <1>12, <1>13 DEF SwitchNext

(* No two machines on the switch use one address, and nothing is sent to a peer that is gone, whatever guests *)
(* connect, ask for and write, and whichever of them turn out to be gone (allocate, forget_client).            *)
THEOREM PeersAreAlwaysTheirOwn == SwitchSpec => []PeersAreTheirOwn
<1>1. SwitchIInv => PeersAreTheirOwn
  BY DEF SwitchIInv, SwitchShape, AddressesApart, LearnedFromPeers, PeersAreTheirOwn
<1>. QED  BY <1>1, SwitchStarting, SwitchStep, PTL DEF SwitchSpec

(***************************************************************************)
(* The relay.  A session that a relay has been let in for stays on record, *)
(* and is occupied, because every command that would replace or close the  *)
(* record needs the lock, and looks first.                                 *)
(***************************************************************************)
SessionStates == {"idle", "connecting", "connected", "unknown", "disconnected"}
SessionRecords == [id : Nat, state : SessionStates, pid : BOOLEAN, asked : RelayCommands \cup {NoCommand}, report : BOOLEAN]
Bindings == [made : BOOLEAN, gen : Nat, prepared : Nat, used : BOOLEAN, session : SessionRecords]
RelayWork == [op : {"none", "connect", "disconnect"}, at : {"none", "record", "launch", "pid", "wait", "settle"},
              binding : Bindings, gen : Nat, found : BOOLEAN, proof : {"none", "alive", "absent", "unknown"}]

RelayTypes ==
  /\ binding \in Bindings /\ relayGen \in Nat /\ prepared \in Nat
  /\ relays \in [RelaySessions -> Visible \cup {"none", "forked", "gone"}]
  /\ relayCmds \in [RelayCommands -> RelayWork]

Admitted == Carrying \cup {"checked"}

AdmittedIsRecorded == \A w \in RelaySessions : relays[w] \in Admitted => Session.id = w /\ Occupied
NobodyAdmitted == \A w \in RelaySessions : relays[w] \notin Admitted
ConnectHasTheLock == \A c \in RelayCommands : relayCmds[c].op = "connect" => relayLock = c
RecordsWhenNobody == \A c \in RelayCommands : In(c, "connect", "record") => NobodyAdmitted /\ Session.state \in {"idle", "disconnected", "unknown"}
LaunchesUnreported == \A c \in RelayCommands : In(c, "connect", "launch") => ~Session.report
ReportedIsGone == Session.report => Session.id \in RelaySessions /\ relays[Session.id] = "gone"

RelayIInv ==
  /\ RelayTypes /\ AdmittedIsRecorded /\ ConnectHasTheLock /\ RecordsWhenNobody /\ LaunchesUnreported /\ ReportedIsGone

LEMMA RelayStarting == RelayInit => RelayIInv
<1>. SUFFICES ASSUME RelayInit
              PROVE  RelayIInv
  OBVIOUS
<1>1. NoBinding \in Bindings /\ AtRest \in RelayWork /\ AtRest.op = "none" /\ ~NoBinding.session.report
  BY DEF NoBinding, AtRest, Bindings, SessionRecords, SessionStates, RelayWork, NoSessionYet
<1>2. \A c \in RelayCommands : relayCmds[c].op = "none"
  BY <1>1 DEF RelayInit
<1>. QED
  BY <1>1, <1>2, RelayAssumption DEF RelayInit, RelayIInv, RelayTypes, AdmittedIsRecorded, ConnectHasTheLock, RecordsWhenNobody,
    LaunchesUnreported, ReportedIsGone, Admitted, Carrying, In, Session, Visible

LEMMA BindingFields ==
  ASSUME RelayTypes
  PROVE  /\ binding \in Bindings /\ Session \in SessionRecords /\ Session = binding.session
         /\ Session.id \in Nat /\ Session.state \in SessionStates /\ Session.pid \in BOOLEAN
         /\ Session.asked \in RelayCommands \cup {NoCommand} /\ Session.report \in BOOLEAN
BY DEF RelayTypes, Bindings, SessionRecords, Session

LEMMA WorkChanges ==
  ASSUME RelayTypes, NEW c \in RelayCommands, NEW op \in {"none", "connect", "disconnect"},
         NEW at \in {"none", "record", "launch", "pid", "wait", "settle"}
  PROVE  /\ [relayCmds EXCEPT ![c] = AtRest] \in [RelayCommands -> RelayWork]
         /\ [relayCmds EXCEPT ![c].at = at] \in [RelayCommands -> RelayWork]
         /\ [relayCmds EXCEPT ![c].op = op, ![c].at = at] \in [RelayCommands -> RelayWork]
         /\ [relayCmds EXCEPT ![c] = [AtRest EXCEPT !.op = op, !.at = at, !.binding = binding, !.gen = relayGen]] \in [RelayCommands -> RelayWork]
<1>1. AtRest \in RelayWork
  BY DEF AtRest, RelayWork, NoBinding, Bindings, SessionRecords, SessionStates, NoSessionYet
<1>2. [AtRest EXCEPT !.op = op, !.at = at, !.binding = binding, !.gen = relayGen] \in RelayWork
  BY <1>1 DEF RelayWork, RelayTypes
<1>3. relayCmds[c] \in RelayWork
  BY DEF RelayTypes
<1>4. [relayCmds[c] EXCEPT !.at = at] \in RelayWork /\ [relayCmds[c] EXCEPT !.op = op, !.at = at] \in RelayWork
  BY <1>3 DEF RelayWork
<1>. QED  BY <1>1, <1>2, <1>4 DEF RelayTypes

(* A step that leaves the relays alone: what it does to the record and to the commands. *)
LEMMA CommandStep ==
  ASSUME RelayIInv, RelayTypes', UNCHANGED relays,
         \A w \in RelaySessions : relays[w] \in Admitted => Session'.id = Session.id /\ Occupied',
         Session'.report => Session'.id = Session.id /\ Session.report,
         \A c \in RelayCommands : relayCmds'[c].op = "connect" => relayLock' = c,
         \A c \in RelayCommands : relayCmds'[c].op = "connect" /\ relayCmds'[c].at = "record" =>
           NobodyAdmitted /\ Session'.state \in {"idle", "disconnected", "unknown"},
         \A c \in RelayCommands : relayCmds'[c].op = "connect" /\ relayCmds'[c].at = "launch" => ~Session'.report
  PROVE  RelayIInv'
BY DEF RelayIInv, AdmittedIsRecorded, ConnectHasTheLock, RecordsWhenNobody, LaunchesUnreported, ReportedIsGone, NobodyAdmitted, In

(* A command that holds nothing, begun or ended, moves no other. *)
LEMMA IdleCommand ==
  ASSUME RelayIInv, relayLock = NoCommand
  PROVE  \A c \in RelayCommands : relayCmds[c].op # "connect"
BY RelayAssumption DEF RelayIInv, ConnectHasTheLock

LEMMA VacantWhenLookedFor ==
  ASSUME RelayIInv, ~Occupied \/ Absent(Session.id)
  PROVE  NobodyAdmitted
BY DEF RelayIInv, AdmittedIsRecorded, NobodyAdmitted, Absent, Looks, Admitted, Carrying, Visible, RelaySessions

LEMMA FreeCommandStep ==
  ASSUME RelayIInv, NEW c \in RelayCommands, Status(c) \/ Save(c) \/ Materials(c) \/ Clear(c)
  PROVE  RelayIInv'
<1>0. /\ relayLock = NoCommand /\ UNCHANGED <<relays, relayLock, relayCmds, relayGen>>
      /\ \A d \in RelayCommands : relayCmds[d].op # "connect"
      /\ binding \in Bindings /\ Session \in SessionRecords /\ relayGen \in Nat /\ prepared \in Nat
  BY IdleCommand, BindingFields DEF Status, Save, Materials, Clear, MayAct, Works, RelayIInv, RelayTypes
<1>1. CASE Status(c)
  <2>1. \/ binding' = binding
        \/ binding' = [binding EXCEPT !.session.state = "unknown"]
    BY <1>1 DEF Status
  <2>2. /\ binding' \in Bindings
        /\ Session'.id = Session.id /\ Session'.report = Session.report /\ (Occupied => Occupied')
    BY <1>0, <2>1 DEF Bindings, SessionRecords, SessionStates, Session, Occupied
  <2>3. RelayTypes'
    BY <1>0, <1>1, <2>2 DEF Status, RelayIInv, RelayTypes
  <2>. QED  BY <1>0, <2>2, <2>3, CommandStep DEF RelayIInv, AdmittedIsRecorded
<1>2. CASE Save(c) \/ Clear(c)
  <2>1. NobodyAdmitted
    BY <1>0, <1>2, VacantWhenLookedFor DEF Save, Clear, Occupied
  <2>a. NoSessionYet \in SessionRecords /\ ~NoSessionYet.report
    BY DEF NoSessionYet, SessionRecords, SessionStates
  <2>b. NoBinding \in Bindings /\ NoBinding.session = NoSessionYet
    BY <2>a DEF NoBinding, Bindings
  <2>c. binding' = NoBinding \/ binding' = [NoBinding EXCEPT !.made = TRUE, !.gen = relayGen]
    BY <1>2 DEF Save, Clear
  <2>d. binding' \in Bindings /\ Session' = NoSessionYet
    BY <1>0, <2>b, <2>c DEF Bindings, Session
  <2>2. binding' \in Bindings /\ ~Session'.report
    BY <2>a, <2>d
  <2>3. RelayTypes'
    BY <1>0, <1>2, <2>2 DEF Save, Clear, RelayIInv, RelayTypes
  <2>. QED  BY <1>0, <2>1, <2>2, <2>3, CommandStep DEF NobodyAdmitted
<1>3. CASE Materials(c)
  <2>1. NobodyAdmitted
    BY <1>0, <1>3, VacantWhenLookedFor DEF Materials
  <2>2. prepared' \in Nat /\ (binding' = binding \/ binding' = [binding EXCEPT !.prepared = prepared', !.used = FALSE])
    BY <1>0, <1>3 DEF Materials
  <2>3. binding' \in Bindings /\ Session' = Session
    BY <1>0, <2>2 DEF Bindings, Session
  <2>4. RelayTypes'
    BY <1>0, <1>3, <2>2, <2>3 DEF Materials, RelayIInv, RelayTypes
  <2>. QED  BY <1>0, <2>1, <2>3, <2>4, CommandStep DEF NobodyAdmitted
<1>. QED  BY <1>1, <1>2, <1>3

LEMMA ConnectStep ==
  ASSUME RelayIInv, NEW c \in RelayCommands, Connect(c) \/ ConnectRecords(c) \/ ConnectLaunches(c) \/ ConnectNotesPid(c)
  PROVE  RelayIInv'
<1>0. /\ binding \in Bindings /\ Session \in SessionRecords /\ relayGen \in Nat /\ prepared \in Nat /\ RelayTypes
      /\ UNCHANGED <<relayGen, prepared>>
  BY BindingFields DEF RelayIInv, RelayTypes, Connect, ConnectRecords, ConnectLaunches, ConnectNotesPid
<1>1. CASE Connect(c)
  <2>1. NobodyAdmitted
    BY <1>1, VacantWhenLookedFor DEF Connect, Occupied
  <2>2. \A d \in RelayCommands : relayCmds[d].op # "connect"
    BY <1>1, IdleCommand DEF Connect, MayAct
  <2>3. relayCmds' = [relayCmds EXCEPT ![c].op = "connect", ![c].at = "record"] /\ relayLock' = c /\ UNCHANGED <<binding, relays>>
    BY <1>1 DEF Connect
  <2>4. RelayTypes'
    BY <1>0, <2>3, WorkChanges DEF RelayTypes
  <2>5. \A d \in RelayCommands : relayCmds'[d].op = "connect" => d = c /\ relayCmds'[d].at = "record"
    BY <1>0, <2>2, <2>3 DEF RelayTypes, RelayWork
  <2>6. Session' = Session /\ Session.state \in {"idle", "disconnected", "unknown"}
    BY <1>1, <2>3 DEF Session, Connect
  <2>. QED  BY <2>1, <2>3, <2>4, <2>5, <2>6, CommandStep DEF NobodyAdmitted
<1>2. CASE ConnectRecords(c)
  <2>1. relayLock = c /\ NobodyAdmitted
    BY <1>2 DEF ConnectRecords, In, RelayIInv, ConnectHasTheLock, RecordsWhenNobody
  <2>2. relayCmds' = [relayCmds EXCEPT ![c].at = "launch"] /\ UNCHANGED <<relayLock, relays>>
    BY <1>2 DEF ConnectRecords, Moves
  <2>3. binding' \in Bindings /\ ~Session'.report
    BY <1>0, <1>2 DEF ConnectRecords, NoSessionYet, Bindings, SessionRecords, SessionStates, Session
  <2>4. RelayTypes'
    BY <1>0, <2>2, <2>3, WorkChanges DEF RelayTypes
  <2>5. \A d \in RelayCommands : relayCmds'[d].op = "connect" => d = c /\ relayCmds'[d].at = "launch"
    BY <1>0, <2>1, <2>2 DEF RelayTypes, RelayWork, RelayIInv, ConnectHasTheLock
  <2>. QED  BY <2>1, <2>2, <2>3, <2>4, <2>5, CommandStep DEF NobodyAdmitted
<1>3. ASSUME ConnectLaunches(c), relays' = [relays EXCEPT ![Session.id] = "forked"]
      PROVE  RelayIInv'
  <2>1. relayLock = c /\ ~Session.report /\ UNCHANGED binding /\ Session' = Session
    BY <1>3 DEF ConnectLaunches, In, RelayIInv, ConnectHasTheLock, LaunchesUnreported, Session
  <2>2. \/ relayCmds' = [relayCmds EXCEPT ![c].at = "pid"] /\ relayLock' = c
        \/ relayCmds' = [relayCmds EXCEPT ![c] = AtRest]
    BY <1>3, <2>1 DEF ConnectLaunches, Moves, Rests
  <2>3. relays' \in [RelaySessions -> Visible \cup {"none", "forked", "gone"}]
    BY <1>0, <1>3 DEF RelayTypes
  <2>a. /\ [relayCmds EXCEPT ![c].at = "pid"] \in [RelayCommands -> RelayWork]
        /\ [relayCmds EXCEPT ![c] = AtRest] \in [RelayCommands -> RelayWork]
    BY <1>0, WorkChanges
  <2>4. RelayTypes'
    BY <1>0, <2>1, <2>2, <2>3, <2>a DEF RelayTypes
  <2>5. \A d \in RelayCommands : relayCmds'[d].op = "connect" => d = c /\ relayCmds'[d].at = "pid" /\ relayLock' = c
    BY <1>0, <2>1, <2>2 DEF RelayTypes, RelayWork, RelayIInv, ConnectHasTheLock, AtRest
  <2>6. \A w \in RelaySessions : relays'[w] \in Admitted => relays[w] \in Admitted
    BY <1>0, <1>3 DEF RelayTypes, Admitted, Carrying
  <2>7. AdmittedIsRecorded'
    BY <2>1, <2>6 DEF RelayIInv, AdmittedIsRecorded, Occupied
  <2>. QED  BY <2>1, <2>4, <2>5, <2>7 DEF RelayIInv, ConnectHasTheLock, RecordsWhenNobody, LaunchesUnreported, ReportedIsGone, In
<1>4. ASSUME ConnectLaunches(c) \/ ConnectNotesPid(c), Rests(c), UNCHANGED relays,
             binding' = binding \/ binding' = [binding EXCEPT !.session.pid = TRUE]
      PROVE  RelayIInv'
  <2>1. relayLock = c /\ relayCmds' = [relayCmds EXCEPT ![c] = AtRest]
    BY <1>4 DEF ConnectLaunches, ConnectNotesPid, In, RelayIInv, ConnectHasTheLock, Rests
  <2>2. binding' \in Bindings /\ Session'.id = Session.id /\ Session'.report = Session.report /\ Session'.state = Session.state
    <3>1. CASE binding' = binding
      BY <1>0, <3>1 DEF Session
    <3>2. CASE binding' = [binding EXCEPT !.session.pid = TRUE]
      <4>1. Session' = [Session EXCEPT !.pid = TRUE] /\ binding' = [binding EXCEPT !.session = Session']
        BY <1>0, <3>2 DEF Session, Bindings, SessionRecords
      <4>2. Session' \in SessionRecords
        BY <1>0, <4>1 DEF SessionRecords
      <4>. QED  BY <1>0, <4>1, <4>2 DEF Bindings, SessionRecords
    <3>. QED  BY <1>4, <3>1, <3>2
  <2>3. RelayTypes'
    BY <1>0, <1>4, <2>1, <2>2, WorkChanges DEF RelayTypes
  <2>4. \A d \in RelayCommands : relayCmds'[d].op # "connect"
    BY <1>0, <2>1 DEF RelayTypes, RelayWork, RelayIInv, ConnectHasTheLock, AtRest
  <2>. QED  BY <1>4, <2>2, <2>3, <2>4, CommandStep DEF RelayIInv, AdmittedIsRecorded, Occupied
<1>. QED  BY <1>1, <1>2, <1>3, <1>4 DEF ConnectLaunches, ConnectNotesPid

LEMMA DisconnectStep ==
  ASSUME RelayIInv, NEW c \in RelayCommands, Disconnect(c) \/ DisconnectWaits(c) \/ DisconnectSettles(c) \/ CommandDies(c)
  PROVE  RelayIInv'
<1>0. /\ binding \in Bindings /\ Session \in SessionRecords /\ relayGen \in Nat /\ prepared \in Nat /\ RelayTypes
      /\ UNCHANGED <<relayGen, prepared, relays>> /\ relayCmds[c] \in RelayWork
  BY BindingFields DEF RelayIInv, RelayTypes, Disconnect, DisconnectWaits, DisconnectSettles, CommandDies
<1>1. CASE Disconnect(c)
  <2>1. \A d \in RelayCommands : relayCmds[d].op # "connect"
    BY <1>1, IdleCommand DEF Disconnect, MayAct
  <2>2. /\ binding' = [binding EXCEPT !.session.asked = c] /\ UNCHANGED relayLock
        /\ relayCmds' = [relayCmds EXCEPT ![c] = [AtRest EXCEPT !.op = "disconnect", !.at = "wait", !.binding = binding, !.gen = relayGen]]
    BY <1>1 DEF Disconnect
  <2>3. /\ binding' \in Bindings
        /\ Session'.id = Session.id /\ Session'.report = Session.report /\ Session'.state = Session.state
    BY <1>0, <2>2 DEF Bindings, SessionRecords, Session
  <2>4. relayCmds' \in [RelayCommands -> RelayWork]
    BY <1>0, <2>2, WorkChanges
  <2>5. RelayTypes'
    BY <1>0, <2>3, <2>4 DEF RelayTypes
  <2>6. \A d \in RelayCommands : relayCmds'[d].op # "connect"
    BY <1>0, <2>1, <2>2 DEF RelayTypes, RelayWork, AtRest
  <2>. QED  BY <1>0, <2>3, <2>5, <2>6, CommandStep DEF RelayIInv, AdmittedIsRecorded, Occupied
<1>2. CASE DisconnectWaits(c)
  <2>1. PICK look \in {"alive", "absent", "unknown"} :
          relayCmds' = [relayCmds EXCEPT ![c].at = "settle", ![c].proof = look,
                                         ![c].found = look = "alive" /\ ~relayCmds[c].binding.session.pid]
    BY <1>2 DEF DisconnectWaits, Looks
  <2>2. relayCmds[c].op = "disconnect" /\ UNCHANGED <<binding, relayLock>>
    BY <1>2 DEF DisconnectWaits, In
  <2>3. [relayCmds[c] EXCEPT !.at = "settle", !.proof = look, !.found = look = "alive" /\ ~relayCmds[c].binding.session.pid] \in RelayWork
    BY <1>0 DEF RelayWork
  <2>4. relayCmds' \in [RelayCommands -> RelayWork] /\ \A d \in RelayCommands : relayCmds'[d].op = relayCmds[d].op
    BY <1>0, <2>1, <2>3 DEF RelayTypes, RelayWork
  <2>5. \A d \in RelayCommands : d # c => relayCmds'[d] = relayCmds[d]
    BY <1>0, <2>1 DEF RelayTypes
  <2>6. RelayTypes'
    BY <1>0, <2>2, <2>4 DEF RelayTypes
  <2>. QED  BY <1>0, <2>2, <2>4, <2>5, <2>6 DEF RelayIInv, AdmittedIsRecorded, ConnectHasTheLock, RecordsWhenNobody, LaunchesUnreported,
              ReportedIsGone, NobodyAdmitted, In, Occupied, Session
<1>3. CASE DisconnectSettles(c)
  <2>1. \A d \in RelayCommands : relayCmds[d].op # "connect"
    BY <1>3, IdleCommand DEF DisconnectSettles
  <2>2. relayCmds' = [relayCmds EXCEPT ![c] = AtRest]
    BY <1>3 DEF DisconnectSettles, Rests
  <2>3. /\ binding' \in Bindings
        /\ Session'.id = Session.id /\ Session'.report = Session.report
        /\ Session'.state \in {Session.state, "unknown"} \/ Confirmed(c)
    <3>1. CASE binding' = binding
      BY <1>0, <3>1 DEF Session
    <3>2. CASE binding' = [binding EXCEPT !.session.state = IF Confirmed(c) THEN "disconnected" ELSE "unknown",
                                          !.session.pid = @ \/ relayCmds[c].found,
                                          !.session.asked = IF Confirmed(c) THEN NoCommand ELSE @]
      <4>1. /\ Session' = [Session EXCEPT !.state = IF Confirmed(c) THEN "disconnected" ELSE "unknown",
                                          !.pid = @ \/ relayCmds[c].found, !.asked = IF Confirmed(c) THEN NoCommand ELSE @]
            /\ binding' = [binding EXCEPT !.session = Session']
        BY <1>0, <3>2 DEF Session, Bindings, SessionRecords
      <4>2. Session' \in SessionRecords
        BY <1>0, <4>1 DEF SessionRecords, SessionStates
      <4>. QED  BY <1>0, <4>1, <4>2 DEF Bindings, SessionRecords
    <3>. QED  BY <1>3, <3>1, <3>2 DEF DisconnectSettles
  <2>4. RelayTypes'
    BY <1>0, <2>2, <2>3, WorkChanges DEF RelayTypes
  <2>5. \A d \in RelayCommands : relayCmds'[d].op # "connect"
    BY <1>0, <2>1, <2>2 DEF RelayTypes, RelayWork, AtRest
  <2>6. Confirmed(c) => \A w \in RelaySessions : relays[w] \in Admitted => w # Session.id
    BY DEF Confirmed, RelayIInv, ReportedIsGone, Admitted, Carrying
  <2>7. \A w \in RelaySessions : relays[w] \in Admitted => Occupied'
    BY <2>3, <2>6 DEF RelayIInv, AdmittedIsRecorded, Occupied
  <2>. QED  BY <1>0, <2>3, <2>4, <2>5, <2>7, CommandStep
<1>4. CASE CommandDies(c)
  <2>1. relayCmds' = [relayCmds EXCEPT ![c] = AtRest] /\ relayLock' = (IF relayLock = c THEN NoCommand ELSE relayLock) /\ UNCHANGED binding
    BY <1>4 DEF CommandDies, Rests
  <2>2. RelayTypes'
    BY <1>0, <2>1, WorkChanges DEF RelayTypes
  <2>3. \A d \in RelayCommands : relayCmds'[d].op = "connect" => d # c /\ relayCmds'[d] = relayCmds[d]
    BY <1>0, <2>1 DEF RelayTypes, AtRest
  <2>. QED  BY <1>0, <2>1, <2>2, <2>3 DEF RelayIInv, AdmittedIsRecorded, ConnectHasTheLock, RecordsWhenNobody, LaunchesUnreported,
              ReportedIsGone, NobodyAdmitted, In, Occupied, Session
<1>. QED  BY <1>1, <1>2, <1>3, <1>4

(* What a relay adds to the record, if it is the record of its own session. *)
LEMMA MergeKeeps ==
  ASSUME RelayTypes, NEW w \in RelaySessions, NEW state \in SessionStates, NEW report \in BOOLEAN, Merge(w, state, report)
  PROVE  /\ binding' \in Bindings /\ Session'.id = Session.id
         /\ Session'.report = (Session.report \/ (Mine(w) /\ report))
         /\ Session'.state = IF Mine(w) THEN state ELSE Session.state
<1>0. binding \in Bindings /\ Session \in SessionRecords /\ Session = binding.session
  BY BindingFields
<1>1. CASE Mine(w)
  <2>1. /\ Session' = [Session EXCEPT !.state = state, !.report = @ \/ report]
        /\ binding' = [binding EXCEPT !.session = Session']
    BY <1>0, <1>1 DEF Merge, Session, Bindings, SessionRecords
  <2>2. Session' \in SessionRecords
    BY <1>0, <2>1 DEF SessionRecords
  <2>. QED  BY <1>0, <1>1, <2>1, <2>2 DEF Bindings, SessionRecords
<1>2. CASE ~Mine(w)
  BY <1>0, <1>2 DEF Merge, Session, SessionRecords
<1>. QED  BY <1>1, <1>2

(* A relay's own step: it comes to be admitted only as the session on record, and reports only what has ended. *)
LEMMA RelayStepKeeps ==
  ASSUME RelayIInv, NEW w \in RelaySessions, NEW to \in Visible \cup {"gone"}, Phase(w, to), Elsewhere,
         binding' \in Bindings, Session'.id = Session.id, relays[w] \notin {"none", "gone"},
         to \in Admitted => Mine(w) /\ Occupied',
         \A v \in RelaySessions \ {w} : relays[v] \in Admitted => Occupied',
         binding' = binding \/ relayLock = NoCommand,
         Session'.report => Session.report \/ (Mine(w) /\ to = "gone"),
         relayLock # NoCommand /\ to \in Admitted /\ NobodyAdmitted => Session.state = "connecting"
  PROVE  RelayIInv'
<1>0. relays' = [relays EXCEPT ![w] = to] /\ relays \in [RelaySessions -> Visible \cup {"none", "forked", "gone"}]
  BY DEF Phase, RelayIInv, RelayTypes
<1>1. RelayTypes'
  BY <1>0 DEF RelayIInv, RelayTypes, Elsewhere
<1>2. AdmittedIsRecorded'
  BY <1>0 DEF RelayIInv, AdmittedIsRecorded, Mine
<1>3. ConnectHasTheLock'
  BY DEF RelayIInv, ConnectHasTheLock, Elsewhere
<1>4. ASSUME NEW c \in RelayCommands, relayCmds[c].op = "connect"
      PROVE  binding' = binding /\ Session' = Session /\ relayLock # NoCommand
  BY <1>4, IdleCommand DEF Session
<1>5. RecordsWhenNobody'
  BY <1>0, <1>4 DEF RelayIInv, RecordsWhenNobody, NobodyAdmitted, In, Elsewhere
<1>6. LaunchesUnreported'
  BY <1>4 DEF RelayIInv, LaunchesUnreported, In, Elsewhere
<1>7. ReportedIsGone'
  BY <1>0 DEF RelayIInv, ReportedIsGone, Mine
<1>. QED  BY <1>1, <1>2, <1>3, <1>5, <1>6, <1>7 DEF RelayIInv

LEMMA RelayStep == RelayIInv /\ [RelayNext]_relayVars => RelayIInv'
<1>. SUFFICES ASSUME RelayIInv, [RelayNext]_relayVars
              PROVE  RelayIInv'
  OBVIOUS
<1>0. RelayTypes /\ binding \in Bindings /\ Session \in SessionRecords /\ AdmittedIsRecorded /\ ReportedIsGone
  BY BindingFields DEF RelayIInv
<1>1. CASE UNCHANGED relayVars
  BY <1>1 DEF relayVars, RelayIInv, RelayTypes, AdmittedIsRecorded, ConnectHasTheLock, RecordsWhenNobody, LaunchesUnreported,
    ReportedIsGone, NobodyAdmitted, In, Occupied, Session
<1>2. CASE GenerationMoves
  BY <1>2 DEF GenerationMoves, RelayIInv, RelayTypes, AdmittedIsRecorded, ConnectHasTheLock, RecordsWhenNobody, LaunchesUnreported,
    ReportedIsGone, NobodyAdmitted, In, Occupied, Session
<1>3. ASSUME NEW w \in RelaySessions, RelayStarts(w)
      PROVE  RelayIInv'
  <2>1. binding' = binding /\ Session' = Session /\ Elsewhere /\ (Occupied' <=> Occupied)
    BY <1>3 DEF RelayStarts, Session, Occupied
  <2>2. CASE Phase(w, "begun") /\ relays[w] = "forked"
    BY <1>0, <2>1, <2>2, RelayStepKeeps DEF Visible, Admitted, Carrying, AdmittedIsRecorded
  <2>3. CASE relays[w] = "begun" /\ Phase(w, IF Mine(w) /\ Session.state = "connecting" THEN "checked" ELSE "gone")
    <3>1. CASE Mine(w) /\ Session.state = "connecting"
      BY <1>0, <2>1, <2>3, <3>1, RelayStepKeeps DEF Visible, Admitted, Carrying, AdmittedIsRecorded, Occupied
    <3>2. CASE ~(Mine(w) /\ Session.state = "connecting")
      BY <1>0, <2>1, <2>3, <3>2, RelayStepKeeps DEF Visible, Admitted, Carrying, AdmittedIsRecorded
    <3>. QED  BY <3>1, <3>2
  <2>4. CASE relays[w] = "checked" /\ Phase(w, "open")
    BY <1>0, <2>1, <2>4, RelayStepKeeps DEF Visible, Admitted, Carrying, AdmittedIsRecorded, Mine, NobodyAdmitted
  <2>. QED  BY <1>3, <2>2, <2>3, <2>4 DEF RelayStarts
<1>4. ASSUME NEW w \in RelaySessions, RelayReady(w)
      PROVE  RelayIInv'
  <2>1. Mine(w) /\ Occupied /\ Elsewhere
    BY <1>0, <1>4 DEF RelayReady, AdmittedIsRecorded, Admitted, Carrying, Mine
  <2>2. CASE relayLock = NoCommand /\ Merge(w, "connected", FALSE) /\ Phase(w, "ready")
    <3>1. binding' \in Bindings /\ Session'.id = Session.id /\ Session'.report = Session.report /\ Occupied'
      BY <1>0, <2>1, <2>2, MergeKeeps DEF SessionStates, SessionRecords, Occupied
    <3>. QED  BY <1>4, <2>1, <2>2, <3>1, RelayStepKeeps DEF RelayReady, Visible
  <2>3. CASE Phase(w, "failed") /\ UNCHANGED binding
    <3>1. Session' = Session /\ Occupied'
      BY <2>1, <2>3 DEF Session, Occupied
    <3>. QED  BY <1>0, <1>4, <2>1, <2>3, <3>1, RelayStepKeeps DEF RelayReady, Visible, Admitted, Carrying
  <2>. QED  BY <1>4, <2>2, <2>3 DEF RelayReady
<1>5. ASSUME NEW w \in RelaySessions, RelayEnds(w) \/ RelayDies(w)
      PROVE  RelayIInv'
  <2>1. PICK to \in {"closing", "failed", "gone"} : Phase(w, to)
    BY <1>5 DEF RelayEnds, RelayDies
  <2>2. binding' = binding /\ Session' = Session /\ Elsewhere /\ (Occupied' <=> Occupied) /\ relays[w] \notin {"none", "gone"}
    BY <1>5 DEF RelayEnds, RelayDies, Session, Occupied, Carrying
  <2>. QED  BY <1>0, <2>1, <2>2, RelayStepKeeps DEF Visible, Admitted, Carrying, AdmittedIsRecorded
<1>6. ASSUME NEW w \in RelaySessions, RelayWrites(w) \/ RelayFails(w)
      PROVE  RelayIInv'
  <2>1. Elsewhere /\ relays[w] \in {"closing", "failed"} /\ (Mine(w) => \A v \in RelaySessions : relays[v] \notin Admitted)
    BY <1>0, <1>6 DEF RelayWrites, RelayFails, AdmittedIsRecorded, Admitted, Carrying, Mine
  <2>2. CASE UNCHANGED binding /\ (Phase(w, "failed") \/ Phase(w, "gone"))
    <3>1. Session' = Session /\ (Occupied' <=> Occupied)
      BY <2>2 DEF Session, Occupied
    <3>. QED  BY <1>0, <2>1, <2>2, <3>1, RelayStepKeeps DEF Visible, Admitted, Carrying, AdmittedIsRecorded
  <2>3. ASSUME NEW state \in {"disconnected", "unknown"}, NEW report \in BOOLEAN, relayLock = NoCommand, Phase(w, "gone"), Merge(w, state, report)
        PROVE  RelayIInv'
    <3>1. /\ binding' \in Bindings /\ Session'.id = Session.id
          /\ Session'.report = (Session.report \/ (Mine(w) /\ report))
          /\ Session'.state = IF Mine(w) THEN state ELSE Session.state
      BY <1>0, <2>3, MergeKeeps DEF SessionStates
    <3>2. \A v \in RelaySessions \ {w} : relays[v] \in Admitted => Occupied'
      BY <1>0, <2>1, <3>1 DEF AdmittedIsRecorded, Occupied
    <3>. QED  BY <1>0, <2>1, <2>3, <3>1, <3>2, RelayStepKeeps DEF Admitted, Carrying
  <2>. QED  BY <1>6, <2>2, <2>3 DEF RelayWrites, RelayFails
<1>. QED
  BY <1>1, <1>2, <1>3, <1>4, <1>5, <1>6, FreeCommandStep, ConnectStep, DisconnectStep DEF RelayNext

(* At most one relay carries frames, it is the one of the session on record, and the record never calls that session *)
(* ended, however commands, relays and their deaths interleave (disconnect_external_relay).                           *)
THEOREM CarryingIsAlwaysRecorded == RelaySpec => []CarryingIsRecorded
<1>1. RelayIInv => CarryingIsRecorded
  BY DEF RelayIInv, AdmittedIsRecorded, CarryingIsRecorded, Admitted
<1>. QED  BY <1>1, RelayStarting, RelayStep, PTL DEF RelaySpec

(***************************************************************************)
(* The assistant inside an outside Kali.  While a session is set up or     *)
(* taken down its record stays unusable, and what each step has done and   *)
(* undone so far is known by where the daemon is.                          *)
(***************************************************************************)
DaemonOps == {"none", "listen", "next", "netns", "tap", "configure", "mark", "unlink", "inspect", "delete", "gone"}
Daemons == [alive : BOOLEAN, op : DaemonOps, session : KaliSessionIds \cup {NoSession},
            todo : SUBSET KaliSessionIds, left : BOOLEAN, last : BOOLEAN]
Entries == [known : BOOLEAN, pending : BOOLEAN, fd : BOOLEAN]

KaliTypes ==
  /\ attachd \in Daemons
  /\ entries \in [KaliSessionIds -> Entries]
  /\ grantFile \in [KaliSessionIds -> {"none", "pending", "usable"}]
  /\ netns \subseteq KaliSessionIds
  /\ pumps \in [KaliSessionIds -> {"none", "live", "dead"}]

Recorded == \A s \in netns : grantFile[s] # "none"
Held == \A s \in KaliSessionIds : entries[s].fd => s \in taps
PendingOrHeld == \A s \in KaliSessionIds : entries[s].known /\ ~entries[s].pending => entries[s].fd \/ Does("mark", s)
SettingUp ==
  \A s \in KaliSessionIds :
    /\ Does("netns", s) \/ Does("tap", s) \/ Does("configure", s) => grantFile[s] # "none"
    /\ Does("tap", s) \/ Does("configure", s) => s \in netns
    /\ Does("configure", s) => entries[s].fd
TakingDown ==
  \A s \in KaliSessionIds :
    /\ Does("unlink", s) \/ Does("inspect", s) \/ Does("delete", s) \/ Does("gone", s) => entries[s].pending /\ ~entries[s].fd
    /\ Does("delete", s) => s \notin taps

KaliIInv == KaliTypes /\ taps \subseteq netns /\ Recorded /\ Held /\ PendingOrHeld /\ SettingUp /\ TakingDown

LEMMA DaemonTypes ==
  /\ Listening \in Daemons /\ Dead \in Daemons /\ Listening.op = "listen" /\ Dead.op = "none" /\ NoEntry \in Entries
  /\ ~NoEntry.known /\ ~NoEntry.pending /\ ~NoEntry.fd
BY DEF Listening, Dead, Daemons, DaemonOps, NoEntry, Entries

LEMMA KaliStarting == KaliInit => KaliIInv
BY DaemonTypes DEF KaliInit, KaliIInv, KaliTypes, Recorded, Held, PendingOrHeld, SettingUp, TakingDown, Does

(* What a step may write down for one session. *)
LEMMA WrittenDown ==
  ASSUME KaliTypes, NEW s \in KaliSessionIds, NEW value \in {"pending", "usable"}, NEW outcome, Writes(s, value, outcome)
  PROVE  /\ grantFile' \in [KaliSessionIds -> {"none", "pending", "usable"}]
         /\ \A r \in KaliSessionIds : grantFile[r] # "none" => grantFile'[r] # "none"
         /\ outcome # "failed" => grantFile'[s] # "none"
BY DEF Writes, KaliTypes

(* Where the daemon goes next. *)
LEMMA DaemonMoves ==
  ASSUME KaliTypes, NEW op \in DaemonOps, NEW s \in KaliSessionIds
  PROVE  /\ Continues(op) => /\ attachd' \in Daemons /\ attachd'.op = op /\ attachd'.session = attachd.session
         /\ ContinuesLeaving(op) => /\ attachd' \in Daemons /\ attachd'.op = op /\ attachd'.session = attachd.session
         /\ TakesDown(s) => attachd' \in Daemons /\ attachd'.op = "mark" /\ attachd'.session = s
BY DEF KaliTypes, Daemons, DaemonOps, Continues, ContinuesLeaving, TakesDown

(* A daemon that dies forgets, and what it alone held is gone. *)
LEMMA DaemonGoing == KaliIInv /\ DaemonGoes => KaliIInv'
BY DaemonTypes DEF DaemonGoes, KaliIInv, KaliTypes, Recorded, Held, PendingOrHeld, SettingUp, TakingDown, Does

LEMMA SettingUpStep ==
  ASSUME KaliIInv, NEW s \in KaliSessionIds, Setup(s) \/ SetupNamespace(s) \/ SetupTap(s) \/ SetupConfigured(s)
  PROVE  KaliIInv'
<1>. USE DEF KaliIInv
<1>0. KaliTypes /\ attachd \in Daemons /\ entries[s] \in Entries
  BY DEF KaliTypes
<1>1. CASE Setup(s)
  <2>0. attachd.op = "listen" /\ UNCHANGED <<netns, taps, pumps>> /\ ~entries[s].known
    BY <1>1 DEF Setup
  <2>1. PICK outcome \in Outcomes :
          /\ Writes(s, "pending", outcome)
          /\ IF outcome = "done"
             THEN /\ attachd' = [attachd EXCEPT !.op = "netns", !.session = s]
                  /\ entries' = [entries EXCEPT ![s] = [known |-> TRUE, pending |-> TRUE, fd |-> FALSE]]
             ELSE UNCHANGED <<attachd, entries>>
    BY <1>1 DEF Setup
  <2>2. /\ grantFile' \in [KaliSessionIds -> {"none", "pending", "usable"}]
        /\ \A r \in KaliSessionIds : grantFile[r] # "none" => grantFile'[r] # "none"
        /\ outcome # "failed" => grantFile'[s] # "none"
    BY <1>0, <2>1, WrittenDown
  <2>3. CASE outcome = "done"
    <3>0. /\ attachd' = [attachd EXCEPT !.op = "netns", !.session = s]
          /\ entries' = [entries EXCEPT ![s] = [known |-> TRUE, pending |-> TRUE, fd |-> FALSE]]
      BY <2>1, <2>3
    <3>1. attachd' \in Daemons /\ attachd'.op = "netns" /\ attachd'.session = s
      BY <1>0, <3>0 DEF Daemons, DaemonOps
    <3>2. entries' \in [KaliSessionIds -> Entries] /\ entries' = [entries EXCEPT ![s] = [known |-> TRUE, pending |-> TRUE, fd |-> FALSE]]
      BY <1>0, <3>0 DEF KaliTypes, Entries
    <3>. QED  BY <2>0, <2>2, <2>3, <3>1, <3>2 DEF KaliTypes, Recorded, Held, PendingOrHeld, SettingUp, TakingDown, Does
  <2>4. CASE outcome # "done"
    BY <2>0, <2>1, <2>2, <2>4 DEF KaliTypes, Recorded, Held, PendingOrHeld, SettingUp, TakingDown, Does
  <2>. QED  BY <2>3, <2>4
<1>2. CASE SetupNamespace(s)
  <2>0. Does("netns", s) /\ UNCHANGED <<entries, grantFile, taps, pumps>>
    BY <1>2 DEF SetupNamespace
  <2>1. PICK outcome \in Outcomes : /\ netns' = IF outcome = "failed" THEN netns ELSE netns \cup {s}
                                    /\ IF outcome = "done" THEN Continues("tap") ELSE TakesDown(s)
    BY <1>2 DEF SetupNamespace
  <2>2. attachd' \in Daemons /\ attachd'.session = s /\ attachd'.op = IF outcome = "done" THEN "tap" ELSE "mark"
    BY <1>0, <2>0, <2>1, DaemonMoves DEF Does, DaemonOps
  <2>. QED  BY <2>0, <2>1, <2>2 DEF KaliTypes, Recorded, Held, PendingOrHeld, SettingUp, TakingDown, Does
<1>3. CASE SetupTap(s)
  <2>0. Does("tap", s) /\ UNCHANGED <<grantFile, netns, pumps>>
    BY <1>3 DEF SetupTap
  <2>1. CASE taps' = taps \cup {s} /\ entries' = [entries EXCEPT ![s].fd = TRUE] /\ Continues("configure")
    <3>1. attachd' \in Daemons /\ attachd'.session = s /\ attachd'.op = "configure"
      BY <1>0, <2>0, <2>1, DaemonMoves DEF Does, DaemonOps
    <3>2. /\ entries' \in [KaliSessionIds -> Entries] /\ entries'[s].fd
          /\ \A r \in KaliSessionIds \ {s} : entries'[r] = entries[r]
      BY <1>0, <2>1 DEF KaliTypes, Entries
    <3>. QED  BY <2>0, <2>1, <3>1, <3>2 DEF KaliTypes, Recorded, Held, PendingOrHeld, SettingUp, TakingDown, Does
  <2>2. CASE TakesDown(s) /\ UNCHANGED <<taps, entries>>
    <3>1. attachd' \in Daemons /\ attachd'.session = s /\ attachd'.op = "mark"
      BY <1>0, <2>2, DaemonMoves DEF DaemonOps
    <3>. QED  BY <2>0, <2>2, <3>1 DEF KaliTypes, Recorded, Held, PendingOrHeld, SettingUp, TakingDown, Does
  <2>. QED  BY <1>3, <2>1, <2>2 DEF SetupTap
<1>4. CASE SetupConfigured(s)
  <2>0. Does("configure", s) /\ UNCHANGED <<netns, taps, pumps>>
    BY <1>4 DEF SetupConfigured
  <2>1. ASSUME NEW outcome \in Outcomes, entries' = [entries EXCEPT ![s].pending = FALSE], Writes(s, "usable", outcome),
               attachd' = Listening \/ TakesDown(s)
        PROVE  KaliIInv'
    <3>1. attachd' \in Daemons /\ (attachd'.op = "listen" \/ (attachd'.op = "mark" /\ attachd'.session = s))
      BY <1>0, <2>1, DaemonMoves, DaemonTypes DEF DaemonOps
    <3>2. /\ entries' \in [KaliSessionIds -> Entries] /\ entries'[s].fd = entries[s].fd
          /\ \A r \in KaliSessionIds \ {s} : entries'[r] = entries[r]
      BY <1>0, <2>1 DEF KaliTypes, Entries
    <3>3. /\ grantFile' \in [KaliSessionIds -> {"none", "pending", "usable"}]
          /\ \A r \in KaliSessionIds : grantFile[r] # "none" => grantFile'[r] # "none"
      BY <1>0, <2>1, WrittenDown
    <3>. QED  BY <2>0, <3>1, <3>2, <3>3 DEF KaliTypes, Recorded, Held, PendingOrHeld, SettingUp, TakingDown, Does
  <2>2. CASE TakesDown(s) /\ UNCHANGED <<entries, grantFile>>
    <3>1. attachd' \in Daemons /\ attachd'.session = s /\ attachd'.op = "mark"
      BY <1>0, <2>2, DaemonMoves DEF DaemonOps
    <3>. QED  BY <2>0, <2>2, <3>1 DEF KaliTypes, Recorded, Held, PendingOrHeld, SettingUp, TakingDown, Does
  <2>. QED  BY <1>4, <2>1, <2>2 DEF SetupConfigured
<1>. QED  BY <1>1, <1>2, <1>3, <1>4

LEMMA TakingDownStep ==
  ASSUME KaliIInv, NEW s \in KaliSessionIds,
         \/ Teardown(s) \/ TeardownMarks(s) \/ TeardownLink(s)
         \/ TeardownInspects(s) \/ TeardownNamespace(s) \/ TeardownForgets(s)
  PROVE  KaliIInv'
<1>. USE DEF KaliIInv
<1>0. KaliTypes /\ attachd \in Daemons /\ entries[s] \in Entries
  BY DEF KaliTypes
<1>1. CASE Teardown(s)
  <2>1. attachd' \in Daemons /\ attachd'.session = s /\ attachd'.op = "mark" /\ attachd.op = "listen"
    BY <1>0, <1>1, DaemonMoves DEF Teardown, DaemonOps
  <2>2. /\ entries' \in [KaliSessionIds -> Entries] /\ entries'[s].fd = entries[s].fd
        /\ \A r \in KaliSessionIds \ {s} : entries'[r] = entries[r]
    BY <1>0, <1>1 DEF Teardown, KaliTypes, Entries
  <2>. QED  BY <1>1, <2>1, <2>2 DEF Teardown, KaliTypes, Recorded, Held, PendingOrHeld, SettingUp, TakingDown, Does
<1>2. CASE TeardownMarks(s)
  <2>1. PICK outcome \in Outcomes : /\ Writes(s, "pending", outcome)
                                    /\ IF outcome = "done" THEN Continues("unlink") ELSE ContinuesLeaving("unlink")
    BY <1>2 DEF TeardownMarks
  <2>2. attachd' \in Daemons /\ attachd'.session = s /\ attachd'.op = "unlink"
    BY <1>0, <1>2, <2>1, DaemonMoves DEF TeardownMarks, Does, DaemonOps
  <2>3. /\ entries' \in [KaliSessionIds -> Entries] /\ ~entries'[s].fd /\ entries'[s].pending
        /\ \A r \in KaliSessionIds \ {s} : entries'[r] = entries[r]
    BY <1>0, <1>2 DEF TeardownMarks, KaliTypes, Entries
  <2>4. /\ grantFile' \in [KaliSessionIds -> {"none", "pending", "usable"}]
        /\ \A r \in KaliSessionIds : grantFile[r] # "none" => grantFile'[r] # "none"
    BY <1>0, <2>1, WrittenDown
  <2>5. taps' \subseteq taps /\ taps \ {s} \subseteq taps' /\ UNCHANGED <<netns, pumps>> /\ Does("mark", s)
    BY <1>2 DEF TeardownMarks
  <2>. QED  BY <2>2, <2>3, <2>4, <2>5 DEF KaliTypes, Recorded, Held, PendingOrHeld, SettingUp, TakingDown, Does
<1>3. CASE TeardownLink(s)
  <2>1. Does("unlink", s) /\ UNCHANGED <<entries, grantFile, netns>> /\ taps' \subseteq taps /\ taps \ {s} \subseteq taps'
    BY <1>3 DEF TeardownLink
  <2>2. pumps' \in [KaliSessionIds -> {"none", "live", "dead"}]
    BY <1>0, <1>3 DEF TeardownLink, KaliTypes
  <2>3. attachd' \in Daemons /\ attachd'.session = s /\ attachd'.op \in {"inspect", "gone"}
    BY <1>0, <1>3, DaemonMoves DEF TeardownLink, Does, DaemonOps
  <2>. QED  BY <2>1, <2>2, <2>3 DEF KaliTypes, Recorded, Held, PendingOrHeld, SettingUp, TakingDown, Does
<1>4. CASE TeardownInspects(s)
  <2>1. Does("inspect", s) /\ UNCHANGED <<entries, grantFile, netns, taps, pumps>>
    BY <1>4 DEF TeardownInspects
  <2>2. /\ attachd' \in Daemons /\ attachd'.session = s /\ attachd'.op \in {"delete", "gone"}
        /\ attachd'.op = "delete" => s \notin taps
    BY <1>0, <1>4, DaemonMoves DEF TeardownInspects, Unoccupied, Does, DaemonOps
  <2>. QED  BY <2>1, <2>2 DEF KaliTypes, Recorded, Held, PendingOrHeld, SettingUp, TakingDown, Does
<1>5. CASE TeardownNamespace(s)
  <2>1. Does("delete", s) /\ UNCHANGED <<entries, grantFile, taps, pumps>> /\ (netns' = netns \ {s} \/ netns' = netns)
    BY <1>5 DEF TeardownNamespace
  <2>2. attachd' \in Daemons /\ attachd'.session = s /\ attachd'.op = "gone"
    BY <1>0, <1>5, DaemonMoves DEF TeardownNamespace, Does, DaemonOps
  <2>. QED  BY <2>1, <2>2 DEF KaliTypes, Recorded, Held, PendingOrHeld, SettingUp, TakingDown, Does
<1>6. CASE TeardownForgets(s)
  <2>1. attachd' \in Daemons /\ attachd'.op = "next"
    BY <1>0, <1>6 DEF TeardownForgets, Daemons, DaemonOps
  <2>2. UNCHANGED <<netns, taps, pumps>> /\ Does("gone", s)
    BY <1>6 DEF TeardownForgets
  <2>3. CASE UNCHANGED <<grantFile, entries>>
    BY <2>1, <2>2, <2>3 DEF KaliTypes, Recorded, Held, PendingOrHeld, SettingUp, TakingDown, Does
  <2>4. CASE s \notin netns /\ grantFile' = [grantFile EXCEPT ![s] = "none"] /\ entries' = [entries EXCEPT ![s] = NoEntry]
    BY <2>1, <2>2, <2>4, DaemonTypes DEF KaliTypes, Recorded, Held, PendingOrHeld, SettingUp, TakingDown, Does
  <2>. QED  BY <1>6, <2>3, <2>4 DEF TeardownForgets, MayForget
<1>. QED  BY <1>1, <1>2, <1>3, <1>4, <1>5, <1>6

LEMMA KaliStep == KaliIInv /\ [KaliNext]_kaliVars => KaliIInv'
<1>. SUFFICES ASSUME KaliIInv, [KaliNext]_kaliVars
              PROVE  KaliIInv'
  OBVIOUS
<1>. USE DEF KaliIInv
<1>1. CASE UNCHANGED kaliVars
  BY <1>1 DEF kaliVars, KaliTypes, Recorded, Held, PendingOrHeld, SettingUp, TakingDown, Does
<1>2. CASE DaemonStarts
  <2>1. \A s \in KaliSessionIds : Restored(s) \in Entries /\ ~Restored(s).fd /\ (Restored(s).known => Restored(s).pending)
    BY DaemonTypes DEF Restored, Entries
  <2>2. attachd' \in Daemons /\ attachd'.op = "listen"
    BY <1>2, DaemonTypes DEF DaemonStarts
  <2>. QED  BY <1>2, <2>1, <2>2 DEF DaemonStarts, KaliTypes, Recorded, Held, PendingOrHeld, SettingUp, TakingDown, Does
<1>3. CASE DaemonDies
  BY <1>3, DaemonGoing DEF DaemonDies
<1>4. CASE DaemonStops \/ Sweep
  <2>0. PICK todo \in SUBSET KaliSessionIds, last \in BOOLEAN :
          attachd' = [attachd EXCEPT !.op = "next", !.todo = todo, !.last = last]
    <3>1. CASE DaemonStops
      BY <3>1 DEF DaemonStops
    <3>2. CASE Sweep
      <4>1. PICK due \in SUBSET KaliSessionIds : attachd' = [attachd EXCEPT !.op = "next", !.todo = due]
        BY <3>2 DEF Sweep
      <4>2. attachd.last \in BOOLEAN /\ attachd' = [attachd EXCEPT !.op = "next", !.todo = due, !.last = attachd.last]
        BY <4>1 DEF KaliTypes, Daemons
      <4>. QED  BY <4>2
    <3>. QED  BY <1>4, <3>1, <3>2
  <2>1. attachd' \in Daemons /\ attachd'.op = "next" /\ attachd.op = "listen"
    BY <1>4, <2>0 DEF DaemonStops, Sweep, KaliTypes, Daemons, DaemonOps
  <2>. QED  BY <1>4, <2>1 DEF DaemonStops, Sweep, KaliTypes, Recorded, Held, PendingOrHeld, SettingUp, TakingDown, Does
<1>5. CASE SweepNext
  <2>1. CASE DaemonGoes
    BY <2>1, DaemonGoing
  <2>2. CASE ~DaemonGoes
    <3>1. /\ attachd' \in Daemons /\ attachd'.op \in {"mark", "listen"} /\ attachd.op = "next"
          /\ UNCHANGED <<entries, grantFile, netns, taps, pumps>>
      <4>1. CASE attachd.todo # {}
        <5>1. PICK s \in attachd.todo : attachd' = [attachd EXCEPT !.op = "mark", !.session = s, !.left = FALSE, !.todo = @ \ {s}]
          BY <1>5, <4>1 DEF SweepNext
        <5>. QED  BY <1>5, <4>1, <5>1 DEF SweepNext, KaliTypes, Daemons, DaemonOps
      <4>2. CASE attachd.todo = {}
        BY <1>5, <2>2, <4>2, DaemonTypes DEF SweepNext
      <4>. QED  BY <4>1, <4>2
    <3>. QED  BY <3>1 DEF KaliTypes, Recorded, Held, PendingOrHeld, SettingUp, TakingDown, Does
  <2>. QED  BY <2>1, <2>2
<1>6. ASSUME NEW s \in KaliSessionIds, Attach(s) \/ Lapses(s)
      PROVE  KaliIInv'
  <2>1. pumps' \in [KaliSessionIds -> {"none", "live", "dead"}]
    BY <1>6 DEF Attach, Lapses, KaliTypes
  <2>. QED  BY <1>6, <2>1 DEF Attach, Lapses, KaliTypes, Recorded, Held, PendingOrHeld, SettingUp, TakingDown, Does
<1>7. ASSUME NEW s \in KaliSessionIds, PumpEnds(s)
      PROVE  KaliIInv'
  <2>1. pumps' \in [KaliSessionIds -> {"none", "live", "dead"}]
    BY <1>7 DEF PumpEnds, KaliTypes
  <2>2. taps' \subseteq taps /\ taps \ {s} \subseteq taps' /\ (entries[s].fd => taps' = taps)
    BY <1>7 DEF PumpEnds
  <2>. QED  BY <1>7, <2>1, <2>2 DEF PumpEnds, KaliTypes, Recorded, Held, PendingOrHeld, SettingUp, TakingDown, Does
<1>8. ASSUME NEW t \in Tools, ToolEnters(t) \/ ToolEnds(t) \/ \E s \in KaliSessionIds : RunTool(s, t)
      PROVE  KaliIInv'
  BY <1>8 DEF ToolEnters, ToolEnds, RunTool, KaliTypes, Recorded, Held, PendingOrHeld, SettingUp, TakingDown, Does
<1>. QED
  BY <1>1, <1>2, <1>3, <1>4, <1>5, <1>6, <1>7, <1>8, SettingUpStep, TakingDownStep DEF KaliNext

(* Every namespace stays on record, every TAP in a namespace that can be named, and a session on offer has its TAP, *)
(* whichever commands of the system fail and whenever the daemon dies (setup_session, teardown_session).             *)
THEOREM SessionsAreAlwaysOnRecord == KaliSpec => []SessionsAreOnRecord
<1>1. KaliIInv => SessionsAreOnRecord
  BY DEF KaliIInv, Recorded, Held, PendingOrHeld, SessionsAreOnRecord, Usable, Does
<1>. QED  BY <1>1, KaliStarting, KaliStep, PTL DEF KaliSpec

-----------------------------------------------------------------------------
(***************************************************************************)
(* Scene transactions.  A command that moved the pointer or the            *)
(* reservations has the lock since before it read what it relies on, so    *)
(* the reservation it made, the pointer it switched and the logs it opened *)
(* are as it left them; a release that was read before the lock can only   *)
(* be about the generation of its reservation, for tokens never come back. *)
(***************************************************************************)
PointerRow == [gen : Generations, desc : {"prepared", "reset-ready"}, token : Nat] \cup {NoPointer}
GenerationEntry == [made : BOOLEAN, reset : BOOLEAN, prepared : Nat, prev : 0..MaxGen]
CommandRow == [op : {"none", "prepare", "start", "stop", "reset", "orphan", "release"},
               at : {"none", "make", "record", "init", "read", "lock", "reserve", "switch", "services", "machines",
                     "proof", "done", "describe", "ready", "commit"},
               gen : 0..MaxGen, ptr : PointerRow, token : Nat, born : BOOLEAN]
LogShape(l) == l = [token |-> l.token, state |-> l.state, procs |-> l.procs, pending |-> l.pending, asked |-> l.asked]
IsLogs(f) == f = [g \in Generations |-> [kind \in Kinds |-> f[g][kind]]]

SceneTypes ==
  /\ pointer \in PointerRow /\ gens \in [Generations -> GenerationEntry] /\ cmds \in [Commands -> CommandRow]
  /\ tokens \in Nat /\ DOMAIN active \subseteq 1..tokens /\ \A t \in DOMAIN active : active[t] \in Generations
  /\ IsLogs(logs) /\ \A g \in Generations, kind \in Kinds : LogShape(logs[g][kind])

Resuming == {"reserve", "record", "switch", "services", "machines"}
Locking(c) == cmds[c].op \in {"prepare", "reset"} \/ (cmds[c].op = "start" /\ cmds[c].at \in Resuming)
OwnLog(c, kind) == logs[cmds[c].gen][kind] = NoLog \/ logs[cmds[c].gen][kind].token = cmds[c].token

Knows(c) ==
  /\ Locking(c) => held = c
  /\ cmds[c].op # "none" /\ cmds[c].at \notin {"read", "none"} => cmds[c].gen \in Generations
  /\ cmds[c].op = "start" /\ cmds[c].at \in {"lock", "reserve", "record", "switch"} => cmds[c].ptr.gen = cmds[c].gen
  /\ cmds[c].op = "start" /\ cmds[c].at \in {"record", "switch", "services", "machines"} =>
       cmds[c].token \in DOMAIN active /\ active[cmds[c].token] = cmds[c].gen
  /\ At(c, "start", "switch") => NeverRun(cmds[c].gen)
  /\ \A kind \in Kinds : At(c, "start", kind) =>
       /\ pointer = [gen |-> cmds[c].gen, desc |-> "prepared", token |-> cmds[c].token]
       /\ \A log \in Kinds : OwnLog(c, log)
  /\ cmds[c].op = "release" =>
       cmds[c].token <= tokens /\ (cmds[c].token \in DOMAIN active => active[cmds[c].token] = cmds[c].gen)

SceneIInv == SceneTypes /\ RecordedRunReserved /\ \A c \in Commands : Knows(c)

LEMMA NoLogShape == LogShape(NoLog) /\ NoLog.procs = {} /\ NoLog.state = "none" /\ Waiting \in CommandRow /\ Waiting.op = "none" /\ NoPointer \in PointerRow
BY SceneAssumption DEF LogShape, NoLog, Waiting, CommandRow, NoPointer, PointerRow

LEMMA SceneStarting == SceneInit => SceneIInv
<1>. SUFFICES ASSUME SceneInit
              PROVE  SceneIInv
  OBVIOUS
<1>1. /\ pointer \in PointerRow /\ gens \in [Generations -> GenerationEntry] /\ cmds \in [Commands -> CommandRow]
      /\ tokens \in Nat /\ DOMAIN active = {}
  BY NoLogShape, SceneAssumption DEF SceneInit, GenerationEntry
<1>2. IsLogs(logs) /\ \A g \in Generations, kind \in Kinds : logs[g][kind] = NoLog
  BY DEF SceneInit, IsLogs
<1>3. SceneTypes
  BY <1>1, <1>2, NoLogShape DEF SceneTypes
<1>4. RecordedRunReserved
  BY <1>2, NoLogShape DEF RecordedRunReserved
<1>5. \A c \in Commands : cmds[c].op = "none"
  BY NoLogShape DEF SceneInit
<1>6. \A c \in Commands : Knows(c)
  BY <1>5 DEF Knows, Locking, At
<1>. QED  BY <1>3, <1>4, <1>6 DEF SceneIInv

(* A command is proven to have left nothing running. *)
LEMMA StoppedIsQuiet ==
  ASSUME NEW g, StoppedProof(g) \/ NeverRun(g)
  PROVE  \A kind \in Kinds : \A m \in logs[g][kind].procs : <<g, m>> \notin alive
BY NoLogShape DEF StoppedProof, NeverRun, Proven

(* One command moves; the others do not hold the lock, or nothing that they rely on changes. *)
LEMMA CommandMoves ==
  ASSUME SceneIInv, NEW c \in Commands, NEW new \in CommandRow, cmds' = [cmds EXCEPT ![c] = new],
         UNCHANGED <<pointer, active, logs>> \/ held \in {c, Nobody},
         \A d \in Commands \ {c} : held = d => held' = d,
         tokens' \in Nat, tokens' >= tokens,
         \A t \in DOMAIN active' : t \in 1..tokens' /\ active'[t] \in Generations /\ (t <= tokens => t \in DOMAIN active /\ active'[t] = active[t]),
         pointer' \in PointerRow, gens' \in [Generations -> GenerationEntry],
         IsLogs(logs'), \A g \in Generations, kind \in Kinds : LogShape(logs'[g][kind]),
         RecordedRunReserved', Knows(c)'
  PROVE  SceneIInv'
<1>1. SceneTypes /\ \A d \in Commands : Knows(d)
  BY DEF SceneIInv
<1>2. cmds'[c] = new /\ \A d \in Commands \ {c} : cmds'[d] = cmds[d]
  BY <1>1 DEF SceneTypes
<1>3. SceneTypes'
  <2>1. cmds' \in [Commands -> CommandRow]
    BY <1>1 DEF SceneTypes
  <2>. QED  BY <2>1 DEF SceneTypes, IsLogs, LogShape
<1>4. ASSUME NEW d \in Commands \ {c}
      PROVE  Knows(d)'
  <2>1. Knows(d) /\ cmds'[d] = cmds[d] /\ cmds[d] \in CommandRow
    BY <1>1, <1>2 DEF SceneTypes
  <2>2. Locking(d) => held' = d /\ UNCHANGED <<pointer, active, logs>>
    BY <2>1, SceneAssumption DEF Knows
  <2>3. cmds[d].op = "release" => cmds[d].token <= tokens' /\ (cmds[d].token \in DOMAIN active' => active'[cmds[d].token] = cmds[d].gen)
    BY <1>1, <2>1 DEF Knows, CommandRow, SceneTypes
  <2>4. \A at \in {"switch", "services", "machines", "record"} : At(d, "start", at) => Locking(d)
    BY DEF At, Locking, Resuming
  <2>5. CASE UNCHANGED <<pointer, active, logs>>
    BY <2>1, <2>2, <2>3, <2>5 DEF Knows, Locking, At, NeverRun, OwnLog
  <2>6. CASE ~Locking(d)
    BY <2>1, <2>3, <2>4, <2>6 DEF Knows, Locking, At, Resuming, Kinds
  <2>. QED  BY <2>2, <2>5, <2>6
<1>. QED  BY <1>3, <1>4 DEF SceneIInv

(* A command moves and what is on record stays as it is. *)
LEMMA OnlyItself ==
  ASSUME SceneIInv, NEW c \in Commands, NEW new \in CommandRow, cmds' = [cmds EXCEPT ![c] = new],
         UNCHANGED <<pointer, active, tokens, logs, alive>>, gens' \in [Generations -> GenerationEntry],
         \A d \in Commands \ {c} : held = d => held' = d, Knows(c)'
  PROVE  SceneIInv'
<1>1. SceneTypes /\ RecordedRunReserved
  BY DEF SceneIInv
<1>2. RecordedRunReserved'
  BY <1>1 DEF RecordedRunReserved
<1>3. \A t \in DOMAIN active' : t \in 1..tokens' /\ active'[t] \in Generations /\ (t <= tokens => t \in DOMAIN active /\ active'[t] = active[t])
  BY <1>1 DEF SceneTypes
<1>4. /\ tokens' \in Nat /\ tokens' >= tokens /\ pointer' \in PointerRow
      /\ IsLogs(logs') /\ \A g \in Generations, kind \in Kinds : LogShape(logs'[g][kind])
  BY <1>1 DEF SceneTypes, IsLogs, LogShape
<1>. QED  BY <1>2, <1>3, <1>4, CommandMoves

LEMMA CommandLeaves ==
  ASSUME SceneIInv, NEW c \in Commands, Ends(c), UNCHANGED <<pointer, active, tokens, logs, alive>>, gens' \in [Generations -> GenerationEntry]
  PROVE  SceneIInv'
<1>1. cmds' = [cmds EXCEPT ![c] = Waiting] /\ held' = IF held = c THEN Nobody ELSE held
  BY DEF Ends
<1>2. cmds'[c] = Waiting
  BY <1>1 DEF SceneIInv, SceneTypes
<1>3. Knows(c)'
  BY <1>2, NoLogShape DEF Knows, Locking, At
<1>. QED  BY <1>1, <1>3, NoLogShape, OnlyItself

LEMMA GoesOn ==
  ASSUME SceneTypes, NEW c \in Commands,
         NEW at \in {"none", "make", "record", "init", "read", "lock", "reserve", "switch", "services", "machines",
                     "proof", "done", "describe", "ready", "commit"}, Goes(c, at)
  PROVE  \E new \in CommandRow :
           /\ cmds' = [cmds EXCEPT ![c] = new] /\ cmds'[c] = new /\ new.op = cmds[c].op /\ new.at = at
           /\ new.gen = cmds[c].gen /\ new.ptr = cmds[c].ptr /\ new.token = cmds[c].token
<1>. DEFINE new == [cmds[c] EXCEPT !.at = at]
<1>1. cmds[c] \in CommandRow /\ cmds' = [cmds EXCEPT ![c] = new]
  BY DEF SceneTypes, Goes
<1>2. new \in CommandRow /\ new.op = cmds[c].op /\ new.at = at /\ new.gen = cmds[c].gen /\ new.ptr = cmds[c].ptr /\ new.token = cmds[c].token
  BY <1>1 DEF CommandRow
<1>. HIDE DEF new
<1>3. cmds'[c] = new
  BY <1>1 DEF SceneTypes
<1>. QED  BY <1>1, <1>2, <1>3

LEMMA Starting ==
  ASSUME SceneTypes, NEW c \in Commands, NEW op \in {"prepare", "start", "stop", "reset", "orphan", "release"},
         NEW at \in {"make", "init", "read", "lock", "machines"}, NEW g \in 0..MaxGen, NEW p \in PointerRow, NEW t \in Nat,
         Starts(c, op, at, g, p, t)
  PROVE  \E new \in CommandRow :
           /\ cmds' = [cmds EXCEPT ![c] = new] /\ cmds'[c] = new /\ new.op = op /\ new.at = at
           /\ new.gen = g /\ new.ptr = p /\ new.token = t
<1>. DEFINE new == [op |-> op, at |-> at, gen |-> g, ptr |-> p, token |-> t, born |-> FALSE]
<1>1. cmds' = [cmds EXCEPT ![c] = new]
  BY DEF Starts
<1>2. new \in CommandRow /\ new.op = op /\ new.at = at /\ new.gen = g /\ new.ptr = p /\ new.token = t
  BY DEF CommandRow
<1>. HIDE DEF new
<1>3. cmds'[c] = new
  BY <1>1 DEF SceneTypes
<1>. QED  BY <1>1, <1>2, <1>3

LEMMA PointersPoint ==
  \A p \in PointerRow : p.token \in Nat /\ p.gen \in 0..MaxGen /\ (p # NoPointer => p.gen \in Generations)
BY SceneAssumption DEF PointerRow, NoPointer, Generations

(* A command that has no reservation of its own goes on. *)
LEMMA GoesQuietly ==
  ASSUME SceneIInv, NEW c \in Commands, cmds[c].op \in {"prepare", "stop", "reset"}, cmds[c].at \notin {"read", "none"},
         NEW at \in {"make", "record", "init", "read", "lock", "switch", "services", "machines", "proof", "done", "describe", "ready", "commit"},
         Goes(c, at), UNCHANGED <<pointer, active, tokens, logs, alive, held>>, gens' \in [Generations -> GenerationEntry]
  PROVE  SceneIInv'
<1>1. SceneTypes /\ Knows(c)
  BY DEF SceneIInv
<1>2. PICK new \in CommandRow :
        /\ cmds' = [cmds EXCEPT ![c] = new] /\ cmds'[c] = new /\ new.op = cmds[c].op /\ new.at = at
        /\ new.gen = cmds[c].gen /\ new.ptr = cmds[c].ptr /\ new.token = cmds[c].token
  BY <1>1, GoesOn
<1>3. Knows(c)'
  BY <1>1, <1>2 DEF Knows, Locking, At, Kinds
<1>. QED  BY <1>2, <1>3, OnlyItself

(* A command begins, and is at a place where it needs no lock or has just taken it. *)
LEMMA BeginsQuietly ==
  ASSUME SceneIInv, NEW c \in Commands, NEW op \in {"prepare", "start", "stop", "reset", "orphan", "release"},
         NEW at \in {"make", "init", "read", "lock", "machines"}, NEW g \in 0..MaxGen, NEW p \in PointerRow, NEW t \in Nat,
         Starts(c, op, at, g, p, t), at # "read" => g \in Generations,
         op = "start" => at \in {"init", "read"}, op \in {"prepare", "reset"} => held' = c,
         op = "release" => t <= tokens /\ (t \in DOMAIN active => active[t] = g),
         \A d \in Commands \ {c} : held = d => held' = d,
         UNCHANGED <<pointer, gens, active, tokens, logs, alive>>
  PROVE  SceneIInv'
<1>1. SceneTypes
  BY DEF SceneIInv
<1>2. PICK new \in CommandRow :
        /\ cmds' = [cmds EXCEPT ![c] = new] /\ cmds'[c] = new /\ new.op = op /\ new.at = at
        /\ new.gen = g /\ new.ptr = p /\ new.token = t
  BY <1>1, Starting
<1>3. Knows(c)'
  BY <1>1, <1>2 DEF Knows, Locking, At, Kinds, Resuming
<1>. QED  BY <1>1, <1>2, <1>3, OnlyItself DEF SceneTypes

LEMMA EntryWritten ==
  ASSUME SceneTypes, NEW g \in Generations, NEW entry \in GenerationEntry, gens' = [gens EXCEPT ![g] = entry]
  PROVE  gens' \in [Generations -> GenerationEntry]
BY DEF SceneTypes

(* Commands that are killed, that begin or go on without writing anything down but their own files. *)
LEMMA QuietSteps ==
  ASSUME SceneIInv, NEW c \in Commands,
         \/ CommandEnds(c) \/ PrepareMakes(c) \/ PrepareRecords(c) \/ StartBegins(c) \/ ResumeReads(c)
         \/ StopBegins(c) \/ StopSkipsMachines(c) \/ StopProves(c)
         \/ ResetMakes(c) \/ ResetDescribes(c) \/ ResetReady(c) \/ ResetCommits(c) \/ OrphanReads(c) \/ ReleaseReads(c)
         \/ \E g \in Generations : ResetBegins(c, g)
  PROVE  SceneIInv'
<1>1. /\ SceneTypes /\ Knows(c) /\ cmds[c] \in CommandRow /\ NoPointer \in PointerRow /\ 0 \in 0..MaxGen /\ gens \in [Generations -> GenerationEntry]
      /\ pointer \in PointerRow /\ \A g \in Generations : g \in 0..MaxGen
  BY NoLogShape, SceneAssumption DEF SceneIInv, SceneTypes, Generations
<1>2. CASE CommandEnds(c)
  BY <1>1, <1>2, CommandLeaves DEF CommandEnds
<1>3. CASE PrepareMakes(c)
  <2>1. UNCHANGED <<pointer, active, tokens, logs, alive, held>> /\ cmds[c].op = "prepare" /\ cmds[c].at = "make"
        /\ gens' = [gens EXCEPT ![cmds[c].gen].made = TRUE] /\ Goes(c, "record")
    BY <1>3 DEF PrepareMakes, At
  <2>2. gens' \in [Generations -> GenerationEntry]
    BY <1>1, <2>1 DEF GenerationEntry
  <2>. QED  BY <2>1, <2>2, GoesQuietly
<1>4. CASE PrepareRecords(c)
  <2>1. /\ UNCHANGED <<pointer, active, tokens, logs, alive>> /\ Ends(c) /\ cmds[c].op = "prepare" /\ cmds[c].at = "record"
        /\ gens' = [gens EXCEPT ![cmds[c].gen] = [gens[cmds[c].gen] EXCEPT !.prepared = cmds[c].token]]
    BY <1>1, <1>4 DEF PrepareRecords, At
  <2>2. cmds[c].gen \in Generations /\ cmds[c].token \in Nat
    BY <1>1, <2>1 DEF Knows, CommandRow
  <2>3. [gens[cmds[c].gen] EXCEPT !.prepared = cmds[c].token] \in GenerationEntry
    BY <1>1, <2>2 DEF GenerationEntry
  <2>. QED  BY <1>1, <2>1, <2>2, <2>3, EntryWritten, CommandLeaves
<1>5. CASE StartBegins(c)
  <2>1. UNCHANGED <<pointer, gens, active, tokens, logs, alive, held>>
    BY <1>5 DEF StartBegins
  <2>2. \/ \E t \in DOMAIN active : Starts(c, "start", "init", active[t], NoPointer, 0)
        \/ Starts(c, "start", "read", 0, NoPointer, 0)
    BY <1>5 DEF StartBegins
  <2>3. CASE Starts(c, "start", "read", 0, NoPointer, 0)
    BY <1>1, <2>1, <2>3, BeginsQuietly
  <2>4. ASSUME NEW t \in DOMAIN active, Starts(c, "start", "init", active[t], NoPointer, 0)
        PROVE  SceneIInv'
    <3>1. active[t] \in Generations
      BY <1>1 DEF SceneTypes
    <3>. QED  BY <1>1, <2>1, <2>4, <3>1, BeginsQuietly
  <2>. QED  BY <2>2, <2>3, <2>4
<1>6. CASE ResumeReads(c)
  <2>. DEFINE new == [cmds[c] EXCEPT !.at = "lock", !.gen = pointer.gen, !.ptr = pointer]
  <2>1. UNCHANGED <<pointer, gens, active, tokens, logs, alive, held>> /\ cmds[c].op = "start" /\ pointer # NoPointer
        /\ cmds' = [cmds EXCEPT ![c] = new]
    BY <1>6 DEF ResumeReads, At, Resumable
  <2>2. pointer.gen \in Generations
    BY <1>1, <2>1, PointersPoint
  <2>3. new \in CommandRow /\ new.op = "start" /\ new.at = "lock" /\ new.gen = pointer.gen /\ new.ptr = pointer
    BY <1>1, <2>1, <2>2 DEF CommandRow
  <2>. HIDE DEF new
  <2>4. cmds'[c] = new
    BY <1>1, <2>1 DEF SceneTypes
  <2>5. Knows(c)'
    BY <2>2, <2>3, <2>4 DEF Knows, Locking, At, Kinds, Resuming
  <2>. QED  BY <1>1, <2>1, <2>3, <2>5, OnlyItself
<1>7. CASE StopBegins(c)
  <2>1. pointer # NoPointer /\ Starts(c, "stop", "machines", pointer.gen, NoPointer, pointer.token)
        /\ UNCHANGED <<pointer, gens, active, tokens, logs, alive, held>>
    BY <1>7 DEF StopBegins, NoPointer
  <2>. QED  BY <1>1, <2>1, PointersPoint, BeginsQuietly
<1>8. CASE StopSkipsMachines(c)
  BY <1>1, <1>8, GoesQuietly DEF StopSkipsMachines, At
<1>9. CASE StopProves(c)
  <2>. DEFINE new == [cmds[c] EXCEPT !.at = "services", !.ptr = pointer]
  <2>1. UNCHANGED <<pointer, gens, active, tokens, logs, alive, held>> /\ cmds[c].op = "stop" /\ cmds[c].at = "proof"
        /\ cmds' = [cmds EXCEPT ![c] = new]
    BY <1>9 DEF StopProves, At
  <2>2. new \in CommandRow /\ new.op = "stop" /\ new.at = "services" /\ new.gen = cmds[c].gen
    BY <1>1, <2>1 DEF CommandRow
  <2>3. cmds[c].gen \in Generations
    BY <1>1, <2>1 DEF Knows
  <2>. HIDE DEF new
  <2>4. cmds'[c] = new
    BY <1>1, <2>1 DEF SceneTypes
  <2>5. Knows(c)'
    BY <2>2, <2>3, <2>4 DEF Knows, Locking, At, Kinds
  <2>. QED  BY <1>1, <2>1, <2>2, <2>5, OnlyItself
<1>10. CASE ResetMakes(c)
  <2>1. UNCHANGED <<pointer, active, tokens, logs, alive, held>> /\ cmds[c].op = "reset" /\ cmds[c].at = "make"
        /\ gens' = [gens EXCEPT ![cmds[c].gen].made = TRUE] /\ Goes(c, "describe")
    BY <1>10 DEF ResetMakes, At
  <2>2. gens' \in [Generations -> GenerationEntry]
    BY <1>1, <2>1 DEF GenerationEntry
  <2>. QED  BY <2>1, <2>2, GoesQuietly
<1>11. CASE ResetDescribes(c)
  <2>1. UNCHANGED <<pointer, active, tokens, logs, alive, held>> /\ cmds[c].op = "reset" /\ cmds[c].at = "describe" /\ Goes(c, "ready")
        /\ gens' = [gens EXCEPT ![cmds[c].gen] = [gens[cmds[c].gen] EXCEPT !.reset = TRUE, !.prev = cmds[c].ptr.gen]]
    BY <1>11 DEF ResetDescribes, At
  <2>2. cmds[c].gen \in Generations /\ cmds[c].ptr.gen \in 0..MaxGen
    BY <1>1, <2>1, PointersPoint DEF Knows, CommandRow
  <2>3. [gens[cmds[c].gen] EXCEPT !.reset = TRUE, !.prev = cmds[c].ptr.gen] \in GenerationEntry
    BY <1>1, <2>2 DEF GenerationEntry
  <2>. QED  BY <1>1, <2>1, <2>2, <2>3, EntryWritten, GoesQuietly
<1>12. CASE ResetReady(c)
  BY <1>1, <1>12, GoesQuietly DEF ResetReady, At
<1>13. CASE ResetCommits(c)
  BY <1>1, <1>13, CommandLeaves DEF ResetCommits
<1>14. CASE OrphanReads(c)
  <2>1. pointer # NoPointer /\ Starts(c, "orphan", "lock", pointer.gen, pointer, pointer.token)
        /\ UNCHANGED <<pointer, gens, active, tokens, logs, alive, held>>
    BY <1>14 DEF OrphanReads
  <2>. QED  BY <1>1, <2>1, PointersPoint, BeginsQuietly
<1>15. CASE ReleaseReads(c)
  <2>1. PICK t \in DOMAIN active : Starts(c, "release", "lock", active[t], NoPointer, t)
    BY <1>15 DEF ReleaseReads
  <2>2. t \in Nat /\ t <= tokens /\ active[t] \in Generations /\ UNCHANGED <<pointer, gens, active, tokens, logs, alive, held>>
    BY <1>1, <1>15 DEF SceneTypes, ReleaseReads
  <2>. QED  BY <1>1, <2>1, <2>2, BeginsQuietly
<1>16. ASSUME NEW g \in Generations, ResetBegins(c, g)
       PROVE  SceneIInv'
  <2>1. /\ held = Nobody /\ held' = c /\ Starts(c, "reset", "make", g, pointer, 0) /\ UNCHANGED <<pointer, gens, active, tokens, logs, alive>>
    BY <1>16 DEF ResetBegins, Free
  <2>. QED  BY <1>1, <2>1, SceneAssumption, BeginsQuietly
<1>. QED  BY <1>2, <1>3, <1>4, <1>5, <1>6, <1>7, <1>8, <1>9, <1>10, <1>11, <1>12, <1>13, <1>14, <1>15, <1>16

(* A reservation is made when there is none, and so when nothing runs. *)
LEMMA Reserving ==
  ASSUME SceneTypes, RecordedRunReserved, NEW g \in Generations, Reserved(g)
  PROVE  /\ tokens' = tokens + 1 /\ tokens' \in Nat /\ tokens' >= tokens /\ DOMAIN active' = {tokens'} /\ active'[tokens'] = g
         /\ \A t \in DOMAIN active' : t \in 1..tokens' /\ active'[t] \in Generations /\ ~(t <= tokens)
         /\ \A h \in Generations, kind \in Kinds : \A m \in logs[h][kind].procs : <<h, m>> \notin alive
<1>1. tokens' = tokens + 1 /\ active' = [t \in {tokens'} |-> g] /\ active = <<>> /\ tokens \in Nat
  BY DEF Reserved, SceneTypes
<1>2. DOMAIN active' = {tokens'} /\ active'[tokens'] = g
  BY <1>1
<1>3. DOMAIN active = {}
  BY <1>1
<1>. QED  BY <1>1, <1>2, <1>3 DEF RecordedRunReserved

(* A reservation is given up. *)
LEMMA GivingUp ==
  ASSUME SceneTypes, RecordedRunReserved, NEW t, active' = Without(t), UNCHANGED <<pointer, logs, alive, tokens>>,
         t \in DOMAIN active => StoppedProof(active[t]) \/ NeverRun(active[t])
  PROVE  /\ RecordedRunReserved'
         /\ \A u \in DOMAIN active' : u \in 1..tokens' /\ active'[u] \in Generations /\ (u <= tokens => u \in DOMAIN active /\ active'[u] = active[u])
         /\ \A u \in DOMAIN active : u # t => u \in DOMAIN active' /\ active'[u] = active[u]
<1>1. DOMAIN active' = DOMAIN active \ {t} /\ \A u \in DOMAIN active' : active'[u] = active[u]
  BY DEF Without
<1>2. \A g \in Generations, kind \in Kinds : (\E m \in logs[g][kind].procs : <<g, m>> \in alive) => pointer.token # t
  BY StoppedIsQuiet DEF RecordedRunReserved
<1>. QED  BY <1>1, <1>2 DEF RecordedRunReserved, SceneTypes

(* Reservations are made and given up, the pointer is set and switched. *)
LEMMA ReservationSteps ==
  ASSUME SceneIInv, NEW c \in Commands,
         \/ \E g \in Generations : PrepareReserves(c, g)
         \/ ResumeReleases(c) \/ ResumeReserves(c) \/ OrphanReleases(c) \/ Released(c)
  PROVE  SceneIInv'
<1>1. /\ SceneTypes /\ RecordedRunReserved /\ Knows(c) /\ cmds[c] \in CommandRow /\ NoPointer \in PointerRow
      /\ \A g \in Generations : g \in 0..MaxGen
  BY NoLogShape, SceneAssumption DEF SceneIInv, SceneTypes, Generations
<1>2. ASSUME NEW g \in Generations, PrepareReserves(c, g)
      PROVE  SceneIInv'
  <2>1. /\ held = Nobody /\ held' = c /\ Reserved(g) /\ Starts(c, "prepare", "make", g, NoPointer, tokens')
        /\ UNCHANGED <<pointer, gens, logs, alive>>
    BY <1>2 DEF PrepareReserves, Free
  <2>2. PICK new \in CommandRow :
          /\ cmds' = [cmds EXCEPT ![c] = new] /\ cmds'[c] = new /\ new.op = "prepare" /\ new.at = "make" /\ new.gen = g
    <3>1. tokens' \in Nat
      BY <1>1, <2>1, Reserving
    <3>. QED  BY <1>1, <2>1, <3>1, Starting
  <2>3. Knows(c)'
    BY <2>1, <2>2 DEF Knows, Locking, At, Kinds
  <2>4. RecordedRunReserved'
    BY <1>1, <2>1, Reserving DEF RecordedRunReserved
  <2>. QED  BY <1>1, <2>1, <2>2, <2>3, <2>4, Reserving, CommandMoves, SceneAssumption DEF SceneTypes
<1>3. CASE ResumeReleases(c)
  <2>. DEFINE t == Outgoing(cmds[c].ptr)
  <2>1. /\ held = Nobody /\ held' = c /\ active' = Without(t) /\ cmds[c].op = "start" /\ cmds[c].at = "lock" /\ Goes(c, "reserve")
        /\ (t \in DOMAIN active => StoppedProof(active[t])) /\ UNCHANGED <<pointer, gens, tokens, logs, alive>>
    BY <1>3 DEF ResumeReleases, Free, At
  <2>2. PICK new \in CommandRow :
          /\ cmds' = [cmds EXCEPT ![c] = new] /\ cmds'[c] = new /\ new.op = "start" /\ new.at = "reserve"
          /\ new.gen = cmds[c].gen /\ new.ptr = cmds[c].ptr
    BY <1>1, <2>1, GoesOn
  <2>3. Knows(c)'
    BY <1>1, <2>1, <2>2 DEF Knows, Locking, At, Kinds
  <2>. HIDE DEF t
  <2>4. /\ RecordedRunReserved'
        /\ \A u \in DOMAIN active' : u \in 1..tokens' /\ active'[u] \in Generations /\ (u <= tokens => u \in DOMAIN active /\ active'[u] = active[u])
    BY <1>1, <2>1, GivingUp
  <2>5. /\ tokens' \in Nat /\ tokens' >= tokens /\ pointer' \in PointerRow /\ gens' \in [Generations -> GenerationEntry]
        /\ IsLogs(logs') /\ \A g \in Generations, kind \in Kinds : LogShape(logs'[g][kind])
    BY <1>1, <2>1 DEF SceneTypes, IsLogs, LogShape
  <2>. QED  BY <2>1, <2>2, <2>3, <2>4, <2>5, CommandMoves, SceneAssumption
<1>4. CASE ResumeReserves(c)
  <2>. DEFINE new == [cmds[c] EXCEPT !.at = "record", !.token = tokens']
  <2>1. /\ cmds[c].op = "start" /\ cmds[c].at = "reserve" /\ Reserved(cmds[c].gen) /\ cmds' = [cmds EXCEPT ![c] = new]
        /\ UNCHANGED <<pointer, gens, logs, alive, held>>
    BY <1>4 DEF ResumeReserves, At
  <2>2. held = c /\ cmds[c].gen \in Generations /\ cmds[c].ptr.gen = cmds[c].gen
    BY <1>1, <2>1 DEF Knows, Locking, Resuming
  <2>3. tokens' \in Nat /\ tokens' \in DOMAIN active' /\ active'[tokens'] = cmds[c].gen
    BY <1>1, <2>1, <2>2, Reserving
  <2>4. new \in CommandRow /\ new.op = "start" /\ new.at = "record" /\ new.gen = cmds[c].gen /\ new.ptr = cmds[c].ptr /\ new.token = tokens'
    BY <1>1, <2>1, <2>3 DEF CommandRow
  <2>. HIDE DEF new
  <2>5. cmds'[c] = new
    BY <1>1, <2>1 DEF SceneTypes
  <2>6. Knows(c)'
    BY <2>1, <2>2, <2>3, <2>4, <2>5 DEF Knows, Locking, At, Kinds
  <2>7. RecordedRunReserved'
    BY <1>1, <2>1, <2>2, Reserving DEF RecordedRunReserved
  <2>. QED  BY <1>1, <2>1, <2>2, <2>4, <2>6, <2>7, Reserving, CommandMoves DEF SceneTypes
<1>5. ASSUME NEW t, active' = Without(t), t \in DOMAIN active => StoppedProof(active[t]), Ends(c), held = Nobody,
             UNCHANGED <<pointer, gens, tokens, logs, alive>>
      PROVE  SceneIInv'
  <2>1. cmds' = [cmds EXCEPT ![c] = Waiting] /\ held' = held /\ Waiting \in CommandRow
    BY <1>5, NoLogShape DEF Ends
  <2>2. cmds'[c] = Waiting
    BY <1>1, <2>1 DEF SceneTypes
  <2>3. Knows(c)'
    BY <2>2, NoLogShape DEF Knows, Locking, At
  <2>4. /\ RecordedRunReserved'
        /\ \A u \in DOMAIN active' : u \in 1..tokens' /\ active'[u] \in Generations /\ (u <= tokens => u \in DOMAIN active /\ active'[u] = active[u])
    BY <1>1, <1>5, GivingUp
  <2>5. /\ tokens' \in Nat /\ tokens' >= tokens /\ pointer' \in PointerRow /\ gens' \in [Generations -> GenerationEntry]
        /\ IsLogs(logs') /\ \A g \in Generations, kind \in Kinds : LogShape(logs'[g][kind])
    BY <1>1, <1>5 DEF SceneTypes, IsLogs, LogShape
  <2>. QED  BY <1>5, <2>1, <2>3, <2>4, <2>5, CommandMoves
<1>6. CASE OrphanReleases(c)
  <2>1. StoppedProof(cmds[c].gen) /\ held = Nobody
    BY <1>6 DEF OrphanReleases, Free
  <2>2. PICK t \in Orphans(cmds[c].gen, cmds[c].token) : active' = Without(t)
    BY <1>6 DEF OrphanReleases
  <2>3. active[t] = cmds[c].gen
    BY <2>2 DEF Orphans
  <2>. QED  BY <1>5, <1>6, <2>1, <2>2, <2>3 DEF OrphanReleases
<1>7. CASE Released(c)
  <2>1. StoppedProof(cmds[c].gen) /\ held = Nobody /\ cmds[c].op = "release" /\ cmds[c].token \in DOMAIN active
    BY <1>7 DEF Released, Free, At
  <2>2. active[cmds[c].token] = cmds[c].gen
    BY <1>1, <2>1 DEF Knows
  <2>. QED  BY <1>5, <1>7, <2>1, <2>2 DEF Released
<1>. QED  BY <1>2, <1>3, <1>4, <1>6, <1>7

(* The pointer moves only when nothing that is recorded runs. *)
LEMMA PointerSteps ==
  ASSUME SceneIInv, NEW c \in Commands,
         \/ StartInitializes(c) \/ ResumeRecords(c) \/ ResumeSwitches(c) \/ ResetSwitches(c) \/ CloseReset(c)
  PROVE  SceneIInv'
<1>1. /\ SceneTypes /\ RecordedRunReserved /\ Knows(c) /\ cmds[c] \in CommandRow /\ pointer \in PointerRow
      /\ gens \in [Generations -> GenerationEntry]
  BY DEF SceneIInv, SceneTypes
<1>2. ASSUME UNCHANGED <<active, logs, alive, tokens, gens, held>>, held \in {c, Nobody}, pointer' \in PointerRow,
             pointer = NoPointer \/ StoppedProof(pointer.gen) \/ NeverRun(pointer.gen),
             NEW new \in CommandRow, cmds' = [cmds EXCEPT ![c] = new], Knows(c)'
      PROVE  SceneIInv'
  <2>1. ASSUME NEW g \in Generations, NEW kind \in Kinds, NEW m \in logs[g][kind].procs, <<g, m>> \in alive
        PROVE  FALSE
    <3>1. pointer = [gen |-> g, desc |-> "prepared", token |-> logs[g][kind].token]
      BY <1>1, <2>1 DEF RecordedRunReserved
    <3>2. pointer.gen = g /\ pointer # NoPointer
      BY <3>1 DEF NoPointer
    <3>. QED  BY <1>2, <2>1, <3>2, StoppedIsQuiet
  <2>2. RecordedRunReserved'
    BY <1>2, <2>1 DEF RecordedRunReserved
  <2>3. /\ tokens' \in Nat /\ tokens' >= tokens /\ gens' \in [Generations -> GenerationEntry]
        /\ IsLogs(logs') /\ \A g \in Generations, kind \in Kinds : LogShape(logs'[g][kind])
        /\ \A t \in DOMAIN active' : t \in 1..tokens' /\ active'[t] \in Generations /\ (t <= tokens => t \in DOMAIN active /\ active'[t] = active[t])
    BY <1>1, <1>2 DEF SceneTypes, IsLogs, LogShape
  <2>. QED  BY <1>2, <2>2, <2>3, CommandMoves
<1>3. CASE StartInitializes(c)
  <2>1. /\ held = Nobody /\ pointer = NoPointer /\ cmds[c].op = "start" /\ cmds[c].at = "init" /\ Goes(c, "read")
        /\ pointer' = [gen |-> cmds[c].gen, desc |-> "prepared", token |-> gens[cmds[c].gen].prepared]
        /\ UNCHANGED <<active, logs, alive, tokens, gens, held>>
    BY <1>3 DEF StartInitializes, Free, At
  <2>2. cmds[c].gen \in Generations
    BY <1>1, <2>1 DEF Knows
  <2>3. pointer' \in PointerRow
    BY <1>1, <2>1, <2>2 DEF PointerRow, GenerationEntry
  <2>4. PICK new \in CommandRow : cmds' = [cmds EXCEPT ![c] = new] /\ cmds'[c] = new /\ new.op = "start" /\ new.at = "read"
    BY <1>1, <2>1, GoesOn
  <2>5. Knows(c)'
    BY <2>4 DEF Knows, Locking, At, Kinds, Resuming
  <2>. QED  BY <1>2, <2>1, <2>3, <2>4, <2>5
<1>4. CASE ResumeRecords(c)
  <2>1. /\ UNCHANGED <<pointer, active, tokens, logs, alive, held>> /\ cmds[c].op = "start" /\ cmds[c].at = "record"
        /\ NeverRun(cmds[c].gen) /\ Goes(c, "switch")
        /\ gens' = [gens EXCEPT ![cmds[c].gen] = [gens[cmds[c].gen] EXCEPT !.prepared = cmds[c].token]]
    BY <1>1, <1>4 DEF ResumeRecords, At
  <2>2. cmds[c].gen \in Generations /\ cmds[c].token \in Nat
    BY <1>1, <2>1 DEF Knows, CommandRow
  <2>3. [gens[cmds[c].gen] EXCEPT !.prepared = cmds[c].token] \in GenerationEntry
    BY <1>1, <2>2 DEF GenerationEntry
  <2>4. gens' \in [Generations -> GenerationEntry]
    BY <1>1, <2>1, <2>2, <2>3, EntryWritten
  <2>5. PICK new \in CommandRow :
          /\ cmds' = [cmds EXCEPT ![c] = new] /\ cmds'[c] = new /\ new.op = "start" /\ new.at = "switch"
          /\ new.gen = cmds[c].gen /\ new.ptr = cmds[c].ptr /\ new.token = cmds[c].token
    BY <1>1, <2>1, GoesOn
  <2>6. Knows(c)'
    BY <1>1, <2>1, <2>2, <2>5 DEF Knows, Locking, At, Kinds, Resuming, NeverRun
  <2>. QED  BY <2>1, <2>4, <2>5, <2>6, OnlyItself
<1>5. CASE ResumeSwitches(c)
  <2>1. /\ cmds[c].op = "start" /\ cmds[c].at = "switch" /\ Goes(c, "services") /\ pointer = cmds[c].ptr
        /\ pointer' = [gen |-> cmds[c].gen, desc |-> "prepared", token |-> cmds[c].token]
        /\ UNCHANGED <<active, logs, alive, tokens, gens, held>>
    BY <1>5 DEF ResumeSwitches, At
  <2>2. /\ cmds[c].gen \in Generations /\ pointer.gen = cmds[c].gen /\ NeverRun(cmds[c].gen) /\ held = c
        /\ cmds[c].token \in DOMAIN active /\ active[cmds[c].token] = cmds[c].gen /\ cmds[c].token \in Nat
    BY <1>1, <2>1 DEF Knows, At, Locking, Resuming, CommandRow
  <2>3. pointer' \in PointerRow
    BY <2>1, <2>2 DEF PointerRow
  <2>4. PICK new \in CommandRow :
          /\ cmds' = [cmds EXCEPT ![c] = new] /\ cmds'[c] = new /\ new.op = "start" /\ new.at = "services"
          /\ new.gen = cmds[c].gen /\ new.token = cmds[c].token
    BY <1>1, <2>1, GoesOn
  <2>5. \A kind \in Kinds : logs'[cmds[c].gen][kind] = NoLog
    BY <2>1, <2>2 DEF NeverRun
  <2>6. Knows(c)'
    BY <2>1, <2>2, <2>4, <2>5 DEF Knows, Locking, At, Kinds, Resuming, OwnLog
  <2>. QED  BY <1>2, <2>1, <2>2, <2>3, <2>4, <2>6
<1>6. CASE ResetSwitches(c)
  <2>1. /\ cmds[c].op = "reset" /\ cmds[c].at = "switch" /\ Goes(c, "commit") /\ StoppedProof(pointer.gen)
        /\ pointer' = [gen |-> cmds[c].gen, desc |-> "reset-ready", token |-> 0]
        /\ UNCHANGED <<active, logs, alive, tokens, gens, held>>
    BY <1>6 DEF ResetSwitches, At
  <2>2. cmds[c].gen \in Generations /\ held = c
    BY <1>1, <2>1 DEF Knows, Locking
  <2>3. pointer' \in PointerRow
    BY <2>1, <2>2 DEF PointerRow
  <2>4. PICK new \in CommandRow :
          /\ cmds' = [cmds EXCEPT ![c] = new] /\ cmds'[c] = new /\ new.op = "reset" /\ new.at = "commit" /\ new.gen = cmds[c].gen
    BY <1>1, <2>1, GoesOn
  <2>5. Knows(c)'
    BY <2>1, <2>2, <2>4 DEF Knows, Locking, At, Kinds
  <2>. QED  BY <1>2, <2>1, <2>2, <2>3, <2>4, <2>5
<1>7. CASE CloseReset(c)
  <2>1. UNCHANGED <<pointer, gens, active, tokens, logs, alive, held, cmds>>
    BY <1>7 DEF CloseReset
  <2>2. SceneTypes' /\ RecordedRunReserved'
    BY <1>1, <2>1 DEF SceneTypes, IsLogs, LogShape, RecordedRunReserved
  <2>3. \A d \in Commands : Knows(d)'
    BY <2>1 DEF SceneIInv, Knows, Locking, At, NeverRun, OwnLog
  <2>. QED  BY <2>2, <2>3 DEF SceneIInv
<1>. QED  BY <1>3, <1>4, <1>5, <1>6, <1>7

(* One log is written. *)
LEMMA LogWritten ==
  ASSUME SceneTypes, NEW c \in Commands, cmds[c].gen \in Generations, NEW kind \in Kinds,
         NEW entry, LogShape(entry), Noted(c, kind, entry)
  PROVE  /\ IsLogs(logs') /\ \A h \in Generations, k \in Kinds : LogShape(logs'[h][k])
         /\ logs'[cmds[c].gen][kind] = entry
         /\ \A h \in Generations, k \in Kinds : h # cmds[c].gen \/ k # kind => logs'[h][k] = logs[h][k]
<1>. DEFINE g == cmds[c].gen
<1>1. \A h \in Generations, k \in Kinds : LogShape(logs[h][k])
  BY DEF SceneTypes
<1>2. logs = [h \in Generations |-> [k \in Kinds |-> logs[h][k]]]
  BY DEF SceneTypes, IsLogs
<1>0. logs' = [logs EXCEPT ![g][kind] = entry] /\ g \in Generations
  BY DEF Noted
<1>. HIDE DEF g
<1>3. logs' = [h \in Generations |-> [k \in Kinds |-> IF h = g /\ k = kind THEN entry ELSE logs[h][k]]]
  BY <1>0, <1>2
<1>4. /\ logs'[g][kind] = entry /\ \A h \in Generations, k \in Kinds : h # g \/ k # kind => logs'[h][k] = logs[h][k]
  BY <1>0, <1>3
<1>5. \A h \in Generations, k \in Kinds : LogShape(logs'[h][k])
  BY <1>1, <1>4
<1>6. IsLogs(logs')
  BY <1>3 DEF IsLogs
<1>. QED  BY <1>4, <1>5, <1>6 DEF g

(* What an entry keeps when a part of it is rewritten. *)
LEMMA StateWritten ==
  ASSUME NEW l, LogShape(l), NEW v, NEW entry, entry = [l EXCEPT !.state = v]
  PROVE  LogShape(entry) /\ entry.procs = l.procs /\ entry.token = l.token
<1>1. entry = [token |-> l.token, state |-> v, procs |-> l.procs, pending |-> l.pending, asked |-> l.asked]
  BY DEF LogShape
<1>. QED  BY <1>1 DEF LogShape

LEMMA AskedWritten ==
  ASSUME NEW l, LogShape(l), NEW v, NEW entry, entry = [l EXCEPT !.asked = v]
  PROVE  LogShape(entry) /\ entry.procs = l.procs /\ entry.token = l.token
<1>1. entry = [token |-> l.token, state |-> l.state, procs |-> l.procs, pending |-> l.pending, asked |-> v]
  BY DEF LogShape
<1>. QED  BY <1>1 DEF LogShape

LEMMA PendingWritten ==
  ASSUME NEW l, LogShape(l), NEW w, NEW entry, entry = [l EXCEPT !.pending = w]
  PROVE  LogShape(entry) /\ entry.procs = l.procs /\ entry.token = l.token
<1>1. entry = [token |-> l.token, state |-> l.state, procs |-> l.procs, pending |-> w, asked |-> l.asked]
  BY DEF LogShape
<1>. QED  BY <1>1 DEF LogShape

LEMMA ProcsWritten ==
  ASSUME NEW l, LogShape(l), NEW v, NEW entry, entry = [l EXCEPT !.procs = v]
  PROVE  LogShape(entry) /\ entry.token = l.token
<1>1. entry = [token |-> l.token, state |-> l.state, procs |-> v, pending |-> l.pending, asked |-> l.asked]
  BY DEF LogShape
<1>. QED  BY <1>1 DEF LogShape

LEMMA TokenWritten ==
  ASSUME NEW l, LogShape(l), NEW v, NEW entry, entry = [l EXCEPT !.token = v]
  PROVE  LogShape(entry) /\ entry.token = v
<1>1. entry = [token |-> v, state |-> l.state, procs |-> l.procs, pending |-> l.pending, asked |-> l.asked]
  BY DEF LogShape
<1>. QED  BY <1>1 DEF LogShape

(* A session writes its own logs and starts members of its own generation. *)
LEMMA SessionMoves ==
  ASSUME SceneIInv, NEW c \in Commands, NEW kind \in Kinds, Running(c, kind), UNCHANGED <<pointer, active, tokens, gens>>,
         IsLogs(logs'), \A h \in Generations, k \in Kinds : LogShape(logs'[h][k]),
         \A h \in Generations, k \in Kinds : h # cmds[c].gen => logs'[h][k] = logs[h][k],
         \A k \in Kinds : logs'[cmds[c].gen][k] = NoLog \/ logs'[cmds[c].gen][k].token = cmds[c].token,
         \A h \in Generations : \A m : <<h, m>> \in alive' => <<h, m>> \in alive \/ h = cmds[c].gen,
         NEW new \in CommandRow, cmds' = [cmds EXCEPT ![c] = new],
         \/ new.op = "none"
         \/ new.op = "start" /\ new.at \in Kinds /\ new.gen = cmds[c].gen /\ new.token = cmds[c].token /\ held' = held
  PROVE  SceneIInv'
<1>1. SceneTypes /\ RecordedRunReserved /\ Knows(c) /\ cmds[c].op = "start" /\ cmds[c].at \in {"services", "machines"}
  BY DEF SceneIInv, Running, At, Kinds
<1>2. /\ held = c /\ cmds[c].gen \in Generations /\ pointer = [gen |-> cmds[c].gen, desc |-> "prepared", token |-> cmds[c].token]
      /\ cmds[c].token \in DOMAIN active /\ active[cmds[c].token] = cmds[c].gen
  BY <1>1 DEF Knows, Locking, Resuming, Running, Kinds, At
<1>3. RecordedRunReserved'
  <2>. SUFFICES ASSUME NEW g \in Generations, NEW k \in Kinds, NEW m \in logs'[g][k].procs, <<g, m>> \in alive'
                PROVE  /\ pointer = [gen |-> g, desc |-> "prepared", token |-> logs'[g][k].token]
                       /\ pointer.token \in DOMAIN active /\ active[pointer.token] = g
    BY DEF RecordedRunReserved
  <2>1. CASE g = cmds[c].gen
    <3>1. logs'[g][k] # NoLog
      BY NoLogShape
    <3>2. logs'[g][k].token = cmds[c].token
      BY <2>1, <3>1
    <3>. QED  BY <1>2, <2>1, <3>2
  <2>2. CASE g # cmds[c].gen
    BY <1>1, <2>2 DEF RecordedRunReserved
  <2>. QED  BY <2>1, <2>2
<1>4. cmds'[c] = new
  BY <1>1 DEF SceneTypes
<1>5. Knows(c)'
  <2>1. CASE new.op = "none"
    BY <1>4, <2>1 DEF Knows, Locking, At
  <2>2. CASE new.op = "start" /\ new.at \in Kinds /\ new.gen = cmds[c].gen /\ new.token = cmds[c].token /\ held' = held
    BY <1>2, <1>4, <2>2 DEF Knows, Locking, At, Kinds, OwnLog
  <2>. QED  BY <2>1, <2>2
<1>6. /\ tokens' \in Nat /\ tokens' >= tokens /\ gens' \in [Generations -> GenerationEntry] /\ pointer' \in PointerRow
      /\ \A t \in DOMAIN active' : t \in 1..tokens' /\ active'[t] \in Generations /\ (t <= tokens => t \in DOMAIN active /\ active'[t] = active[t])
  BY <1>1 DEF SceneTypes
<1>. QED  BY <1>2, <1>3, <1>5, <1>6, CommandMoves, SceneAssumption

(* Somebody who stops writes what becomes of the members, not who they are. *)
LEMMA StopMoves ==
  ASSUME SceneIInv, NEW c \in Commands, cmds[c].op = "stop", NEW kind \in Kinds, cmds[c].at = kind, held \in {c, Nobody},
         NEW entry, LogShape(entry), entry.procs = Log(c, kind).procs, entry.token = Log(c, kind).token, Noted(c, kind, entry),
         UNCHANGED <<pointer, active, tokens, gens, alive>>,
         NEW new \in CommandRow, cmds' = [cmds EXCEPT ![c] = new], new.op = "stop", new.gen = cmds[c].gen
  PROVE  SceneIInv'
<1>1. SceneTypes /\ RecordedRunReserved /\ Knows(c) /\ cmds[c].gen \in Generations
  BY DEF SceneIInv, Knows, Kinds
<1>2. /\ IsLogs(logs') /\ \A h \in Generations, k \in Kinds : LogShape(logs'[h][k])
      /\ \A h \in Generations, k \in Kinds : logs'[h][k].procs = logs[h][k].procs /\ logs'[h][k].token = logs[h][k].token
  <2>1. /\ IsLogs(logs') /\ \A h \in Generations, k \in Kinds : LogShape(logs'[h][k])
        /\ logs'[cmds[c].gen][kind] = entry
        /\ \A h \in Generations, k \in Kinds : h # cmds[c].gen \/ k # kind => logs'[h][k] = logs[h][k]
    BY <1>1, LogWritten
  <2>2. entry.procs = logs[cmds[c].gen][kind].procs /\ entry.token = logs[cmds[c].gen][kind].token
    BY DEF Log
  <2>. QED  BY <2>1, <2>2
<1>3. RecordedRunReserved'
  BY <1>1, <1>2 DEF RecordedRunReserved
<1>4. cmds'[c] = new
  BY <1>1 DEF SceneTypes
<1>5. Knows(c)'
  BY <1>1, <1>4 DEF Knows, Locking, At
<1>6. /\ tokens' \in Nat /\ tokens' >= tokens /\ gens' \in [Generations -> GenerationEntry] /\ pointer' \in PointerRow
      /\ \A t \in DOMAIN active' : t \in 1..tokens' /\ active'[t] \in Generations /\ (t <= tokens => t \in DOMAIN active /\ active'[t] = active[t])
  BY <1>1 DEF SceneTypes
<1>. QED  BY <1>2, <1>3, <1>5, <1>6, CommandMoves, SceneAssumption

(* What a session does to a log of its generation. *)
Theirs(c) ==
  /\ IsLogs(logs') /\ \A h \in Generations, k \in Kinds : LogShape(logs'[h][k])
  /\ \A h \in Generations, k \in Kinds : h # cmds[c].gen => logs'[h][k] = logs[h][k]
  /\ \A k \in Kinds : logs'[cmds[c].gen][k] = NoLog \/ logs'[cmds[c].gen][k].token = cmds[c].token

LEMMA SessionKnows ==
  ASSUME SceneIInv, NEW c \in Commands, NEW kind \in Kinds, Running(c, kind)
  PROVE  /\ SceneTypes /\ cmds[c] \in CommandRow /\ cmds[c].op = "start" /\ cmds[c].at = kind
         /\ held = c /\ cmds[c].gen \in Generations
         /\ \A log \in Kinds : /\ LogShape(Log(c, log)) /\ (Log(c, log) = NoLog \/ Log(c, log).token = cmds[c].token)
                               /\ (Log(c, log).state # "none" => Log(c, log).token = cmds[c].token)
<1>1. SceneTypes /\ Knows(c) /\ cmds[c].op = "start" /\ cmds[c].at = kind
  BY DEF SceneIInv, Running, At
<1>2. cmds[c] \in CommandRow /\ cmds[c].gen \in Generations /\ held = c /\ \A log \in Kinds : OwnLog(c, log)
  BY <1>1 DEF SceneTypes, Knows, Locking, Resuming, Running, Kinds, At
<1>3. \A log \in Kinds : /\ LogShape(Log(c, log)) /\ (Log(c, log) = NoLog \/ Log(c, log).token = cmds[c].token)
  BY <1>1, <1>2 DEF SceneTypes, OwnLog, Log
<1>. QED  BY <1>1, <1>2, <1>3, NoLogShape

LEMMA SessionWrites ==
  ASSUME SceneIInv, NEW c \in Commands, NEW kind \in Kinds, Running(c, kind), NEW log \in Kinds,
         NEW entry, LogShape(entry), entry.token = cmds[c].token, Noted(c, log, entry)
  PROVE  Theirs(c)
<1>1. /\ SceneTypes /\ cmds[c].gen \in Generations
      /\ \A k \in Kinds : logs[cmds[c].gen][k] = NoLog \/ logs[cmds[c].gen][k].token = cmds[c].token
  BY SessionKnows DEF Log
<1>2. /\ IsLogs(logs') /\ \A h \in Generations, k \in Kinds : LogShape(logs'[h][k])
      /\ logs'[cmds[c].gen][log] = entry
      /\ \A h \in Generations, k \in Kinds : h # cmds[c].gen \/ k # log => logs'[h][k] = logs[h][k]
  BY <1>1, LogWritten
<1>3. \A k \in Kinds : logs'[cmds[c].gen][k] = NoLog \/ logs'[cmds[c].gen][k].token = cmds[c].token
  BY <1>1, <1>2
<1>. QED  BY <1>2, <1>3 DEF Theirs

LEMMA SessionStays ==
  ASSUME SceneIInv, NEW c \in Commands, NEW kind \in Kinds, Running(c, kind), Theirs(c), UNCHANGED <<pointer, active, tokens, gens, alive>>,
         UNCHANGED <<cmds, held>> \/ Ends(c) \/ (Goes(c, "machines") /\ held' = held)
  PROVE  SceneIInv'
<1>1. SceneTypes /\ cmds[c] \in CommandRow /\ cmds[c].op = "start" /\ cmds[c].at \in Kinds
  BY SessionKnows
<1>2. \E new \in CommandRow : /\ cmds' = [cmds EXCEPT ![c] = new]
          /\ \/ new.op = "none"
             \/ new.op = "start" /\ new.at \in Kinds /\ new.gen = cmds[c].gen /\ new.token = cmds[c].token /\ held' = held
  <2>1. CASE UNCHANGED <<cmds, held>>
    <3>1. cmds' = [cmds EXCEPT ![c] = cmds[c]]
      BY <1>1, <2>1 DEF SceneTypes
    <3>. QED  BY <1>1, <2>1, <3>1
  <2>2. CASE Ends(c)
    BY <2>2, NoLogShape DEF Ends
  <2>3. CASE Goes(c, "machines") /\ held' = held
    <3>1. PICK new \in CommandRow :
            /\ cmds' = [cmds EXCEPT ![c] = new] /\ cmds'[c] = new /\ new.op = cmds[c].op /\ new.at = "machines"
            /\ new.gen = cmds[c].gen /\ new.ptr = cmds[c].ptr /\ new.token = cmds[c].token
      BY <1>1, <2>3, GoesOn
    <3>. QED  BY <1>1, <2>3, <3>1 DEF Kinds
  <2>. QED  BY <2>1, <2>2, <2>3
<1>3. \A h \in Generations : \A m : <<h, m>> \in alive' => <<h, m>> \in alive \/ h = cmds[c].gen
  OBVIOUS
<1>4. PICK new \in CommandRow : /\ cmds' = [cmds EXCEPT ![c] = new]
          /\ \/ new.op = "none"
             \/ new.op = "start" /\ new.at \in Kinds /\ new.gen = cmds[c].gen /\ new.token = cmds[c].token /\ held' = held
  BY <1>2
<1>5. /\ IsLogs(logs') /\ \A h \in Generations, k \in Kinds : LogShape(logs'[h][k])
      /\ \A h \in Generations, k \in Kinds : h # cmds[c].gen => logs'[h][k] = logs[h][k]
      /\ \A k \in Kinds : logs'[cmds[c].gen][k] = NoLog \/ logs'[cmds[c].gen][k].token = cmds[c].token
  BY DEF Theirs
<1>. QED  BY <1>3, <1>4, <1>5, SessionMoves

(* Sessions. *)
LEMMA SessionSteps ==
  ASSUME SceneIInv, NEW c \in Commands, NEW kind \in Kinds,
         \/ SessionOpens(c, kind) \/ WindowOpens(c, kind) \/ SessionReady(c, kind)
         \/ \E log \in Kinds : SessionDegrades(c, kind, log)
  PROVE  SceneIInv'
<1>1. Running(c, kind) /\ UNCHANGED <<pointer, active, tokens, gens, alive>>
  BY DEF SessionOpens, WindowOpens, SessionReady, SessionDegrades
<1>2. ASSUME NEW log \in Kinds
      PROVE  /\ LogShape(Log(c, log)) /\ (Log(c, log) = NoLog \/ Log(c, log).token = cmds[c].token)
             /\ (Log(c, log).state # "none" => Log(c, log).token = cmds[c].token)
  BY <1>1, SessionKnows
<1>3. CASE SessionOpens(c, kind)
  <2>1. PICK l : l = [NoLog EXCEPT !.token = cmds[c].token]
    OBVIOUS
  <2>2. PICK entry : entry = [l EXCEPT !.state = "prepared"]
    OBVIOUS
  <2>3. LogShape(l) /\ l.token = cmds[c].token
    BY <2>1, NoLogShape, TokenWritten
  <2>4. LogShape(entry) /\ entry.token = cmds[c].token
    BY <2>2, <2>3, StateWritten
  <2>5. Noted(c, kind, entry) /\ UNCHANGED <<cmds, held>>
    BY <1>3, <2>1, <2>2 DEF SessionOpens, Noted
  <2>. QED  BY <1>1, <2>4, <2>5, SessionWrites, SessionStays
<1>4. CASE WindowOpens(c, kind)
  <2>1. PICK l : l = [Log(c, kind) EXCEPT !.state = "starting"]
    OBVIOUS
  <2>2. PICK entry : entry = [l EXCEPT !.pending = {NextMember(c, kind)}]
    OBVIOUS
  <2>3. Log(c, kind).state # "none" /\ Noted(c, kind, entry) /\ UNCHANGED <<cmds, held>>
    BY <1>4, <2>1, <2>2 DEF WindowOpens, Noted
  <2>4. LogShape(l) /\ l.token = cmds[c].token
    BY <1>2, <2>1, <2>3, StateWritten
  <2>5. LogShape(entry) /\ entry.token = cmds[c].token
    BY <2>2, <2>4, PendingWritten
  <2>. QED  BY <1>1, <2>3, <2>5, SessionWrites, SessionStays
<1>5. CASE SessionReady(c, kind)
  <2>1. PICK x : Noted(c, kind, [Log(c, kind) EXCEPT !.state = x])
    BY <1>5 DEF SessionReady
  <2>2. PICK entry : entry = [Log(c, kind) EXCEPT !.state = x]
    OBVIOUS
  <2>3. /\ Log(c, kind).state # "none" /\ Noted(c, kind, entry)
        /\ Ends(c) \/ (Goes(c, "machines") /\ held' = held)
    BY <1>5, <2>1, <2>2 DEF SessionReady
  <2>4. LogShape(entry) /\ entry.token = cmds[c].token
    BY <1>2, <2>2, <2>3, StateWritten
  <2>. QED  BY <1>1, <2>3, <2>4, SessionWrites, SessionStays
<1>6. ASSUME NEW log \in Kinds, SessionDegrades(c, kind, log)
      PROVE  SceneIInv'
  <2>1. PICK entry : entry = [Log(c, log) EXCEPT !.state = "degraded"]
    OBVIOUS
  <2>2. Log(c, log).state # "none" /\ Noted(c, log, entry) /\ (UNCHANGED <<cmds, held>> \/ Ends(c))
    BY <1>6, <2>1 DEF SessionDegrades
  <2>3. LogShape(entry) /\ entry.token = cmds[c].token
    BY <1>2, <2>1, <2>2, StateWritten
  <2>. QED  BY <1>1, <2>2, <2>3, SessionWrites, SessionStays
<1>. QED  BY <1>3, <1>4, <1>5, <1>6

(* A member of a session comes into being and is written down. *)
LEMMA MemberSteps ==
  ASSUME SceneIInv, NEW c \in Commands, NEW kind \in Kinds, MemberSpawned(c, kind) \/ MemberIdentified(c, kind)
  PROVE  SceneIInv'
<1>1. Running(c, kind) /\ UNCHANGED <<pointer, active, tokens, gens, held>> /\ Log(c, kind).state # "none"
  BY DEF MemberSpawned, MemberIdentified
<1>2. /\ SceneTypes /\ cmds[c] \in CommandRow /\ cmds[c].op = "start" /\ cmds[c].at \in Kinds /\ held = c /\ cmds[c].gen \in Generations
      /\ LogShape(Log(c, kind)) /\ Log(c, kind).token = cmds[c].token
  BY <1>1, SessionKnows
<1>3. ASSUME NEW born \in BOOLEAN, cmds' = [cmds EXCEPT ![c].born = born]
      PROVE  \E new \in CommandRow : /\ cmds' = [cmds EXCEPT ![c] = new] /\ new.op = "start" /\ new.at \in Kinds
                                     /\ new.gen = cmds[c].gen /\ new.token = cmds[c].token
  <2>. DEFINE new == [cmds[c] EXCEPT !.born = born]
  <2>1. cmds' = [cmds EXCEPT ![c] = new]
    BY <1>2, <1>3 DEF SceneTypes
  <2>2. new \in CommandRow /\ new.op = "start" /\ new.at = cmds[c].at /\ new.gen = cmds[c].gen /\ new.token = cmds[c].token
    BY <1>2 DEF CommandRow
  <2>. HIDE DEF new
  <2>. QED  BY <1>2, <2>1, <2>2
<1>4. \E born \in BOOLEAN : cmds' = [cmds EXCEPT ![c].born = born]
  BY DEF MemberSpawned, MemberIdentified
<1>5. PICK new \in CommandRow : /\ cmds' = [cmds EXCEPT ![c] = new] /\ new.op = "start" /\ new.at \in Kinds
                                /\ new.gen = cmds[c].gen /\ new.token = cmds[c].token
  BY <1>3, <1>4
<1>6. \A h \in Generations : \A m : <<h, m>> \in alive' => <<h, m>> \in alive \/ h = cmds[c].gen
  <2>1. CASE alive' = alive
    BY <2>1
  <2>2. CASE alive' = alive \cup {<<cmds[c].gen, m>> : m \in Log(c, kind).pending}
    BY <2>2
  <2>. QED  BY <2>1, <2>2 DEF MemberSpawned, MemberIdentified
<1>7. Theirs(c)
  <2>1. CASE MemberSpawned(c, kind)
    <3>1. logs' = logs /\ \A log \in Kinds : Log(c, log) = NoLog \/ Log(c, log).token = cmds[c].token
      BY <1>1, <2>1, SessionKnows DEF MemberSpawned
    <3>. QED  BY <1>2, <3>1 DEF Theirs, SceneTypes, IsLogs, LogShape, Log
  <2>2. CASE MemberIdentified(c, kind)
    <3>1. PICK m : Noted(c, kind, [Log(c, kind) EXCEPT !.procs = @ \cup {m}, !.pending = {}])
      BY <2>2 DEF MemberIdentified
    <3>2. PICK l : l = [Log(c, kind) EXCEPT !.procs = Log(c, kind).procs \cup {m}]
      OBVIOUS
    <3>3. PICK entry : entry = [l EXCEPT !.pending = {}]
      OBVIOUS
    <3>4. LogShape(l) /\ l.token = cmds[c].token
      BY <1>2, <3>2, ProcsWritten
    <3>5. LogShape(entry) /\ entry.token = cmds[c].token
      BY <3>3, <3>4, PendingWritten
    <3>6. Noted(c, kind, entry)
      BY <3>1, <3>2, <3>3 DEF Noted
    <3>. QED  BY <1>1, <3>5, <3>6, SessionWrites
  <2>. QED  BY <2>1, <2>2
<1>8. /\ IsLogs(logs') /\ \A h \in Generations, k \in Kinds : LogShape(logs'[h][k])
      /\ \A h \in Generations, k \in Kinds : h # cmds[c].gen => logs'[h][k] = logs[h][k]
      /\ \A k \in Kinds : logs'[cmds[c].gen][k] = NoLog \/ logs'[cmds[c].gen][k].token = cmds[c].token
  BY <1>7 DEF Theirs
<1>. QED  BY <1>1, <1>5, <1>6, <1>8, SessionMoves

(* Stopping. *)
LEMMA StopSteps ==
  ASSUME SceneIInv, NEW c \in Commands, NEW kind \in Kinds, StopTakesOver(c, kind) \/ StopAsks(c, kind) \/ StopConcludes(c, kind)
  PROVE  SceneIInv'
<1>1. /\ SceneTypes /\ Knows(c) /\ cmds[c] \in CommandRow /\ cmds[c].op = "stop" /\ cmds[c].at = kind /\ held \in {c, Nobody}
      /\ UNCHANGED <<pointer, active, tokens, gens, alive>>
  BY DEF SceneIInv, SceneTypes, StopTakesOver, StopAsks, StopConcludes, Stopping, At, Free
<1>2. LogShape(Log(c, kind))
  BY <1>1 DEF SceneTypes, Log, Knows, Kinds
<1>3. \E entry : /\ LogShape(entry) /\ entry.procs = Log(c, kind).procs /\ entry.token = Log(c, kind).token /\ Noted(c, kind, entry)
  <2>1. CASE StopAsks(c, kind)
    <3>1. PICK m : Noted(c, kind, [Log(c, kind) EXCEPT !.asked = @ \cup {m}])
      BY <2>1 DEF StopAsks
    <3>2. PICK entry : entry = [Log(c, kind) EXCEPT !.asked = Log(c, kind).asked \cup {m}]
      OBVIOUS
    <3>3. Noted(c, kind, entry)
      BY <3>1, <3>2 DEF Noted
    <3>. QED  BY <1>2, <3>2, <3>3, AskedWritten
  <2>2. CASE StopTakesOver(c, kind) \/ StopConcludes(c, kind)
    <3>1. PICK x : Noted(c, kind, [Log(c, kind) EXCEPT !.state = x])
      BY <2>2 DEF StopTakesOver, StopConcludes
    <3>2. PICK entry : entry = [Log(c, kind) EXCEPT !.state = x]
      OBVIOUS
    <3>3. Noted(c, kind, entry)
      BY <3>1, <3>2 DEF Noted
    <3>. QED  BY <1>2, <3>2, <3>3, StateWritten
  <2>. QED  BY <2>1, <2>2
<1>4. PICK entry : LogShape(entry) /\ entry.procs = Log(c, kind).procs /\ entry.token = Log(c, kind).token /\ Noted(c, kind, entry)
  BY <1>3
<1>5. \E new \in CommandRow : cmds' = [cmds EXCEPT ![c] = new] /\ new.op = "stop" /\ new.gen = cmds[c].gen
  <2>1. CASE cmds' = cmds
    <3>1. cmds' = [cmds EXCEPT ![c] = cmds[c]]
      BY <1>1, <2>1 DEF SceneTypes
    <3>. QED  BY <1>1, <3>1
  <2>2. ASSUME NEW at \in {"proof", "done"}, Goes(c, at)
        PROVE  \E new \in CommandRow : cmds' = [cmds EXCEPT ![c] = new] /\ new.op = "stop" /\ new.gen = cmds[c].gen
    <3>1. PICK new \in CommandRow :
            /\ cmds' = [cmds EXCEPT ![c] = new] /\ cmds'[c] = new /\ new.op = cmds[c].op /\ new.at = at
            /\ new.gen = cmds[c].gen /\ new.ptr = cmds[c].ptr /\ new.token = cmds[c].token
      BY <1>1, <2>2, GoesOn
    <3>. QED  BY <1>1, <3>1
  <2>. QED  BY <2>1, <2>2 DEF StopTakesOver, StopAsks, StopConcludes
<1>6. PICK new \in CommandRow : cmds' = [cmds EXCEPT ![c] = new] /\ new.op = "stop" /\ new.gen = cmds[c].gen
  BY <1>5
<1>. QED  BY <1>1, <1>4, <1>6, StopMoves

(* A process ends by itself, or nothing moves. *)
LEMMA NobodyMoves ==
  ASSUME SceneIInv, UNCHANGED <<pointer, gens, active, tokens, logs, held, cmds>>, alive' \subseteq alive
  PROVE  SceneIInv'
<1>1. SceneTypes' /\ RecordedRunReserved'
  BY DEF SceneIInv, SceneTypes, IsLogs, LogShape, RecordedRunReserved
<1>2. \A d \in Commands : Knows(d)'
  BY DEF SceneIInv, Knows, Locking, At, NeverRun, OwnLog
<1>. QED  BY <1>1, <1>2 DEF SceneIInv

LEMMA SceneStep == SceneIInv /\ [SceneNext]_sceneVars => SceneIInv'
<1>. SUFFICES ASSUME SceneIInv, [SceneNext]_sceneVars
              PROVE  SceneIInv'
  OBVIOUS
<1>1. CASE UNCHANGED sceneVars
  BY <1>1, NobodyMoves DEF sceneVars
<1>2. ASSUME NEW x \in alive, MemberEnds(x[1], x[2])
      PROVE  SceneIInv'
  BY <1>2, NobodyMoves DEF MemberEnds
<1>3. ASSUME NEW c \in Commands,
             \/ CommandEnds(c) \/ PrepareMakes(c) \/ PrepareRecords(c) \/ StartBegins(c) \/ ResumeReads(c)
             \/ StopBegins(c) \/ StopSkipsMachines(c) \/ StopProves(c)
             \/ ResetMakes(c) \/ ResetDescribes(c) \/ ResetReady(c) \/ ResetCommits(c) \/ OrphanReads(c) \/ ReleaseReads(c)
             \/ \E g \in Generations : ResetBegins(c, g)
      PROVE  SceneIInv'
  BY <1>3, QuietSteps
<1>4. ASSUME NEW c \in Commands,
             \/ \E g \in Generations : PrepareReserves(c, g)
             \/ ResumeReleases(c) \/ ResumeReserves(c) \/ OrphanReleases(c) \/ Released(c)
      PROVE  SceneIInv'
  BY <1>4, ReservationSteps
<1>5. ASSUME NEW c \in Commands,
             \/ StartInitializes(c) \/ ResumeRecords(c) \/ ResumeSwitches(c) \/ ResetSwitches(c) \/ CloseReset(c)
      PROVE  SceneIInv'
  BY <1>5, PointerSteps
<1>6. ASSUME NEW c \in Commands, NEW kind \in Kinds,
             \/ SessionOpens(c, kind) \/ WindowOpens(c, kind) \/ MemberSpawned(c, kind) \/ MemberIdentified(c, kind)
             \/ SessionReady(c, kind) \/ \E log \in Kinds : SessionDegrades(c, kind, log)
      PROVE  SceneIInv'
  BY <1>6, SessionSteps, MemberSteps
<1>7. ASSUME NEW c \in Commands, NEW kind \in Kinds, StopTakesOver(c, kind) \/ StopAsks(c, kind) \/ StopConcludes(c, kind)
      PROVE  SceneIInv'
  BY <1>7, StopSteps
<1>. QED  BY <1>1, <1>2, <1>3, <1>4, <1>5, <1>6, <1>7 DEF SceneNext

(* Whatever a log records and the system runs belongs to the active generation and to the reservation in force, *)
(* whoever starts, stops, resets, resumes or releases at once and wherever a command is killed                  *)
(* (stopped_observer, resume_reset_resources).                                                                  *)
THEOREM RecordedRunIsAlwaysReserved == SceneSpec => []RecordedRunReserved
<1>1. SceneIInv => RecordedRunReserved
  BY DEF SceneIInv
<1>. QED  BY <1>1, SceneStarting, SceneStep, PTL DEF SceneSpec
=============================================================================
