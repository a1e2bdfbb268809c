---------------------------- MODULE RelaySession ----------------------------
(***************************************************************************)
(* The host's end of an outside Kali: the bridge keeps one record of the   *)
(* attachment, and a relay process per session pumps frames between SSH    *)
(* and the reserved port.  The commands of the bridge hold the lock of the *)
(* generations while they run, except that a disconnection lets it go      *)
(* while it waits for the relay; the relay takes it to write its state and *)
(* gives up after two seconds.  Any process may die at any step.           *)
(* Sessions are numbered in the order in which they are prepared.  The     *)
(* handles of Windows, which replace the look at the process table, are    *)
(* left out.  Bounds: MaxSessions sessions, MaxGen generations.            *)
(***************************************************************************)
EXTENDS Naturals, FiniteSets

CONSTANTS RelayCommands, MaxRelaySessions, MaxRelayGen, NoCommand

ASSUME RelayAssumption == NoCommand \notin RelayCommands /\ MaxRelaySessions \in Nat /\ MaxRelayGen \in Nat

VARIABLES
  binding,    \* external-attach/<instance>.json
  relayGen,   \* the active generation
  prepared,   \* sessions prepared so far
  sshFiles,   \* sessions with an <session>.ssh.json
  relays,     \* session -> phase of its relay process
  relayLock,  \* holder of the lock of the generations
  relayCmds   \* command -> what it does and what it has read

relayVars == <<binding, relayGen, prepared, sshFiles, relays, relayLock, relayCmds>>

RelaySessions == 1..MaxRelaySessions
NoSessionYet == [id |-> 0, state |-> "idle", pid |-> FALSE, asked |-> NoCommand, report |-> FALSE]
NoBinding == [made |-> FALSE, gen |-> 0, prepared |-> 0, used |-> FALSE, session |-> NoSessionYet]
AtRest == [op |-> "none", at |-> "none", binding |-> NoBinding, gen |-> 0, found |-> FALSE, proof |-> "none"]

RelayInit ==
  /\ binding = NoBinding /\ relayGen = 1 /\ prepared = 0 /\ sshFiles = {}
  /\ relays = [w \in RelaySessions |-> "none"] /\ relayLock = NoCommand
  /\ relayCmds = [c \in RelayCommands |-> AtRest]

Session == binding.session
Valid == binding.made /\ binding.gen = relayGen
MayAct(c) == relayCmds[c] = AtRest /\ relayLock = NoCommand
In(c, op, at) == relayCmds[c].op = op /\ relayCmds[c].at = at
Rests(c) == relayCmds' = [relayCmds EXCEPT ![c] = AtRest] /\ relayLock' = IF relayLock = c THEN NoCommand ELSE relayLock
Moves(c, at) == relayCmds' = [relayCmds EXCEPT ![c].at = at] /\ UNCHANGED relayLock
Works(c) == UNCHANGED <<relayLock, relayCmds>>

Visible == {"begun", "checked", "open", "ready", "closing", "failed"}
Carrying == {"open", "ready"}

(* observe_relay_process and scan_relay_pid: only a look that succeeds shows absence. *)
Looks(w) == (IF w > 0 /\ relays[w] \in Visible THEN {"alive"} ELSE {"absent"}) \cup {"unknown"}

CommandDies(c) ==
  /\ relayCmds[c] # AtRest
  /\ Rests(c)
  /\ UNCHANGED <<binding, relayGen, prepared, sshFiles, relays>>

GenerationMoves ==
  /\ relayLock = NoCommand /\ relayGen < MaxRelayGen
  /\ relayGen' = relayGen + 1
  /\ UNCHANGED <<binding, prepared, sshFiles, relays, relayLock, relayCmds>>

----------------------------------------------------------------------------
(* Commands that end before they let the lock go. *)

Occupied == Session.state \in {"connecting", "connected", "unknown"}

Status(c) ==
  /\ MayAct(c) /\ Valid /\ Session.state \in {"connecting", "connected"}
  /\ \E look \in Looks(Session.id) :
       binding' = IF look = "alive" THEN binding ELSE [binding EXCEPT !.session.state = "unknown"]
  /\ Works(c) /\ UNCHANGED <<relayGen, prepared, sshFiles, relays>>

Save(c) ==
  /\ MayAct(c) /\ ~Occupied
  /\ binding' = [NoBinding EXCEPT !.made = TRUE, !.gen = relayGen]
  /\ Works(c) /\ UNCHANGED <<relayGen, prepared, sshFiles, relays>>

(* A prepared session that was not used is prepared again under its name. *)
Materials(c) ==
  /\ MayAct(c) /\ Valid /\ ~Occupied
  /\ IF binding.prepared # 0 /\ ~binding.used
     THEN UNCHANGED <<binding, prepared>>
     ELSE /\ prepared < MaxRelaySessions /\ prepared' = prepared + 1
          /\ binding' = [binding EXCEPT !.prepared = prepared', !.used = FALSE]
  /\ Works(c) /\ UNCHANGED <<relayGen, sshFiles, relays>>

Absent(w) == "alive" \notin Looks(w)

Clear(c) ==
  /\ MayAct(c) /\ Session.state \in {"idle", "disconnected", "unknown"} /\ (Session.state # "idle" => Absent(Session.id))
  /\ binding' = NoBinding
  /\ Works(c) /\ UNCHANGED <<relayGen, prepared, sshFiles, relays>>

----------------------------------------------------------------------------
(* external-attach-connect.  The session's file is written, then the record, then the relay is started, then its pid. *)

Connect(c) ==
  /\ MayAct(c) /\ Valid /\ binding.prepared # 0 /\ ~binding.used
  /\ Session.state \in {"idle", "disconnected", "unknown"} /\ (Session.state = "unknown" => Absent(Session.id))
  /\ binding.prepared \notin sshFiles /\ sshFiles' = sshFiles \cup {binding.prepared}
  /\ relayLock' = c /\ relayCmds' = [relayCmds EXCEPT ![c].op = "connect", ![c].at = "record"]
  /\ UNCHANGED <<binding, relayGen, prepared, relays>>

ConnectRecords(c) ==
  /\ In(c, "connect", "record")
  /\ binding' = [binding EXCEPT !.used = TRUE, !.session = [NoSessionYet EXCEPT !.id = binding.prepared, !.state = "connecting"]]
  /\ Moves(c, "launch") /\ UNCHANGED <<relayGen, prepared, sshFiles, relays>>

(* launch: OSError leaves no process; otherwise it returns when the program has been loaded. *)
ConnectLaunches(c) ==
  /\ In(c, "connect", "launch")
  /\ \/ relays' = [relays EXCEPT ![Session.id] = "forked"] /\ Moves(c, "pid")
     \/ Rests(c) /\ UNCHANGED relays
  /\ UNCHANGED <<binding, relayGen, prepared, sshFiles>>

ConnectNotesPid(c) ==
  /\ In(c, "connect", "pid") /\ relays[Session.id] # "forked"
  /\ binding' = [binding EXCEPT !.session.pid = TRUE]
  /\ Rests(c) /\ UNCHANGED <<relayGen, prepared, sshFiles, relays>>

----------------------------------------------------------------------------
(* disconnect_external_relay: the wish is recorded under the lock, the relay waited for without it, the end recorded under it. *)

Disconnect(c) ==
  /\ MayAct(c) /\ Occupied
  /\ binding' = [binding EXCEPT !.session.asked = c]
  /\ relayCmds' = [relayCmds EXCEPT ![c] = [AtRest EXCEPT !.op = "disconnect", !.at = "wait", !.binding = binding, !.gen = relayGen]]
  /\ UNCHANGED <<relayGen, prepared, sshFiles, relays, relayLock>>

DisconnectWaits(c) ==
  /\ In(c, "disconnect", "wait")
  /\ \E look \in Looks(relayCmds[c].binding.session.id) :
       relayCmds' = [relayCmds EXCEPT ![c].at = "settle", ![c].proof = look,
                                      ![c].found = look = "alive" /\ ~relayCmds[c].binding.session.pid]
  /\ UNCHANGED <<binding, relayGen, prepared, sshFiles, relays, relayLock>>

(* The record is the one that was read: same session, pid, wish, binding and generation. *)
SameSession(c) ==
  LET was == relayCmds[c].binding
  IN /\ Session.id = was.session.id /\ Session.asked = c
     /\ (Session.pid = was.session.pid \/ relayCmds[c].found)
     /\ [binding EXCEPT !.session = NoSessionYet] = [was EXCEPT !.session = NoSessionYet]
     /\ relayGen = relayCmds[c].gen

Confirmed(c) == relayCmds[c].proof = "absent" /\ Session.report

DisconnectSettles(c) ==
  /\ In(c, "disconnect", "settle") /\ relayLock = NoCommand
  /\ binding' = IF ~SameSession(c) THEN binding
                ELSE [binding EXCEPT !.session.state = IF Confirmed(c) THEN "disconnected" ELSE "unknown",
                                     !.session.pid = @ \/ relayCmds[c].found,
                                     !.session.asked = IF Confirmed(c) THEN NoCommand ELSE @]
  /\ Rests(c) /\ UNCHANGED <<relayGen, prepared, sshFiles, relays>>

----------------------------------------------------------------------------
(* external_relay_worker.  What it was started for must still be wanted; its state is merged into its own session only. *)

Phase(w, to) == relays' = [relays EXCEPT ![w] = to]
Anyones(w) == Session.id # 0
Mine(w) == Session.id = w
Merge(w, state, report) ==
  binding' = IF Mine(w) THEN [binding EXCEPT !.session.state = state, !.session.report = @ \/ report] ELSE binding
Elsewhere == UNCHANGED <<relayGen, prepared, sshFiles, relayLock, relayCmds>>

RelayStarts(w) ==
  \/ relays[w] = "forked" /\ Phase(w, "begun") /\ UNCHANGED binding /\ Elsewhere
  \/ /\ relays[w] = "begun" /\ UNCHANGED binding /\ Elsewhere
     /\ Phase(w, IF Mine(w) /\ Session.state = "connecting" THEN "checked" ELSE "gone")
  \/ relays[w] = "checked" /\ Phase(w, "open") /\ UNCHANGED binding /\ Elsewhere

RelayReady(w) ==
  /\ relays[w] = "open" /\ Elsewhere
  /\ \/ relayLock = NoCommand /\ Merge(w, "connected", FALSE) /\ Phase(w, "ready")
     \/ relayLock # NoCommand /\ Phase(w, "failed") /\ UNCHANGED binding

(* The pump ends: asked to, by the other side, by the quota or the generation, or by an error; its channels are closed. *)
RelayEnds(w) ==
  /\ relays[w] \in Carrying /\ Elsewhere /\ UNCHANGED binding
  /\ \/ relays[w] = "ready" /\ Phase(w, "closing")
     \/ Phase(w, "failed")

RelayWrites(w) ==
  /\ relays[w] = "closing" /\ Elsewhere
  /\ \/ /\ relayLock = NoCommand /\ Phase(w, "gone")
        /\ \E state \in {"disconnected", "unknown"} : Merge(w, state, TRUE)
     \/ relayLock # NoCommand /\ Phase(w, "failed") /\ UNCHANGED binding

RelayFails(w) ==
  /\ relays[w] = "failed" /\ Elsewhere /\ Phase(w, "gone")
  /\ \/ relayLock = NoCommand /\ Merge(w, "unknown", FALSE)
     \/ relayLock # NoCommand /\ UNCHANGED binding

RelayDies(w) ==
  /\ relays[w] \notin {"none", "gone"} /\ Phase(w, "gone")
  /\ UNCHANGED binding /\ Elsewhere

RelayNext ==
  \/ GenerationMoves
  \/ \E c \in RelayCommands :
       \/ Status(c) \/ Save(c) \/ Materials(c) \/ Clear(c)
       \/ Connect(c) \/ ConnectRecords(c) \/ ConnectLaunches(c) \/ ConnectNotesPid(c)
       \/ Disconnect(c) \/ DisconnectWaits(c) \/ DisconnectSettles(c) \/ CommandDies(c)
  \/ \E w \in RelaySessions : RelayStarts(w) \/ RelayReady(w) \/ RelayEnds(w) \/ RelayWrites(w) \/ RelayFails(w) \/ RelayDies(w)

RelaySpec == RelayInit /\ [][RelayNext]_relayVars

(* A relay that carries frames is the one of the session on record, and the record never calls that session idle or *)
(* disconnected: so at most one carries, and one that is reported detached does not (disconnect_external_relay,      *)
(* "终止未证实；保留unknown").                                                                                       *)
CarryingIsRecorded == \A w \in RelaySessions : relays[w] \in Carrying => Session.id = w /\ Occupied
=============================================================================
