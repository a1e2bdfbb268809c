------------------------- MODULE SceneTransactions -------------------------
(***************************************************************************)
(* Scenario instances of the first version: the pointer to the active      *)
(* generation, the transaction that resets it, the resumption that gives a *)
(* reset generation its resources, the register of reservations, and the   *)
(* sessions that start services and machines and leave them running.       *)
(* Commands run in processes of their own.  One file lock serialises the   *)
(* critical parts (the global and the scene's lock, with one instance);    *)
(* what a command read before it is not read again unless the code does.   *)
(* A command may end at any step, by an error or because its process died. *)
(* A record's digest is represented by the token of its reservation.       *)
(* Bounds: MaxGen generations, MaxTokens reservations.                     *)
(***************************************************************************)
EXTENDS Naturals, Sequences, FiniteSets, SequencesExt

CONSTANTS Commands, ServiceOrder, MachineOrder, MaxGen, MaxTokens, Nobody

ASSUME SceneAssumption == Nobody \notin Commands /\ MaxGen \in Nat /\ MaxTokens \in Nat

VARIABLES
  pointer,  \* active-generation.json
  gens,     \* generation -> [made, reset, prepared, prev]: nodes directory, reset-ready.json, token in prepared.json
  resets,   \* last event of reset-lifecycle.jsonl
  active,   \* reservations in force: token -> generation
  known,    \* generations that the register or a closed reset accounts for
  tokens,   \* reservations ever made
  logs,     \* generation -> lifecycle logs of services and of machines, last event each
  alive,    \* processes of the operating system: <<generation, member>>
  held,     \* holder of the lock
  cmds      \* command -> what it does and has read

sceneVars == <<pointer, gens, resets, active, known, tokens, logs, alive, held, cmds>>

NoPointer == [gen |-> 0, desc |-> "none", token |-> 0]
NoReset == [state |-> "none", old |-> NoPointer, gen |-> 0]
NoLog == [token |-> 0, state |-> "none", procs |-> {}, pending |-> {}, asked |-> {}]
Waiting == [op |-> "none", at |-> "none", gen |-> 0, ptr |-> NoPointer, token |-> 0, born |-> FALSE]
Kinds == {"services", "machines"}
Order(kind) == IF kind = "services" THEN ServiceOrder ELSE MachineOrder
Generations == 1..MaxGen

SceneInit ==
  /\ pointer = NoPointer /\ resets = NoReset /\ active = <<>> /\ known = {} /\ tokens = 0 /\ alive = {}
  /\ gens = [g \in Generations |-> [made |-> FALSE, reset |-> FALSE, prepared |-> 0, prev |-> 0]]
  /\ logs = [g \in Generations |-> [kind \in Kinds |-> NoLog]]
  /\ held = Nobody /\ cmds = [c \in Commands |-> Waiting]

At(c, op, at) == cmds[c].op = op /\ cmds[c].at = at
Goes(c, at) == cmds' = [cmds EXCEPT ![c].at = at]
Starts(c, op, at, g, p, t) == cmds' = [cmds EXCEPT ![c] = [op |-> op, at |-> at, gen |-> g, ptr |-> p, token |-> t, born |-> FALSE]]
Free == held = Nobody
Ends(c) == cmds' = [cmds EXCEPT ![c] = Waiting] /\ held' = IF held = c THEN Nobody ELSE held

CommandEnds(c) ==
  /\ cmds[c] # Waiting
  /\ Ends(c)
  /\ UNCHANGED <<pointer, gens, resets, active, known, tokens, logs, alive>>

MemberEnds(g, m) ==
  /\ <<g, m>> \in alive
  /\ alive' = alive \ {<<g, m>>}
  /\ UNCHANGED <<pointer, gens, resets, active, known, tokens, logs, held, cmds>>

----------------------------------------------------------------------------
(* What is read. *)

SourceRight(p) == IF p.desc = "prepared" THEN p.token # 0 /\ gens[p.gen].prepared = p.token
                  ELSE p.desc = "reset-ready" /\ gens[p.gen].reset

Bound(g) == IF pointer = NoPointer THEN 0 ELSE IF pointer.gen = g THEN pointer.token ELSE gens[g].prepared

(* stopped_observer taken at the word of the log: a member that it calls stopped. *)
ProvenByLog(g, kind) == logs[g][kind].state \in {"none", "stopped", "prepared", "stop-pending"}

(* stopped_observer looks for the processes that were recorded; one that answers on its socket shows itself too, *)
(* and is left out: whoever meets it ends as by CommandEnds.                                                     *)
Proven(g, kind) ==
  \/ logs[g][kind] = NoLog
  \/ logs[g][kind].token = Bound(g) /\ \A m \in logs[g][kind].procs : <<g, m>> \notin alive

StoppedProof(g) == (pointer.gen = g => SourceRight(pointer)) /\ \A kind \in Kinds : Proven(g, kind)

NeverRun(g) == \A kind \in Kinds : logs[g][kind] = NoLog
Closed == resets.state \in {"none", "committed", "aborted"}
Unregistered == {g \in Generations : (gens[g].made \/ gens[g].prepared # 0) /\ g \notin known}

Reserved(g) ==
  /\ active = <<>> /\ Unregistered = {} /\ tokens < MaxTokens
  /\ tokens' = tokens + 1 /\ active' = [t \in {tokens'} |-> g] /\ known' = known \cup {g}

Without(t) == [u \in DOMAIN active \ {t} |-> active[u]]

----------------------------------------------------------------------------
(* scenario prepare *)

PrepareReserves(c, g) ==
  /\ cmds[c] = Waiting /\ Free /\ pointer = NoPointer /\ ~gens[g].made
  /\ Reserved(g)
  /\ Starts(c, "prepare", "make", g, NoPointer, tokens') /\ held' = c
  /\ UNCHANGED <<pointer, gens, resets, logs, alive>>

PrepareMakes(c) ==
  /\ At(c, "prepare", "make")
  /\ gens' = [gens EXCEPT ![cmds[c].gen].made = TRUE]
  /\ Goes(c, "record")
  /\ UNCHANGED <<pointer, resets, active, known, tokens, logs, alive, held>>

PrepareRecords(c) ==
  /\ At(c, "prepare", "record")
  /\ gens' = [gens EXCEPT ![cmds[c].gen].prepared = cmds[c].token]
  /\ Ends(c)
  /\ UNCHANGED <<pointer, resets, active, known, tokens, logs, alive>>

----------------------------------------------------------------------------
(* scenario start: initialise the pointer if there is none, resume, run the sessions. *)

StartBegins(c) ==
  /\ cmds[c] = Waiting
  /\ \/ /\ pointer = NoPointer /\ Cardinality(DOMAIN active) = 1
        /\ \E t \in DOMAIN active : gens[active[t]].prepared # 0 /\ Starts(c, "start", "init", active[t], NoPointer, 0)
     \/ pointer # NoPointer /\ Starts(c, "start", "read", 0, NoPointer, 0)
  /\ UNCHANGED <<pointer, gens, resets, active, known, tokens, logs, alive, held>>

StartInitializes(c) ==
  /\ At(c, "start", "init") /\ Free /\ pointer = NoPointer
  /\ LET g == cmds[c].gen IN
     /\ gens[g].prepared \in DOMAIN active /\ StoppedProof(g)
     /\ pointer' = [gen |-> g, desc |-> "prepared", token |-> gens[g].prepared]
  /\ Goes(c, "read")
  /\ UNCHANGED <<gens, resets, active, known, tokens, logs, alive, held>>

Resumable(p) ==
  /\ p # NoPointer /\ SourceRight(p) /\ NeverRun(p.gen)
  /\ IF p.desc = "prepared" THEN Closed
     ELSE resets.state = "committed" /\ resets.gen = p.gen /\ gens[gens[p.gen].prev].prepared # 0

ResumeReads(c) ==
  /\ At(c, "start", "read") /\ Resumable(pointer)
  /\ cmds' = [cmds EXCEPT ![c] = [@ EXCEPT !.at = "lock", !.gen = pointer.gen, !.ptr = pointer]]
  /\ UNCHANGED <<pointer, gens, resets, active, known, tokens, logs, alive, held>>

(* The reservation to give up: that of the record to be replaced, or that of the generation before. *)
Outgoing(p) == IF p.desc = "prepared" THEN p.token ELSE gens[gens[p.gen].prev].prepared

ResumeReleases(c) ==
  /\ At(c, "start", "lock") /\ Free
  /\ LET p == cmds[c].ptr  t == Outgoing(p) IN
     /\ \A u \in DOMAIN active : u = t /\ (p.desc = "prepared" \/ active[u] # p.gen)
     /\ t \in DOMAIN active => StoppedProof(active[t])
     /\ active' = Without(t)
  /\ held' = c /\ Goes(c, "reserve")
  /\ UNCHANGED <<pointer, gens, resets, known, tokens, logs, alive>>

ResumeReserves(c) ==
  /\ At(c, "start", "reserve")
  /\ Reserved(cmds[c].gen)
  /\ cmds' = [cmds EXCEPT ![c] = [@ EXCEPT !.at = "record", !.token = tokens']]
  /\ UNCHANGED <<pointer, gens, resets, logs, alive, held>>

ResumeRecords(c) ==
  /\ At(c, "start", "record")
  /\ NeverRun(cmds[c].gen) /\ gens[cmds[c].gen].prepared \notin DOMAIN active
  /\ gens' = [gens EXCEPT ![cmds[c].gen].prepared = cmds[c].token]
  /\ Goes(c, "switch")
  /\ UNCHANGED <<pointer, resets, active, known, tokens, logs, alive, held>>

ResumeSwitches(c) ==
  /\ At(c, "start", "switch") /\ pointer = cmds[c].ptr
  /\ pointer' = [gen |-> cmds[c].gen, desc |-> "prepared", token |-> cmds[c].token]
  /\ Goes(c, "services")
  /\ UNCHANGED <<gens, resets, active, known, tokens, logs, alive, held>>

----------------------------------------------------------------------------
(* The sessions of a start, for services and then for machines. *)

Running(c, kind) == At(c, "start", kind)
Log(c, kind) == logs[cmds[c].gen][kind]
Noted(c, kind, entry) == logs' = [logs EXCEPT ![cmds[c].gen][kind] = entry]
Started(c, kind) == Log(c, kind).procs = Range(Order(kind))
NextMember(c, kind) == Order(kind)[Cardinality(Log(c, kind).procs) + 1]

SessionOpens(c, kind) ==
  /\ Running(c, kind) /\ Log(c, kind) = NoLog
  /\ pointer.gen = cmds[c].gen /\ pointer.token = cmds[c].token
  /\ kind = "services" => cmds[c].token \in DOMAIN active
  /\ Noted(c, kind, [NoLog EXCEPT !.token = cmds[c].token, !.state = "prepared"])
  /\ UNCHANGED <<pointer, gens, resets, active, known, tokens, alive, held, cmds>>

(* The window is recorded before the process is created. *)
WindowOpens(c, kind) ==
  /\ Running(c, kind) /\ Log(c, kind).state \in {"prepared", "starting"} /\ Log(c, kind).pending = {} /\ ~Started(c, kind)
  /\ Noted(c, kind, [Log(c, kind) EXCEPT !.state = "starting", !.pending = {NextMember(c, kind)}])
  /\ UNCHANGED <<pointer, gens, resets, active, known, tokens, alive, held, cmds>>

MemberSpawned(c, kind) ==
  /\ Running(c, kind) /\ Log(c, kind).state = "starting"
  /\ ~cmds[c].born /\ Log(c, kind).pending # {}
  /\ alive' = alive \cup {<<cmds[c].gen, m>> : m \in Log(c, kind).pending}
  /\ cmds' = [cmds EXCEPT ![c].born = TRUE]
  /\ UNCHANGED <<pointer, gens, resets, active, known, tokens, logs, held>>

MemberIdentified(c, kind) ==
  /\ Running(c, kind) /\ Log(c, kind).state = "starting"
  /\ cmds[c].born
  /\ \E m \in Log(c, kind).pending :
       <<cmds[c].gen, m>> \in alive /\ Noted(c, kind, [Log(c, kind) EXCEPT !.procs = @ \cup {m}, !.pending = {}])
  /\ cmds' = [cmds EXCEPT ![c].born = FALSE]
  /\ UNCHANGED <<pointer, gens, resets, active, known, tokens, alive, held>>

SessionReady(c, kind) ==
  /\ Running(c, kind) /\ Log(c, kind).state = "starting" /\ Log(c, kind).pending = {} /\ Started(c, kind)
  /\ Noted(c, kind, [Log(c, kind) EXCEPT !.state = IF kind = "services" THEN "networks-ready" ELSE "nodes-ready"])
  /\ IF kind = "services" THEN Goes(c, "machines") /\ UNCHANGED held ELSE Ends(c)
  /\ UNCHANGED <<pointer, gens, resets, active, known, tokens, alive>>

(* A failure is recorded, machines that lose their network degrade the services as well. *)
SessionDegrades(c, kind, log) ==
  /\ Running(c, kind) /\ Log(c, log).state # "none" /\ (log = "services" \/ kind = "machines")
  /\ Noted(c, log, [Log(c, log) EXCEPT !.state = "degraded"])
  /\ IF log = kind THEN Ends(c) ELSE UNCHANGED <<cmds, held>>
  /\ UNCHANGED <<pointer, gens, resets, active, known, tokens, alive>>

----------------------------------------------------------------------------
(* scenario stop: takes over what the logs record. *)

StopBegins(c) ==
  /\ cmds[c] = Waiting /\ pointer.desc = "prepared" /\ SourceRight(pointer)
  /\ Starts(c, "stop", "machines", pointer.gen, NoPointer, pointer.token)
  /\ UNCHANGED <<pointer, gens, resets, active, known, tokens, logs, alive, held>>

Stoppable(c, kind) ==
  /\ Log(c, kind).state \in {"networks-ready", "nodes-ready", "degraded", "stop-pending"} /\ Log(c, kind).pending = {}
  /\ pointer.gen = cmds[c].gen /\ pointer.desc = "prepared" /\ SourceRight(pointer) /\ Log(c, kind).token = pointer.token

LiveRecorded(c, kind) == {m \in Log(c, kind).procs : <<cmds[c].gen, m>> \in alive}

StopTakesOver(c, kind) ==
  /\ At(c, "stop", kind) /\ Free /\ Stoppable(c, kind) /\ LiveRecorded(c, kind) # {}
  /\ kind = "services" => cmds[c].ptr = pointer /\ pointer.token \in DOMAIN active
  /\ Noted(c, kind, [Log(c, kind) EXCEPT !.state = "stopping"])
  /\ held' = c
  /\ UNCHANGED <<pointer, gens, resets, active, known, tokens, alive, cmds>>

Stopping(c, kind) == At(c, "stop", kind) /\ held = c

(* Machines are asked one after the other, services all; nobody is asked twice. *)
StopAsks(c, kind) ==
  /\ Stopping(c, kind)
  /\ kind = "machines" => LiveRecorded(c, kind) \cap Log(c, kind).asked = {}
  /\ \E m \in LiveRecorded(c, kind) \ Log(c, kind).asked : Noted(c, kind, [Log(c, kind) EXCEPT !.asked = @ \cup {m}])
  /\ UNCHANGED <<pointer, gens, resets, active, known, tokens, alive, held, cmds>>

StopConcludes(c, kind) ==
  /\ Stopping(c, kind)
  /\ IF LiveRecorded(c, kind) = {} THEN Noted(c, kind, [Log(c, kind) EXCEPT !.state = "stopped"])
     ELSE LiveRecorded(c, kind) \cap Log(c, kind).asked # {} /\ Noted(c, kind, [Log(c, kind) EXCEPT !.state = "stop-pending"])
  /\ held' = Nobody /\ Goes(c, IF kind = "machines" THEN "proof" ELSE "done")
  /\ UNCHANGED <<pointer, gens, resets, active, known, tokens, alive>>

StopSkipsMachines(c) ==
  /\ At(c, "stop", "machines") /\ held # c
  /\ Goes(c, "proof")
  /\ UNCHANGED <<pointer, gens, resets, active, known, tokens, logs, alive, held>>

(* The proof that no machine runs is taken before the lock. *)
MachinesProven(g) == (pointer.gen = g => SourceRight(pointer)) /\ Proven(g, "machines")

StopProves(c) ==
  /\ At(c, "stop", "proof") /\ MachinesProven(cmds[c].gen)
  /\ cmds' = [cmds EXCEPT ![c] = [@ EXCEPT !.at = "services", !.ptr = pointer]]
  /\ UNCHANGED <<pointer, gens, resets, active, known, tokens, logs, alive, held>>

----------------------------------------------------------------------------
(* scenario reset *)

ResetBegins(c, n) ==
  /\ cmds[c] = Waiting /\ Free /\ pointer # NoPointer /\ SourceRight(pointer)
  /\ n > pointer.gen /\ Closed /\ StoppedProof(pointer.gen)
  /\ resets' = [state |-> "reset-preparing", old |-> pointer, gen |-> n]
  /\ Starts(c, "reset", "make", n, pointer, 0) /\ held' = c
  /\ UNCHANGED <<pointer, gens, active, known, tokens, logs, alive>>

ResetMakes(c) ==
  /\ At(c, "reset", "make") /\ ~gens[cmds[c].gen].made
  /\ gens' = [gens EXCEPT ![cmds[c].gen].made = TRUE]
  /\ Goes(c, "describe")
  /\ UNCHANGED <<pointer, resets, active, known, tokens, logs, alive, held>>

ResetDescribes(c) ==
  /\ At(c, "reset", "describe")
  /\ gens' = [gens EXCEPT ![cmds[c].gen] = [@ EXCEPT !.reset = TRUE, !.prev = cmds[c].ptr.gen]]
  /\ Goes(c, "ready")
  /\ UNCHANGED <<pointer, resets, active, known, tokens, logs, alive, held>>

ResetReady(c) ==
  /\ At(c, "reset", "ready")
  /\ resets' = [resets EXCEPT !.state = "reset-ready"]
  /\ Goes(c, "switch")
  /\ UNCHANGED <<pointer, gens, active, known, tokens, logs, alive, held>>

ResetSwitches(c) ==
  /\ At(c, "reset", "switch") /\ StoppedProof(pointer.gen) /\ pointer = cmds[c].ptr
  /\ pointer' = [gen |-> cmds[c].gen, desc |-> "reset-ready", token |-> 0]
  /\ Goes(c, "commit")
  /\ UNCHANGED <<gens, resets, active, known, tokens, logs, alive, held>>

ResetCommits(c) ==
  /\ At(c, "reset", "commit")
  /\ resets' = [resets EXCEPT !.state = "committed"]
  /\ known' = known \cup {cmds[c].gen}
  /\ Ends(c)
  /\ UNCHANGED <<pointer, gens, active, tokens, logs, alive>>

----------------------------------------------------------------------------
(* scenario recover and scenario release *)

NewPointer == [gen |-> resets.gen, desc |-> "reset-ready", token |-> 0]

(* audit_reset, for a transaction that is open. *)
Audited == IF pointer = NewPointer /\ resets.state = "reset-ready" THEN "committed"
           ELSE IF pointer = resets.old THEN "aborted" ELSE "recovery-required"

CloseReset(c) ==
  /\ cmds[c] = Waiting /\ Free /\ pointer # NoPointer /\ SourceRight(pointer)
  /\ ~Closed /\ Audited # "recovery-required" /\ StoppedProof(pointer.gen)
  /\ resets' = [resets EXCEPT !.state = Audited] /\ known' = known \cup {resets.gen}
  /\ UNCHANGED <<pointer, gens, active, tokens, logs, alive, held, cmds>>

OrphanReads(c) ==
  /\ cmds[c] = Waiting /\ pointer # NoPointer /\ SourceRight(pointer)
  /\ Starts(c, "orphan", "lock", pointer.gen, pointer, pointer.token)
  /\ UNCHANGED <<pointer, gens, resets, active, known, tokens, logs, alive, held>>

Orphans(g, keep) == {t \in DOMAIN active : active[t] = g /\ t # keep}

OrphanReleases(c) ==
  /\ At(c, "orphan", "lock") /\ Free /\ NeverRun(cmds[c].gen) /\ StoppedProof(cmds[c].gen)
  /\ \E t \in Orphans(cmds[c].gen, cmds[c].token) : active' = Without(t)
  /\ Ends(c)
  /\ UNCHANGED <<pointer, gens, resets, known, tokens, logs, alive>>

ReleaseReads(c) ==
  /\ cmds[c] = Waiting
  /\ \E t \in DOMAIN active : Starts(c, "release", "lock", active[t], NoPointer, t)
  /\ UNCHANGED <<pointer, gens, resets, active, known, tokens, logs, alive, held>>

Released(c) ==
  /\ At(c, "release", "lock") /\ Free /\ cmds[c].token \in DOMAIN active /\ StoppedProof(cmds[c].gen)
  /\ active' = Without(cmds[c].token)
  /\ Ends(c)
  /\ UNCHANGED <<pointer, gens, resets, known, tokens, logs, alive>>

----------------------------------------------------------------------------
SceneNext ==
  \/ \E c \in Commands :
       \/ CommandEnds(c) \/ PrepareMakes(c) \/ PrepareRecords(c) \/ StartBegins(c) \/ StartInitializes(c)
       \/ ResumeReads(c) \/ ResumeReleases(c) \/ ResumeReserves(c) \/ ResumeRecords(c) \/ ResumeSwitches(c)
       \/ StopBegins(c) \/ StopSkipsMachines(c) \/ StopProves(c)
       \/ ResetMakes(c) \/ ResetDescribes(c) \/ ResetReady(c) \/ ResetSwitches(c) \/ ResetCommits(c)
       \/ CloseReset(c) \/ OrphanReads(c) \/ OrphanReleases(c) \/ ReleaseReads(c) \/ Released(c)
       \/ \E g \in Generations : PrepareReserves(c, g) \/ ResetBegins(c, g)
       \/ \E kind \in Kinds : \/ SessionOpens(c, kind) \/ WindowOpens(c, kind) \/ MemberSpawned(c, kind)
                              \/ MemberIdentified(c, kind) \/ SessionReady(c, kind)
                              \/ StopTakesOver(c, kind) \/ StopAsks(c, kind) \/ StopConcludes(c, kind)
                              \/ \E log \in Kinds : SessionDegrades(c, kind, log)
  \/ \E x \in alive : MemberEnds(x[1], x[2])

SceneSpec == SceneInit /\ [][SceneNext]_sceneVars

----------------------------------------------------------------------------
(* What a log records as alive runs in the active generation, under the    *)
(* reservation of its record, whoever reset, resumed, released or died     *)
(* meanwhile (stopped_observer, resume_reset_resources).                   *)
RecordedRunReserved ==
  \A g \in Generations :
    \A kind \in Kinds : (\E m \in logs[g][kind].procs : <<g, m>> \in alive) =>
         /\ pointer = [gen |-> g, desc |-> "prepared", token |-> logs[g][kind].token]
         /\ pointer.token \in DOMAIN active /\ active[pointer.token] = g

(* Nothing runs in a generation without a reservation: a spawn that was    *)
(* cut must not be taken for one that created nothing.                     *)
RunningIsReserved == \A x \in alive : \E t \in DOMAIN active : active[t] = x[1]

(* When nobody works and nothing runs, an instance with a pointer that has *)
(* not run can be started: at once, after its reset was closed, or after   *)
(* its one reservation was released (_pending_reset and its docstring,     *)
(* recover_reset_continuation, cmd_scenario_release), whatever was cut     *)
(* before and whichever of the two records the pointer names.              *)
Outset ==
  /\ pointer # NoPointer /\ alive = {} /\ NeverRun(pointer.gen) /\ \A c \in Commands : cmds[c] = Waiting
ClosedFirst == SourceRight(pointer) /\ ~Closed /\ Audited # "recovery-required" /\ StoppedProof(pointer.gen)
Releasable == Cardinality(DOMAIN active) <= 1 /\ \A t \in DOMAIN active : StoppedProof(active[t])
ScenesGoOn == Outset => ClosedFirst \/ (Resumable(pointer) /\ Releasable)
=============================================================================
