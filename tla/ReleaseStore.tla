---------------------------- MODULE ReleaseStore ----------------------------
(***************************************************************************)
(* The installed versions of the application: staging, the active pointer, *)
(* launches with their records, updates with their journal, and the        *)
(* workspaces an update must find at rest.  Two locks: the application     *)
(* gate (a file lock that dies with its holder) and the version database.  *)
(* The launched application outlives its launcher and holds no lock.       *)
(* Bounds: the sets Versions, Launches, Updates, Workspaces.               *)
(***************************************************************************)
EXTENDS Naturals, FiniteSets

CONSTANTS Versions, Launches, Updates, Workspaces, Nobody

ASSUME ReleaseAssumption ==
  /\ Nobody \notin Versions \cup Updates
  /\ \A kind \in {"launch", "settle", "apply"}, id \in Launches \cup Updates : Nobody # [kind |-> kind, id |-> id]

VARIABLES
  placed,    \* versions/<v> directories
  listed,    \* rows of versions
  pointers,  \* [active, previous]
  launches,  \* launch -> [version, files, app]: app = "none", "running", "gone"
  gate,      \* who holds application.lock: [kind, id] or Nobody
  journal,   \* update -> [files, row, target, previous]; files of update-backups/<id>
  spaces,    \* workspace -> [registered, busy]
  applying   \* the update inside apply(): its id, or Nobody

releaseVars == <<placed, listed, pointers, launches, gate, journal, spaces, applying>>

NoLaunch == [version |-> Nobody, files |-> {}, app |-> "none"]
NoUpdate == [files |-> {}, row |-> "none", target |-> Nobody, previous |-> Nobody]

ReleaseInit ==
  /\ placed = {} /\ listed = {} /\ pointers = [active |-> Nobody, previous |-> Nobody]
  /\ launches = [l \in Launches |-> NoLaunch] /\ journal = [u \in Updates |-> NoUpdate]
  /\ spaces = [w \in Workspaces |-> [registered |-> FALSE, busy |-> FALSE]]
  /\ gate = Nobody /\ applying = Nobody

(* A spawn record taken for the end of the application. *)
ExitAssumed(l) == launches[l].files = {} \/ "spawned" \in launches[l].files

(* launch_exit: the ways a launch directory is settled; anything else is unknown and blocks. *)
ExitKnown(l) ==
  LET f == launches[l].files IN
  f = {} \/ ({"intent", "spawned"} \subseteq f /\ ("exit" \in f \/ {"identity", "settled"} \subseteq f))

LaunchesChecked == \A l \in Launches : ExitKnown(l)

JournalChecked == \A u \in Updates : journal[u].files = {} \/ journal[u].row \in {"committed", "abandoned"}
Registered == {w \in Workspaces : spaces[w].registered}

(* The version database is held by apply, by settle, and by a launch until its application is recorded. *)
DatabaseFree == IF gate = Nobody THEN TRUE ELSE gate.kind = "launch" /\ "spawned" \in launches[gate.id].files

(* stage: copied and checked in staging, renamed, and listed at commit. *)
Stage(v, commits) ==
  /\ v \notin listed \cup placed /\ DatabaseFree
  /\ placed' = placed \cup {v}
  /\ listed' = IF commits THEN listed \cup {v} ELSE listed
  /\ UNCHANGED <<pointers, launches, gate, journal, spaces, applying>>

SwitchGuard == gate = Nobody /\ LaunchesChecked /\ Registered = {} /\ JournalChecked

Activate(v) ==
  /\ SwitchGuard /\ v \in listed /\ pointers.active # v
  /\ pointers' = [active |-> v, previous |-> pointers.active]
  /\ UNCHANGED <<placed, listed, launches, gate, journal, spaces, applying>>

Rollback ==
  /\ SwitchGuard /\ pointers.previous \in listed
  /\ pointers' = [active |-> pointers.previous, previous |-> pointers.active]
  /\ UNCHANGED <<placed, listed, launches, gate, journal, spaces, applying>>

Register(w) ==
  /\ ~spaces[w].registered /\ DatabaseFree
  /\ spaces' = [spaces EXCEPT ![w].registered = TRUE]
  /\ UNCHANGED <<placed, listed, pointers, launches, gate, journal, applying>>

(* The instance of a workspace starts and stops on its own; apply holds its worker and generation gates. *)
Workspace(w) ==
  /\ ~(spaces[w].registered /\ applying # Nobody)
  /\ spaces' = [spaces EXCEPT ![w].busy = ~@]
  /\ UNCHANGED <<placed, listed, pointers, launches, gate, journal, applying>>

----------------------------------------------------------------------------
(* Launching. *)

LaunchBegin(l) ==
  /\ gate = Nobody /\ LaunchesChecked /\ JournalChecked /\ pointers.active \in listed
  /\ launches[l] = NoLaunch
  /\ launches' = [launches EXCEPT ![l] = [version |-> pointers.active, files |-> {"dir"}, app |-> "none"]]
  /\ gate' = [kind |-> "launch", id |-> l]
  /\ UNCHANGED <<placed, listed, pointers, journal, spaces, applying>>

Launching(l) == gate # Nobody /\ gate = [kind |-> "launch", id |-> l]
Note(l, name) == launches' = [launches EXCEPT ![l].files = @ \cup {name}]

LaunchIntent(l) ==
  /\ Launching(l) /\ launches[l].files = {"dir"}
  /\ Note(l, "intent")
  /\ UNCHANGED <<placed, listed, pointers, gate, journal, spaces, applying>>

Spawn(l) ==
  /\ Launching(l) /\ launches[l].files = {"dir", "intent"} /\ launches[l].app = "none"
  /\ launches' = [launches EXCEPT ![l].app = "running"]
  /\ UNCHANGED <<placed, listed, pointers, gate, journal, spaces, applying>>

(* spawned, then the identity when the process could be observed twice alive. *)
LaunchRecords(l) ==
  /\ Launching(l) /\ launches[l].app # "none"
  /\ \/ "spawned" \notin launches[l].files /\ Note(l, "spawned")
     \/ "spawned" \in launches[l].files /\ "identity" \notin launches[l].files /\ launches[l].app = "running" /\ Note(l, "identity")
  /\ UNCHANGED <<placed, listed, pointers, gate, journal, spaces, applying>>

LaunchWaited(l) ==
  /\ Launching(l) /\ "spawned" \in launches[l].files /\ launches[l].app = "gone"
  /\ Note(l, "exit") /\ gate' = Nobody
  /\ UNCHANGED <<placed, listed, pointers, journal, spaces, applying>>

AppExits(l) ==
  /\ launches[l].app = "running"
  /\ launches' = [launches EXCEPT ![l].app = "gone"]
  /\ UNCHANGED <<placed, listed, pointers, gate, journal, spaces, applying>>

LauncherDies ==
  /\ gate # Nobody
  /\ gate' = Nobody
  /\ applying' = Nobody
  /\ UNCHANGED <<placed, listed, pointers, launches, journal, spaces>>

(* settle: only a process still there can be bound, and its exit watched through the same handle. *)
SettleBegin(l) ==
  /\ gate = Nobody /\ launches[l].app = "running"
  /\ {"intent", "spawned", "identity"} \subseteq launches[l].files /\ {"exit", "settled"} \cap launches[l].files = {}
  /\ gate' = [kind |-> "settle", id |-> l]
  /\ UNCHANGED <<placed, listed, pointers, launches, journal, spaces, applying>>

SettleEnds(l) ==
  /\ gate # Nobody /\ gate = [kind |-> "settle", id |-> l]
  /\ IF launches[l].app = "gone" THEN Note(l, "settled") ELSE UNCHANGED launches
  /\ gate' = Nobody
  /\ UNCHANGED <<placed, listed, pointers, journal, spaces, applying>>

----------------------------------------------------------------------------
(* Updating. *)

AtRest == \A w \in Registered : ~spaces[w].busy

ApplyBegin(u, v) ==
  /\ gate = Nobody /\ journal[u] = NoUpdate /\ LaunchesChecked /\ JournalChecked /\ AtRest /\ v \in listed
  /\ journal' = [journal EXCEPT ![u] = [files |-> {"dir"}, row |-> "none", target |-> v, previous |-> pointers.active]]
  /\ gate' = [kind |-> "apply", id |-> u] /\ applying' = u
  /\ UNCHANGED <<placed, listed, pointers, launches, spaces>>

ApplyRecords(u) ==
  /\ applying = u /\ "backup" \notin journal[u].files
  /\ journal' = [journal EXCEPT ![u].files = @ \cup {IF "intent" \in @ THEN "backup" ELSE "intent"}]
  /\ UNCHANGED <<placed, listed, pointers, launches, gate, spaces, applying>>

ApplyCommits(u) ==
  /\ applying = u /\ "backup" \in journal[u].files
  /\ journal' = [journal EXCEPT ![u].row = "committed"]
  /\ pointers' = IF journal[u].previous # journal[u].target
                   THEN [active |-> journal[u].target, previous |-> journal[u].previous] ELSE pointers
  /\ gate' = Nobody /\ applying' = Nobody
  /\ UNCHANGED <<placed, listed, launches, spaces>>

Abandonable(u) ==
  /\ "intent" \in journal[u].files /\ journal[u].row \in {"none", "abandoned"}
  /\ pointers.active = journal[u].previous /\ pointers.active # journal[u].target

(* abandon takes the database, which an apply in progress holds. *)
Abandon(u) ==
  /\ DatabaseFree /\ Abandonable(u) /\ journal[u].row = "none"
  /\ journal' \in {[journal EXCEPT ![u].files = @ \cup {"resolution"}, ![u].row = row] : row \in {"none", "abandoned"}}
  /\ UNCHANGED <<placed, listed, pointers, launches, gate, spaces, applying>>

ReleaseNext ==
  \/ \E v \in Versions : Activate(v) \/ \E commits \in BOOLEAN : Stage(v, commits)
  \/ \E w \in Workspaces : Register(w) \/ Workspace(w)
  \/ \E l \in Launches : \/ LaunchBegin(l) \/ LaunchIntent(l) \/ Spawn(l) \/ LaunchRecords(l) \/ LaunchWaited(l)
                         \/ AppExits(l) \/ SettleBegin(l) \/ SettleEnds(l)
  \/ \E u \in Updates : ApplyRecords(u) \/ ApplyCommits(u) \/ Abandon(u) \/ \E v \in Versions : ApplyBegin(u, v)
  \/ Rollback \/ LauncherDies

ReleaseSpec == ReleaseInit /\ [][ReleaseNext]_releaseVars

----------------------------------------------------------------------------
(* The active version changes only to one that is listed and in place,     *)
(* while no application of this store runs, no other update is open, and,  *)
(* when workspaces are registered, all are at rest and their backup is     *)
(* complete (check_launches, switch_guard, apply) - whatever died before.  *)
SwitchesAreSafe ==
  [][pointers' # pointers =>
       /\ pointers'.active \in listed \cap placed
       /\ \A l \in Launches : launches[l].app # "running"
       /\ \A u \in Updates : journal[u].files # {} => journal'[u].row # "none"
       /\ Registered # {} => AtRest /\ \E u \in Updates : journal'[u] # journal[u] /\ "backup" \in journal[u].files]_releaseVars

(* An update cut anywhere can be settled by abandon, which keeps the old   *)
(* version (its docstring); the gate must be free.                         *)
InterruptedUpdatesCanBeAbandoned ==
  \A u \in Updates : gate = Nobody /\ journal[u].files # {} /\ journal[u].row = "none" => Abandonable(u)
=============================================================================
