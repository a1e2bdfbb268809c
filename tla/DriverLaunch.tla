---------------------------- MODULE DriverLaunch ----------------------------
(***************************************************************************)
(* The launch attempts of one node of one generation                       *)
(* (tools/ctflab_qemu_driver.py).  Nothing but files connects the          *)
(* processes that take part: the caller that starts or stops the machine   *)
(* and keeps the instance locked meanwhile, the worker that launches QEMU  *)
(* and waits for it, and the observers that hold on to the QEMU process,   *)
(* the first one spawned by the worker, later ones by rearm_observer.  Any *)
(* of them may die at any point.                                           *)
(*                                                                         *)
(* A file is created first and written then (record), and it is written    *)
(* once: whoever reads in between, or after its writer died, finds it      *)
(* torn.  The waits at the end of start and stop only observe and may time *)
(* out, so a call ends here with its last write or command.  A host that   *)
(* reboots is every process dying one after the other.  The checks of      *)
(* profiles, certificates and storage, which end a call or a worker when   *)
(* they fail, are deaths too.                                              *)
(***************************************************************************)
EXTENDS Naturals

CONSTANTS MaxAttempts,        \* bound on launch attempts
          Worker, Observer,   \* the processes that every attempt has
          Sessions            \* operation ids of rearm_observer

ASSUME DriverAssumption ==
  /\ MaxAttempts \in Nat
  /\ Worker # Observer
  /\ Worker \notin Sessions /\ Observer \notin Sessions

VARIABLES last,    \* the latest attempt, 0 before the first one
          file,    \* the files of an attempt that decide what happens next
          exit,    \* the exit evidence that each process of an attempt has recorded
          qemu,    \* the QEMU process of an attempt
          proc,    \* where the worker and the observers of an attempt are
          caller,  \* where the one caller is
          sent     \* history: system_powerdown commands sent in an attempt

dvars == <<last, file, exit, qemu, proc, caller, sent>>

LaunchNumbers == 1..MaxAttempts
Observers == {Observer} \cup Sessions
Processes == {Worker} \cup Observers
Content == {"none", "torn", "whole"}
Files == {"launch", "start.intent", "binding", "stop.intent"}
Pcs == {"none", "spawned", "starting", "launched", "bound", "attached", "watching", "done", "dead"}

DriverInit ==
  /\ last = 0
  /\ file = [a \in LaunchNumbers |-> [f \in Files |-> "none"]]
  /\ exit = [a \in LaunchNumbers |-> [p \in Processes |-> "none"]]
  /\ qemu = [a \in LaunchNumbers |-> "none"]
  /\ proc = [a \in LaunchNumbers |-> [p \in Processes |-> "none"]]
  /\ caller = "idle"
  /\ sent = [a \in LaunchNumbers |-> 0]

-----------------------------------------------------------------------------
(* record: created, then written and synced. *)
Written(content) == IF content = "none" THEN "torn" ELSE "whole"

Record(a, f) ==
  /\ file[a][f] # "whole"
  /\ file' = [file EXCEPT ![a][f] = Written(@)]

(* Where a process is once its file is complete. *)
After(content, before, then) == IF content = "torn" THEN then ELSE before

(* binding: the launch and the identity of the process it led to. *)
Bound(a) == file[a]["launch"] = "whole" /\ file[a]["binding"] = "whole"

ExitClaims(a) == {p \in Processes : exit[a][p] # "none"}

ObservationHopeful ==
  IF last > 0 /\ Bound(last) /\ ExitClaims(last) = {} /\ qemu[last] = "up"
  THEN "process-running" ELSE "stopped"

(* observe: without evidence of its end, a machine counts as running only if
   its process can be identified; everything else is not known.  What else is
   asked of a running machine can only make the call fail. *)
Observation ==
  IF last = 0 THEN "stopped"
  ELSE IF ~Bound(last) THEN "unknown"
  ELSE IF ExitClaims(last) # {}
       THEN IF \A p \in ExitClaims(last) : exit[last][p] = "whole" THEN "stopped" ELSE "unknown"
  ELSE IF qemu[last] = "up" THEN "process-running" ELSE "unknown"

(* command_lock of an attempt; a process that dies lets go of it. *)
Locked(a) ==
  \/ proc[a][Worker] \in {"starting", "launched", "bound"}
  \/ a = last /\ caller \in {"stopping", "powerdown", "rearm"}

Become(a, p, pc) == proc' = [proc EXCEPT ![a][p] = pc]

-----------------------------------------------------------------------------
(* start *)
NewAttempt ==
  /\ last + 1 \in LaunchNumbers
  /\ last' = last + 1
  /\ caller' = "provision"
  /\ UNCHANGED <<file, exit, qemu, proc, sent>>

StartUnlessRunning ==
  /\ caller = "idle"
  /\ Observation # "process-running"
  /\ NewAttempt

Start ==
  /\ caller = "idle"
  /\ Observation = "stopped"
  /\ NewAttempt

RecordLaunch ==
  /\ caller = "provision"
  /\ Record(last, "launch")
  /\ caller' = After(file[last]["launch"], "provision", "spawn")
  /\ UNCHANGED <<last, exit, qemu, proc, sent>>

SpawnWorker ==
  /\ caller = "spawn"
  /\ Become(last, Worker, "spawned")
  /\ caller' = "idle"
  /\ UNCHANGED <<last, file, exit, qemu, sent>>

(* stop: one command per attempt, whatever becomes of it. *)
Stop ==
  /\ caller = "idle"
  /\ last > 0
  /\ Bound(last)
  /\ ~Locked(last)
  /\ file[last]["stop.intent"] = "none"
  /\ qemu[last] = "up"
  /\ caller' = "stopping"
  /\ UNCHANGED <<last, file, exit, qemu, proc, sent>>

RecordStop ==
  /\ caller = "stopping"
  /\ Record(last, "stop.intent")
  /\ caller' = After(file[last]["stop.intent"], "stopping", "powerdown")
  /\ UNCHANGED <<last, exit, qemu, proc, sent>>

Powerdown ==
  /\ caller = "powerdown"
  /\ sent' = [sent EXCEPT ![last] = @ + 1]
  /\ caller' = "idle"
  /\ UNCHANGED <<last, file, exit, qemu, proc>>

(* rearm_observer: the lock first, then the checks.  Before control.lock exists
   the call fails, and so does everything it would do. *)
LockForRearm ==
  /\ caller = "idle"
  /\ last > 0
  /\ ~Locked(last)
  /\ caller' = "rearm"
  /\ UNCHANGED <<last, file, exit, qemu, proc, sent>>

Supervised(a) == \E o \in Observers : proc[a][o] = "watching"

Rearm(session) ==
  /\ caller = "rearm"
  /\ proc[last][session] = "none"
  /\ Observation = "process-running"
  /\ ~Supervised(last)
  /\ \E pc \in {"spawned", "dead"} : Become(last, session, pc)
  /\ caller' = "idle"
  /\ UNCHANGED <<last, file, exit, qemu, sent>>

(* A call raises, or its process dies. *)
CallerLeaves ==
  /\ caller # "idle"
  /\ caller' = "idle"
  /\ UNCHANGED <<last, file, exit, qemu, proc, sent>>

-----------------------------------------------------------------------------
(* worker *)
WorkerBegins(a) ==
  /\ proc[a][Worker] = "spawned"
  /\ ~Locked(a)
  /\ file[a]["start.intent"] = "none"
  /\ file[a]["launch"] = "whole"
  /\ Become(a, Worker, "starting")
  /\ UNCHANGED <<last, file, exit, qemu, caller, sent>>

RecordStart(a) ==
  /\ proc[a][Worker] = "starting"
  /\ Record(a, "start.intent")
  /\ UNCHANGED <<last, exit, qemu, proc, caller, sent>>

Launch(a) ==
  /\ proc[a][Worker] = "starting"
  /\ file[a]["start.intent"] = "whole"
  /\ qemu' = [qemu EXCEPT ![a] = "up"]
  /\ Become(a, Worker, "launched")
  /\ UNCHANGED <<last, file, exit, caller, sent>>

RecordBinding(a) ==
  /\ proc[a][Worker] = "launched"
  /\ Record(a, "binding")
  /\ Become(a, Worker, After(file[a]["binding"], "launched", "bound"))
  /\ UNCHANGED <<last, exit, qemu, caller, sent>>

SpawnObserver(a) ==
  /\ proc[a][Worker] = "bound"
  /\ \E pc \in {"spawned", "none"} :
       proc' = [proc EXCEPT ![a][Worker] = "watching", ![a][Observer] = pc]
  /\ UNCHANGED <<last, file, exit, qemu, caller, sent>>

(* observe_exit; an observer that cannot get hold of the process any more ends. *)
Attach(a, o) ==
  /\ proc[a][o] = "spawned"
  /\ qemu[a] = "up"
  /\ Become(a, o, "attached")
  /\ UNCHANGED <<last, file, exit, qemu, caller, sent>>

Ready(a, o) ==
  /\ proc[a][o] = "attached"
  /\ Become(a, o, "watching")
  /\ UNCHANGED <<last, file, exit, qemu, caller, sent>>

(* The end of the wait for QEMU, in the worker and in the observers. *)
RecordExit(a, p) ==
  /\ proc[a][p] = "watching"
  /\ qemu[a] = "gone"
  /\ exit' = [exit EXCEPT ![a][p] = Written(@)]
  /\ Become(a, p, After(exit[a][p], "watching", "done"))
  /\ UNCHANGED <<last, file, qemu, caller, sent>>

ProcessDies(a, p) ==
  /\ proc[a][p] \notin {"none", "done", "dead"}
  /\ Become(a, p, "dead")
  /\ UNCHANGED <<last, file, exit, qemu, caller, sent>>

MachineEnds(a) ==
  /\ qemu[a] = "up"
  /\ qemu' = [qemu EXCEPT ![a] = "gone"]
  /\ UNCHANGED <<last, file, exit, proc, caller, sent>>

-----------------------------------------------------------------------------
CallerNext ==
  \/ Start \/ RecordLaunch \/ SpawnWorker
  \/ Stop \/ RecordStop \/ Powerdown
  \/ LockForRearm \/ \E session \in Sessions : Rearm(session)
  \/ CallerLeaves

AttemptNext(a) ==
  \/ WorkerBegins(a) \/ RecordStart(a) \/ Launch(a) \/ RecordBinding(a) \/ SpawnObserver(a)
  \/ \E o \in Observers : Attach(a, o) \/ Ready(a, o)
  \/ \E p \in Processes : RecordExit(a, p) \/ ProcessDies(a, p)
  \/ MachineEnds(a)

DriverNext == CallerNext \/ \E a \in LaunchNumbers : AttemptNext(a)

DriverSpec == DriverInit /\ [][DriverNext]_dvars

-----------------------------------------------------------------------------
(* Whatever died on the way, a node that is observed as stopped has no QEMU
   process in any attempt, and no worker is left that could still launch one:
   another launch, or another generation, does not meet it. *)
StoppedIsProven ==
  Observation = "stopped" =>
    \A a \in LaunchNumbers : qemu[a] # "up" /\ proc[a][Worker] \notin {"spawned", "starting"}

(* Retried starts never have two machines on one disk. *)
OneMachine == \A a, b \in LaunchNumbers : qemu[a] = "up" /\ qemu[b] = "up" => a = b

(* A machine is asked to power down at most once per launch, although a stop
   that died cannot tell whether it has asked. *)
PoweredDownOnce == \A a \in LaunchNumbers : sent[a] <= 1

(* The node is the machine that the coordinator takes it for; it may only be
   observed less often than its state would allow. *)
Proven(a) == Bound(a) /\ \E p \in Processes : exit[a][p] = "whole"
MachineState ==
  IF last = 0 THEN "off"
  ELSE IF ~Bound(last) THEN "launching" ELSE IF Proven(last) THEN "off" ELSE "on"

Machine == INSTANCE NodeMachine WITH vm <- MachineState
ImplementsMachine == Machine!MachineSpec

(* Why these hold: what files say of processes that the reader cannot see. *)
DriverTypeOK ==
  /\ last \in 0..MaxAttempts
  /\ file \in [LaunchNumbers -> [Files -> Content]]
  /\ exit \in [LaunchNumbers -> [Processes -> Content]]
  /\ qemu \in [LaunchNumbers -> {"none", "up", "gone"}]
  /\ proc \in [LaunchNumbers -> [Processes -> Pcs]]
  /\ caller \in {"idle", "provision", "spawn", "stopping", "powerdown", "rearm"}
  /\ sent \in [LaunchNumbers -> Nat]
  /\ caller # "idle" => last \in LaunchNumbers

LaterIsBlank ==
  \A a \in LaunchNumbers : a > last =>
    /\ qemu[a] = "none"
    /\ \A f \in Files : file[a][f] = "none"
    /\ \A p \in Processes : proc[a][p] = "none"

EarlierIsProven == \A a \in LaunchNumbers : a < last => Proven(a)

ExitMeansGone == \A a \in LaunchNumbers, p \in Processes : exit[a][p] # "none" => qemu[a] = "gone"

BoundMeansLaunched ==
  \A a \in LaunchNumbers :
    /\ proc[a][Worker] \in {"none", "spawned", "starting"} => qemu[a] = "none"
    /\ proc[a][Worker] = "launched" => qemu[a] # "none"
    /\ file[a]["binding"] # "none" => qemu[a] # "none"

CallerBeforeWorker == caller \in {"provision", "spawn"} => proc[last][Worker] = "none"

IntentBeforeCommand ==
  /\ \A a \in LaunchNumbers : sent[a] > 0 => file[a]["stop.intent"] = "whole"
  /\ caller = "stopping" => file[last]["stop.intent"] # "whole"
  /\ caller = "powerdown" => file[last]["stop.intent"] = "whole" /\ sent[last] = 0

DriverInv ==
  /\ DriverTypeOK
  /\ LaterIsBlank /\ EarlierIsProven /\ ExitMeansGone /\ BoundMeansLaunched
  /\ CallerBeforeWorker /\ IntentBeforeCommand /\ PoweredDownOnce
=============================================================================
