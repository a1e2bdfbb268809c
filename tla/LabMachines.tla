---------------------------- MODULE LabMachines ----------------------------
(***************************************************************************)
(* The machines of LabManager (tools/ctflab.py) and the one switch that    *)
(* they share: run of several profiles, stop, and what is left when a     *)
(* command dies on the way.  QEMU, the switch and the display client run   *)
(* in sessions of their own; a command knows the machines only from        *)
(* run.json and network-<port>.json.  One command holds the operation lock.*)
(***************************************************************************)
EXTENDS Naturals, FiniteSets

CONSTANTS Profiles, Ports, NoPort,
          MaxCommands   \* bound on commands

ASSUME LabMachinesAssumption == NoPort \notin Ports

VARIABLES machine,  \* "off", "on" or, before run.json names it, "stray"
          rec,      \* the port that run.json names, or NoPort without run.json
          plugged,  \* the port that each machine is connected to
          switch,   \* the switch of each port: "none", "new" until it has written its file, "up"
          file,     \* the ports that have a state file
          lock,     \* the command that holds the lock and where it is
          commands, \* commands so far
          faulty    \* whether a switch ended by itself or was slow to write its file

machinesVars == <<machine, rec, plugged, switch, file, lock, commands, faulty>>

NoCommand == [at |-> "idle", todo |-> {}, port |-> NoPort, later |-> {}, mode |-> "none"]

MachinesInit ==
  /\ machine = [p \in Profiles |-> "off"]
  /\ rec = [p \in Profiles |-> NoPort] /\ plugged = [p \in Profiles |-> NoPort]
  /\ switch = [n \in Ports |-> "none"] /\ file = {}
  /\ lock = NoCommand /\ commands = 0 /\ faulty = FALSE

(* running_states: the profiles whose run.json names a living process. *)
RunningStates == {p \in Profiles : rec[p] # NoPort /\ machine[p] = "on"}

MachinesAt(place) == lock.at = place
MachinesGo(place) == lock' = [lock EXCEPT !.at = place]
Release == lock' = NoCommand
Take(command) ==
  /\ MachinesAt("idle") /\ commands < MaxCommands
  /\ commands' = commands + 1
  /\ lock' = command

Machines == <<machine, rec, plugged>>
Network == <<switch, file, faulty>>

-----------------------------------------------------------------------------
(* run: the port of a machine that runs already, or the first one no running
   machine uses. *)
RunPorts == IF RunningStates = {} THEN Ports ELSE {rec[p] : p \in RunningStates}

RunMachines(ps, graphic) ==
  /\ \E n \in RunPorts :
       Take([at |-> "network", todo |-> ps, port |-> n, later |-> {},
             mode |-> IF graphic THEN "graphic" ELSE "headless"])
  /\ UNCHANGED <<Machines, Network>>

(* ensure_network: a switch that its file shows alive is used; otherwise the
   port, or another one that can be bound, gets a new switch, which writes its
   file itself.  The command waits a second for that file, not longer. *)
EnsureNetwork ==
  /\ MachinesAt("network")
  /\ \/ lock.port \in file /\ switch[lock.port] = "up" /\ MachinesGo("machines") /\ UNCHANGED switch
     \/ /\ ~ (lock.port \in file /\ switch[lock.port] = "up")
        /\ \E n \in {m \in Ports : switch[m] = "none"} :
             /\ switch' = [switch EXCEPT ![n] = "new"]
             /\ lock' = [lock EXCEPT !.at = "wait", !.port = n]
     \/ Release /\ UNCHANGED switch
  /\ UNCHANGED <<Machines, file, faulty, commands>>

AwaitNetwork ==
  /\ MachinesAt("wait")
  /\ faulty' = (faulty \/ lock.port \notin file)
  /\ MachinesGo("machines")
  /\ UNCHANGED <<Machines, switch, file, commands>>

LaunchMachine(p) ==
  /\ MachinesAt("machines") /\ p \in lock.todo
  /\ p \notin RunningStates
  /\ \/ /\ machine[p] = "off"
        /\ machine' = [machine EXCEPT ![p] = "stray"]
        /\ plugged' = [plugged EXCEPT ![p] = lock.port]
        /\ lock' = [lock EXCEPT !.at = "record", !.todo = {p}, !.later = lock.todo \ {p}]
     \/ Release /\ UNCHANGED <<machine, plugged>>
  /\ UNCHANGED <<rec, Network, commands>>

AlreadyRunning(p) ==
  /\ MachinesAt("machines") /\ p \in lock.todo \cap RunningStates
  /\ lock' = [lock EXCEPT !.todo = @ \ {p}]
  /\ UNCHANGED <<Machines, Network, commands>>

(* While a profile is being started, todo holds it and later the others. *)
NextProfile == lock' = [lock EXCEPT !.at = "machines", !.todo = lock.later, !.later = {}]

RecordMachine(p) ==
  /\ MachinesAt("record") /\ p \in lock.todo
  /\ rec' = [rec EXCEPT ![p] = lock.port]
  /\ machine' = [machine EXCEPT ![p] = IF @ = "stray" THEN "on" ELSE @]
  /\ IF lock.mode = "graphic" THEN MachinesGo("client") ELSE NextProfile
  /\ UNCHANGED <<plugged, Network, commands>>

(* The display client is started once the endpoint answers; if that fails,
   this machine is stopped again and with it the command. *)
StartClient(p) ==
  /\ MachinesAt("client") /\ p \in lock.todo
  /\ \/ NextProfile
     \/ lock' = [lock EXCEPT !.at = "halt", !.todo = {p}, !.later = {}, !.mode = "stop"]
  /\ UNCHANGED <<Machines, Network, commands>>

EndRun ==
  /\ MachinesAt("machines") /\ lock.todo = {}
  /\ Release
  /\ UNCHANGED <<Machines, Network, commands>>

-----------------------------------------------------------------------------
(* stop, at once or gracefully: what does not power off is then preserved. *)
StopMachines(ps, mode) ==
  /\ Take([at |-> "halt", todo |-> ps, port |-> NoPort, later |-> {}, mode |-> mode])
  /\ UNCHANGED <<Machines, Network>>

HaltOne(p) ==
  /\ MachinesAt("halt") /\ p \in lock.todo
  /\ lock' = [lock EXCEPT !.todo = @ \ {p}]
  /\ \/ rec[p] = NoPort /\ UNCHANGED <<machine, rec>>
     \/ /\ lock.mode = "graceful" /\ p \in RunningStates   \* preserved
        /\ UNCHANGED <<machine, rec>>
     \/ /\ rec[p] # NoPort
        /\ lock.mode = "graceful" => p \notin RunningStates
        /\ rec' = [rec EXCEPT ![p] = NoPort]
        /\ machine' = [machine EXCEPT ![p] = IF @ = "on" THEN "off" ELSE @]
  /\ UNCHANGED <<plugged, Network, commands>>

(* The switches are stopped only when no machine is running, then all that
   have a file. *)
AllAskedAreStopped == lock.mode = "stop"
NothingRemains == RunningStates = {}

HaltNetwork ==
  /\ MachinesAt("halt") /\ lock.todo = {}
  /\ IF NothingRemains
     THEN /\ switch' = [n \in Ports |-> IF n \in file THEN "none" ELSE switch[n]]
          /\ file' = {}
     ELSE UNCHANGED <<switch, file>>
  /\ Release
  /\ UNCHANGED <<Machines, faulty, commands>>

MachinesCommandDies ==
  /\ ~ MachinesAt("idle")
  /\ Release
  /\ UNCHANGED <<Machines, Network, commands>>

-----------------------------------------------------------------------------
(* The processes themselves. *)
MachineEnds(p) ==
  /\ machine[p] # "off"
  /\ machine' = [machine EXCEPT ![p] = "off"]
  /\ UNCHANGED <<rec, plugged, Network, lock, commands>>

SwitchWrites(n) ==
  /\ switch[n] = "new"
  /\ switch' = [switch EXCEPT ![n] = "up"]
  /\ file' = file \cup {n}
  /\ UNCHANGED <<Machines, lock, commands, faulty>>

SwitchEnds(n) ==
  /\ switch[n] # "none"
  /\ switch' = [switch EXCEPT ![n] = "none"]
  /\ faulty' = TRUE
  /\ UNCHANGED <<Machines, file, lock, commands>>

MachinesNext ==
  \/ \E ps \in SUBSET Profiles \ {{}} :
       (\E graphic \in BOOLEAN : RunMachines(ps, graphic)) \/ (\E mode \in {"stop", "graceful"} : StopMachines(ps, mode))
  \/ \E p \in Profiles :
       \/ LaunchMachine(p) \/ AlreadyRunning(p) \/ RecordMachine(p)
       \/ StartClient(p) \/ HaltOne(p) \/ MachineEnds(p)
  \/ EnsureNetwork \/ AwaitNetwork \/ EndRun \/ HaltNetwork \/ MachinesCommandDies
  \/ \E n \in Ports : SwitchWrites(n) \/ SwitchEnds(n)

MachinesSpec == MachinesInit /\ [][MachinesNext]_machinesVars

-----------------------------------------------------------------------------
(* MachinesShareASwitch: as long as no switch ended by itself or
   needed more than the second it is given to write its file, the machines
   that run.json names as running are all connected to one switch, and it is
   there: no stop, preserved machine, failed start or death of a command has
   split the network or taken it away under them. *)
MachinesShareASwitch ==
  ~ faulty =>
    /\ \A p \in RunningStates : switch[plugged[p]] # "none"
    /\ \A p, q \in RunningStates : plugged[p] = plugged[q]
=============================================================================
