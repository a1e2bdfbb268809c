----------------------------- MODULE LabProofs -----------------------------
(***************************************************************************)
(* Theorems about LabManager: installations, machines, registrations and   *)
(* disks, for any number of attempts, profiles, ports, nodes, backups,     *)
(* snapshots and launches.                                                 *)
(***************************************************************************)
EXTENDS LabInstall, LabMachines, LabImages, LabDisks, FiniteSetTheorems, TLAPS

(***************************************************************************)
(* Installation.  As long as every installer is recorded, at most one is   *)
(* alive and the job names it; the log tells of more completions than the  *)
(* job's mark only when the last installer has completed the disk.         *)
(***************************************************************************)
Jobs == [status : JobStatus, pid : Nat, mark : Nat, unattended : BOOLEAN]
InstallPlaces == {"idle", "create", "prepare", "launch", "record", "register", "finalized"}

InstallTypes ==
  /\ job \in Jobs \cup {NoJob} /\ step \in [at : InstallPlaces, unattended : BOOLEAN]
  /\ starts \in Nat /\ finished \in Nat /\ finished <= starts
  /\ installer \in {{}, {starts}} /\ strayed \in BOOLEAN
  /\ step.at \in {"launch", "record", "register", "finalized"} => job \in Jobs

InstallerIsKnown ==
  installer # {} => \/ Holds("record")
                    \/ Holds("idle") /\ job \in Jobs /\ job.pid = starts

HintIsTrue == job \in Jobs /\ finished > job.mark => target = "complete" /\ finished = starts

StagesAreTrue ==
  /\ Holds("create") => job = NoJob
  /\ Holds("launch") => finished = job.mark
  /\ Holds("register") => installer = {} /\ (step.unattended => target = "complete")

InstallIInv ==
  /\ InstallTypes
  /\ ~strayed => /\ InstallerIsKnown /\ HintIsTrue /\ StagesAreTrue
                 /\ installed # NoJob /\ installed.unattended => installed.content = "complete"

LEMMA InstallStarting == InstallInit => InstallIInv
<1>1. NoJob \notin Jobs
  BY LabInstallAssumption DEF Jobs
<1>. SUFFICES ASSUME InstallInit
              PROVE  InstallIInv
  OBVIOUS
<1>2. step.at = "idle" /\ step \in [at : InstallPlaces, unattended : BOOLEAN]
  BY DEF InstallInit, AtRest, InstallPlaces
<1>3. InstallTypes
  <2>1. job \in Jobs \cup {NoJob} /\ installer \in {{}, {starts}} /\ strayed \in BOOLEAN
    BY DEF InstallInit
  <2>2. starts \in Nat /\ finished \in Nat /\ finished <= starts
    BY DEF InstallInit
  <2>. QED  BY <1>2, <2>1, <2>2 DEF InstallTypes
<1>4. InstallerIsKnown /\ HintIsTrue /\ StagesAreTrue /\ installed = NoJob
  BY <1>1, <1>2 DEF InstallInit, InstallerIsKnown, HintIsTrue, StagesAreTrue, Holds
<1>. QED  BY <1>3, <1>4 DEF InstallIInv

LEMMA InstallStep == InstallIInv /\ [InstallNext]_installVars => InstallIInv'
<1>. SUFFICES ASSUME InstallIInv, [InstallNext]_installVars
              PROVE  InstallIInv'
  OBVIOUS
<1>. USE DEF InstallIInv, Holds
<1>0. InstallTypes /\ NoJob \notin Jobs /\ step \in [at : InstallPlaces, unattended : BOOLEAN]
  BY LabInstallAssumption DEF InstallTypes, Jobs, JobStatus
<1>1. CASE UNCHANGED installVars
  BY <1>1 DEF installVars, InstallTypes, InstallerIsKnown, HintIsTrue, StagesAreTrue
<1>2. ASSUME NEW unattended \in BOOLEAN, NEW resume \in BOOLEAN, NEW confirm \in BOOLEAN, StartInstall(unattended, resume, confirm)
      PROVE  InstallIInv'
  <2>1. ~strayed => installer = {}
    BY <1>0, <1>2 DEF StartInstall, Recorded, InstallTypes, InstallerIsKnown
  <2>. QED  BY <1>0, <1>2, <2>1 DEF StartInstall, InstallTypes, InstallerIsKnown, HintIsTrue, StagesAreTrue, InstallPlaces
<1>3. CASE CreateTarget
  BY <1>0, <1>3 DEF CreateTarget, Steps, InstallTypes, InstallerIsKnown, HintIsTrue, StagesAreTrue, InstallPlaces
<1>4. CASE Prepare
  <2>1. job' = [status |-> "preparing", pid |-> 0, mark |-> finished, unattended |-> step.unattended] /\ job' \in Jobs
    BY <1>0, <1>4 DEF Prepare, LogStart, Jobs, JobStatus, InstallTypes
  <2>. QED  BY <1>0, <1>4, <2>1 DEF Prepare, Steps, InstallTypes, InstallerIsKnown, HintIsTrue, StagesAreTrue, InstallPlaces
<1>5. CASE LaunchInstaller
  <2>1. CASE /\ installer = {} /\ starts' = starts + 1 /\ installer' = {starts + 1} /\ Steps("record") /\ UNCHANGED job
    <3>1. step' = [step EXCEPT !.at = "record"] /\ step.at = "launch" /\ UNCHANGED <<target, finished, installed, strayed>>
      BY <1>5, <2>1 DEF LaunchInstaller, Steps
    <3>2. step' \in [at : InstallPlaces, unattended : BOOLEAN] /\ step'.at = "record"
      BY <1>0, <3>1 DEF InstallPlaces
    <3>3. job \in Jobs /\ job.mark \in Nat
      BY <1>0, <3>1 DEF InstallTypes, Jobs
    <3>4. InstallTypes'
      BY <1>0, <2>1, <3>1, <3>2, <3>3 DEF InstallTypes
    <3>5. ~strayed => InstallerIsKnown' /\ HintIsTrue' /\ StagesAreTrue'
      BY <1>0, <2>1, <3>1, <3>2, <3>3 DEF InstallerIsKnown, HintIsTrue, StagesAreTrue
    <3>. QED  BY <3>1, <3>4, <3>5
  <2>2. CASE job' = [job EXCEPT !.status = "failed"] /\ Leaves /\ UNCHANGED <<installer, starts>>
    <3>1. job' \in Jobs /\ job'.pid = job.pid /\ job'.mark = job.mark
      BY <1>0, <1>5, <2>2 DEF LaunchInstaller, InstallTypes, Jobs, JobStatus
    <3>. QED  BY <1>0, <1>5, <2>2, <3>1 DEF LaunchInstaller, Leaves, AtRest, InstallTypes, InstallerIsKnown, HintIsTrue, StagesAreTrue, InstallPlaces
  <2>. QED  BY <1>5, <2>1, <2>2 DEF LaunchInstaller
<1>6. CASE RecordInstaller
  <2>1. job' \in Jobs /\ job'.pid = starts /\ job'.mark = job.mark
    BY <1>0, <1>6 DEF RecordInstaller, InstallTypes, Jobs, JobStatus
  <2>. QED  BY <1>0, <1>6, <2>1 DEF RecordInstaller, Leaves, AtRest, InstallTypes, InstallerIsKnown, HintIsTrue, StagesAreTrue, InstallPlaces
<1>7. CASE StopInstall
  <2>1. job \in Jobs /\ job' \in Jobs /\ job'.pid = job.pid /\ job'.mark = job.mark /\ installer' \in {{}, installer}
    BY <1>0, <1>7 DEF StopInstall, InstallTypes, Jobs, JobStatus
  <2>. QED  BY <1>0, <1>7, <2>1 DEF StopInstall, InstallTypes, InstallerIsKnown, HintIsTrue, StagesAreTrue, InstallPlaces
<1>8. CASE FinalizeInstall
  <2>1. job \in Jobs /\ (job.unattended => finished > job.mark) /\ installer = {} /\ job.unattended \in BOOLEAN
    BY <1>0, <1>8 DEF FinalizeInstall, CompletionHint, InstallTypes, Jobs, JobStatus
  <2>. QED  BY <1>0, <1>8, <2>1 DEF FinalizeInstall, InstallTypes, InstallerIsKnown, HintIsTrue, StagesAreTrue, InstallPlaces
<1>9. CASE RegisterInstalled
  BY <1>0, <1>9 DEF RegisterInstalled, Steps, InstallTypes, InstallerIsKnown, HintIsTrue, StagesAreTrue, InstallPlaces
<1>10. CASE MarkFinalized
  <2>1. job \in Jobs => job' \in Jobs /\ job'.pid = job.pid /\ job'.mark = job.mark
    BY <1>0, <1>10 DEF MarkFinalized, InstallTypes, Jobs, JobStatus
  <2>. QED  BY <1>0, <1>10, <2>1 DEF MarkFinalized, Leaves, AtRest, InstallTypes, InstallerIsKnown, HintIsTrue, StagesAreTrue, InstallPlaces
<1>11. CASE RemoveInstalled
  BY <1>0, <1>11 DEF RemoveInstalled, InstallTypes, InstallerIsKnown, HintIsTrue, StagesAreTrue
<1>12. CASE CommandDies
  BY <1>0, <1>12 DEF CommandDies, Leaves, AtRest, InstallTypes, InstallerIsKnown, HintIsTrue, StagesAreTrue, InstallPlaces
<1>13. CASE InstallerWrites \/ InstallerCompletes \/ InstallerEnds
  BY <1>0, <1>13 DEF InstallerWrites, InstallerCompletes, InstallerEnds, InstallTypes, InstallerIsKnown, HintIsTrue, StagesAreTrue, Jobs
<1>. QED
  BY <1>1, <1>2, <1>3, <1>4, <1>5, <1>6, <1>7, <1>8, <1>9, <1>10, <1>11, <1>12, <1>13 DEF InstallNext

(* The base of an unattended installation is a copy of a disk that the last installer completed, whatever attempts *)
(* were stopped or cut short, if every installer was recorded (finalize_install).                                    *)
THEOREM InstalledAlwaysMeansComplete == InstallSpec => []InstalledMeansComplete
<1>1. InstallIInv => InstalledMeansComplete
  BY DEF InstallIInv, InstalledMeansComplete
<1>. QED  BY <1>1, InstallStarting, InstallStep, PTL DEF InstallSpec

(***************************************************************************)
(* Machines.  What run.json names is where the machine is plugged in; as   *)
(* long as no switch has failed, a file tells of a switch that is there,   *)
(* and a command works on the port of whatever runs.                       *)
(***************************************************************************)
MachinePlaces == {"idle", "network", "wait", "machines", "record", "client", "halt"}
Locks == [at : MachinePlaces, todo : SUBSET Profiles, port : Ports \cup {NoPort}, later : SUBSET Profiles,
          mode : {"none", "graphic", "headless", "stop", "graceful"}]
Starting == lock.at \in {"machines", "record", "client"}

MachinesTypes ==
  /\ machine \in [Profiles -> {"off", "stray", "on"}]
  /\ rec \in [Profiles -> Ports \cup {NoPort}] /\ plugged \in [Profiles -> Ports \cup {NoPort}]
  /\ switch \in [Ports -> {"none", "new", "up"}] /\ file \subseteq Ports
  /\ lock \in Locks /\ faulty \in BOOLEAN
  /\ lock.at \in {"network", "wait"} \/ Starting => lock.port \in Ports

RecordsArePlugs ==
  /\ \A p \in RunningStates : rec[p] = plugged[p]
  /\ MachinesAt("record") => \A p \in lock.todo : machine[p] # "on" /\ plugged[p] = lock.port

FilesAreTrue == \A n \in Ports : n \in file <=> switch[n] = "up"

OneNetwork ==
  /\ \A p \in RunningStates : switch[plugged[p]] = "up"
  /\ \A p, q \in RunningStates : plugged[p] = plugged[q]
  /\ MachinesAt("network") \/ Starting => \A p \in RunningStates : plugged[p] = lock.port
  /\ MachinesAt("wait") => RunningStates = {}
  /\ Starting => switch[lock.port] = "up"

MachinesIInv == MachinesTypes /\ RecordsArePlugs /\ (~faulty => FilesAreTrue /\ OneNetwork)

LEMMA LockTypes == NoCommand \in Locks /\ NoCommand.at = "idle"
BY DEF NoCommand, Locks, MachinePlaces

LEMMA MachinesStarting == MachinesInit => MachinesIInv
<1>. SUFFICES ASSUME MachinesInit
              PROVE  MachinesIInv
  OBVIOUS
<1>1. RunningStates = {}
  BY DEF MachinesInit, RunningStates
<1>2. lock = NoCommand /\ lock \in Locks /\ lock.at = "idle"
  BY LockTypes DEF MachinesInit
<1>. QED  BY <1>1, <1>2 DEF MachinesInit, MachinesIInv, MachinesTypes, RecordsArePlugs, FilesAreTrue, OneNetwork, Starting, MachinesAt

LEMMA RunningPorts ==
  ASSUME MachinesTypes, NEW p \in RunningStates
  PROVE  p \in Profiles /\ rec[p] \in Ports /\ machine[p] = "on"
BY DEF MachinesTypes, RunningStates

(* A step that starts no machine and leaves the network: the command goes on, ends, or begins where what runs is. *)
LEMMA NothingStarted ==
  ASSUME MachinesIInv, MachinesTypes', UNCHANGED <<plugged, switch, file, faulty>>,
         RunningStates' \subseteq RunningStates, \A p \in RunningStates' : rec'[p] = rec[p],
         lock'.at = "record" => \A p \in lock'.todo : machine'[p] # "on" /\ plugged[p] = lock'.port,
         lock'.at = "network" => \/ \A p \in RunningStates' : FALSE
                                 \/ \E p \in RunningStates : lock'.port = plugged[p],
         Starting' => lock'.port = lock.port /\ Starting,
         lock'.at # "wait"
  PROVE  MachinesIInv'
<1>1. RecordsArePlugs'
  BY DEF MachinesIInv, RecordsArePlugs, MachinesAt
<1>2. ASSUME ~faulty
      PROVE  FilesAreTrue' /\ OneNetwork'
  BY <1>2 DEF MachinesIInv, FilesAreTrue, OneNetwork, MachinesAt
<1>. QED  BY <1>1, <1>2 DEF MachinesIInv

LEMMA CommandsStep ==
  ASSUME MachinesIInv, NEW ps \in SUBSET Profiles,
         (\E graphic \in BOOLEAN : RunMachines(ps, graphic)) \/ (\E mode \in {"stop", "graceful"} : StopMachines(ps, mode))
  PROVE  MachinesIInv'
<1>0. MachinesTypes /\ RecordsArePlugs /\ UNCHANGED <<machine, rec, plugged, switch, file, faulty>> /\ RunningStates' = RunningStates
  BY DEF MachinesIInv, RunMachines, StopMachines, Machines, Network, RunningStates
<1>1. ASSUME NEW graphic \in BOOLEAN, RunMachines(ps, graphic)
      PROVE  MachinesIInv'
  <2>1. PICK n \in RunPorts : lock' = [at |-> "network", todo |-> ps, port |-> n, later |-> {},
                                       mode |-> IF graphic THEN "graphic" ELSE "headless"]
    BY <1>1 DEF RunMachines, Take
  <2>2. n \in Ports /\ (RunningStates # {} => \E p \in RunningStates : n = plugged[p])
    BY <1>0, RunningPorts DEF RunPorts, RecordsArePlugs
  <2>3. lock' \in Locks /\ lock'.at = "network" /\ lock'.port = n
    BY <2>1, <2>2 DEF Locks, MachinePlaces
  <2>4. MachinesTypes' /\ ~Starting'
    BY <1>0, <2>2, <2>3 DEF MachinesTypes, Starting
  <2>. QED  BY <1>0, <2>2, <2>3, <2>4, NothingStarted
<1>2. ASSUME NEW mode \in {"stop", "graceful"}, StopMachines(ps, mode)
      PROVE  MachinesIInv'
  <2>1. lock' \in Locks /\ lock'.at = "halt"
    BY <1>2 DEF StopMachines, Take, Locks, MachinePlaces
  <2>2. MachinesTypes' /\ ~Starting'
    BY <1>0, <2>1 DEF MachinesTypes, Starting
  <2>. QED  BY <1>0, <2>1, <2>2, NothingStarted
<1>. QED  BY <1>1, <1>2

(* A command that ends leaves everything as it is. *)
LEMMA Releasing ==
  ASSUME MachinesIInv, Release, UNCHANGED <<machine, rec, plugged, switch, file, faulty>>
  PROVE  MachinesIInv'
<1>1. lock' \in Locks /\ lock'.at = "idle"
  BY LockTypes DEF Release
<1>2. MachinesTypes' /\ ~Starting' /\ RunningStates' = RunningStates
  BY <1>1 DEF MachinesIInv, MachinesTypes, Starting, RunningStates
<1>. QED  BY <1>1, <1>2, NothingStarted

LEMMA NetworkStep ==
  ASSUME MachinesIInv, EnsureNetwork \/ AwaitNetwork
  PROVE  MachinesIInv'
<1>0. MachinesTypes /\ RecordsArePlugs /\ UNCHANGED <<machine, rec, plugged, file>> /\ RunningStates' = RunningStates
  BY DEF MachinesIInv, EnsureNetwork, AwaitNetwork, Machines, RunningStates
<1>1. CASE EnsureNetwork
  <2>0. lock.at = "network" /\ lock.port \in Ports /\ UNCHANGED faulty
    BY <1>0, <1>1 DEF EnsureNetwork, MachinesAt, MachinesTypes
  <2>1. CASE lock.port \in file /\ switch[lock.port] = "up" /\ MachinesGo("machines") /\ UNCHANGED switch
    <3>1. lock' \in Locks /\ lock'.at = "machines" /\ lock'.port = lock.port
      BY <1>0, <2>1 DEF MachinesGo, MachinePlaces, MachinesTypes, Locks
    <3>2. MachinesTypes'
      BY <1>0, <2>0, <2>1, <3>1 DEF MachinesTypes
    <3>3. RecordsArePlugs'
      BY <1>0, <3>1 DEF RecordsArePlugs, MachinesAt
    <3>4. ~faulty => FilesAreTrue' /\ OneNetwork'
      BY <1>0, <2>0, <2>1, <3>1 DEF MachinesIInv, FilesAreTrue, OneNetwork, MachinesAt, Starting
    <3>. QED  BY <2>0, <3>2, <3>3, <3>4 DEF MachinesIInv
  <2>2. ASSUME NEW n \in Ports, switch[n] = "none", ~ (lock.port \in file /\ switch[lock.port] = "up"),
               switch' = [switch EXCEPT ![n] = "new"], lock' = [lock EXCEPT !.at = "wait", !.port = n]
        PROVE  MachinesIInv'
    <3>1. lock' \in Locks /\ lock'.at = "wait" /\ lock'.port = n
      BY <1>0, <2>2 DEF MachinePlaces, MachinesTypes, Locks
    <3>2. MachinesTypes'
      BY <1>0, <2>0, <2>2, <3>1 DEF MachinesTypes, Starting
    <3>3. RecordsArePlugs'
      BY <1>0, <3>1 DEF RecordsArePlugs, MachinesAt
    <3>4. ASSUME ~faulty
          PROVE  FilesAreTrue' /\ OneNetwork'
      <4>1. RunningStates = {}
        BY <2>0, <2>2, <3>4 DEF MachinesIInv, FilesAreTrue, OneNetwork, MachinesAt
      <4>. QED  BY <1>0, <2>2, <3>1, <3>4, <4>1 DEF MachinesIInv, MachinesTypes, FilesAreTrue, OneNetwork, MachinesAt, Starting
    <3>. QED  BY <2>0, <3>2, <3>3, <3>4 DEF MachinesIInv
  <2>3. CASE Release /\ UNCHANGED switch
    BY <1>0, <2>0, <2>3, Releasing
  <2>. QED  BY <1>1, <2>1, <2>2, <2>3 DEF EnsureNetwork
<1>2. CASE AwaitNetwork
  <2>0. lock.at = "wait" /\ lock.port \in Ports /\ UNCHANGED switch /\ faulty' = (faulty \/ lock.port \notin file)
    BY <1>0, <1>2 DEF AwaitNetwork, MachinesAt, MachinesTypes
  <2>1. lock' \in Locks /\ lock'.at = "machines" /\ lock'.port = lock.port
    BY <1>0, <1>2 DEF AwaitNetwork, MachinesGo, MachinePlaces, MachinesTypes, Locks
  <2>2. MachinesTypes'
    BY <1>0, <2>0, <2>1 DEF MachinesTypes
  <2>3. RecordsArePlugs'
    BY <1>0, <2>1 DEF RecordsArePlugs, MachinesAt
  <2>4. ~faulty' => FilesAreTrue' /\ OneNetwork'
    BY <1>0, <2>0, <2>1 DEF MachinesIInv, FilesAreTrue, OneNetwork, MachinesAt, Starting
  <2>. QED  BY <2>2, <2>3, <2>4 DEF MachinesIInv
<1>. QED  BY <1>1, <1>2

LEMMA StartingStep ==
  ASSUME MachinesIInv, NEW p \in Profiles, LaunchMachine(p) \/ AlreadyRunning(p) \/ RecordMachine(p) \/ StartClient(p)
  PROVE  MachinesIInv'
<1>0. MachinesTypes /\ RecordsArePlugs /\ UNCHANGED <<switch, file, faulty>>
  BY DEF MachinesIInv, LaunchMachine, AlreadyRunning, RecordMachine, StartClient, Network
<1>1. CASE LaunchMachine(p)
  <2>1. ASSUME machine' = [machine EXCEPT ![p] = "stray"], plugged' = [plugged EXCEPT ![p] = lock.port],
               lock' = [lock EXCEPT !.at = "record", !.todo = {p}, !.later = lock.todo \ {p}]
        PROVE  MachinesIInv'
    <3>0. lock.at = "machines" /\ lock.port \in Ports /\ p \notin RunningStates /\ UNCHANGED rec
      BY <1>0, <1>1 DEF LaunchMachine, MachinesAt, MachinesTypes, Starting
    <3>1. lock' \in Locks /\ lock'.at = "record" /\ lock'.port = lock.port /\ lock'.todo = {p}
      BY <1>0, <2>1 DEF MachinePlaces, MachinesTypes, Locks
    <3>2. MachinesTypes'
      BY <1>0, <2>1, <3>0, <3>1 DEF MachinesTypes
    <3>3. /\ RunningStates' = RunningStates
          /\ \A q \in RunningStates : q # p /\ q \in Profiles /\ plugged'[q] = plugged[q]
          /\ plugged'[p] = lock.port /\ machine'[p] = "stray"
      BY <1>0, <2>1, <3>0 DEF RunningStates, MachinesTypes
    <3>4. RecordsArePlugs'
      BY <1>0, <3>0, <3>1, <3>3 DEF RecordsArePlugs, MachinesAt
    <3>5. ~faulty => FilesAreTrue' /\ OneNetwork'
      BY <1>0, <3>0, <3>1, <3>3 DEF MachinesIInv, FilesAreTrue, OneNetwork, MachinesAt, Starting
    <3>. QED  BY <1>0, <3>2, <3>4, <3>5 DEF MachinesIInv
  <2>2. CASE Release /\ UNCHANGED <<machine, plugged>>
    BY <1>0, <1>1, <2>2, Releasing DEF LaunchMachine
  <2>. QED  BY <1>1, <2>1, <2>2 DEF LaunchMachine
<1>2. CASE AlreadyRunning(p)
  <2>1. lock' = [lock EXCEPT !.todo = @ \ {p}] /\ lock.at = "machines" /\ UNCHANGED <<machine, rec, plugged>>
    BY <1>2 DEF AlreadyRunning, MachinesAt, Machines
  <2>2. lock' \in Locks /\ lock'.at = "machines" /\ lock'.port = lock.port
    BY <1>0, <2>1 DEF MachinesTypes, Locks
  <2>3. MachinesTypes' /\ RunningStates' = RunningStates /\ Starting
    BY <1>0, <2>1, <2>2 DEF MachinesTypes, RunningStates, Starting
  <2>. QED  BY <1>0, <2>1, <2>2, <2>3, NothingStarted
<1>3. CASE RecordMachine(p)
  <2>0. /\ lock.at = "record" /\ lock.port \in Ports /\ p \in lock.todo /\ UNCHANGED plugged
        /\ rec' = [rec EXCEPT ![p] = lock.port] /\ machine' = [machine EXCEPT ![p] = IF @ = "stray" THEN "on" ELSE @]
    BY <1>0, <1>3 DEF RecordMachine, MachinesAt, MachinesTypes, Starting
  <2>1. lock' \in Locks /\ lock'.at \in {"machines", "client"} /\ lock'.port = lock.port
    BY <1>0, <1>3 DEF RecordMachine, MachinesGo, NextProfile, MachinePlaces, MachinesTypes, Locks
  <2>2. MachinesTypes'
    BY <1>0, <2>0, <2>1 DEF MachinesTypes
  <2>3. /\ RunningStates' \subseteq RunningStates \cup {p} /\ plugged[p] = lock.port
        /\ rec'[p] = lock.port /\ \A q \in Profiles \ {p} : rec'[q] = rec[q]
    BY <1>0, <2>0 DEF RunningStates, MachinesTypes, RecordsArePlugs, MachinesAt
  <2>4. RecordsArePlugs'
    BY <1>0, <2>0, <2>1, <2>3 DEF RecordsArePlugs, MachinesAt, RunningStates
  <2>5. ~faulty => FilesAreTrue' /\ OneNetwork'
    BY <1>0, <2>0, <2>1, <2>3 DEF MachinesIInv, FilesAreTrue, OneNetwork, MachinesAt, Starting
  <2>. QED  BY <1>0, <2>2, <2>4, <2>5 DEF MachinesIInv
<1>4. CASE StartClient(p)
  <2>0. /\ UNCHANGED <<machine, rec, plugged>> /\ lock.at = "client" /\ lock \in Locks
        /\ \/ lock' = [lock EXCEPT !.at = "machines", !.todo = lock.later, !.later = {}]
           \/ lock' = [lock EXCEPT !.at = "halt", !.todo = {p}, !.later = {}, !.mode = "stop"]
    BY <1>0, <1>4 DEF StartClient, NextProfile, MachinesAt, Machines, MachinesTypes
  <2>a. ASSUME lock' = [lock EXCEPT !.at = "machines", !.todo = lock.later, !.later = {}]
        PROVE  lock' \in Locks /\ lock'.at = "machines" /\ lock'.port = lock.port
    BY <2>0, <2>a DEF MachinePlaces, Locks
  <2>b. ASSUME lock' = [lock EXCEPT !.at = "halt", !.todo = {p}, !.later = {}, !.mode = "stop"]
        PROVE  lock' \in Locks /\ lock'.at = "halt" /\ lock'.port = lock.port
    BY <2>0, <2>b DEF MachinePlaces, Locks
  <2>1. lock' \in Locks /\ lock'.at \in {"machines", "halt"} /\ lock'.port = lock.port
    BY <2>0, <2>a, <2>b
  <2>2. MachinesTypes' /\ RunningStates' = RunningStates /\ Starting
    BY <1>0, <2>0, <2>1 DEF MachinesTypes, RunningStates, Starting
  <2>. QED  BY <1>0, <2>0, <2>1, <2>2, NothingStarted
<1>. QED  BY <1>1, <1>2, <1>3, <1>4

LEMMA HaltStep ==
  ASSUME MachinesIInv, HaltNetwork \/ \E p \in Profiles : HaltOne(p)
  PROVE  MachinesIInv'
<1>0. MachinesTypes /\ RecordsArePlugs /\ UNCHANGED faulty /\ lock.at = "halt"
  BY DEF MachinesIInv, HaltNetwork, HaltOne, Network, MachinesAt
<1>1. ASSUME NEW p \in Profiles, HaltOne(p)
      PROVE  MachinesIInv'
  <2>1. lock' = [lock EXCEPT !.todo = @ \ {p}] /\ UNCHANGED <<plugged, switch, file>>
    BY <1>1 DEF HaltOne, Network
  <2>2. lock' \in Locks /\ lock'.at = "halt"
    BY <1>0, <2>1 DEF MachinesTypes, Locks
  <2>3. \/ UNCHANGED <<machine, rec>>
        \/ /\ rec' = [rec EXCEPT ![p] = NoPort]
           /\ machine' = [machine EXCEPT ![p] = IF @ = "on" THEN "off" ELSE @]
    BY <1>1 DEF HaltOne
  <2>4. MachinesTypes' /\ ~Starting'
    BY <1>0, <2>1, <2>2, <2>3 DEF MachinesTypes, Starting
  <2>5. RunningStates' \subseteq RunningStates /\ \A q \in RunningStates' : rec'[q] = rec[q]
    BY <1>0, <2>3 DEF MachinesTypes, RunningStates
  <2>. QED  BY <1>0, <2>1, <2>2, <2>4, <2>5, NothingStarted
<1>2. CASE HaltNetwork
  <2>1. CASE UNCHANGED <<switch, file>>
    BY <1>0, <1>2, <2>1, Releasing DEF HaltNetwork, Machines
  <2>2. CASE /\ RunningStates = {} /\ file' = {} /\ switch' = [n \in Ports |-> IF n \in file THEN "none" ELSE switch[n]]
    <3>1. lock' \in Locks /\ lock'.at = "idle" /\ UNCHANGED <<machine, rec, plugged>> /\ RunningStates' = {}
      BY <1>2, <2>2, LockTypes DEF HaltNetwork, Release, Machines, RunningStates
    <3>2. MachinesTypes'
      BY <1>0, <2>2, <3>1 DEF MachinesTypes, Starting
    <3>3. ~faulty => FilesAreTrue'
      BY <1>0, <2>2 DEF MachinesIInv, FilesAreTrue
    <3>. QED  BY <1>0, <3>1, <3>2, <3>3 DEF MachinesIInv, RecordsArePlugs, OneNetwork, MachinesAt, Starting
  <2>. QED  BY <1>2, <2>1, <2>2 DEF HaltNetwork, NothingRemains
<1>. QED  BY <1>1, <1>2

LEMMA MachinesStep == MachinesIInv /\ [MachinesNext]_machinesVars => MachinesIInv'
<1>. SUFFICES ASSUME MachinesIInv, [MachinesNext]_machinesVars
              PROVE  MachinesIInv'
  OBVIOUS
<1>0. MachinesTypes /\ RecordsArePlugs
  BY DEF MachinesIInv
<1>1. CASE UNCHANGED machinesVars
  BY <1>1 DEF machinesVars, MachinesIInv, MachinesTypes, RecordsArePlugs, FilesAreTrue, OneNetwork, MachinesAt, Starting, RunningStates
<1>2. CASE EndRun \/ MachinesCommandDies
  BY <1>2, Releasing DEF EndRun, MachinesCommandDies, Machines, Network
<1>3. ASSUME NEW p \in Profiles, MachineEnds(p)
      PROVE  MachinesIInv'
  <2>1. machine' = [machine EXCEPT ![p] = "off"] /\ UNCHANGED <<rec, plugged, switch, file, faulty, lock>>
    BY <1>3 DEF MachineEnds, Network
  <2>2. MachinesTypes' /\ RunningStates' \subseteq RunningStates /\ \A q \in Profiles : machine'[q] = "on" => machine[q] = "on"
    BY <1>0, <2>1 DEF MachinesTypes, RunningStates, Starting
  <2>. QED  BY <1>0, <2>1, <2>2 DEF MachinesIInv, RecordsArePlugs, FilesAreTrue, OneNetwork, MachinesAt, Starting, MachinesTypes, Locks
<1>4. ASSUME NEW n \in Ports, SwitchWrites(n)
      PROVE  MachinesIInv'
  <2>1. /\ switch' = [switch EXCEPT ![n] = "up"] /\ file' = file \cup {n} /\ UNCHANGED <<machine, rec, plugged, lock, faulty>>
        /\ RunningStates' = RunningStates
    BY <1>4 DEF SwitchWrites, Machines, RunningStates
  <2>2. MachinesTypes'
    BY <1>0, <2>1 DEF MachinesTypes, Starting
  <2>3. \A m \in Ports : switch[m] = "up" => switch'[m] = "up"
    BY <1>0, <2>1 DEF MachinesTypes
  <2>4. \A p \in RunningStates : plugged[p] \in Ports
    BY <1>0, RunningPorts DEF RecordsArePlugs
  <2>5. ~faulty => FilesAreTrue' /\ OneNetwork'
    BY <1>0, <2>1, <2>3, <2>4 DEF MachinesIInv, FilesAreTrue, OneNetwork, MachinesAt, Starting, MachinesTypes
  <2>. QED  BY <1>0, <2>1, <2>2, <2>5 DEF MachinesIInv, RecordsArePlugs, MachinesAt
<1>5. ASSUME NEW n \in Ports, SwitchEnds(n)
      PROVE  MachinesIInv'
  <2>1. /\ switch' = [switch EXCEPT ![n] = "none"] /\ faulty' = TRUE /\ UNCHANGED <<machine, rec, plugged, lock, file>>
        /\ RunningStates' = RunningStates
    BY <1>5 DEF SwitchEnds, Machines, RunningStates
  <2>. QED  BY <1>0, <2>1 DEF MachinesIInv, MachinesTypes, Starting, RecordsArePlugs, MachinesAt
<1>. QED
  BY <1>1, <1>2, <1>3, <1>4, <1>5, CommandsStep, NetworkStep, StartingStep, HaltStep DEF MachinesNext

(* The machines that run.json names as running are on one switch, and it is there, whichever commands started,      *)
(* preserved, stopped or abandoned them, as long as no switch failed by itself (ensure_network, stop).               *)
THEOREM MachinesAlwaysShareASwitch == MachinesSpec => []MachinesShareASwitch
<1>1. MachinesIInv => MachinesShareASwitch
  BY DEF MachinesIInv, OneNetwork, MachinesShareASwitch
<1>. QED  BY <1>1, MachinesStarting, MachinesStep, PTL DEF MachinesSpec

(***************************************************************************)
(* Registrations.  A command knows the node it works on; what a pack has   *)
(* made and not committed belongs to nodes without an image, or none that  *)
(* needs it, so that a rollback takes nothing away from an image.          *)
(***************************************************************************)
Images == [source : Sources, vars : BOOLEAN]
Tasks == [op : {"idle", "import", "pack", "matrix", "apply", "remove"},
          at : {"", "base", "register", "update", "profiles", "node", "hash", "report", "identify", "load", "check", "replace",
                "rmtree"},
          node : Nodes \cup {NoImage}, source : Sources \cup {NoImage},
          left : SUBSET Nodes, made : SUBSET ({"yaml", "vars"} \X Nodes),
          read : Nat, seen : Nat, loaded : Nat, slip : BOOLEAN]

ImagesTypes ==
  /\ versions \in Nat \ {0} /\ yaml \in [Nodes -> Nat] /\ \A n \in Nodes : yaml[n] <= versions
  /\ registered \in [Nodes -> Images \cup {NoImage}]
  /\ published \in [Nodes -> SUBSET Sources]
  /\ task \in Tasks

Complete ==
  \A n \in Nodes : registered[n] # NoImage /\ n \notin ruined =>
    registered[n].source \in published[n] /\ (registered[n].vars => n \in templates) /\ (yaml[n] > 0 \/ n \in raced)

Applying == {"identify", "load", "check", "replace"}

OpsAndPlaces ==
  /\ task.at \in {"base", "register", "update"} => task.op \in {"import", "pack"} /\ task.node \in Nodes /\ task.source \in Sources
  /\ task.at \in {"profiles", "node"} => task.op = "pack" /\ task.source \in Sources
  /\ task.at = "rmtree" => task.op = "remove" /\ task.node \in Nodes
  /\ task.at = "update" => task.op = "pack"
  /\ task.op = "matrix" => task.at \in {"hash", "report"} /\ task.node \in Nodes
  /\ task.op = "apply" => task.at \in Applying /\ task.node \in Nodes
  /\ task.op # "pack" => task.made = {}

NodeAtWork ==
  /\ task.op = "pack" /\ task.at \in {"base", "register", "update"} => task.node \in templates
  /\ task.at = "register" => task.source \in published[task.node] /\ (yaml[task.node] > 0 \/ task.node \in raced)
  /\ task.at = "update" => registered[task.node] \in Images /\ \A f \in task.made : f[2] # task.node

MadeIsFresh ==
  \A n \in Nodes : registered[n] # NoImage /\ n \notin ruined =>
    (<<"yaml", n>> \in task.made => n \in raced) /\ (<<"vars", n>> \in task.made => ~registered[n].vars)

ReportIsSound == report # NoImage /\ ~report.slip => report.probed = report.yaml

(* What a matrix and apply-matrix have read so far; a profile that is as it was identified was not changed since, *)
(* because no two of its contents are alike.                                                                       *)
ReadsAreSound ==
  /\ task.op = "matrix" /\ task.at = "hash" /\ ~task.slip => task.loaded = yaml[task.node]
  /\ task.op = "matrix" /\ task.at = "report" /\ ~task.slip => task.loaded = task.read
  /\ task.op = "apply" => report # NoImage /\ report.node = task.node
  /\ task.op = "apply" /\ task.at = "identify" /\ ~task.slip => task.read = yaml[task.node]
  /\ task.op = "apply" /\ task.at # "identify" =>
       /\ task.read = report.yaml /\ report.source = registered[task.node].source
       /\ 0 < task.seen /\ task.seen <= versions
       /\ ~task.slip => task.read = task.seen
  /\ task.op = "apply" /\ task.at = "check" /\ yaml[task.node] = task.seen => task.loaded = task.seen
  /\ task.op = "apply" /\ task.at = "replace" /\ ~task.slip => task.loaded = task.seen /\ task.seen = yaml[task.node]

ImagesIInv ==
  ImagesTypes /\ Complete /\ OpsAndPlaces /\ NodeAtWork /\ MadeIsFresh /\ ReportIsSound /\ ReadsAreSound

LEMMA NoTaskType == NoTask \in Tasks /\ NoTask.op = "idle" /\ NoTask.at = "" /\ NoTask.made = {}
BY DEF NoTask, Tasks

LEMMA ImagesStarting == ImagesInit => ImagesIInv
<1>. SUFFICES ASSUME ImagesInit
              PROVE  ImagesIInv
  OBVIOUS
<1>1. task \in Tasks /\ task.op = "idle" /\ task.at = "" /\ task.made = {}
  BY NoTaskType DEF ImagesInit
<1>2. ImagesTypes /\ \A n \in Nodes : registered[n] = NoImage
  <2>1. versions = 1 /\ yaml \in [Nodes -> Nat] /\ \A n \in Nodes : yaml[n] = 0
    BY DEF ImagesInit
  <2>2. published \in [Nodes -> SUBSET Sources] /\ registered \in [Nodes -> Images \cup {NoImage}]
    BY DEF ImagesInit
  <2>3. versions \in Nat \ {0} /\ \A n \in Nodes : yaml[n] <= versions
    BY <2>1
  <2>4. \A n \in Nodes : registered[n] = NoImage
    BY DEF ImagesInit
  <2>. QED  BY <1>1, <2>1, <2>2, <2>3, <2>4 DEF ImagesTypes
<1>3. ReportIsSound
  BY DEF ImagesInit, ReportIsSound
<1>. QED  BY <1>1, <1>2, <1>3 DEF ImagesIInv, Complete, OpsAndPlaces, NodeAtWork, MadeIsFresh, ReadsAreSound

(* A command that ends asks nothing of the files but that what they hold is complete. *)
LEMMA TaskEnds ==
  ASSUME ImagesFinish, Complete', ReportIsSound', versions' \in Nat \ {0},
         yaml' \in [Nodes -> Nat], \A n \in Nodes : yaml'[n] <= versions',
         registered' \in [Nodes -> Images \cup {NoImage}], published' \in [Nodes -> SUBSET Sources]
  PROVE  ImagesIInv'
BY NoTaskType DEF ImagesFinish, ImagesIInv, ImagesTypes, OpsAndPlaces, NodeAtWork, MadeIsFresh, ReadsAreSound

LEMMA CompleteKept ==
  ASSUME Complete, UNCHANGED <<yaml, registered, published, templates, raced, ruined>>
  PROVE  Complete'
BY DEF Complete

(* A command without the lock that writes the profile of n disturbs the reads of a command with it only if that is *)
(* noted as a slip.                                                                                                *)
LEMMA SlipKept ==
  ASSUME ImagesIInv, NEW n \in Nodes, Slip(n), UNCHANGED <<registered, report>>,
         yaml' \in [Nodes -> Nat], \A m \in Nodes \ {n} : yaml'[m] = yaml[m], yaml'[n] = 0 \/ yaml'[n] > versions,
         versions' \in Nat, versions <= versions'
  PROVE  /\ task' \in Tasks /\ task'.op = task.op /\ task'.at = task.at /\ task'.node = task.node /\ task'.source = task.source
         /\ task'.made = task.made
         /\ ReadsAreSound' /\ ReportIsSound' /\ OpsAndPlaces'
<1>0. ImagesTypes /\ OpsAndPlaces /\ ReportIsSound /\ ReadsAreSound /\ task \in Tasks /\ versions \in Nat
  BY DEF ImagesIInv, ImagesTypes
<1>1. task' = IF Unwatched(n) THEN [task EXCEPT !.slip = TRUE] ELSE task
  BY DEF Slip
<1>2. /\ task' \in Tasks /\ task'.op = task.op /\ task'.at = task.at /\ task'.node = task.node /\ task'.source = task.source
      /\ task'.made = task.made /\ task'.read = task.read /\ task'.seen = task.seen /\ task'.loaded = task.loaded
      /\ ~task'.slip => ~task.slip /\ ~Unwatched(n)
  <2>1. CASE Unwatched(n)
    BY <1>0, <1>1, <2>1 DEF Tasks
  <2>2. CASE ~Unwatched(n)
    BY <1>0, <1>1, <2>2
  <2>. QED  BY <2>1, <2>2
<1>3. task.seen \in Nat /\ task.read \in Nat /\ task.loaded \in Nat
  BY <1>0 DEF Tasks
<1>4. CASE task.op = "matrix"
  <2>1. task.node \in Nodes /\ (task.at = "hash" /\ ~task'.slip => yaml'[task.node] = yaml[task.node])
    BY <1>0, <1>2, <1>4 DEF OpsAndPlaces, Unwatched
  <2>. QED  BY <1>0, <1>2, <1>4, <2>1 DEF ReadsAreSound, ReportIsSound, OpsAndPlaces
<1>5. CASE task.op = "apply"
  <2>1. task.node \in Nodes /\ (task.at \in {"identify", "replace"} /\ ~task'.slip => yaml'[task.node] = yaml[task.node])
    BY <1>0, <1>2, <1>5 DEF OpsAndPlaces, Unwatched
  <2>2. task.at # "identify" => 0 < task.seen /\ task.seen <= versions
    BY <1>0, <1>5 DEF ReadsAreSound
  <2>3. task.at = "check" /\ yaml'[task.node] = task.seen => yaml[task.node] = task.seen
    BY <1>0, <1>3, <2>1, <2>2
  <2>4. task.at # "identify" => task.seen <= versions'
    BY <1>0, <1>3, <2>2
  <2>. QED  BY <1>0, <1>2, <1>5, <2>1, <2>2, <2>3, <2>4 DEF ReadsAreSound, ReportIsSound, OpsAndPlaces
<1>6. CASE task.op \notin {"matrix", "apply"}
  BY <1>0, <1>2, <1>6 DEF ReadsAreSound, ReportIsSound, OpsAndPlaces
<1>. QED  BY <1>2, <1>4, <1>5, <1>6

LEMMA UnlockedStep ==
  ASSUME ImagesIInv, NEW n \in Nodes, Onboard(n) \/ Edit(n) \/ DeregisterChecks(n) \/ UnlinkProfile(n)
  PROVE  ImagesIInv'
<1>0. /\ ImagesTypes /\ Complete /\ OpsAndPlaces /\ NodeAtWork /\ MadeIsFresh /\ ReportIsSound /\ ReadsAreSound
      /\ versions \in Nat \ {0}
  BY DEF ImagesIInv, ImagesTypes
<1>1. CASE Onboard(n) \/ Edit(n)
  <2>1. /\ yaml' = [yaml EXCEPT ![n] = versions + 1] /\ versions' = versions + 1 /\ Slip(n)
        /\ UNCHANGED <<registered, published, templates, report, ruined>>
        /\ raced \subseteq raced' \cup {n} /\ (task.op = "pack" => raced \subseteq raced')
    BY <1>1 DEF Onboard, Edit, NewVersion, ImageFiles, History
  <2>2. /\ yaml' \in [Nodes -> Nat] /\ yaml'[n] = versions + 1 /\ \A m \in Nodes \ {n} : yaml'[m] = yaml[m]
        /\ \A m \in Nodes : yaml'[m] <= versions'
    BY <1>0, <2>1 DEF ImagesTypes
  <2>3. /\ task' \in Tasks /\ task'.op = task.op /\ task'.at = task.at /\ task'.node = task.node /\ task'.source = task.source
        /\ task'.made = task.made /\ ReadsAreSound' /\ ReportIsSound' /\ OpsAndPlaces'
    BY <1>0, <2>1, <2>2, SlipKept
  <2>4. ImagesTypes' /\ Complete'
    BY <1>0, <2>1, <2>2, <2>3 DEF ImagesTypes, Complete
  <2>5. MadeIsFresh'
    BY <1>0, <2>1, <2>3 DEF MadeIsFresh, OpsAndPlaces
  <2>6. NodeAtWork'
    BY <1>0, <2>1, <2>2, <2>3 DEF NodeAtWork, OpsAndPlaces
  <2>. QED  BY <2>3, <2>4, <2>5, <2>6 DEF ImagesIInv
<1>2. CASE UnlinkProfile(n)
  <2>1. /\ yaml' = [yaml EXCEPT ![n] = 0] /\ Slip(n)
        /\ raced' = (IF Wanted(n) THEN raced \cup {n} ELSE raced)
        /\ UNCHANGED <<versions, registered, published, templates, report, ruined>>
    BY <1>2 DEF UnlinkProfile, ImageFiles
  <2>2. yaml' \in [Nodes -> Nat] /\ yaml'[n] = 0 /\ \A m \in Nodes \ {n} : yaml'[m] = yaml[m]
    BY <1>0, <2>1 DEF ImagesTypes
  <2>3. /\ task' \in Tasks /\ task'.op = task.op /\ task'.at = task.at /\ task'.node = task.node /\ task'.source = task.source
        /\ task'.made = task.made /\ ReadsAreSound' /\ ReportIsSound' /\ OpsAndPlaces'
    BY <1>0, <2>1, <2>2, SlipKept
  <2>4. ImagesTypes' /\ Complete'
    BY <1>0, <2>1, <2>2, <2>3 DEF ImagesTypes, Complete, Wanted
  <2>5. MadeIsFresh'
    BY <1>0, <2>1, <2>3 DEF MadeIsFresh
  <2>6. NodeAtWork'
    BY <1>0, <2>1, <2>2, <2>3 DEF NodeAtWork, OpsAndPlaces, Wanted
  <2>. QED  BY <2>3, <2>4, <2>5, <2>6 DEF ImagesIInv
<1>3. CASE DeregisterChecks(n)
  BY <1>3 DEF DeregisterChecks, ImageFiles, Profiled, History, ImagesIInv, ImagesTypes, Complete, OpsAndPlaces, NodeAtWork,
       MadeIsFresh, ReportIsSound, ReadsAreSound
<1>. QED  BY <1>1, <1>2, <1>3

(* A command that begins. *)
LEMMA BeginningStep ==
  ASSUME ImagesIInv,
         \/ PackBegins
         \/ \E n \in Nodes : MatrixLoads(n) \/ ApplyReads(n) \/ RemoveBegins(n) \/ \E s \in Sources : ImportImage(n, s)
  PROVE  ImagesIInv'
<1>0. /\ ImagesTypes /\ Complete /\ ReportIsSound /\ ImagesIdle
      /\ UNCHANGED <<yaml, versions, registered, published, templates, raced, ruined, report>>
  BY DEF ImagesIInv, PackBegins, MatrixLoads, ApplyReads, RemoveBegins, ImportImage, Files, ImageFiles, Profiled, History
<1>1. Complete' /\ ReportIsSound'
  BY <1>0, CompleteKept DEF ReportIsSound
<1>2. CASE PackBegins
  <2>1. task' \in Tasks /\ task'.op = "pack" /\ task'.at = "profiles" /\ task'.source \in Sources /\ task'.made = {}
    BY <1>2, NoTaskType DEF PackBegins, Tasks, Sources, NoTask
  <2>. QED  BY <1>0, <1>1, <2>1 DEF ImagesIInv, ImagesTypes, OpsAndPlaces, NodeAtWork, MadeIsFresh, ReadsAreSound
<1>3. ASSUME NEW n \in Nodes, NEW s \in Sources, ImportImage(n, s)
      PROVE  ImagesIInv'
  <2>1. task' \in Tasks /\ task'.op = "import" /\ task'.at = "base" /\ task'.node = n /\ task'.source = s /\ task'.made = {}
    BY <1>3, NoTaskType DEF ImportImage, Tasks, NoTask
  <2>. QED  BY <1>0, <1>1, <2>1 DEF ImagesIInv, ImagesTypes, OpsAndPlaces, NodeAtWork, MadeIsFresh, ReadsAreSound
<1>4. ASSUME NEW n \in Nodes, MatrixLoads(n)
      PROVE  ImagesIInv'
  <2>1. yaml[n] \in Nat
    BY <1>0 DEF ImagesTypes
  <2>2. task' \in Tasks /\ task'.op = "matrix" /\ task'.at = "hash" /\ task'.node = n /\ task'.loaded = yaml[n] /\ task'.made = {}
    BY <1>4, <2>1, NoTaskType DEF MatrixLoads, Tasks, NoTask
  <2>. QED  BY <1>0, <1>1, <2>2 DEF ImagesIInv, ImagesTypes, OpsAndPlaces, NodeAtWork, MadeIsFresh, ReadsAreSound
<1>5. ASSUME NEW n \in Nodes, ApplyReads(n)
      PROVE  ImagesIInv'
  <2>1. yaml[n] \in Nat /\ report # NoImage /\ report.node = n
    BY <1>0, <1>5 DEF ImagesTypes, ApplyReads
  <2>2. /\ task' \in Tasks /\ task'.op = "apply" /\ task'.at = "identify" /\ task'.node = n /\ task'.read = yaml[n]
        /\ task'.made = {}
    BY <1>5, <2>1, NoTaskType DEF ApplyReads, Tasks, NoTask
  <2>. QED
    BY <1>0, <1>1, <2>1, <2>2 DEF ImagesIInv, ImagesTypes, OpsAndPlaces, NodeAtWork, MadeIsFresh, ReadsAreSound, Applying
<1>6. ASSUME NEW n \in Nodes, RemoveBegins(n)
      PROVE  ImagesIInv'
  <2>1. task' \in Tasks /\ task'.op = "remove" /\ task'.at = "rmtree" /\ task'.node = n /\ task'.made = {}
    BY <1>6, NoTaskType DEF RemoveBegins, Tasks, NoTask
  <2>. QED  BY <1>0, <1>1, <2>1 DEF ImagesIInv, ImagesTypes, OpsAndPlaces, NodeAtWork, MadeIsFresh, ReadsAreSound
<1>. QED  BY <1>2, <1>3, <1>4, <1>5, <1>6

(* A matrix and apply-matrix go on: what they compare is what they have read. *)
LEMMA ReadingStep ==
  ASSUME ImagesIInv, MatrixHashes \/ ApplyIdentifies \/ ApplyLoads \/ ApplyChecks
  PROVE  ImagesIInv'
<1>0. /\ ImagesTypes /\ Complete /\ OpsAndPlaces /\ ReportIsSound /\ ReadsAreSound /\ task \in Tasks /\ task.node \in Nodes
      /\ task.op \in {"matrix", "apply"} /\ task.made = {}
      /\ UNCHANGED <<yaml, versions, registered, published, templates, raced, ruined, report>>
  BY DEF ImagesIInv, ImagesTypes, OpsAndPlaces, ImagesAt, MatrixHashes, ApplyIdentifies, ApplyLoads, ApplyChecks, Files, ImageFiles,
         Profiled, History
<1>1. Complete' /\ ReportIsSound' /\ yaml[task.node] \in Nat /\ yaml[task.node] <= versions /\ versions \in Nat
  BY <1>0, CompleteKept DEF ReportIsSound, ImagesTypes
<1>2. ASSUME task' \in Tasks, task'.op = task.op, task'.node = task.node, task'.made = {}, ReadsAreSound',
             \/ task.op = "matrix" /\ task'.at \in {"hash", "report"}
             \/ task.op = "apply" /\ task'.at \in Applying
      PROVE  ImagesIInv'
  BY <1>0, <1>1, <1>2 DEF ImagesIInv, ImagesTypes, OpsAndPlaces, NodeAtWork, MadeIsFresh, Applying
<1>3. CASE MatrixHashes
  <2>1. /\ task' = [task EXCEPT !.at = "report", !.read = yaml[task.node]] /\ task.op = "matrix" /\ task.at = "hash"
    BY <1>3 DEF MatrixHashes, ImagesAt
  <2>2. /\ task' \in Tasks /\ task'.op = "matrix" /\ task'.at = "report" /\ task'.node = task.node /\ task'.made = {}
        /\ task'.read = yaml[task.node] /\ task'.loaded = task.loaded /\ task'.slip = task.slip
    BY <1>0, <1>1, <2>1 DEF Tasks
  <2>3. ReadsAreSound'
    BY <1>0, <2>1, <2>2 DEF ReadsAreSound
  <2>. QED  BY <1>2, <2>1, <2>2, <2>3
<1>4. CASE ApplyIdentifies
  <2>1. /\ task' = [task EXCEPT !.at = "load", !.seen = yaml[task.node]] /\ task.op = "apply" /\ task.at = "identify"
        /\ yaml[task.node] > 0 /\ task.read = report.yaml /\ registered[task.node].source = report.source
    BY <1>4 DEF ApplyIdentifies, ImagesAt, Present, Reusable
  <2>2. /\ task' \in Tasks /\ task'.op = "apply" /\ task'.at = "load" /\ task'.node = task.node /\ task'.made = {}
        /\ task'.seen = yaml[task.node] /\ task'.read = task.read /\ task'.slip = task.slip
    BY <1>0, <1>1, <2>1 DEF Tasks
  <2>3. ReadsAreSound'
    BY <1>0, <1>1, <2>1, <2>2 DEF ReadsAreSound
  <2>. QED  BY <1>2, <2>1, <2>2, <2>3 DEF Applying
<1>5. CASE ApplyLoads
  <2>1. task' = [task EXCEPT !.at = "check", !.loaded = yaml[task.node]] /\ task.op = "apply" /\ task.at = "load"
    BY <1>5 DEF ApplyLoads, ImagesAt
  <2>2. /\ task' \in Tasks /\ task'.op = "apply" /\ task'.at = "check" /\ task'.node = task.node /\ task'.made = {}
        /\ task'.seen = task.seen /\ task'.loaded = yaml[task.node] /\ task'.read = task.read /\ task'.slip = task.slip
    BY <1>0, <1>1, <2>1 DEF Tasks
  <2>3. ReadsAreSound'
    BY <1>0, <2>1, <2>2 DEF ReadsAreSound
  <2>. QED  BY <1>2, <2>1, <2>2, <2>3 DEF Applying
<1>6. CASE ApplyChecks
  <2>1. /\ task' = [task EXCEPT !.at = "replace"] /\ task.op = "apply" /\ task.at = "check" /\ yaml[task.node] = task.seen
    BY <1>6 DEF ApplyChecks, ImagesAt, ImagesGo, Unchanged
  <2>2. /\ task' \in Tasks /\ task'.op = "apply" /\ task'.at = "replace" /\ task'.node = task.node /\ task'.made = {}
        /\ task'.seen = task.seen /\ task'.loaded = task.loaded /\ task'.read = task.read /\ task'.slip = task.slip
    BY <1>0, <2>1 DEF Tasks
  <2>3. ReadsAreSound'
    BY <1>0, <2>1, <2>2 DEF ReadsAreSound
  <2>. QED  BY <1>2, <2>1, <2>2, <2>3 DEF Applying
<1>. QED  BY <1>3, <1>4, <1>5, <1>6

(* What an import registers is published, and the pack that it belongs to gives up what it made for the node. *)
LEMMA ImportStep ==
  ASSUME ImagesIInv, ReuseBase \/ PublishBase \/ RegisterImage
  PROVE  ImagesIInv'
<1>0. /\ ImagesTypes /\ Complete /\ OpsAndPlaces /\ NodeAtWork /\ MadeIsFresh /\ ReportIsSound /\ task \in Tasks
      /\ task.node \in Nodes /\ task.source \in Sources /\ task.op \in {"import", "pack"}
  BY DEF ImagesIInv, ImagesTypes, OpsAndPlaces, ReuseBase, PublishBase, RegisterImage
<1>1. CASE PublishBase
  <2>1. /\ published' = [published EXCEPT ![task.node] = @ \cup {task.source}] /\ yaml[task.node] > 0
        /\ UNCHANGED <<yaml, versions, registered, templates, report, raced, ruined>> /\ task.at = "base"
    BY <1>1 DEF PublishBase, ImageFiles, Profiled, History
  <2>2. /\ published' \in [Nodes -> SUBSET Sources] /\ task.source \in published'[task.node]
        /\ \A m \in Nodes : published[m] \subseteq published'[m]
    BY <1>0, <2>1 DEF ImagesTypes
  <2>3. /\ task' \in Tasks /\ task'.op = task.op /\ task'.at = "register" /\ task'.node = task.node /\ task'.source = task.source
        /\ task'.made = task.made
    BY <1>0, <1>1 DEF PublishBase, ImagesGo, Tasks
  <2>4. Complete'
    BY <1>0, <2>1, <2>2 DEF Complete
  <2>5. OpsAndPlaces' /\ NodeAtWork' /\ MadeIsFresh'
    BY <1>0, <2>1, <2>2, <2>3 DEF OpsAndPlaces, NodeAtWork, MadeIsFresh
  <2>. QED  BY <1>0, <2>1, <2>2, <2>3, <2>4, <2>5 DEF ImagesIInv, ImagesTypes, ReportIsSound, ReadsAreSound
<1>2. ASSUME ImportDone, task.op = "pack"
      PROVE  /\ task' \in Tasks /\ task'.op = "pack" /\ task'.at = "update" /\ task'.node = task.node /\ task'.source = task.source
             /\ task'.made \subseteq task.made /\ \A f \in task'.made : f[2] # task.node
  <2>. DEFINE left == Committed(task.node)
  <2>1. left \subseteq task.made /\ \A f \in left : f[2] # task.node
    BY DEF Committed
  <2>2. task' = [task EXCEPT !.at = "update", !.made = left]
    BY <1>2 DEF ImportDone
  <2>3. task.made \in SUBSET ({"yaml", "vars"} \X Nodes)
    BY <1>0 DEF Tasks
  <2>. HIDE DEF left
  <2>4. left \in SUBSET ({"yaml", "vars"} \X Nodes)
    BY <2>1, <2>3
  <2>. QED  BY <1>0, <1>2, <2>1, <2>2, <2>4 DEF Tasks
<1>3. CASE ReuseBase
  <2>1. /\ registered[task.node] \in Images /\ UNCHANGED <<yaml, versions, registered, published, templates, report, raced, ruined>>
        /\ task.at = "base" /\ ImportDone
    BY <1>0, <1>3 DEF ReuseBase, Reusable, Files, ImagesTypes, ImageFiles, Profiled, History
  <2>2. CASE task.op = "pack"
    <3>1. NodeAtWork'
      BY <1>0, <1>2, <2>1, <2>2 DEF NodeAtWork
    <3>2. MadeIsFresh'
      BY <1>0, <1>2, <2>1, <2>2 DEF MadeIsFresh
    <3>. QED  BY <1>0, <1>2, <2>1, <2>2, <3>1, <3>2, CompleteKept DEF ImagesIInv, ImagesTypes, OpsAndPlaces, ReportIsSound, ReadsAreSound
  <2>3. CASE task.op # "pack"
    BY <1>0, <2>1, <2>3, TaskEnds, CompleteKept DEF ImportDone, ImagesTypes, ReportIsSound
  <2>. QED  BY <2>2, <2>3
<1>4. CASE RegisterImage
  <2>1. /\ registered' = [registered EXCEPT ![task.node] = [source |-> task.source, vars |-> FALSE]]
        /\ ruined' = ruined \ {task.node} /\ task.at = "register" /\ ImportDone
        /\ UNCHANGED <<yaml, versions, published, templates, report, raced>>
    BY <1>4 DEF RegisterImage, ImageFiles, Profiled, History
  <2>2. /\ registered' \in [Nodes -> Images \cup {NoImage}] /\ registered'[task.node] = [source |-> task.source, vars |-> FALSE]
        /\ registered'[task.node] \in Images /\ \A m \in Nodes \ {task.node} : registered'[m] = registered[m]
    BY <1>0, <2>1 DEF ImagesTypes, Images
  <2>3. task.source \in published[task.node] /\ (yaml[task.node] > 0 \/ task.node \in raced)
    BY <1>0, <2>1 DEF NodeAtWork
  <2>4. Complete'
    BY <1>0, <2>1, <2>2, <2>3 DEF Complete
  <2>5. CASE task.op = "pack"
    <3>1. NodeAtWork'
      BY <1>0, <1>2, <2>1, <2>2, <2>5 DEF NodeAtWork
    <3>2. MadeIsFresh'
      BY <1>0, <1>2, <2>1, <2>2, <2>5 DEF MadeIsFresh
    <3>. QED  BY <1>0, <1>2, <2>1, <2>2, <2>4, <2>5, <3>1, <3>2 DEF ImagesIInv, ImagesTypes, OpsAndPlaces, ReportIsSound, ReadsAreSound
  <2>6. CASE task.op # "pack"
    BY <1>0, <2>1, <2>2, <2>4, <2>6, TaskEnds DEF ImportDone, ImagesTypes, ReportIsSound
  <2>. QED  BY <2>5, <2>6
<1>. QED  BY <1>1, <1>3, <1>4

LEMMA MadeMore ==
  ASSUME task \in Tasks, NEW n \in Nodes, NEW kind \in {"yaml", "vars"}
  PROVE  task.made \cup {<<kind, n>>} \in SUBSET ({"yaml", "vars"} \X Nodes)
<1>1. <<kind, n>> \in {"yaml", "vars"} \X Nodes
  OBVIOUS
<1>2. task.made \in SUBSET ({"yaml", "vars"} \X Nodes)
  BY DEF Tasks
<1>. QED  BY <1>1, <1>2

LEMMA PackStep ==
  ASSUME ImagesIInv, PackNodes \/ PackUpdate \/ PackEnds \/ PackFails \/ \E n \in Nodes : PackProfile(n) \/ PackVars(n)
  PROVE  ImagesIInv'
<1>0. /\ ImagesTypes /\ Complete /\ OpsAndPlaces /\ NodeAtWork /\ MadeIsFresh /\ ReportIsSound
      /\ task \in Tasks /\ task.op = "pack"
      /\ UNCHANGED <<versions, report, raced, ruined, published>>
  BY DEF ImagesIInv, ImagesTypes, PackNodes, PackUpdate, PackEnds, PackFails, PackProfile, PackVars, ImagesAt, Files, ImageFiles, Profiled, History
<1>1. ASSUME NEW n \in Nodes, PackProfile(n)
      PROVE  ImagesIInv'
  <2>1. /\ yaml' = [yaml EXCEPT ![n] = 1] /\ yaml[n] = 0 /\ task.at = "profiles" /\ UNCHANGED <<registered, templates>>
        /\ task' = [task EXCEPT !.left = @ \ {n}, !.made = @ \cup {<<"yaml", n>>}]
    BY <1>1 DEF PackProfile, ImagesAt, ImageFiles, Profiled, History
  <2>2. /\ task' \in Tasks /\ task'.op = "pack" /\ task'.at = "profiles" /\ task'.source = task.source
        /\ task'.made = task.made \cup {<<"yaml", n>>}
    BY <1>0, <2>1, MadeMore DEF Tasks
  <2>3. /\ yaml' \in [Nodes -> Nat] /\ \A m \in Nodes : yaml[m] > 0 => yaml'[m] > 0
        /\ \A m \in Nodes : yaml'[m] <= versions'
    BY <1>0, <2>1 DEF ImagesTypes
  <2>4. Complete'
    BY <1>0, <2>1, <2>3 DEF Complete
  <2>5. MadeIsFresh'
    <3>1. registered[n] = NoImage \/ n \in ruined \/ n \in raced
      BY <1>0, <2>1 DEF Complete, ImagesTypes
    <3>. QED  BY <1>0, <2>1, <2>2, <3>1 DEF MadeIsFresh
  <2>. QED  BY <1>0, <2>1, <2>2, <2>3, <2>4, <2>5 DEF ImagesIInv, ImagesTypes, OpsAndPlaces, NodeAtWork, ReportIsSound, ReadsAreSound
<1>2. CASE PackNodes \/ PackUpdate
  <2>1. /\ task' \in Tasks /\ task'.op = "pack" /\ task'.at = "node" /\ task'.source = task.source /\ task'.made = task.made
        /\ UNCHANGED <<yaml, templates>>
    <3>1. CASE PackNodes
      BY <1>0, <3>1 DEF PackNodes, Tasks, Files, ImageFiles, Profiled, History
    <3>2. CASE PackUpdate
      BY <1>0, <3>2 DEF PackUpdate, ImagesGo, Tasks, ImageFiles, Profiled, History
    <3>. QED  BY <1>2, <3>1, <3>2
  <2>2. task.source \in Sources
    BY <1>0, <1>2 DEF OpsAndPlaces, PackNodes, PackUpdate, ImagesAt
  <2>3. CASE PackNodes
    <3>1. UNCHANGED registered
      BY <2>3 DEF PackNodes, Files, ImageFiles, Profiled, History
    <3>. QED  BY <1>0, <2>1, <2>2, <3>1, CompleteKept DEF ImagesIInv, ImagesTypes, OpsAndPlaces, NodeAtWork, MadeIsFresh, ReportIsSound, ReadsAreSound
  <2>4. CASE PackUpdate
    <3>1. /\ registered' = [registered EXCEPT ![task.node].vars = TRUE] /\ task.at = "update" /\ task.node \in Nodes
          /\ registered[task.node] \in Images /\ task.node \in templates /\ \A f \in task.made : f[2] # task.node
      BY <1>0, <2>4 DEF PackUpdate, ImagesAt, OpsAndPlaces, NodeAtWork
    <3>2. /\ registered' \in [Nodes -> Images \cup {NoImage}] /\ \A m \in Nodes \ {task.node} : registered'[m] = registered[m]
          /\ registered'[task.node].source = registered[task.node].source
      BY <1>0, <3>1 DEF ImagesTypes, Images
    <3>c. registered[task.node] # NoImage
      BY <3>1, LabImagesAssumption DEF Images, Sources
    <3>3. task.node \notin ruined /\ registered[task.node] # NoImage =>
            registered[task.node].source \in published[task.node] /\ (yaml[task.node] > 0 \/ task.node \in raced)
      BY <1>0, <3>1 DEF Complete
    <3>a. <<"yaml", task.node>> \notin task.made /\ <<"vars", task.node>> \notin task.made
      BY <3>1
    <3>b. Complete'
      <4>1. ASSUME NEW m \in Nodes, registered'[m] # NoImage, m \notin ruined'
            PROVE  registered'[m].source \in published'[m] /\ (registered'[m].vars => m \in templates') /\ (yaml'[m] > 0 \/ m \in raced')
        <5>1. CASE m = task.node
          BY <1>0, <2>1, <3>1, <3>2, <3>3, <3>c, <4>1, <5>1
        <5>2. CASE m # task.node
          BY <1>0, <2>1, <3>2, <4>1, <5>2 DEF Complete
        <5>. QED  BY <5>1, <5>2
      <4>. QED  BY <4>1 DEF Complete
    <3>4. Complete' /\ MadeIsFresh'
      BY <1>0, <2>1, <3>2, <3>a, <3>b DEF MadeIsFresh
    <3>. QED  BY <1>0, <2>1, <2>2, <3>2, <3>4 DEF ImagesIInv, ImagesTypes, OpsAndPlaces, NodeAtWork, ReportIsSound, ReadsAreSound
  <2>. QED  BY <1>2, <2>3, <2>4
<1>3. ASSUME NEW n \in Nodes, PackVars(n)
      PROVE  ImagesIInv'
  <2>1. /\ templates' = templates \cup {n} /\ task.at = "node" /\ UNCHANGED <<yaml, registered>>
        /\ task' = [task EXCEPT !.at = "base", !.node = n, !.left = @ \ {n},
                                !.made = IF n \in templates THEN @ ELSE @ \cup {<<"vars", n>>}]
    BY <1>3 DEF PackVars, ImagesAt, ImageFiles, Profiled, History
  <2>2. /\ task' \in Tasks /\ task'.op = "pack" /\ task'.at = "base" /\ task'.node = n /\ task'.source = task.source
        /\ task'.made = IF n \in templates THEN task.made ELSE task.made \cup {<<"vars", n>>}
    BY <1>0, <2>1, MadeMore DEF Tasks
  <2>3. Complete'
    BY <1>0, <2>1 DEF Complete
  <2>4. MadeIsFresh'
    BY <1>0, <2>1, <2>2 DEF Complete, MadeIsFresh
  <2>5. task.source \in Sources
    BY <1>0, <2>1 DEF OpsAndPlaces
  <2>. QED  BY <1>0, <2>1, <2>2, <2>3, <2>4, <2>5 DEF ImagesIInv, ImagesTypes, OpsAndPlaces, NodeAtWork, ReportIsSound, ReadsAreSound
<1>4. CASE PackEnds
  BY <1>0, <1>4, CompleteKept, TaskEnds DEF PackEnds, Files, ImageFiles, Profiled, History, ImagesTypes, ReportIsSound
<1>5. CASE PackFails
  <2>1. PICK gone \in SUBSET task.made :
          /\ yaml' = [n \in Nodes |-> IF <<"yaml", n>> \in gone THEN 0 ELSE yaml[n]]
          /\ templates' = {n \in templates : <<"vars", n>> \notin gone}
    BY <1>5 DEF PackFails
  <2>2. UNCHANGED registered /\ ImagesFinish
    BY <1>5 DEF PackFails
  <2>3. yaml' \in [Nodes -> Nat] /\ \A m \in Nodes : yaml'[m] <= versions'
    BY <1>0, <2>1 DEF ImagesTypes
  <2>4. Complete'
    BY <1>0, <2>1, <2>2 DEF Complete, MadeIsFresh
  <2>. QED  BY <1>0, <2>2, <2>3, <2>4, TaskEnds DEF ImagesTypes, ReportIsSound
<1>. QED  BY <1>1, <1>2, <1>3, <1>4, <1>5

(* A matrix that reports, and apply-matrix that replaces one profile by another. *)
LEMMA MatrixStep ==
  ASSUME ImagesIInv, MatrixReports \/ ApplyReplaces
  PROVE  ImagesIInv'
<1>0. ImagesTypes /\ Complete /\ OpsAndPlaces /\ ReportIsSound /\ ReadsAreSound /\ ImagesFinish
  BY DEF ImagesIInv, MatrixReports, ApplyReplaces
<1>1. CASE MatrixReports
  <2>1. /\ UNCHANGED <<yaml, versions, registered, published, templates, raced, ruined>>
        /\ report' = [node |-> task.node, yaml |-> task.read, probed |-> task.loaded,
                      source |-> registered[task.node].source, slip |-> task.slip]
        /\ task.op = "matrix" /\ task.at = "report"
    BY <1>1 DEF MatrixReports, ImagesAt, ImageFiles, Profiled, History
  <2>2. ReportIsSound'
    BY <1>0, <2>1 DEF ReportIsSound, ReadsAreSound
  <2>. QED  BY <1>0, <2>1, <2>2, CompleteKept, TaskEnds DEF ImagesTypes
<1>2. CASE ApplyReplaces
  <2>1. /\ yaml' = [yaml EXCEPT ![task.node] = versions + 1] /\ versions' = versions + 1
        /\ UNCHANGED <<registered, published, templates, raced, ruined, report>> /\ task.node \in Nodes
    BY <1>0, <1>2 DEF OpsAndPlaces, ApplyReplaces, ImagesAt, NewVersion, ImageFiles, History
  <2>2. /\ yaml' \in [Nodes -> Nat] /\ versions' \in Nat \ {0} /\ \A m \in Nodes : yaml[m] > 0 => yaml'[m] > 0
        /\ \A m \in Nodes : yaml'[m] <= versions'
    BY <1>0, <2>1 DEF ImagesTypes
  <2>3. Complete' /\ ReportIsSound'
    BY <1>0, <2>1, <2>2 DEF Complete, ReportIsSound
  <2>. QED  BY <1>0, <2>1, <2>2, <2>3, TaskEnds DEF ImagesTypes
<1>. QED  BY <1>1, <1>2

(* remove-image takes the registration away with the files; where it dies, the node counts as ruined. *)
LEMMA RemovalStep ==
  ASSUME ImagesIInv, RemoveDirectory \/ RemovalDies
  PROVE  ImagesIInv'
<1>0. /\ ImagesTypes /\ Complete /\ ReportIsSound /\ task.node \in Nodes /\ ImagesFinish
      /\ UNCHANGED <<yaml, versions, report>>
  BY DEF ImagesIInv, OpsAndPlaces, RemoveDirectory, RemovalDies, ImagesAt, Profiled
<1>1. ReportIsSound'
  BY <1>0 DEF ReportIsSound
<1>2. CASE RemoveDirectory
  <2>1. /\ registered' = [registered EXCEPT ![task.node] = NoImage] /\ published' = [published EXCEPT ![task.node] = {}]
        /\ templates' = templates \ {task.node} /\ ruined' = ruined \ {task.node} /\ raced' = raced \ {task.node}
    BY <1>2 DEF RemoveDirectory
  <2>2. /\ registered' \in [Nodes -> Images \cup {NoImage}] /\ published' \in [Nodes -> SUBSET Sources]
        /\ registered'[task.node] = NoImage
        /\ \A m \in Nodes \ {task.node} : registered'[m] = registered[m] /\ published'[m] = published[m]
    BY <1>0, <2>1 DEF ImagesTypes
  <2>3. Complete'
    BY <1>0, <2>1, <2>2 DEF Complete
  <2>. QED  BY <1>0, <1>1, <2>1, <2>2, <2>3, TaskEnds DEF ImagesTypes
<1>3. CASE RemovalDies
  <2>1. /\ published' = [published EXCEPT ![task.node] = {}] /\ templates' \in {templates, templates \ {task.node}}
        /\ ruined' = ruined \cup {task.node} /\ UNCHANGED <<registered, raced>>
    BY <1>3 DEF RemovalDies
  <2>2. published' \in [Nodes -> SUBSET Sources] /\ \A m \in Nodes \ {task.node} : published'[m] = published[m]
    BY <1>0, <2>1 DEF ImagesTypes
  <2>3. Complete'
    BY <1>0, <2>1, <2>2 DEF Complete
  <2>. QED  BY <1>0, <1>1, <2>1, <2>2, <2>3, TaskEnds DEF ImagesTypes
<1>. QED  BY <1>2, <1>3

LEMMA ImagesStep == ImagesIInv /\ [ImagesNext]_imagesVars => ImagesIInv'
<1>. SUFFICES ASSUME ImagesIInv, [ImagesNext]_imagesVars
              PROVE  ImagesIInv'
  OBVIOUS
<1>1. CASE UNCHANGED imagesVars
  BY <1>1 DEF imagesVars, ImagesIInv, ImagesTypes, Complete, OpsAndPlaces, NodeAtWork, MadeIsFresh, ReportIsSound, ReadsAreSound
<1>2. CASE CommandEnds
  <2>1. ImagesFinish /\ UNCHANGED <<yaml, versions, registered, published, templates, report, raced, ruined>>
    BY <1>2 DEF CommandEnds, Files, ImageFiles, Profiled, History
  <2>2. Complete' /\ ReportIsSound'
    BY <2>1, CompleteKept DEF ImagesIInv, ReportIsSound
  <2>. QED  BY <2>1, <2>2, TaskEnds DEF ImagesIInv, ImagesTypes
<1>. QED
  BY <1>1, <1>2, UnlockedStep, BeginningStep, ReadingStep, ImportStep, PackStep, MatrixStep, RemovalStep DEF ImagesNext

(* What image.json names is there: the base and the NVRAM template, whatever packs failed and rolled back, except    *)
(* where a removal died; and the profile, unless a deregister or remove-image without the lock unlinked it           *)
(* (install_content_pack, cmd_deregister, cmd_remove_image).                                                         *)
THEOREM RegisteredIsAlwaysComplete == ImagesSpec => []RegisteredIsComplete
<1>1. ImagesIInv => RegisteredIsComplete
  BY DEF ImagesIInv, Complete, RegisteredIsComplete
<1>. QED  BY <1>1, ImagesStarting, ImagesStep, PTL DEF ImagesSpec

(* apply-matrix replaces the very profile that the matrix was run with, on the base that is registered, although the *)
(* profiles are edited without the lock, unless an edit falls into one of the three gaps between two reads or a      *)
(* check and the write that follows it (boot_matrix, apply_matrix_candidate).                                        *)
THEOREM AppliedWasAlwaysProbed == ImagesSpec => AppliedWasProbed
<1>1. ASSUME ImagesIInv, ImagesNext, ImagesAt("apply", "replace"), yaml' # yaml, task' = NoTask, ~task.slip, ~report.slip
      PROVE  /\ report.node = task.node /\ report.source = registered[task.node].source
             /\ {report.yaml, report.probed, task.loaded} = {yaml[task.node]}
  <2>1. ReadsAreSound /\ ReportIsSound /\ task.op = "apply" /\ task.at = "replace"
    BY <1>1 DEF ImagesIInv, ImagesAt
  <2>2. /\ report # NoImage /\ report.node = task.node /\ report.source = registered[task.node].source
        /\ task.read = report.yaml /\ task.read = task.seen /\ task.loaded = task.seen /\ task.seen = yaml[task.node]
    BY <1>1, <2>1 DEF ReadsAreSound
  <2>3. report.probed = report.yaml
    BY <1>1, <2>1, <2>2 DEF ReportIsSound
  <2>. QED  BY <2>2, <2>3
<1>2. ImagesIInv /\ [ImagesNext]_imagesVars =>
        [ImagesAt("apply", "replace") /\ yaml' # yaml /\ task' = NoTask /\ ~task.slip /\ ~report.slip =>
           /\ report.node = task.node /\ report.source = registered[task.node].source
           /\ {report.yaml, report.probed, task.loaded} = {yaml[task.node]}]_imagesVars
  BY <1>1
<1>. QED  BY <1>2, ImagesStarting, ImagesStep, PTL DEF ImagesSpec, AppliedWasProbed

-----------------------------------------------------------------------------
(***************************************************************************)
(* The disks of a profile.  Every overlay is in one place at most, and in  *)
(* one unless a command was asked to throw it away; what an operation has  *)
(* looked at still holds when it acts, because nothing else moves a file:  *)
(* other operations wait for its lock, and the files of a directory in     *)
(* work are not open in any machine (Free).                                *)
(***************************************************************************)
DiskOf(d) == IF d = None THEN 0 ELSE d.disk

DiskTypes ==
  /\ image \in Bases \cup {None} /\ bases \in SUBSET Bases
  /\ here \in Directory \cup {None}
  /\ kept \in [Names -> Directory \cup {None}]
  /\ archived \in SUBSET Directory
  /\ qemu \in [1..MaxLaunch -> Nat]
  /\ made \in [disks : Nat, launches : 0..MaxLaunch, moments : Nat, deaths : Nat]
  /\ \A l \in 1..MaxLaunch : l > made.launches => qemu[l] = 0
  /\ started \in 0..made.launches

AtMostOnePlace ==
  /\ \A d \in archived : /\ d.disk > 0 /\ d.disk # DiskOf(here)
                         /\ \A n \in Names : d.disk # DiskOf(kept[n])
                         /\ \A e \in archived \ {d} : d.disk # e.disk
  /\ \A n \in Names : DiskOf(kept[n]) > 0 =>
       DiskOf(kept[n]) # DiskOf(here) /\ \A m \in Names \ {n} : DiskOf(kept[n]) # DiskOf(kept[m])

AtLeastOnePlace ==
  /\ DiskOf(here) <= made.disks /\ (\A n \in Names : DiskOf(kept[n]) <= made.disks) /\ \A d \in archived : d.disk <= made.disks
  /\ \A k \in (1..made.disks) \ given :
       DiskOf(here) = k \/ (\E d \in archived : d.disk = k) \/ \E n \in Names : DiskOf(kept[n]) = k

BasesAreThere ==
  /\ DiskOf(here) > 0 => here.base \in bases
  /\ \A n \in Names : DiskOf(kept[n]) > 0 => kept[n].base \in bases

(* Of a guest whose NVRAM is looked for, a pair is the NVRAM of its snapshot. *)
Fits(d) == \A t \in Tags : d.snaps[t].fw > 0 => d.pairs[t] \in {0, d.snaps[t].fw}
PairsFit ==
  Arch = "aarch64" =>
    /\ here # None => Fits(here)
    /\ \A n \in Names : kept[n] # None => Fits(kept[n])
    /\ \A d \in archived : Fits(d)

DiskFilesInv ==
  DiskTypes /\ AtMostOnePlace /\ AtLeastOnePlace /\ BasesAreThere /\ PairsFit /\ StartedStaysReachable

(* What the operation that holds the lock has seen, at each of its places. *)
DiskStage ==
  LET op == running.op  at == running.at IN
  /\ running = [op |-> op, at |-> at, arg |-> running.arg, aside |-> running.aside]
  /\ \/ op = "idle" /\ at = ""
     \/ op = "import" /\ at \in {"publish", "register"}
     \/ op = "finalize" /\ at \in {"publish", "archive", "register"}
     \/ op \in {"run", "matrix"} /\ at \in {"mkdir", "overlay", "vars", "launch", "record"}
     \/ op = "matrix" /\ at \in {"halt", "unlink", "rmtree"}
     \/ op = "stop" /\ at \in {"halt", "unlink"}
     \/ op = "reset" /\ at \in {"halt", "unlink", "backup", "rmtree"}
     \/ op = "remove" /\ at \in {"rmtree", "rmimage"}
     \/ op = "create" /\ at \in {"pair", "snap"}
     \/ op = "revert" /\ at \in {"apply", "restore"}
     \/ op = "delete" /\ at \in {"drop", "unpair"}
     \/ op = "restore" /\ at \in {"aside", "swap"}
     \/ op = "drop" /\ at = "rmbackup"

(* No machine runs that was reported as started and not stopped since. *)
NoneStarted == ~(started > 0 /\ qemu[started] > 0)

DiskWork ==
  LET op == running.op  at == running.at  arg == running.arg  aside == running.aside IN
  /\ op \in {"import", "finalize"} => arg \in Bases
  /\ op = "finalize" =>
       /\ NoneStarted
       /\ at # "register" => DiskOf(here) > 0 /\ Free(here) /\ here.base \in bases
       /\ at = "register" => here = None /\ aside \in archived /\ aside.base \in bases /\ Free(aside)
  /\ op \in {"run", "matrix"} =>
       /\ NoneStarted /\ image \in bases
       /\ at # "mkdir" => here # None
       /\ at \in {"vars", "launch", "record"} => DiskOf(here) > 0
       /\ at = "record" => made.launches > 0 /\ qemu[made.launches] \in {0, here.disk}
  /\ op = "stop" => here # None /\ (at = "unlink" => NoneStarted)
  /\ op = "reset" =>
       /\ here # None /\ arg \in Names \cup {None}
       /\ arg \in Names => kept[arg] = None
       /\ at # "halt" => NoneStarted
       /\ at = "backup" => arg \in Names
  /\ op = "remove" =>
       /\ NoneStarted /\ NoBackups
       /\ at = "rmtree" => here # None
       /\ at = "rmimage" => here = None
  /\ op \in {"create", "revert", "delete"} => DiskOf(here) > 0 /\ Free(here) /\ arg \in Tags
  /\ op = "create" => here.snaps[arg] = NoSnap /\ (at = "snap" => Nvram(here) \in {0, here.pairs[arg]})
  /\ op = "revert" /\ at = "apply" => (Nvram(here) > 0 => here.pairs[arg] > 0)
  /\ op = "revert" /\ at = "restore" => here.pairs[arg] > 0 /\ here.now = here.snaps[arg].now
  /\ op = "restore" =>
       /\ NoneStarted /\ arg \in Names /\ DiskOf(kept[arg]) > 0
       /\ at = "aside" => here # None
       /\ at = "swap" => here = None /\ (aside # None => aside \in Names \ {arg} /\ kept[aside] # None)
  /\ op = "drop" => arg \in Names /\ kept[arg] # None

DisksIInv == DiskFilesInv /\ DiskStage /\ DiskWork

LEMMA NoDirectory == None \notin Directory /\ None \notin Names /\ None \notin Bases /\ None \notin Tags
BY LabDisksAssumption

LEMMA BareType == Bare \in Directory /\ DiskOf(Bare) = 0 /\ Fits(Bare) /\ Bare # None
<1>1. Bare \in Directory
  BY LabDisksAssumption DEF Bare, Directory, NoSnap
<1>2. Bare.disk = 0 /\ \A t \in Tags : Bare.snaps[t].fw = 0
  BY DEF Bare, NoSnap
<1>. QED  BY <1>1, <1>2, NoDirectory DEF DiskOf, Fits

LEMMA DisksStarting == DisksInit => DisksIInv
<1>. SUFFICES ASSUME DisksInit
              PROVE  DisksIInv
  OBVIOUS
<1>1. DiskTypes
  BY LabDisksAssumption DEF DisksInit, DiskTypes
<1>2. AtMostOnePlace /\ AtLeastOnePlace /\ BasesAreThere /\ PairsFit
  BY DEF DisksInit, AtMostOnePlace, AtLeastOnePlace, BasesAreThere, PairsFit, DiskOf
<1>3. StartedStaysReachable
  BY DEF DisksInit, StartedStaysReachable
<1>4. running = DiskIdle
  BY DEF DisksInit
<1>5. running.op = "idle" /\ DiskStage
  BY <1>4 DEF DiskStage, DiskIdle
<1>6. DiskWork
  BY <1>5, Zenon DEF DiskWork
<1>. QED  BY <1>1, <1>2, <1>3, <1>5, <1>6 DEF DisksIInv, DiskFilesInv

(* A machine that was reported as started is the one of run.json. *)
LEMMA NotRunning == ASSUME DiskFilesInv, ~DiskRuns PROVE NoneStarted
BY DEF DiskFilesInv, DiskTypes, StartedStaysReachable, NoneStarted, DiskRuns, Alive

LEMMA DisksAtRest == running' = DiskIdle => DiskStage' /\ DiskWork'
<1>1. ASSUME running' = DiskIdle
      PROVE  running'.op = "idle" /\ DiskStage'
  <2>1. /\ running'.op = "idle" /\ running'.at = ""
        /\ running' = [op |-> running'.op, at |-> running'.at, arg |-> running'.arg, aside |-> running'.aside]
    BY <1>1 DEF DiskIdle
  <2>. QED  BY <2>1, Zenon DEF DiskStage
<1>2. running'.op = "idle" => DiskWork'
  BY DEF DiskWork
<1>. QED  BY <1>1, <1>2

DiskFiles == <<image, bases, here, kept, archived, qemu, made, given, started>>
LEMMA FilesUntouched == DiskFilesInv /\ UNCHANGED DiskFiles => DiskFilesInv'
BY DEF DiskFiles, DiskFilesInv, DiskTypes, AtMostOnePlace, AtLeastOnePlace, BasesAreThere, PairsFit, StartedStaysReachable, DiskOf, Fits, Alive

(* The contents of the directory in place may change where no overlay moves. *)
LEMMA SamePlaces ==
  ASSUME DiskFilesInv, UNCHANGED <<bases, kept, archived, given>>, made'.disks = made.disks,
         DiskOf(here') = DiskOf(here), DiskOf(here) > 0 => here'.base = here.base,
         Arch = "aarch64" => (here' # None => Fits(here'))
  PROVE  AtMostOnePlace' /\ AtLeastOnePlace' /\ BasesAreThere' /\ PairsFit'
<1>1. AtMostOnePlace' /\ AtLeastOnePlace'
  BY DEF DiskFilesInv, AtMostOnePlace, AtLeastOnePlace, DiskOf
<1>2. BasesAreThere' /\ PairsFit'
  BY DEF DiskFilesInv, BasesAreThere, PairsFit, DiskOf, Fits
<1>. QED  BY <1>1, <1>2

LEMMA DisksBegin ==
  ASSUME NEW o, NEW a, NEW g, DiskBegin(o, a, g)
  PROVE  /\ running'.op = o /\ running'.at = a /\ running'.arg = g /\ running'.aside = None
         /\ running' = [op |-> running'.op, at |-> running'.at, arg |-> running'.arg, aside |-> running'.aside]
BY DEF DiskBegin

Beginnings ==
  \/ \E b \in Bases : ImportDisk(b) \/ Finalize(b)
  \/ RunDisk \/ Matrix \/ RemoveImage
  \/ \E graceful \in BOOLEAN : StopDisk(graceful)
  \/ \E force \in BOOLEAN, n \in Names \cup {None} : Reset(force, n)
  \/ \E t \in Tags : SnapshotCreate(t) \/ SnapshotRevert(t) \/ SnapshotDelete(t)
  \/ \E n \in Names : Restore(n) \/ BackupDelete(n)

LEMMA BeginningsKeepFiles == Beginnings => UNCHANGED DiskFiles
BY DEF Beginnings, DiskFiles, ImportDisk, Finalize, RunDisk, Matrix, RemoveImage, StopDisk, Reset, SnapshotCreate, SnapshotRevert, SnapshotDelete, Restore, BackupDelete

LEMMA BeginStep == DiskFilesInv /\ Beginnings => DiskStage' /\ DiskWork'
<1>. SUFFICES ASSUME DiskFilesInv, Beginnings
              PROVE  DiskStage' /\ DiskWork'
  OBVIOUS
<1>0. UNCHANGED DiskFiles /\ None \notin Names /\ None \notin Directory
  BY BeginningsKeepFiles, NoDirectory
<1>1. ~DiskRuns => NoneStarted'
  BY <1>0, NotRunning DEF NoneStarted, DiskFiles
<1>2. Inspectable => DiskOf(here)' > 0 /\ Free(here)' /\ NoneStarted' /\ here' # None
  BY <1>0, <1>1 DEF Inspectable, HasDisk, DiskOf, Free, DiskFiles
<1>3. ASSUME NEW b \in Bases, ImportDisk(b)
      PROVE  DiskStage' /\ DiskWork'
  <2>1. running'.op = "import" /\ running'.at \in {"register", "publish"} /\ running'.arg = b
    BY <1>3, DisksBegin DEF ImportDisk
  <2>. QED  BY <1>3, <2>1, DisksBegin DEF ImportDisk, DiskStage, DiskWork
<1>4. ASSUME NEW b \in Bases, Finalize(b)
      PROVE  DiskStage' /\ DiskWork'
  <2>1. running'.op = "finalize" /\ running'.at \in {"archive", "publish"} /\ running'.arg = b
    BY <1>4, DisksBegin DEF Finalize
  <2>2. here'.base \in bases'
    BY <1>0, <1>4 DEF Finalize, DiskFiles
  <2>3. DiskWork'
    BY <1>2, <1>4, <2>1, <2>2 DEF Finalize, DiskWork
  <2>. QED  BY <1>4, <2>1, <2>3, DisksBegin DEF Finalize, DiskStage
<1>5. CASE RunDisk \/ Matrix
  <2>1. running'.op \in {"run", "matrix"} /\ running'.at = "mkdir"
    BY <1>5, DisksBegin DEF RunDisk, Matrix
  <2>2. NoneStarted' /\ image' \in bases'
    BY <1>0, <1>1, <1>5 DEF RunDisk, Matrix, Bootable, DiskRuns, DiskFiles
  <2>3. DiskWork'
    BY <2>1, <2>2 DEF DiskWork
  <2>. QED  BY <1>5, <2>1, <2>3, DisksBegin DEF RunDisk, Matrix, DiskStage
<1>6. CASE RemoveImage
  <2>1. running'.op = "remove" /\ running'.at = IF here = None THEN "rmimage" ELSE "rmtree"
    BY <1>6, DisksBegin DEF RemoveImage
  <2>2. NoneStarted' /\ NoBackups' /\ here' = here
    BY <1>0, <1>1, <1>6 DEF RemoveImage, NoBackups, DiskFiles
  <2>3. DiskWork'
    BY <2>1, <2>2 DEF DiskWork
  <2>. QED  BY <1>6, <2>1, <2>3, DisksBegin DEF RemoveImage, DiskStage
<1>7. ASSUME NEW graceful \in BOOLEAN, StopDisk(graceful)
      PROVE  DiskStage' /\ DiskWork'
  <2>1. running'.op = "stop" /\ running'.at = "halt" /\ here' # None
    BY <1>0, <1>7, DisksBegin DEF StopDisk, DiskFiles
  <2>2. DiskWork'
    BY <2>1 DEF DiskWork
  <2>. QED  BY <1>7, <2>1, <2>2, DisksBegin DEF StopDisk, DiskStage
<1>8. ASSUME NEW force \in BOOLEAN, NEW n \in Names \cup {None}, Reset(force, n)
      PROVE  DiskStage' /\ DiskWork'
  <2>1. /\ running'.op = "reset" /\ running'.arg = n /\ here' # None
        /\ running'.at = IF DiskRuns THEN "halt" ELSE IF n \in Names THEN "backup" ELSE "rmtree"
    BY <1>0, <1>8, DisksBegin DEF Reset, DiskFiles
  <2>2. /\ n \in Names => kept'[n] = None
        /\ running'.at # "halt" => NoneStarted'
        /\ running'.at = "backup" => n \in Names
    BY <1>0, <1>1, <1>8, <2>1 DEF Reset, DiskFiles
  <2>3. DiskWork'
    BY <2>1, <2>2 DEF DiskWork
  <2>. QED  BY <1>8, <2>1, <2>3, DisksBegin DEF Reset, DiskStage
<1>9. ASSUME NEW t \in Tags, SnapshotCreate(t)
      PROVE  DiskStage' /\ DiskWork'
  <2>1. running'.op = "create" /\ running'.at = (IF Nvram(here) > 0 THEN "pair" ELSE "snap") /\ running'.arg = t
    BY <1>9, DisksBegin DEF SnapshotCreate
  <2>2. here'.snaps[t] = NoSnap /\ (running'.at = "snap" => Nvram(here)' \in {0, here'.pairs[t]})
    <3>1. Nvram(here) \in Nat /\ Nvram(here)' = Nvram(here)
      BY <1>0, <1>2, <1>9 DEF DiskFilesInv, DiskTypes, Directory, Nvram, DiskFiles, SnapshotCreate
    <3>. QED  BY <1>0, <1>9, <2>1, <3>1 DEF SnapshotCreate, DiskFiles
  <2>3. DiskWork'
    BY <1>2, <1>9, <2>1, <2>2 DEF SnapshotCreate, DiskWork
  <2>. QED  BY <1>9, <2>1, <2>3, DisksBegin DEF SnapshotCreate, DiskStage
<1>10. ASSUME NEW t \in Tags, SnapshotRevert(t)
      PROVE  DiskStage' /\ DiskWork'
  <2>1. running'.op = "revert" /\ running'.at = "apply" /\ running'.arg = t
    BY <1>10, DisksBegin DEF SnapshotRevert
  <2>2. Nvram(here)' > 0 => here'.pairs[t] > 0
    <3>1. here \in Directory /\ here' = here
      BY <1>0, <1>10 DEF DiskFilesInv, DiskTypes, DiskFiles, SnapshotRevert, Inspectable
    <3>2. here.pairs[t] \in Nat /\ Nvram(here)' = Nvram(here)
      BY <3>1 DEF Directory, Nvram
    <3>. QED  BY <1>10, <3>1, <3>2 DEF SnapshotRevert, RevertRefused
  <2>3. DiskWork'
    BY <1>2, <1>10, <2>1, <2>2 DEF SnapshotRevert, DiskWork
  <2>. QED  BY <1>10, <2>1, <2>3, DisksBegin DEF SnapshotRevert, DiskStage
<1>11. ASSUME NEW t \in Tags, SnapshotDelete(t)
      PROVE  DiskStage' /\ DiskWork'
  <2>1. running'.op = "delete" /\ running'.at = "drop" /\ running'.arg = t
    BY <1>11, DisksBegin DEF SnapshotDelete
  <2>3. DiskWork'
    BY <1>2, <1>11, <2>1 DEF SnapshotDelete, DiskWork
  <2>. QED  BY <1>11, <2>1, <2>3, DisksBegin DEF SnapshotDelete, DiskStage
<1>12. ASSUME NEW n \in Names, Restore(n)
      PROVE  DiskStage' /\ DiskWork'
  <2>1. running'.op = "restore" /\ running'.at = (IF here = None THEN "swap" ELSE "aside") /\ running'.arg = n /\ running'.aside = None
    BY <1>12, DisksBegin DEF Restore
  <2>2. NoneStarted' /\ DiskOf(kept[n])' > 0 /\ here' = here
    BY <1>0, <1>1, <1>12 DEF Restore, HasDisk, DiskOf, DiskFiles
  <2>3. DiskWork'
    BY <2>1, <2>2 DEF DiskWork
  <2>. QED  BY <1>12, <2>1, <2>3, DisksBegin DEF Restore, DiskStage
<1>13. ASSUME NEW n \in Names, BackupDelete(n)
      PROVE  DiskStage' /\ DiskWork'
  <2>1. running'.op = "drop" /\ running'.at = "rmbackup" /\ running'.arg = n /\ kept'[n] # None
    BY <1>0, <1>13, DisksBegin DEF BackupDelete, DiskFiles
  <2>3. DiskWork'
    BY <2>1 DEF DiskWork
  <2>. QED  BY <1>13, <2>1, <2>3, DisksBegin DEF BackupDelete, DiskStage
<1>. QED
  BY <1>3, <1>4, <1>5, <1>6, <1>7, <1>8, <1>9, <1>10, <1>11, <1>12, <1>13 DEF Beginnings

LEMMA DisksThen ==
  ASSUME DiskStage, NEW a, DiskThen(a)
  PROVE  /\ running'.op = running.op /\ running'.at = a /\ running'.arg = running.arg /\ running'.aside = running.aside
         /\ running' = [op |-> running'.op, at |-> running'.at, arg |-> running'.arg, aside |-> running'.aside]
BY DEF DiskThen, DiskStage

LEMMA DisksThenAside ==
  ASSUME DiskStage, NEW a, NEW d, DiskThenAside(a, d)
  PROVE  /\ running'.op = running.op /\ running'.at = a /\ running'.arg = running.arg /\ running'.aside = d
         /\ running' = [op |-> running'.op, at |-> running'.at, arg |-> running'.arg, aside |-> running'.aside]
BY DEF DiskThenAside, DiskStage

LEMMA DisksEnd == ASSUME NEW a, DiskEnds(a) PROVE DiskStage' /\ DiskWork'
BY DisksAtRest DEF DiskEnds

(* A step that rewrites files of the directory in place, but not its overlay. *)
LEMMA Rewritten ==
  ASSUME DiskFilesInv, UNCHANGED <<bases, kept, archived, given, made, qemu>>, image' = image, started' = started,
         here' \in Directory, DiskOf(here)' = DiskOf(here), DiskOf(here) > 0 => here'.base = here.base,
         Arch = "aarch64" => Fits(here)',
         (here # None /\ here'.rec = here.rec) \/ NoneStarted
  PROVE  DiskFilesInv'
<1>1. AtMostOnePlace' /\ AtLeastOnePlace' /\ BasesAreThere' /\ PairsFit'
  BY SamePlaces DEF DiskOf, Fits
<1>2. DiskTypes'
  BY DEF DiskFilesInv, DiskTypes
<1>3. StartedStaysReachable'
  <2>1. CASE NoneStarted
    BY <2>1 DEF NoneStarted, StartedStaysReachable, Alive
  <2>2. CASE here # None /\ here'.rec = here.rec
    <3>1. here'.disk = here.disk /\ here' # None
      BY <2>2, NoDirectory DEF DiskOf
    <3>. QED  BY <2>2, <3>1 DEF DiskFilesInv, StartedStaysReachable, Alive
  <2>. QED  BY <2>1, <2>2
<1>. QED  BY <1>1, <1>2, <1>3 DEF DiskFilesInv

LEMMA LaunchingStep ==
  DisksIInv /\ (PublishDisk \/ RegisterDisk \/ MakeDirectory \/ EnsureOverlay \/ EnsureVars \/ LaunchDisk \/ RecordRun) => DisksIInv'
<1>. SUFFICES ASSUME DisksIInv, PublishDisk \/ RegisterDisk \/ MakeDirectory \/ EnsureOverlay \/ EnsureVars \/ LaunchDisk \/ RecordRun
              PROVE  DisksIInv'
  OBVIOUS
<1>0. /\ DiskFilesInv /\ DiskStage /\ DiskWork /\ DiskTypes
      /\ None \notin Names /\ None \notin Directory /\ None \notin Bases
  BY NoDirectory DEF DisksIInv, DiskFilesInv
<1>1. CASE PublishDisk
  <2>1. running.op \in {"import", "finalize"} /\ running.arg \in Bases
    BY <1>0, <1>1 DEF PublishDisk, DiskStage, DiskWork
  <2>2. DiskFilesInv'
    BY <1>0, <1>1, <2>1 DEF PublishDisk, DiskFilesInv, DiskTypes, AtMostOnePlace, AtLeastOnePlace, BasesAreThere, PairsFit,
       StartedStaysReachable, DiskOf, Fits, Alive
  <2>3. /\ running'.op = running.op /\ running'.arg = running.arg
        /\ running'.at = IF running.op = "import" THEN "register" ELSE "archive"
    BY <1>0, <1>1, DisksThen DEF PublishDisk
  <2>4. DiskWork'
    BY <1>0, <1>1, <2>1, <2>3 DEF PublishDisk, DiskWork, NoneStarted, DiskOf, Free
  <2>5. DiskStage'
    BY <1>0, <1>1, <2>1, <2>3, DisksThen DEF PublishDisk, DiskStage
  <2>. QED  BY <2>2, <2>4, <2>5 DEF DisksIInv
<1>2. CASE RegisterDisk
  <2>1. running.op \in {"import", "finalize"} /\ running.arg \in Bases
    BY <1>0, <1>2 DEF RegisterDisk, DiskStage, DiskWork
  <2>2. DiskFilesInv'
    BY <1>0, <1>2, <2>1 DEF RegisterDisk, DiskFilesInv, DiskTypes, AtMostOnePlace, AtLeastOnePlace, BasesAreThere, PairsFit,
       StartedStaysReachable, DiskOf, Fits, Alive
  <2>. QED  BY <1>2, <2>2, DisksEnd DEF RegisterDisk, DisksIInv
<1>3. CASE MakeDirectory
  <2>1. NoneStarted /\ image \in bases /\ running.op \in {"run", "matrix"}
    BY <1>0, <1>3 DEF MakeDirectory, Launching, DiskWork
  <2>2. here' \in Directory /\ here' # None /\ DiskOf(here)' = DiskOf(here)
    BY <1>0, <1>3, BareType DEF MakeDirectory, DiskTypes, DiskOf
  <2>3. DiskOf(here) > 0 => here'.base = here.base
    BY <1>3 DEF MakeDirectory, DiskOf
  <2>4. Arch = "aarch64" => Fits(here)'
    <3>1. CASE here = None
      BY <1>3, <3>1, BareType DEF MakeDirectory, Fits
    <3>2. CASE here # None
      BY <1>0, <1>3, <3>2 DEF MakeDirectory, DiskFilesInv, PairsFit, Fits
    <3>. QED  BY <3>1, <3>2
  <2>5. DiskFilesInv'
    BY <1>0, <1>3, <2>1, <2>2, <2>3, <2>4, Rewritten DEF MakeDirectory
  <2>6. running'.op = running.op /\ running'.at = "overlay"
    BY <1>0, <1>3, DisksThen DEF MakeDirectory
  <2>7. DiskWork'
    BY <1>3, <2>1, <2>2, <2>6 DEF MakeDirectory, DiskWork, NoneStarted
  <2>8. DiskStage'
    BY <1>0, <1>3, <2>1, <2>6, DisksThen DEF MakeDirectory, DiskStage
  <2>. QED  BY <2>5, <2>7, <2>8 DEF DisksIInv
<1>4. CASE EnsureOverlay
  <2>0. /\ NoneStarted /\ image \in bases /\ running.op \in {"run", "matrix"} /\ here # None /\ here \in Directory
        /\ here.disk \in Nat /\ made.disks \in Nat
    BY <1>0, <1>4 DEF EnsureOverlay, Launching, DiskWork, DiskTypes, Directory
  <2>1. CASE HasDisk(here) /\ DiskThen("vars") /\ UNCHANGED <<here, made>>
    <3>1. UNCHANGED DiskFiles
      BY <1>4, <2>1 DEF EnsureOverlay, DiskFiles
    <3>2. running'.op = running.op /\ running'.at = "vars"
      BY <1>0, <2>1, DisksThen
    <3>3. DiskWork'
      BY <2>0, <2>1, <3>1, <3>2 DEF DiskWork, NoneStarted, HasDisk, DiskOf, DiskFiles
    <3>4. DiskStage'
      BY <1>0, <2>0, <2>1, <3>2, DisksThen DEF DiskStage
    <3>. QED  BY <1>0, <3>1, <3>3, <3>4, FilesUntouched DEF DisksIInv
  <2>2. CASE /\ ~ HasDisk(here) /\ made.disks < MaxDisk
             /\ made' = [made EXCEPT !.disks = @ + 1]
             /\ here' = [here EXCEPT !.disk = made.disks + 1, !.base = image, !.now = 1]
             /\ DiskThen("vars")
    <3>1. /\ here' \in Directory /\ here' # None /\ here'.disk = made.disks + 1 /\ here'.base = image
          /\ here'.snaps = here.snaps /\ here'.pairs = here.pairs
      <4>1. here' = [here EXCEPT !.disk = made.disks + 1, !.base = image, !.now = 1] /\ image \in Bases \cup {None}
        BY <1>0, <2>2 DEF DiskTypes
      <4>2. /\ here'.disk = made.disks + 1 /\ here'.base = image /\ here'.snaps = here.snaps /\ here'.pairs = here.pairs
            /\ here' \in Directory
        <5>1. here' = [disk |-> made.disks + 1, base |-> image, now |-> 1, fw |-> here.fw,
                       snaps |-> here.snaps, pairs |-> here.pairs, rec |-> here.rec]
          BY <2>0, <4>1 DEF Directory
        <5>2. /\ here.fw \in Nat /\ here.snaps \in [Tags -> [now : Nat, fw : Nat]] /\ here.pairs \in [Tags -> Nat]
              /\ here.rec \in 0..MaxLaunch /\ made.disks + 1 \in Nat
          BY <2>0 DEF Directory
        <5>3. image \in Bases \cup {None}
          BY <4>1
        <5>. QED  BY <5>1, <5>2, <5>3, Zenon DEF Directory
      <4>. QED  BY <1>0, <4>2
    <3>2. DiskTypes'
      BY <1>0, <1>4, <2>2, <3>1 DEF EnsureOverlay, DiskTypes
    <3>3. /\ DiskOf(here) = 0 /\ DiskOf(here)' = made.disks + 1 /\ made'.disks = made.disks + 1
          /\ UNCHANGED <<image, bases, kept, archived, qemu, given, started>>
      BY <1>0, <1>4, <2>0, <2>2, <3>1 DEF EnsureOverlay, HasDisk, DiskOf, DiskTypes, Directory
    <3>4. \A n \in Names : DiskOf(kept[n]) \in Nat
      BY <1>0 DEF DiskTypes, Directory, DiskOf
    <3>5. AtMostOnePlace'
      <4>1. \A d \in archived : d.disk # made.disks + 1
        BY <1>0 DEF DiskFilesInv, AtLeastOnePlace, DiskTypes, Directory
      <4>2. \A n \in Names : DiskOf(kept[n]) # made.disks + 1
        BY <1>0, <2>0, <3>4 DEF DiskFilesInv, AtLeastOnePlace
      <4>. QED  BY <1>0, <3>3, <4>1, <4>2 DEF DiskFilesInv, AtMostOnePlace, DiskOf
    <3>6. AtLeastOnePlace'
      <4>1. \A k \in (1..made.disks') \ given : k = made.disks + 1 \/ k \in (1..made.disks) \ given
        BY <2>0, <3>3
      <4>2. \A k \in (1..made.disks') \ given :
              DiskOf(here)' = k \/ (\E d \in archived : d.disk = k) \/ \E n \in Names : DiskOf(kept[n]) = k
        BY <1>0, <2>0, <3>3, <4>1 DEF DiskFilesInv, AtLeastOnePlace
      <4>3. /\ DiskOf(here)' <= made'.disks /\ (\A n \in Names : DiskOf(kept[n]) <= made'.disks)
            /\ \A d \in archived : d.disk <= made'.disks
        <5>1. \A n \in Names : DiskOf(kept[n]) <= made'.disks
          BY <1>0, <2>0, <3>3, <3>4 DEF DiskFilesInv, AtLeastOnePlace
        <5>2. \A d \in archived : d.disk \in Nat /\ d.disk <= made.disks
          BY <1>0 DEF DiskFilesInv, AtLeastOnePlace, DiskTypes, Directory
        <5>. QED  BY <2>0, <3>3, <5>1, <5>2
      <4>. QED  BY <3>3, <4>2, <4>3 DEF AtLeastOnePlace, DiskOf
    <3>7. BasesAreThere' /\ PairsFit'
      BY <1>0, <2>0, <3>1, <3>3 DEF DiskFilesInv, BasesAreThere, PairsFit, Fits, DiskOf
    <3>8. StartedStaysReachable' /\ NoneStarted'
      BY <2>0, <3>3 DEF NoneStarted, StartedStaysReachable, Alive
    <3>9. running'.op = running.op /\ running'.at = "vars"
      BY <1>0, <2>2, DisksThen
    <3>10. DiskWork'
      BY <2>0, <3>1, <3>3, <3>8, <3>9 DEF DiskWork
    <3>11. DiskStage'
      BY <1>0, <2>0, <2>2, <3>9, DisksThen DEF DiskStage
    <3>. QED  BY <3>2, <3>5, <3>6, <3>7, <3>8, <3>10, <3>11 DEF DisksIInv, DiskFilesInv
  <2>3. CASE ~ HasDisk(here) /\ GiveUp /\ UNCHANGED <<here, made>>
    <3>1. UNCHANGED DiskFiles
      BY <1>4, <2>3 DEF EnsureOverlay, DiskFiles
    <3>2. DiskStage' /\ DiskWork'
      <4>1. CASE running.op = "matrix"
        <5>1. DiskThen("halt")
          BY <2>0, <2>3, <4>1 DEF GiveUp
        <5>2. running'.op = "matrix" /\ running'.at = "halt"
          BY <1>0, <4>1, <5>1, DisksThen
        <5>3. DiskWork'
          BY <2>0, <3>1, <5>2 DEF DiskWork, NoneStarted, DiskFiles
        <5>. QED  BY <1>0, <5>1, <5>2, <5>3, DisksThen DEF DiskStage
      <4>2. CASE running.op # "matrix"
        BY <2>3, <4>2, DisksEnd DEF GiveUp
      <4>. QED  BY <4>1, <4>2
    <3>. QED  BY <1>0, <3>1, <3>2, FilesUntouched DEF DisksIInv
  <2>. QED  BY <1>4, <2>1, <2>2, <2>3 DEF EnsureOverlay
<1>5. CASE EnsureVars
  <2>1. /\ NoneStarted /\ image \in bases /\ running.op \in {"run", "matrix"} /\ here # None /\ here \in Directory
        /\ DiskOf(here) > 0
    BY <1>0, <1>5 DEF EnsureVars, Launching, DiskWork, DiskTypes
  <2>2. /\ here' \in Directory /\ here'.disk = here.disk /\ here'.base = here.base /\ here'.rec = here.rec
        /\ here'.snaps = here.snaps /\ here'.pairs = here.pairs
    BY <1>5, <2>1 DEF EnsureVars, Directory
  <2>3. here' # None /\ DiskOf(here)' = DiskOf(here)
    BY <1>0, <2>1, <2>2 DEF DiskOf
  <2>4. Arch = "aarch64" => Fits(here)'
    BY <1>0, <2>1, <2>2 DEF DiskFilesInv, PairsFit, Fits
  <2>5. DiskFilesInv'
    BY <1>0, <1>5, <2>1, <2>2, <2>3, <2>4, Rewritten DEF EnsureVars
  <2>6. running'.op = running.op /\ running'.at = "launch"
    BY <1>0, <1>5, DisksThen DEF EnsureVars
  <2>7. DiskWork'
    BY <1>5, <2>1, <2>3, <2>6 DEF EnsureVars, DiskWork, NoneStarted
  <2>8. DiskStage'
    BY <1>0, <1>5, <2>1, <2>6, DisksThen DEF EnsureVars, DiskStage
  <2>. QED  BY <2>5, <2>7, <2>8 DEF DisksIInv
<1>6. CASE LaunchDisk
  <2>0. /\ NoneStarted /\ image \in bases /\ running.op \in {"run", "matrix"} /\ here # None /\ here \in Directory
        /\ DiskOf(here) > 0 /\ here.disk \in Nat
    BY <1>0, <1>6 DEF LaunchDisk, Launching, DiskWork, DiskTypes, Directory
  <2>1. CASE /\ made.launches < MaxLaunch
             /\ made' = [made EXCEPT !.launches = @ + 1]
             /\ qemu' = [qemu EXCEPT ![made.launches + 1] = here.disk]
             /\ DiskThen("record")
    <3>1. /\ made'.launches = made.launches + 1 /\ made'.disks = made.disks /\ qemu'[made.launches + 1] = here.disk
          /\ \A l \in 1..MaxLaunch \ {made.launches + 1} : qemu'[l] = qemu[l]
          /\ UNCHANGED <<image, bases, here, kept, archived, given, started>>
      <4>1. /\ made'.launches = made.launches + 1 /\ made'.disks = made.disks /\ made.launches + 1 \in 1..MaxLaunch
        BY <1>0, <2>1, LabDisksAssumption DEF DiskTypes
      <4>2. /\ qemu'[made.launches + 1] = here.disk
            /\ \A l \in 1..MaxLaunch \ {made.launches + 1} : qemu'[l] = qemu[l]
        BY <1>0, <2>1, <4>1 DEF DiskTypes
      <4>. QED  BY <1>6, <4>1, <4>2 DEF LaunchDisk
    <3>2. DiskTypes'
      <4>1. /\ made.launches \in 0..MaxLaunch /\ made.launches + 1 \in 1..MaxLaunch /\ MaxLaunch \in Nat
        BY <1>0, <2>1, LabDisksAssumption DEF DiskTypes
      <4>a. made' \in [disks : Nat, launches : 0..MaxLaunch, moments : Nat, deaths : Nat]
        <5>1. made.launches + 1 \in 0..MaxLaunch
          BY <4>1
        <5>. QED  BY <1>0, <2>1, <5>1 DEF DiskTypes
      <4>2. qemu' \in [1..MaxLaunch -> Nat]
        BY <1>0, <2>0, <2>1 DEF DiskTypes
      <4>3. (\A l \in 1..MaxLaunch : l > made'.launches => qemu'[l] = 0) /\ started' \in 0..made'.launches
        <5>1. made'.launches = made.launches + 1 /\ started \in 0..made.launches /\ started' = started
          BY <1>0, <3>1 DEF DiskTypes
        <5>2. \A l \in 1..MaxLaunch : l > made.launches + 1 => l # made.launches + 1 /\ l > made.launches
          BY <4>1
        <5>3. \A l \in 1..MaxLaunch : l > made.launches + 1 => qemu'[l] = 0
          BY <1>0, <3>1, <5>2 DEF DiskTypes
        <5>. QED  BY <4>1, <5>1, <5>3
      <4>. QED  BY <1>0, <3>1, <4>a, <4>2, <4>3 DEF DiskTypes
    <3>3. AtMostOnePlace' /\ AtLeastOnePlace' /\ BasesAreThere' /\ PairsFit'
      BY <1>0, <3>1 DEF DiskFilesInv, AtMostOnePlace, AtLeastOnePlace, BasesAreThere, PairsFit, DiskOf, Fits
    <3>4. NoneStarted' /\ StartedStaysReachable'
      <4>1. started > 0 => qemu'[started] = qemu[started]
        BY <1>0, <3>1, LabDisksAssumption DEF DiskTypes
      <4>. QED  BY <2>0, <3>1, <4>1 DEF NoneStarted, StartedStaysReachable, Alive
    <3>5. running'.op = running.op /\ running'.at = "record"
      BY <1>0, <2>1, DisksThen
    <3>6. DiskWork'
      <4>1. made'.launches > 0 /\ qemu'[made'.launches] \in {0, here'.disk} /\ DiskOf(here)' > 0 /\ image' \in bases' /\ here' # None
        BY <1>0, <2>0, <3>1 DEF DiskTypes, DiskOf
      <4>. QED  BY <2>0, <3>4, <3>5, <4>1 DEF DiskWork
    <3>7. DiskStage'
      BY <1>0, <2>0, <2>1, <3>5, DisksThen DEF DiskStage
    <3>. QED  BY <3>2, <3>3, <3>4, <3>6, <3>7 DEF DisksIInv, DiskFilesInv
  <2>2. CASE GiveUp /\ UNCHANGED <<made, qemu>>
    <3>1. UNCHANGED DiskFiles
      BY <1>6, <2>2 DEF LaunchDisk, DiskFiles
    <3>2. DiskStage' /\ DiskWork'
      <4>1. CASE running.op = "matrix"
        <5>1. DiskThen("halt")
          BY <2>0, <2>2, <4>1 DEF GiveUp
        <5>2. running'.op = "matrix" /\ running'.at = "halt"
          BY <1>0, <4>1, <5>1, DisksThen
        <5>3. DiskWork'
          BY <2>0, <3>1, <5>2 DEF DiskWork, NoneStarted, DiskFiles
        <5>. QED  BY <1>0, <5>1, <5>2, <5>3, DisksThen DEF DiskStage
      <4>2. CASE running.op # "matrix"
        BY <2>2, <4>2, DisksEnd DEF GiveUp
      <4>. QED  BY <4>1, <4>2
    <3>. QED  BY <1>0, <3>1, <3>2, FilesUntouched DEF DisksIInv
  <2>. QED  BY <1>6, <2>1, <2>2 DEF LaunchDisk
<1>7. CASE RecordRun
  <2>0. /\ NoneStarted /\ image \in bases /\ running.op \in {"run", "matrix"} /\ here # None /\ here \in Directory
        /\ DiskOf(here) > 0 /\ made.launches > 0 /\ qemu[made.launches] \in {0, here.disk} /\ made.launches \in 0..MaxLaunch
    BY <1>0, <1>7 DEF RecordRun, Launching, DiskWork, DiskTypes
  <2>1. /\ here' \in Directory /\ here'.disk = here.disk /\ here'.base = here.base /\ here'.rec = made.launches
        /\ here'.snaps = here.snaps /\ here'.pairs = here.pairs
    BY <1>7, <2>0, LabDisksAssumption DEF RecordRun, Directory
  <2>2. here' # None /\ DiskOf(here)' = DiskOf(here)
    BY <1>0, <2>0, <2>1 DEF DiskOf
  <2>3. Arch = "aarch64" => Fits(here)'
    BY <1>0, <2>0, <2>1 DEF DiskFilesInv, PairsFit, Fits
  <2>4. AtMostOnePlace' /\ AtLeastOnePlace' /\ BasesAreThere' /\ PairsFit'
    BY <1>0, <1>7, <2>1, <2>2, <2>3, SamePlaces DEF RecordRun, DiskOf, Fits
  <2>5. CASE running.op = "run" /\ DiskEnds("done") /\ started' = made.launches
    <3>1. DiskTypes'
      BY <1>0, <1>7, <2>0, <2>1, <2>5 DEF RecordRun, DiskTypes
    <3>2. StartedStaysReachable'
      BY <1>7, <2>0, <2>1, <2>2, <2>5 DEF RecordRun, StartedStaysReachable, Alive
    <3>. QED  BY <2>4, <2>5, <3>1, <3>2, DisksEnd DEF DisksIInv, DiskFilesInv
  <2>6. CASE DiskThen("halt") /\ UNCHANGED started /\ running.op = "matrix"
    <3>1. DiskTypes'
      BY <1>0, <1>7, <2>0, <2>1, <2>6 DEF RecordRun, DiskTypes
    <3>2. StartedStaysReachable' /\ NoneStarted'
      BY <1>7, <2>0, <2>6 DEF RecordRun, StartedStaysReachable, NoneStarted, Alive
    <3>3. running'.op = "matrix" /\ running'.at = "halt"
      BY <1>0, <2>6, DisksThen
    <3>4. DiskWork'
      BY <1>7, <2>0, <2>2, <3>2, <3>3 DEF RecordRun, DiskWork
    <3>5. DiskStage'
      BY <1>0, <2>6, <3>3, DisksThen DEF DiskStage
    <3>. QED  BY <2>4, <3>1, <3>2, <3>4, <3>5 DEF DisksIInv, DiskFilesInv
  <2>. QED  BY <1>7, <2>0, <2>5, <2>6 DEF RecordRun
<1>. QED  BY <1>1, <1>2, <1>3, <1>4, <1>5, <1>6, <1>7

LEMMA HaltingStep == DisksIInv /\ (Halt \/ Unlink) => DisksIInv'
<1>. SUFFICES ASSUME DisksIInv, Halt \/ Unlink
              PROVE  DisksIInv'
  OBVIOUS
<1>0. /\ DiskFilesInv /\ DiskStage /\ DiskWork /\ DiskTypes
      /\ None \notin Names /\ None \notin Directory /\ None \notin Bases
  BY NoDirectory DEF DisksIInv, DiskFilesInv
<1>1. CASE Halt
  <2>0. running.op \in {"matrix", "stop", "reset"} /\ here # None /\ here \in Directory
    BY <1>0, <1>1 DEF Halt, DiskStage, DiskWork, DiskTypes
  <2>1. CASE DiskRuns /\ running.arg = TRUE /\ DiskEnds("preserved") /\ UNCHANGED <<qemu, started>>
    <3>1. UNCHANGED DiskFiles
      BY <1>1, <2>1 DEF Halt, DiskFiles
    <3>. QED  BY <1>0, <2>1, <3>1, FilesUntouched, DisksEnd DEF DisksIInv
  <2>2. ASSUME DiskThen("unlink"), DiskFilesInv', NoneStarted', UNCHANGED <<image, bases, here, kept>>
        PROVE  DisksIInv'
    <3>1. running'.op = running.op /\ running'.at = "unlink" /\ running'.arg = running.arg
      BY <1>0, <2>2, DisksThen
    <3>2. DiskWork'
      BY <1>0, <2>0, <2>2, <3>1 DEF DiskWork
    <3>3. DiskStage'
      BY <1>0, <2>0, <2>2, <3>1, DisksThen DEF DiskStage
    <3>. QED  BY <2>2, <3>2, <3>3 DEF DisksIInv
  <2>3. CASE ~ DiskRuns /\ DiskThen("unlink") /\ UNCHANGED <<qemu, started>>
    <3>1. UNCHANGED DiskFiles /\ NoneStarted'
      BY <1>0, <1>1, <2>3, NotRunning DEF Halt, DiskFiles, NoneStarted
    <3>. QED  BY <1>0, <1>1, <2>2, <2>3, <3>1, FilesUntouched DEF Halt
  <2>4. CASE DiskRuns /\ started' = 0 /\ (qemu' = [qemu EXCEPT ![here.rec] = 0] \/ UNCHANGED qemu) /\ DiskThen("unlink")
    <3>1. NoneStarted' /\ StartedStaysReachable'
      BY <2>4 DEF NoneStarted, StartedStaysReachable
    <3>2. qemu' \in [1..MaxLaunch -> Nat] /\ \A l \in 1..MaxLaunch : qemu[l] = 0 => qemu'[l] = 0
      <4>1. qemu \in [1..MaxLaunch -> Nat]
        BY <1>0 DEF DiskTypes
      <4>2. ASSUME NEW r, qemu' = [qemu EXCEPT ![r] = 0]
            PROVE  qemu' \in [1..MaxLaunch -> Nat] /\ \A l \in 1..MaxLaunch : qemu[l] = 0 => qemu'[l] = 0
        BY <4>1, <4>2
      <4>3. CASE UNCHANGED qemu
        BY <4>1, <4>3
      <4>. QED  BY <2>4, <4>2, <4>3
    <3>3. DiskTypes'
      BY <1>0, <1>1, <2>4, <3>2, LabDisksAssumption DEF Halt, DiskTypes
    <3>4. AtMostOnePlace' /\ AtLeastOnePlace' /\ BasesAreThere' /\ PairsFit'
      BY <1>0, <1>1 DEF Halt, DiskFilesInv, AtMostOnePlace, AtLeastOnePlace, BasesAreThere, PairsFit, DiskOf, Fits
    <3>. QED  BY <1>1, <2>2, <2>4, <3>1, <3>3, <3>4 DEF Halt, DiskFilesInv
  <2>. QED  BY <1>1, <2>1, <2>3, <2>4 DEF Halt
<1>2. CASE Unlink
  <2>0. running.op \in {"matrix", "stop", "reset"} /\ here # None /\ here \in Directory /\ NoneStarted
    BY <1>0, <1>2 DEF Unlink, DiskStage, DiskWork, DiskTypes
  <2>1. /\ here' \in Directory /\ here'.disk = here.disk /\ here'.base = here.base
        /\ here'.snaps = here.snaps /\ here'.pairs = here.pairs
    BY <1>2, <2>0, LabDisksAssumption DEF Unlink, Directory
  <2>2. here' # None /\ DiskOf(here)' = DiskOf(here)
    BY <1>0, <2>0, <2>1 DEF DiskOf
  <2>3. Arch = "aarch64" => Fits(here)'
    BY <1>0, <2>0, <2>1 DEF DiskFilesInv, PairsFit, Fits
  <2>4. DiskFilesInv'
    BY <1>0, <1>2, <2>0, <2>1, <2>2, <2>3, Rewritten DEF Unlink
  <2>5. CASE running.op = "stop"
    BY <1>2, <2>4, <2>5, DisksEnd DEF Unlink, DisksIInv
  <2>6. CASE running.op \in {"matrix", "reset"}
    <3>1. \E a : DiskThen(a) /\ a = IF running.op = "reset" /\ running.arg \in Names THEN "backup" ELSE "rmtree"
      BY <1>2, <2>6 DEF Unlink
    <3>2. PICK a : DiskThen(a) /\ a = IF running.op = "reset" /\ running.arg \in Names THEN "backup" ELSE "rmtree"
      BY <3>1
    <3>3. running'.op = running.op /\ running'.at = a /\ running'.arg = running.arg
      BY <1>0, <3>2, DisksThen
    <3>4. DiskWork'
      BY <1>0, <1>2, <2>0, <2>2, <2>6, <3>2, <3>3 DEF Unlink, DiskWork, NoneStarted
    <3>5. DiskStage'
      BY <1>0, <2>6, <3>2, <3>3, DisksThen DEF DiskStage
    <3>. QED  BY <2>4, <3>4, <3>5 DEF DisksIInv
  <2>. QED  BY <2>0, <2>5, <2>6
<1>. QED  BY <1>1, <1>2

(* Snapshots: of the directory in place, only what the snapshot and the NVRAM hold changes. *)
Snapshots == CopyToPair \/ TakeSnap \/ ApplySnap \/ RestorePair \/ DropSnap \/ Unpair

LEMMA SnapshotsStep == DisksIInv /\ Snapshots => DisksIInv'
<1>. SUFFICES ASSUME DisksIInv, Snapshots
              PROVE  DisksIInv'
  OBVIOUS
<1>0. /\ DiskFilesInv /\ DiskStage /\ DiskWork /\ DiskTypes
      /\ None \notin Names /\ None \notin Directory /\ None \notin Bases
  BY NoDirectory DEF DisksIInv, DiskFilesInv
<1>a. /\ UNCHANGED <<image, bases, kept, archived, qemu, made, given, started>>
      /\ running.op \in {"create", "revert", "delete"}
  BY <1>0 DEF Snapshots, CopyToPair, TakeSnap, ApplySnap, RestorePair, DropSnap, Unpair, DiskAt
<1>b. /\ DiskOf(here) > 0 /\ Free(here) /\ running.arg \in Tags
      /\ here # None /\ here \in Directory
  BY <1>0, <1>a DEF DiskWork, DiskOf, DiskTypes
<1>c. /\ here.snaps \in [Tags -> [now : Nat, fw : Nat]] /\ here.pairs \in [Tags -> Nat] /\ here.fw \in Nat /\ here.now \in Nat
      /\ Arch = "aarch64" => Fits(here)
  BY <1>0, <1>b DEF Directory, DiskFilesInv, PairsFit
<1>d. Nvram(here) \in Nat /\ (Arch = "aarch64" => Nvram(here) = here.fw)
  BY <1>c DEF Nvram
<1>e. ASSUME NEW d, here' = d, d \in Directory, d.disk = here.disk, d.base = here.base, d.rec = here.rec, Arch = "aarch64" => Fits(d)
      PROVE  DiskFilesInv' /\ DiskOf(here)' > 0 /\ Free(here)' /\ here' # None
  <2>1. d # None /\ DiskOf(here)' = DiskOf(here)
    BY <1>0, <1>b, <1>e DEF DiskOf
  <2>2. Arch = "aarch64" => Fits(here)'
    BY <1>e DEF Fits
  <2>3. DiskFilesInv'
    BY <1>0, <1>a, <1>b, <1>e, <2>1, <2>2, Rewritten
  <2>. QED  BY <1>a, <1>b, <1>e, <2>1, <2>3 DEF Free
<1>1. CASE CopyToPair
  <2>1. here.snaps[running.arg] = NoSnap /\ running.op = "create"
    BY <1>0, <1>1 DEF CopyToPair, DiskAt, DiskWork
  <2>2. PICK d : here' = d /\ d = [here EXCEPT !.pairs[running.arg] = Nvram(here)]
    BY <1>1 DEF CopyToPair
  <2>3. /\ d \in Directory /\ d.disk = here.disk /\ d.base = here.base /\ d.rec = here.rec /\ d.snaps = here.snaps /\ d.fw = here.fw
        /\ d.pairs = [here.pairs EXCEPT ![running.arg] = Nvram(here)]
    BY <1>b, <1>c, <1>d, <2>2 DEF Directory
  <2>4. Arch = "aarch64" => Fits(d)
    BY <1>b, <1>c, <2>1, <2>3 DEF Fits, NoSnap
  <2>5. DiskFilesInv' /\ DiskOf(here)' > 0 /\ Free(here)' /\ here' # None
    BY <1>e, <2>2, <2>3, <2>4
  <2>6. running'.op = "create" /\ running'.at = "snap" /\ running'.arg = running.arg
    BY <1>0, <1>1, <2>1, DisksThen DEF CopyToPair
  <2>7. Nvram(here)' = Nvram(here) /\ here'.pairs[running.arg] = Nvram(here)
    BY <1>b, <1>c, <2>2, <2>3 DEF Nvram
  <2>8. DiskWork'
    BY <1>b, <2>1, <2>2, <2>3, <2>5, <2>6, <2>7 DEF DiskWork
  <2>9. DiskStage'
    BY <1>0, <1>1, <2>6, DisksThen DEF CopyToPair, DiskStage
  <2>. QED  BY <2>5, <2>8, <2>9 DEF DisksIInv
<1>2. CASE TakeSnap
  <2>1. here.snaps[running.arg] = NoSnap /\ Nvram(here) \in {0, here.pairs[running.arg]}
    BY <1>0, <1>2 DEF TakeSnap, DiskAt, DiskWork
  <2>2. CASE here' = [here EXCEPT !.snaps[running.arg] = [now |-> here.now, fw |-> here.fw]]
    <3>2. PICK d : here' = d /\ d = [here EXCEPT !.snaps[running.arg] = [now |-> here.now, fw |-> here.fw]]
      BY <2>2
    <3>3. /\ d \in Directory /\ d.disk = here.disk /\ d.base = here.base /\ d.rec = here.rec /\ d.pairs = here.pairs
          /\ d.snaps = [here.snaps EXCEPT ![running.arg] = [now |-> here.now, fw |-> here.fw]]
      BY <1>b, <1>c, <3>2 DEF Directory
    <3>4. Arch = "aarch64" => Fits(d)
      BY <1>b, <1>c, <1>d, <2>1, <3>3 DEF Fits
    <3>. QED  BY <1>2, <1>e, <3>2, <3>3, <3>4, DisksEnd DEF TakeSnap, DisksIInv
  <2>3. CASE here' = IF Nvram(here) > 0 THEN [here EXCEPT !.pairs[running.arg] = 0] ELSE here
    <3>2. PICK d : here' = d /\ d = IF Nvram(here) > 0 THEN [here EXCEPT !.pairs[running.arg] = 0] ELSE here
      BY <2>3
    <3>3. /\ d \in Directory /\ d.disk = here.disk /\ d.base = here.base /\ d.rec = here.rec /\ d.snaps = here.snaps
          /\ d.pairs \in {here.pairs, [here.pairs EXCEPT ![running.arg] = 0]}
      BY <1>b, <1>c, <3>2 DEF Directory
    <3>4. Arch = "aarch64" => Fits(d)
      BY <1>b, <1>c, <3>3 DEF Fits
    <3>. QED  BY <1>2, <1>e, <3>2, <3>3, <3>4, DisksEnd DEF TakeSnap, DisksIInv
  <2>. QED  BY <1>2, <2>2, <2>3 DEF TakeSnap
<1>3. CASE ApplySnap
  <2>1. running.op = "revert" /\ (Nvram(here) > 0 => here.pairs[running.arg] > 0)
    BY <1>0, <1>3 DEF ApplySnap, DiskAt, DiskWork
  <2>2. PICK d : here' = d /\ d = [here EXCEPT !.now = here.snaps[running.arg].now]
    BY <1>3 DEF ApplySnap
  <2>3. /\ d \in Directory /\ d.disk = here.disk /\ d.base = here.base /\ d.rec = here.rec /\ d.snaps = here.snaps
        /\ d.pairs = here.pairs /\ d.now = here.snaps[running.arg].now
    BY <1>b, <1>c, <2>2 DEF Directory
  <2>4. Arch = "aarch64" => Fits(d)
    BY <1>c, <2>3 DEF Fits
  <2>5. DiskFilesInv' /\ DiskOf(here)' > 0 /\ Free(here)' /\ here' # None
    BY <1>e, <2>2, <2>3, <2>4
  <2>6. CASE here.pairs[running.arg] = 0
    BY <1>3, <2>5, <2>6, DisksEnd DEF ApplySnap, DisksIInv
  <2>7. CASE here.pairs[running.arg] # 0
    <3>1. DiskThen("restore")
      BY <1>3, <2>7 DEF ApplySnap
    <3>2. running'.op = "revert" /\ running'.at = "restore" /\ running'.arg = running.arg
      BY <1>0, <2>1, <3>1, DisksThen
    <3>3. here'.pairs[running.arg] > 0 /\ here'.now = here'.snaps[running.arg].now
      BY <1>b, <1>c, <2>2, <2>3, <2>7
    <3>4. DiskWork'
      BY <1>b, <2>5, <3>2, <3>3 DEF DiskWork
    <3>5. DiskStage'
      BY <1>0, <3>1, <3>2, DisksThen DEF DiskStage
    <3>. QED  BY <2>5, <3>4, <3>5 DEF DisksIInv
  <2>. QED  BY <2>6, <2>7
<1>4. CASE RestorePair
  <2>2. PICK d : here' = d /\ d = [here EXCEPT !.fw = here.pairs[running.arg]]
    BY <1>4 DEF RestorePair
  <2>3. /\ d \in Directory /\ d.disk = here.disk /\ d.base = here.base /\ d.rec = here.rec /\ d.snaps = here.snaps
        /\ d.pairs = here.pairs
    BY <1>b, <1>c, <2>2 DEF Directory
  <2>4. Arch = "aarch64" => Fits(d)
    BY <1>c, <2>3 DEF Fits
  <2>. QED  BY <1>4, <1>e, <2>2, <2>3, <2>4, DisksEnd DEF RestorePair, DisksIInv
<1>5. CASE DropSnap
  <2>1. running.op = "delete"
    BY <1>0, <1>5 DEF DropSnap, DiskAt
  <2>2. PICK d : here' = d /\ d = [here EXCEPT !.snaps[running.arg] = NoSnap]
    BY <1>5 DEF DropSnap
  <2>3. /\ d \in Directory /\ d.disk = here.disk /\ d.base = here.base /\ d.rec = here.rec /\ d.pairs = here.pairs
        /\ d.snaps = [here.snaps EXCEPT ![running.arg] = NoSnap]
    BY <1>b, <1>c, <2>2 DEF Directory, NoSnap
  <2>4. Arch = "aarch64" => Fits(d)
    BY <1>b, <1>c, <2>3 DEF Fits, NoSnap
  <2>5. DiskFilesInv' /\ DiskOf(here)' > 0 /\ Free(here)' /\ here' # None
    BY <1>e, <2>2, <2>3, <2>4
  <2>6. CASE DiskEnds("done")
    BY <2>5, <2>6, DisksEnd DEF DisksIInv
  <2>7. CASE DiskThen("unpair")
    <3>2. running'.op = "delete" /\ running'.at = "unpair" /\ running'.arg = running.arg
      BY <1>0, <2>1, <2>7, DisksThen
    <3>4. DiskWork'
      BY <1>b, <2>5, <3>2 DEF DiskWork
    <3>5. DiskStage'
      BY <1>0, <2>7, <3>2, DisksThen DEF DiskStage
    <3>. QED  BY <2>5, <3>4, <3>5 DEF DisksIInv
  <2>. QED  BY <1>5, <2>6, <2>7 DEF DropSnap
<1>6. CASE Unpair
  <2>2. PICK d : here' = d /\ d = [here EXCEPT !.pairs[running.arg] = 0]
    BY <1>6 DEF Unpair
  <2>3. /\ d \in Directory /\ d.disk = here.disk /\ d.base = here.base /\ d.rec = here.rec /\ d.snaps = here.snaps
        /\ d.pairs = [here.pairs EXCEPT ![running.arg] = 0]
    BY <1>b, <1>c, <2>2 DEF Directory
  <2>4. Arch = "aarch64" => Fits(d)
    BY <1>b, <1>c, <2>3 DEF Fits
  <2>. QED  BY <1>6, <1>e, <2>2, <2>3, <2>4, DisksEnd DEF Unpair, DisksIInv
<1>. QED  BY <1>1, <1>2, <1>3, <1>4, <1>5, <1>6 DEF Snapshots

(* Moves of whole directories. *)
LEMMA ArchiveStep == DisksIInv /\ (Archive \/ MoveBack) => DisksIInv'
<1>. SUFFICES ASSUME DisksIInv, Archive \/ MoveBack
              PROVE  DisksIInv'
  OBVIOUS
<1>0. /\ DiskFilesInv /\ DiskStage /\ DiskWork /\ DiskTypes /\ AtMostOnePlace /\ AtLeastOnePlace /\ BasesAreThere /\ PairsFit
      /\ None \notin Names /\ None \notin Directory /\ None \notin Bases
  BY NoDirectory DEF DisksIInv, DiskFilesInv
<1>a. made.disks \in Nat /\ \A d \in Directory : d # None /\ DiskOf(d) = d.disk /\ d.disk \in Nat
  BY <1>0 DEF DiskTypes, Directory, DiskOf
<1>1. CASE Archive
  <2>1. /\ running.op = "finalize" /\ NoneStarted /\ DiskOf(here) > 0 /\ Free(here) /\ here.base \in bases
        /\ running.arg \in Bases
    BY <1>0, <1>1 DEF Archive, DiskAt, DiskWork
  <2>2. /\ here \in Directory /\ here # None /\ archived' = archived \cup {here} /\ here' = None
        /\ UNCHANGED <<image, bases, kept, qemu, made, given, started>> /\ DiskOf(here)' = 0
    BY <1>0, <1>1, <2>1 DEF Archive, DiskTypes, DiskOf
  <2>3. DiskTypes'
    BY <1>0, <2>2 DEF DiskTypes
  <2>4. AtMostOnePlace'
    <3>1. \A n \in Names : DiskOf(kept[n])' = DiskOf(kept[n]) /\ DiskOf(kept[n]) # here.disk
      BY <1>0, <1>a, <2>1, <2>2 DEF AtMostOnePlace, DiskOf
    <3>2. \A d \in archived : d.disk # here.disk
      BY <1>0, <1>a, <2>2 DEF AtMostOnePlace
    <3>. QED  BY <1>0, <1>a, <2>1, <2>2, <3>1, <3>2 DEF AtMostOnePlace
  <2>5. AtLeastOnePlace'
    <3>1. \A n \in Names : DiskOf(kept[n])' = DiskOf(kept[n])
      BY <2>2 DEF DiskOf
    <3>. QED  BY <1>0, <1>a, <2>2, <3>1 DEF AtLeastOnePlace
  <2>6. BasesAreThere' /\ PairsFit'
    BY <1>0, <2>2 DEF BasesAreThere, PairsFit, DiskOf, Fits
  <2>7. NoneStarted' /\ StartedStaysReachable'
    BY <2>1, <2>2 DEF NoneStarted, StartedStaysReachable, Alive
  <2>8. running'.op = "finalize" /\ running'.at = "register" /\ running'.arg = running.arg /\ running'.aside = here
    BY <1>0, <1>1, <2>1, DisksThenAside DEF Archive
  <2>9. DiskWork'
    <3>1. Free(running.aside)' /\ running'.aside.base \in bases' /\ running'.aside \in archived'
      BY <2>1, <2>2, <2>8 DEF Free
    <3>. QED  BY <2>1, <2>2, <2>7, <2>8, <3>1 DEF DiskWork
  <2>10. DiskStage'
    BY <1>0, <1>1, <2>8, DisksThenAside DEF Archive, DiskStage
  <2>. QED  BY <2>3, <2>4, <2>5, <2>6, <2>7, <2>9, <2>10 DEF DisksIInv, DiskFilesInv
<1>2. CASE MoveBack
  <2>1. PICK d : d = running.aside
    OBVIOUS
  <2>2. /\ NoneStarted /\ here = None /\ d \in archived /\ d \in Directory /\ d.base \in bases /\ here' = d /\ archived' = archived \ {d}
        /\ UNCHANGED <<image, bases, kept, qemu, made, given, started>> /\ d # None /\ DiskOf(here)' = d.disk /\ DiskOf(here) = 0
    BY <1>0, <1>2, <2>1 DEF MoveBack, DiskAt, DiskWork, DiskTypes, DiskOf
  <2>3. DiskTypes'
    BY <1>0, <2>2 DEF DiskTypes
  <2>4. \A n \in Names : DiskOf(kept[n])' = DiskOf(kept[n])
    BY <2>2 DEF DiskOf
  <2>5. AtMostOnePlace'
    BY <1>0, <1>a, <2>2, <2>4 DEF AtMostOnePlace
  <2>6. AtLeastOnePlace'
    BY <1>0, <1>a, <2>2, <2>4 DEF AtLeastOnePlace
  <2>7. BasesAreThere' /\ PairsFit'
    BY <1>0, <2>2 DEF BasesAreThere, PairsFit, DiskOf, Fits
  <2>8. StartedStaysReachable'
    BY <2>2 DEF NoneStarted, StartedStaysReachable, Alive
  <2>. QED  BY <1>2, <2>3, <2>5, <2>6, <2>7, <2>8, DisksEnd DEF MoveBack, DisksIInv, DiskFilesInv
<1>. QED  BY <1>1, <1>2

LEMMA BackupStep == DisksIInv /\ (MoveToBackup \/ MoveAside) => DisksIInv'
<1>. SUFFICES ASSUME DisksIInv, MoveToBackup \/ MoveAside
              PROVE  DisksIInv'
  OBVIOUS
<1>0. /\ DiskFilesInv /\ DiskStage /\ DiskWork /\ DiskTypes /\ AtMostOnePlace /\ AtLeastOnePlace /\ BasesAreThere /\ PairsFit
      /\ None \notin Names /\ None \notin Directory /\ None \notin Bases
  BY NoDirectory DEF DisksIInv, DiskFilesInv
<1>a. made.disks \in Nat /\ \A d \in Directory : d # None /\ DiskOf(d) = d.disk /\ d.disk \in Nat
  BY <1>0 DEF DiskTypes, Directory, DiskOf
<1>1. PICK m \in Names : kept[m] = None /\ kept' = [kept EXCEPT ![m] = here]
                         /\ (MoveToBackup => m = running.arg) /\ (MoveAside => DiskThenAside("swap", m))
  BY <1>0 DEF MoveToBackup, MoveAside, DiskAt, DiskWork
<1>2. /\ NoneStarted /\ here # None /\ here \in Directory /\ here' = None /\ DiskOf(here)' = 0 /\ DiskOf(here) = here.disk
      /\ UNCHANGED <<image, bases, archived, qemu, made, given, started>>
  BY <1>0 DEF MoveToBackup, MoveAside, DiskAt, DiskWork, DiskTypes, DiskOf
<1>3. kept'[m] = here /\ \A n \in Names \ {m} : kept'[n] = kept[n]
  BY <1>0, <1>1 DEF DiskTypes
<1>4. /\ DiskOf(kept[m]) = 0 /\ DiskOf(kept[m])' = here.disk
      /\ \A n \in Names \ {m} : DiskOf(kept[n])' = DiskOf(kept[n])
  BY <1>2, <1>1, <1>3 DEF DiskOf
<1>5. DiskTypes'
  BY <1>0, <1>1, <1>2 DEF DiskTypes
<1>6. AtMostOnePlace'
  BY <1>0, <1>a, <1>2, <1>3, <1>4 DEF AtMostOnePlace
<1>7. AtLeastOnePlace'
  BY <1>0, <1>a, <1>2, <1>3, <1>4 DEF AtLeastOnePlace
<1>8. BasesAreThere' /\ PairsFit'
  BY <1>0, <1>2, <1>3 DEF BasesAreThere, PairsFit, DiskOf, Fits
<1>9. StartedStaysReachable' /\ NoneStarted'
  BY <1>2 DEF NoneStarted, StartedStaysReachable, Alive
<1>10. DiskFilesInv'
  BY <1>5, <1>6, <1>7, <1>8, <1>9 DEF DiskFilesInv
<1>11. CASE MoveToBackup
  BY <1>10, <1>11, DisksEnd DEF MoveToBackup, DisksIInv
<1>12. CASE MoveAside
  <2>1. running.op = "restore" /\ running.arg \in Names /\ DiskOf(kept[running.arg]) > 0
    BY <1>0, <1>12 DEF MoveAside, DiskAt, DiskWork
  <2>2. running'.op = "restore" /\ running'.at = "swap" /\ running'.arg = running.arg /\ running'.aside = m
    BY <1>0, <1>1, <1>12, <2>1, DisksThenAside
  <2>3. m # running.arg /\ DiskOf(kept[running.arg])' > 0 /\ kept'[m] # None
    <3>1. m # running.arg
      BY <1>4, <2>1
    <3>2. kept'[running'.arg] = kept[running.arg] /\ kept'[m] # None
      BY <1>2, <1>3, <2>1, <2>2, <3>1
    <3>. QED  BY <2>1, <3>1, <3>2 DEF DiskOf
  <2>4. DiskWork'
    BY <1>1, <1>2, <1>9, <2>1, <2>2, <2>3 DEF DiskWork
  <2>5. DiskStage'
    BY <1>0, <1>1, <1>12, <2>2, DisksThenAside DEF DiskStage
  <2>. QED  BY <1>10, <2>4, <2>5 DEF DisksIInv
<1>. QED  BY <1>11, <1>12

LEMMA SwapStep == DisksIInv /\ (SwapIn \/ SwapBack) => DisksIInv'
<1>. SUFFICES ASSUME DisksIInv, SwapIn \/ SwapBack
              PROVE  DisksIInv'
  OBVIOUS
<1>0. /\ DiskFilesInv /\ DiskStage /\ DiskWork /\ DiskTypes /\ AtMostOnePlace /\ AtLeastOnePlace /\ BasesAreThere /\ PairsFit
      /\ None \notin Names /\ None \notin Directory /\ None \notin Bases
  BY NoDirectory DEF DisksIInv, DiskFilesInv
<1>a. made.disks \in Nat /\ \A d \in Directory : d # None /\ DiskOf(d) = d.disk /\ d.disk \in Nat
  BY <1>0 DEF DiskTypes, Directory, DiskOf
<1>b. /\ NoneStarted /\ here = None /\ DiskOf(here) = 0 /\ running.arg \in Names /\ DiskOf(kept[running.arg]) > 0
      /\ UNCHANGED <<image, bases, archived, qemu, made, given, started>>
      /\ running.aside # None => running.aside \in Names /\ kept[running.aside] # None
  BY <1>0 DEF SwapIn, SwapBack, DiskAt, DiskWork, DiskOf
<1>c. DiskStage' /\ DiskWork'
  BY DisksEnd DEF SwapIn, SwapBack
<1>1. ASSUME NEW m \in Names, NEW d, kept[m] # None, kept' = [kept EXCEPT ![m] = None], here' = d,
             d \in Directory, d.disk = kept[m].disk, d.base = kept[m].base, d.snaps = kept[m].snaps, d.pairs = kept[m].pairs
      PROVE  DisksIInv'
  <2>1. /\ kept[m] \in Directory /\ kept'[m] = None /\ DiskOf(kept[m])' = 0 /\ DiskOf(here)' = d.disk /\ DiskOf(kept[m]) = d.disk
        /\ \A n \in Names \ {m} : kept'[n] = kept[n] /\ DiskOf(kept[n])' = DiskOf(kept[n])
    BY <1>0, <1>1 DEF DiskTypes, DiskOf
  <2>2. DiskTypes'
    BY <1>0, <1>b, <1>1 DEF DiskTypes
  <2>3. AtMostOnePlace'
    BY <1>0, <1>a, <1>b, <1>1, <2>1 DEF AtMostOnePlace
  <2>4. AtLeastOnePlace'
    BY <1>0, <1>a, <1>b, <1>1, <2>1 DEF AtLeastOnePlace
  <2>5. BasesAreThere' /\ PairsFit'
    BY <1>0, <1>b, <1>1, <2>1 DEF BasesAreThere, PairsFit, DiskOf, Fits
  <2>6. StartedStaysReachable'
    BY <1>b DEF NoneStarted, StartedStaysReachable, Alive
  <2>. QED  BY <1>c, <2>2, <2>3, <2>4, <2>5, <2>6 DEF DisksIInv, DiskFilesInv
<1>2. CASE SwapIn
  <2>1. kept[running.arg] \in Directory /\ kept[running.arg] # None
    BY <1>0, <1>b DEF DiskTypes, DiskOf
  <2>2. PICK d : d = [kept[running.arg] EXCEPT !.rec = 0]
    OBVIOUS
  <2>3. /\ d \in Directory /\ d.disk = kept[running.arg].disk /\ d.base = kept[running.arg].base
        /\ d.snaps = kept[running.arg].snaps /\ d.pairs = kept[running.arg].pairs
    BY <2>1, <2>2, LabDisksAssumption DEF Directory
  <2>4. here' = d /\ kept' = [kept EXCEPT ![running.arg] = None]
    BY <1>2, <2>2 DEF SwapIn
  <2>5. PICK m \in Names : m = running.arg
    BY <1>b
  <2>. QED  BY <1>1, <2>1, <2>3, <2>4, <2>5
<1>3. CASE SwapBack
  <2>1. CASE running.aside = None
    <3>1. UNCHANGED DiskFiles
      BY <1>b, <1>3, <2>1 DEF SwapBack, DiskFiles
    <3>. QED  BY <1>0, <1>c, <3>1, FilesUntouched DEF DisksIInv
  <2>2. CASE running.aside # None
    <3>1. PICK m \in Names : m = running.aside
      BY <1>b, <2>2
    <3>2. PICK d : d = kept[m]
      OBVIOUS
    <3>3. kept[m] # None /\ d \in Directory /\ here' = d /\ kept' = [kept EXCEPT ![m] = None]
      BY <1>0, <1>b, <1>3, <2>2, <3>1, <3>2 DEF SwapBack, DiskTypes
    <3>. QED  BY <1>1, <3>2, <3>3
  <2>. QED  BY <2>1, <2>2
<1>. QED  BY <1>2, <1>3

(* Removals, complete or cut short. *)
LEMMA WithoutType ==
  ASSUME NEW d \in Directory, NEW parts
  PROVE  /\ Without(d, parts) \in Directory /\ Without(d, parts).disk \in {0, d.disk}
         /\ Without(d, parts).disk > 0 => Without(d, parts).base = d.base
         /\ Fits(d) => Fits(Without(d, parts))
<1>1. PICK w : w = Without(d, parts)
  OBVIOUS
<1>2. /\ w = [disk |-> w.disk, base |-> w.base, now |-> w.now, fw |-> w.fw, snaps |-> w.snaps, pairs |-> w.pairs, rec |-> w.rec]
      /\ w.disk = (IF "overlay" \in parts THEN 0 ELSE d.disk) /\ w.base = (IF "overlay" \in parts THEN None ELSE d.base)
      /\ w.now = (IF "overlay" \in parts THEN 0 ELSE d.now) /\ w.snaps = (IF "overlay" \in parts THEN Bare.snaps ELSE d.snaps)
      /\ w.fw = (IF "nvram" \in parts THEN 0 ELSE d.fw) /\ w.pairs = (IF "pairs" \in parts THEN Bare.pairs ELSE d.pairs)
      /\ w.rec = (IF "record" \in parts THEN 0 ELSE d.rec)
  BY <1>1 DEF Without
<1>3. /\ d.disk \in Nat /\ d.base \in Bases \cup {None} /\ d.now \in Nat /\ d.fw \in Nat
      /\ d.snaps \in [Tags -> [now : Nat, fw : Nat]] /\ d.pairs \in [Tags -> Nat] /\ d.rec \in 0..MaxLaunch /\ 0 \in 0..MaxLaunch
      /\ Bare.snaps \in [Tags -> [now : Nat, fw : Nat]] /\ Bare.pairs \in [Tags -> Nat]
      /\ \A t \in Tags : Bare.snaps[t].fw = 0 /\ Bare.pairs[t] = 0
  BY BareType, LabDisksAssumption DEF Directory, Bare, NoSnap
<1>4. /\ w.disk \in Nat /\ w.base \in Bases \cup {None} /\ w.now \in Nat /\ w.fw \in Nat
      /\ w.snaps \in [Tags -> [now : Nat, fw : Nat]] /\ w.pairs \in [Tags -> Nat] /\ w.rec \in 0..MaxLaunch
  BY <1>2, <1>3
<1>5. w \in Directory
  BY <1>2, <1>4, Zenon DEF Directory
<1>6. Fits(d) => Fits(w)
  BY <1>2, <1>3 DEF Fits
<1>. QED  BY <1>1, <1>2, <1>3, <1>5, <1>6

LEMMA Thrown ==
  ASSUME DiskFilesInv, UNCHANGED <<bases, kept, archived>>, made'.disks = made.disks,
         here \in Directory, given' = given \cup {here.disk},
         here' = None \/ /\ here' \in Directory /\ here'.disk \in {0, here.disk}
                         /\ here'.disk > 0 => here'.base = here.base
                         /\ Fits(here) => Fits(here)'
  PROVE  AtMostOnePlace' /\ AtLeastOnePlace' /\ BasesAreThere' /\ PairsFit'
<1>0. /\ DiskTypes /\ AtMostOnePlace /\ AtLeastOnePlace /\ BasesAreThere /\ PairsFit /\ None \notin Directory /\ here # None
      /\ made.disks \in Nat /\ here.disk \in Nat
  BY NoDirectory DEF DiskFilesInv, DiskTypes, Directory
<1>1. DiskOf(here) = here.disk /\ DiskOf(here)' \in {0, here.disk} /\ \A n \in Names : DiskOf(kept[n])' = DiskOf(kept[n])
  BY <1>0 DEF DiskOf
<1>2. AtMostOnePlace'
  BY <1>0, <1>1 DEF AtMostOnePlace
<1>3. AtLeastOnePlace'
  BY <1>0, <1>1 DEF AtLeastOnePlace
<1>4. BasesAreThere' /\ PairsFit'
  BY <1>0, <1>1 DEF BasesAreThere, PairsFit, DiskOf, Fits
<1>. QED  BY <1>2, <1>3, <1>4

LEMMA RemovingStep == DisksIInv /\ (RemoveTree \/ RemoveBases \/ RemoveBackup) => DisksIInv'
<1>. SUFFICES ASSUME DisksIInv, RemoveTree \/ RemoveBases \/ RemoveBackup
              PROVE  DisksIInv'
  OBVIOUS
<1>0. /\ DiskFilesInv /\ DiskStage /\ DiskWork /\ DiskTypes /\ AtMostOnePlace /\ AtLeastOnePlace /\ BasesAreThere /\ PairsFit
      /\ None \notin Names /\ None \notin Directory /\ None \notin Bases
  BY NoDirectory DEF DisksIInv, DiskFilesInv
<1>a. made.disks \in Nat /\ \A d \in Directory : d # None /\ DiskOf(d) = d.disk /\ d.disk \in Nat
  BY <1>0 DEF DiskTypes, Directory, DiskOf
<1>1. CASE RemoveTree
  <2>1. /\ running.op \in {"matrix", "reset", "remove"} /\ NoneStarted /\ here # None /\ here \in Directory /\ here' = None
        /\ given' = given \cup {here.disk} /\ UNCHANGED <<image, bases, kept, archived, qemu, made, started>>
    BY <1>0, <1>1 DEF RemoveTree, DiskStage, DiskWork, DiskTypes
  <2>2. AtMostOnePlace' /\ AtLeastOnePlace' /\ BasesAreThere' /\ PairsFit'
    BY <1>0, <2>1, Thrown
  <2>3. DiskTypes' /\ StartedStaysReachable' /\ NoneStarted'
    BY <1>0, <2>1 DEF DiskTypes, NoneStarted, StartedStaysReachable, Alive
  <2>4. DiskFilesInv'
    BY <2>2, <2>3 DEF DiskFilesInv
  <2>5. CASE DiskEnds("done")
    BY <2>4, <2>5, DisksEnd DEF DisksIInv
  <2>6. CASE running.op = "matrix" /\ DiskThen("mkdir")
    <3>1. running'.op = "matrix" /\ running'.at = "mkdir"
      BY <1>0, <2>6, DisksThen
    <3>2. DiskWork'
      BY <1>0, <2>1, <2>3, <2>6, <3>1 DEF DiskWork
    <3>3. DiskStage'
      BY <1>0, <2>6, <3>1, DisksThen DEF DiskStage
    <3>. QED  BY <2>4, <3>2, <3>3 DEF DisksIInv
  <2>7. CASE running.op = "remove" /\ DiskThen("rmimage")
    <3>1. running'.op = "remove" /\ running'.at = "rmimage"
      BY <1>0, <2>7, DisksThen
    <3>2. DiskWork'
      BY <1>0, <2>1, <2>3, <2>7, <3>1 DEF DiskWork, NoBackups
    <3>3. DiskStage'
      BY <1>0, <2>7, <3>1, DisksThen DEF DiskStage
    <3>. QED  BY <2>4, <3>2, <3>3 DEF DisksIInv
  <2>. QED  BY <1>1, <2>1, <2>5, <2>6, <2>7 DEF RemoveTree
<1>2. CASE RemoveBases
  <2>1. /\ here = None /\ NoBackups /\ image' = None /\ bases' = {} /\ UNCHANGED <<here, kept, archived, qemu, made, given, started>>
    BY <1>0, <1>2 DEF RemoveBases, DiskAt, DiskWork
  <2>2. DiskFilesInv'
    BY <1>0, <2>1 DEF DiskFilesInv, DiskTypes, AtMostOnePlace, AtLeastOnePlace, BasesAreThere, PairsFit, StartedStaysReachable, DiskOf,
       Fits, Alive, NoBackups
  <2>. QED  BY <1>2, <2>2, DisksEnd DEF RemoveBases, DisksIInv
<1>3. CASE RemoveBackup
  <2>1. PICK m \in Names : m = running.arg /\ kept[m] # None
    BY <1>0, <1>3 DEF RemoveBackup, DiskAt, DiskWork
  <2>2. /\ kept' = [kept EXCEPT ![m] = None] /\ given' = given \cup {kept[m].disk}
        /\ UNCHANGED <<image, bases, here, archived, qemu, made, started>>
    BY <1>3, <2>1 DEF RemoveBackup
  <2>3. /\ kept[m] \in Directory /\ kept'[m] = None /\ DiskOf(kept[m])' = 0 /\ DiskOf(here)' = DiskOf(here)
        /\ DiskOf(kept[m]) = kept[m].disk
        /\ \A n \in Names \ {m} : kept'[n] = kept[n] /\ DiskOf(kept[n])' = DiskOf(kept[n])
    BY <1>0, <2>1, <2>2 DEF DiskTypes, DiskOf
  <2>4. DiskTypes' /\ StartedStaysReachable'
    BY <1>0, <2>2 DEF DiskTypes, DiskFilesInv, StartedStaysReachable, Alive
  <2>5. AtMostOnePlace'
    BY <1>0, <2>2, <2>3 DEF AtMostOnePlace
  <2>6. AtLeastOnePlace'
    BY <1>0, <1>a, <2>2, <2>3 DEF AtLeastOnePlace
  <2>7. BasesAreThere' /\ PairsFit'
    BY <1>0, <2>2, <2>3 DEF BasesAreThere, PairsFit, DiskOf, Fits
  <2>. QED  BY <1>3, <2>4, <2>5, <2>6, <2>7, DisksEnd DEF RemoveBackup, DisksIInv, DiskFilesInv
<1>. QED  BY <1>1, <1>2, <1>3

LEMMA CrashStep == DisksIInv /\ (Crash \/ CrashCopying \/ CrashRemoving) => DisksIInv'
<1>. SUFFICES ASSUME DisksIInv, Crash \/ CrashCopying \/ CrashRemoving
              PROVE  DisksIInv'
  OBVIOUS
<1>0. /\ DiskFilesInv /\ DiskStage /\ DiskWork /\ DiskTypes /\ AtMostOnePlace /\ AtLeastOnePlace /\ BasesAreThere /\ PairsFit
      /\ None \notin Names /\ None \notin Directory /\ None \notin Bases
  BY NoDirectory DEF DisksIInv, DiskFilesInv
<1>a. /\ made' \in [disks : Nat, launches : 0..MaxLaunch, moments : Nat, deaths : Nat]
      /\ made'.disks = made.disks /\ made'.launches = made.launches
      /\ UNCHANGED <<archived, qemu, started>>
  BY <1>0 DEF Crash, CrashCopying, CrashRemoving, DiskDies, DiskTypes
<1>b. DiskStage' /\ DiskWork'
  BY DisksEnd DEF Crash, CrashCopying, CrashRemoving, DiskDies
<1>c. ASSUME image' \in Bases \cup {None}, bases' \in SUBSET Bases, here' \in Directory \cup {None}, kept' \in [Names -> Directory \cup {None}],
             AtMostOnePlace', AtLeastOnePlace', BasesAreThere', PairsFit',
             \/ NoneStarted
             \/ /\ here' = None <=> here = None
                /\ here # None => here'.rec = here.rec /\ here'.disk = here.disk
      PROVE  DisksIInv'
  <2>1. DiskTypes'
    BY <1>0, <1>a, <1>c DEF DiskTypes
  <2>2. StartedStaysReachable'
    BY <1>0, <1>a, <1>c DEF DiskFilesInv, NoneStarted, StartedStaysReachable, Alive
  <2>. QED  BY <1>b, <1>c, <2>1, <2>2 DEF DisksIInv, DiskFilesInv
<1>1. CASE Crash
  <2>1. UNCHANGED <<image, bases, here, kept, archived, given>>
    BY <1>1 DEF Crash
  <2>2. AtMostOnePlace' /\ AtLeastOnePlace' /\ BasesAreThere' /\ PairsFit'
    BY <1>0, <1>a, <2>1 DEF AtMostOnePlace, AtLeastOnePlace, BasesAreThere, PairsFit, DiskOf, Fits
  <2>. QED  BY <1>0, <1>c, <2>1, <2>2 DEF DiskTypes
<1>2. CASE CrashCopying
  <2>1. Torn \in Nat
    BY LabDisksAssumption DEF Torn
  <2>2. here # None /\ here \in Directory /\ UNCHANGED <<image, bases, kept, archived, given>>
    BY <1>0, <1>2 DEF CrashCopying, Launching, DiskAt, DiskWork, DiskOf, DiskTypes
  <2>3. /\ here.pairs \in [Tags -> Nat] /\ (Arch = "aarch64" => Fits(here))
    BY <1>0, <2>2 DEF Directory, PairsFit
  <2>4. \E d : /\ here' = d /\ d \in Directory /\ d.disk = here.disk /\ d.base = here.base /\ d.rec = here.rec
               /\ Arch = "aarch64" => Fits(d)
    <3>1. CASE here' = [here EXCEPT !.fw = Torn]
      <4>1. PICK d : here' = d /\ d = [here EXCEPT !.fw = Torn]
        BY <3>1
      <4>2. /\ d \in Directory /\ d.disk = here.disk /\ d.base = here.base /\ d.rec = here.rec
            /\ d.snaps = here.snaps /\ d.pairs = here.pairs
        BY <2>1, <2>2, <4>1 DEF Directory
      <4>. QED  BY <2>3, <4>1, <4>2 DEF Fits
    <3>2. CASE DiskAt("create", "pair") /\ here' = [here EXCEPT !.pairs[running.arg] = Torn]
      <4>1. PICK d : here' = d /\ d = [here EXCEPT !.pairs[running.arg] = Torn]
        BY <3>2
      <4>2. running.arg \in Tags /\ here.snaps[running.arg] = NoSnap
        BY <1>0, <3>2 DEF DiskAt, DiskWork
      <4>3. /\ d \in Directory /\ d.disk = here.disk /\ d.base = here.base /\ d.rec = here.rec
            /\ d.snaps = here.snaps /\ d.pairs = [here.pairs EXCEPT ![running.arg] = Torn]
        BY <2>1, <2>2, <2>3, <4>1 DEF Directory
      <4>4. Arch = "aarch64" => Fits(d)
        BY <2>3, <4>2, <4>3 DEF Fits, NoSnap
      <4>. QED  BY <4>1, <4>3, <4>4
    <3>. QED  BY <1>2, <3>1, <3>2 DEF CrashCopying
  <2>5. PICK d : /\ here' = d /\ d \in Directory /\ d.disk = here.disk /\ d.base = here.base /\ d.rec = here.rec
                 /\ Arch = "aarch64" => Fits(d)
    BY <2>4
  <2>6. DiskOf(here)' = DiskOf(here) /\ (Arch = "aarch64" => (here' # None => Fits(here)')) /\ here' # None
    BY <1>0, <2>2, <2>5 DEF DiskOf, Fits
  <2>7. AtMostOnePlace' /\ AtLeastOnePlace' /\ BasesAreThere' /\ PairsFit'
    <3>1. UNCHANGED <<bases, kept, archived, given>> /\ made'.disks = made.disks /\ DiskFilesInv
      BY <1>0, <1>a, <2>2
    <3>2. DiskOf(here') = DiskOf(here) /\ (Arch = "aarch64" => (here' # None => Fits(here')))
      BY <2>6 DEF DiskOf, Fits
    <3>. QED  BY <2>5, <3>1, <3>2, SamePlaces
  <2>. QED  BY <1>0, <1>c, <2>2, <2>5, <2>6, <2>7 DEF DiskTypes
<1>3. CASE CrashRemoving
  <2>1. CASE /\ running.at = "rmtree"
             /\ \E parts \in SUBSET Parts : here' = Without(here, parts)
             /\ given' = given \cup {here.disk}
             /\ UNCHANGED <<image, bases, kept>>
    <3>1. NoneStarted /\ here # None /\ here \in Directory
      BY <1>0, <2>1 DEF DiskStage, DiskWork, DiskTypes
    <3>2. PICK w : here' = w /\ w \in Directory /\ w.disk \in {0, here.disk} /\ (w.disk > 0 => w.base = here.base) /\ (Fits(here) => Fits(w))
      BY <2>1, <3>1, WithoutType
    <3>3. Fits(here) => Fits(here)'
      BY <3>2 DEF Fits
    <3>4. AtMostOnePlace' /\ AtLeastOnePlace' /\ BasesAreThere' /\ PairsFit'
      BY <1>0, <1>a, <2>1, <3>1, <3>2, <3>3, Thrown
    <3>5. /\ here' \in Directory \cup {None} /\ image' \in Bases \cup {None} /\ bases' \in SUBSET Bases
          /\ kept' \in [Names -> Directory \cup {None}]
      BY <1>0, <2>1, <3>2 DEF DiskTypes
    <3>. QED  BY <1>c, <3>1, <3>4, <3>5
  <2>2. CASE /\ running.at = "rmbackup"
             /\ \E parts \in SUBSET Parts : kept' = [kept EXCEPT ![running.arg] = Without(@, parts)]
             /\ given' = given \cup {kept[running.arg].disk}
             /\ UNCHANGED <<image, bases, here>>
    <3>1. PICK m \in Names : m = running.arg /\ kept[m] # None /\ kept[m] \in Directory
      BY <1>0, <2>2 DEF DiskStage, DiskWork, DiskTypes
    <3>2. PICK w : /\ kept' = [kept EXCEPT ![m] = w] /\ w \in Directory /\ w.disk \in {0, kept[m].disk}
                   /\ w.disk > 0 => w.base = kept[m].base
                   /\ Fits(kept[m]) => Fits(w)
      <4>1. PICK parts \in SUBSET Parts : kept' = [kept EXCEPT ![m] = Without(kept[m], parts)]
        BY <1>0, <2>2, <3>1 DEF DiskTypes
      <4>. QED  BY <3>1, <4>1, WithoutType
    <3>3. /\ kept'[m] = w /\ DiskOf(kept[m])' = w.disk /\ DiskOf(kept[m]) = kept[m].disk /\ DiskOf(here)' = DiskOf(here)
          /\ \A n \in Names \ {m} : kept'[n] = kept[n] /\ DiskOf(kept[n])' = DiskOf(kept[n])
          /\ kept[m].disk \in Nat /\ given' = given \cup {kept[m].disk}
      BY <1>0, <2>2, <3>1, <3>2 DEF DiskTypes, DiskOf, Directory
    <3>4. AtMostOnePlace'
      BY <1>0, <1>a, <3>2, <3>3 DEF AtMostOnePlace
    <3>5. AtLeastOnePlace'
      <4>1. made.disks \in Nat
        BY <1>0 DEF DiskTypes
      <4>2. \A n \in Names : DiskOf(kept[n])' <= made'.disks
        BY <1>0, <1>a, <3>2, <3>3, <4>1 DEF AtLeastOnePlace
      <4>. QED  BY <1>0, <1>a, <3>2, <3>3, <4>1, <4>2 DEF AtLeastOnePlace
    <3>6. BasesAreThere' /\ PairsFit'
      <4>1. \A n \in Names : DiskOf(kept[n])' > 0 => kept'[n].base \in bases'
        BY <1>0, <2>2, <3>1, <3>2, <3>3 DEF BasesAreThere
      <4>2. Arch = "aarch64" => \A n \in Names : kept'[n] # None => Fits(kept[n])'
        BY <1>0, <3>1, <3>2, <3>3 DEF PairsFit, Fits
      <4>3. here' = here /\ bases' = bases /\ archived' = archived
        BY <1>a, <2>2
      <4>. QED  BY <1>0, <4>1, <4>2, <4>3 DEF BasesAreThere, PairsFit, DiskOf, Fits
    <3>7. kept' \in [Names -> Directory \cup {None}]
      BY <1>0, <3>2 DEF DiskTypes
    <3>. QED  BY <1>0, <1>c, <2>2, <3>4, <3>5, <3>6, <3>7 DEF DiskTypes
  <2>3. CASE /\ running.at = "rmimage"
             /\ \/ image' = None /\ UNCHANGED bases
                \/ bases' = {} /\ UNCHANGED image
             /\ UNCHANGED <<here, kept, given>>
    <3>1. here = None /\ NoBackups /\ image' \in Bases \cup {None} /\ bases' \in SUBSET Bases
      BY <1>0, <2>3 DEF DiskStage, DiskWork, DiskTypes
    <3>2. AtMostOnePlace' /\ AtLeastOnePlace' /\ BasesAreThere' /\ PairsFit'
      BY <1>0, <1>a, <2>3, <3>1 DEF AtMostOnePlace, AtLeastOnePlace, BasesAreThere, PairsFit, DiskOf, Fits, NoBackups
    <3>. QED  BY <1>0, <1>c, <2>3, <3>1, <3>2 DEF DiskTypes
  <2>. QED  BY <1>3, <2>1, <2>2, <2>3 DEF CrashRemoving
<1>. QED  BY <1>1, <1>2, <1>3

(* The guest writes wherever its files are; it has none open of a directory in work. *)
LEMMA WrittenType ==
  ASSUME NEW d \in Directory \cup {None}, NEW l, made.moments \in Nat
  PROVE  /\ Written(d, l) \in Directory \cup {None} /\ DiskOf(Written(d, l)) = DiskOf(d) /\ (Written(d, l) = None <=> d = None)
         /\ d # None => /\ Written(d, l).base = d.base /\ Written(d, l).rec = d.rec /\ Written(d, l).disk = d.disk
                        /\ Fits(d) => Fits(Written(d, l))
         /\ (d = None \/ d.disk # qemu[l]) => Written(d, l) = d
<1>0. None \notin Directory
  BY NoDirectory
<1>1. CASE d = None \/ d.disk # qemu[l]
  BY <1>1 DEF Written
<1>2. CASE d # None /\ d.disk = qemu[l]
  <2>1. PICK w : w = Written(d, l) /\ w = [d EXCEPT !.now = made.moments + 1, !.fw = IF @ = 0 THEN 0 ELSE made.moments + 1]
    BY <1>2 DEF Written
  <2>2. /\ w \in Directory /\ w.disk = d.disk /\ w.base = d.base /\ w.rec = d.rec /\ w.snaps = d.snaps /\ w.pairs = d.pairs
    <3>1. d \in Directory
      BY <1>2
    <3>2. PICK fw \in Nat : w = [d EXCEPT !.now = made.moments + 1, !.fw = fw]
      <4>1. w = [d EXCEPT !.now = made.moments + 1, !.fw = IF d.fw = 0 THEN 0 ELSE made.moments + 1]
        BY <2>1, <3>1 DEF Directory
      <4>2. (IF d.fw = 0 THEN 0 ELSE made.moments + 1) \in Nat
        OBVIOUS
      <4>. QED  BY <4>1, <4>2
    <3>3. made.moments + 1 \in Nat
      OBVIOUS
    <3>. QED  BY <3>1, <3>2, <3>3 DEF Directory
  <2>. QED  BY <1>0, <1>2, <2>1, <2>2 DEF DiskOf, Fits
<1>. QED  BY <1>1, <1>2

LEMMA GuestStep == ASSUME DisksIInv, NEW l \in 1..MaxLaunch, GuestWrites(l) \/ GuestEnds(l) PROVE DisksIInv'
<1>0. /\ DiskFilesInv /\ DiskStage /\ DiskWork /\ DiskTypes /\ AtMostOnePlace /\ AtLeastOnePlace /\ BasesAreThere /\ PairsFit
      /\ None \notin Names /\ None \notin Directory /\ None \notin Bases
  BY NoDirectory DEF DisksIInv, DiskFilesInv
<1>1. CASE GuestWrites(l)
  <2>0. /\ made.moments \in Nat /\ UNCHANGED <<image, bases, qemu, running, said, given, started>> /\ l \in DOMAIN qemu
        /\ made' \in [disks : Nat, launches : 0..MaxLaunch, moments : Nat, deaths : Nat]
        /\ made'.disks = made.disks /\ made'.launches = made.launches
    BY <1>0, <1>1 DEF GuestWrites, DiskTypes
  <2>1. PICK h : h = Written(here, l) /\ here' = h
    BY <1>1 DEF GuestWrites
  <2>2. /\ h \in Directory \cup {None} /\ DiskOf(h) = DiskOf(here) /\ (h = None <=> here = None)
        /\ here # None => h.base = here.base /\ h.rec = here.rec /\ h.disk = here.disk /\ (Fits(here) => Fits(h))
        /\ Free(here) => h = here
    BY <1>0, <2>0, <2>1, WrittenType DEF DiskTypes, Free
  <2>3. PICK k : k = [n \in Names |-> Written(kept[n], l)] /\ kept' = k
    BY <1>1 DEF GuestWrites
  <2>4. /\ k \in [Names -> Directory \cup {None}]
        /\ \A n \in Names : /\ DiskOf(k[n]) = DiskOf(kept[n]) /\ (k[n] = None <=> kept[n] = None)
                            /\ kept[n] # None => k[n].base = kept[n].base /\ (Fits(kept[n]) => Fits(k[n]))
    <3>1. \A n \in Names : kept[n] \in Directory \cup {None} /\ k[n] = Written(kept[n], l)
      BY <1>0, <2>3 DEF DiskTypes
    <3>2. ASSUME NEW n \in Names
          PROVE  /\ k[n] \in Directory \cup {None} /\ DiskOf(k[n]) = DiskOf(kept[n]) /\ (k[n] = None <=> kept[n] = None)
                 /\ kept[n] # None => k[n].base = kept[n].base /\ (Fits(kept[n]) => Fits(k[n]))
      <4>1. PICK d \in Directory \cup {None} : d = kept[n]
        BY <3>1
      <4>2. k[n] = Written(d, l)
        BY <3>1, <4>1
      <4>3. /\ Written(d, l) \in Directory \cup {None} /\ DiskOf(Written(d, l)) = DiskOf(d) /\ (Written(d, l) = None <=> d = None)
            /\ d # None => Written(d, l).base = d.base /\ (Fits(d) => Fits(Written(d, l)))
        BY <2>0, WrittenType
      <4>. QED  BY <4>1, <4>2, <4>3
    <3>3. k \in [Names -> Directory \cup {None}]
      BY <2>3, <3>2
    <3>4. \A n \in Names : /\ DiskOf(k[n]) = DiskOf(kept[n]) /\ (k[n] = None <=> kept[n] = None)
                           /\ kept[n] # None => k[n].base = kept[n].base /\ (Fits(kept[n]) => Fits(k[n]))
      BY <3>2, Zenon
    <3>. QED  BY <3>3, <3>4, Zenon
  <2>5. PICK a : a = {Written(d, l) : d \in archived} /\ archived' = a
    BY <1>1 DEF GuestWrites
  <2>6. \A d \in archived : /\ Written(d, l) \in Directory /\ Written(d, l).disk = d.disk /\ Written(d, l).base = d.base
                            /\ (Fits(d) => Fits(Written(d, l))) /\ (Free(d) => Written(d, l) = d)
    BY <1>0, <2>0, WrittenType DEF DiskTypes, Free
  <2>7. a \in SUBSET Directory /\ \A e \in a : \E d \in archived : e = Written(d, l) /\ e.disk = d.disk /\ (Fits(d) => Fits(e))
    BY <2>5, <2>6
  <2>8. \A d \in archived : \E e \in a : e.disk = d.disk
    BY <2>5, <2>6
  <2>9. DiskTypes'
    BY <1>0, <2>0, <2>1, <2>2, <2>3, <2>4, <2>5, <2>7 DEF DiskTypes
  <2>10. DiskOf(here)' = DiskOf(here) /\ \A n \in Names : DiskOf(kept[n])' = DiskOf(kept[n])
    BY <2>1, <2>2, <2>3, <2>4 DEF DiskOf
  <2>11. AtMostOnePlace'
    <3>1. \A e \in a : /\ e.disk > 0 /\ e.disk # DiskOf(here)
                       /\ \A n \in Names : e.disk # DiskOf(kept[n])
                       /\ \A f \in a \ {e} : e.disk # f.disk
      BY <1>0, <2>7 DEF AtMostOnePlace
    <3>. QED  BY <1>0, <2>5, <2>10, <3>1 DEF AtMostOnePlace
  <2>12. AtLeastOnePlace'
    <3>1. (\A n \in Names : DiskOf(kept[n])' <= made'.disks) /\ DiskOf(here)' <= made'.disks
      BY <1>0, <2>0, <2>10 DEF AtLeastOnePlace
    <3>2. \A e \in a : e.disk <= made.disks
      BY <1>0, <2>7 DEF AtLeastOnePlace
    <3>3. \A i \in (1..made.disks) \ given :
            DiskOf(here) = i \/ (\E e \in a : e.disk = i) \/ \E n \in Names : DiskOf(kept[n]) = i
      BY <1>0, <2>8 DEF AtLeastOnePlace
    <3>. QED  BY <2>0, <2>5, <2>10, <3>1, <3>2, <3>3 DEF AtLeastOnePlace
  <2>13. BasesAreThere'
    BY <1>0, <2>0, <2>1, <2>2, <2>3, <2>4, <2>10 DEF BasesAreThere, DiskOf
  <2>14. PairsFit'
    <3>1. Arch = "aarch64" =>
            /\ h # None => Fits(h)
            /\ \A n \in Names : k[n] # None => Fits(k[n])
            /\ \A d \in a : Fits(d)
      BY <1>0, <2>2, <2>4, <2>7 DEF PairsFit
    <3>. QED  BY <2>1, <2>3, <2>5, <3>1 DEF PairsFit, Fits
  <2>15. StartedStaysReachable' /\ (NoneStarted => NoneStarted')
    BY <1>0, <2>0, <2>1, <2>2 DEF DiskFilesInv, StartedStaysReachable, NoneStarted, Alive
  <2>16. DiskStage'
    BY <1>0, <2>0 DEF DiskStage
  <2>17. DiskWork'
    <3>1. /\ DiskOf(here)' = DiskOf(here) /\ (here' = None <=> here = None) /\ (NoBackups => NoBackups')
          /\ Free(here) => here' = here /\ Free(here)'
          /\ here # None => here'.base = here.base /\ here'.disk = here.disk
      BY <2>0, <2>1, <2>2, <2>3, <2>4 DEF DiskOf, NoBackups, Free
    <3>2. running.aside \in archived /\ Free(running.aside) => running'.aside \in archived' /\ Free(running.aside)'
      BY <2>0, <2>5, <2>6 DEF Free
    <3>3. \A n \in Names : DiskOf(kept[n])' = DiskOf(kept[n]) /\ (kept'[n] = None <=> kept[n] = None)
      BY <2>3, <2>4, <2>10
    <3>4. Free(here) => Nvram(here)' = Nvram(here)
      BY <3>1 DEF Nvram
    <3>. QED  BY <1>0, <2>0, <2>15, <3>1, <3>2, <3>3, <3>4 DEF DiskWork
  <2>. QED  BY <2>9, <2>11, <2>12, <2>13, <2>14, <2>15, <2>16, <2>17 DEF DisksIInv, DiskFilesInv
<1>2. CASE GuestEnds(l)
  <2>1. /\ qemu' = [qemu EXCEPT ![l] = 0] /\ UNCHANGED <<image, bases, here, kept, archived, made, running, said, given, started>>
    BY <1>2 DEF GuestEnds
  <2>2. qemu' \in [1..MaxLaunch -> Nat] /\ \A i \in 1..MaxLaunch : qemu'[i] \in {0, qemu[i]}
    BY <1>0, <2>1 DEF DiskTypes
  <2>3. DiskTypes'
    BY <1>0, <2>1, <2>2 DEF DiskTypes
  <2>4. AtMostOnePlace' /\ AtLeastOnePlace' /\ BasesAreThere' /\ PairsFit'
    BY <1>0, <2>1 DEF AtMostOnePlace, AtLeastOnePlace, BasesAreThere, PairsFit, DiskOf, Fits
  <2>5. started > 0 => qemu'[started] \in {0, qemu[started]}
    BY <1>0, <2>2, LabDisksAssumption DEF DiskTypes
  <2>6. StartedStaysReachable' /\ (NoneStarted => NoneStarted')
    BY <1>0, <2>1, <2>5 DEF DiskFilesInv, StartedStaysReachable, NoneStarted, Alive
  <2>7. \A d : d.disk > 0 /\ (\A i \in DOMAIN qemu : qemu[i] # d.disk) => \A i \in DOMAIN qemu' : qemu'[i] # d.disk
    BY <1>0, <2>2 DEF DiskTypes
  <2>8. made.launches > 0 => (qemu[made.launches] \in {0, here.disk} => qemu'[made.launches] \in {0, here.disk})
    BY <1>0, <2>2, LabDisksAssumption DEF DiskTypes
  <2>9. DiskWork' /\ DiskStage'
    <3>1. /\ DiskOf(here) > 0 /\ Free(here) => Free(here)'
          /\ DiskOf(here)' = DiskOf(here) /\ Nvram(here)' = Nvram(here) /\ (NoBackups => NoBackups')
      BY <2>1, <2>7 DEF DiskOf, Free, Nvram, NoBackups
    <3>2. running.aside \in archived /\ Free(running.aside) => Free(running.aside)'
      BY <1>0, <2>1, <2>7 DEF Free, AtMostOnePlace
    <3>3. \A n \in Names : DiskOf(kept[n])' = DiskOf(kept[n])
      BY <2>1 DEF DiskOf
    <3>. QED  BY <1>0, <2>1, <2>6, <2>8, <3>1, <3>2, <3>3 DEF DiskWork, DiskStage
  <2>. QED  BY <2>3, <2>4, <2>6, <2>9 DEF DisksIInv, DiskFilesInv
<1>. QED  BY <1>1, <1>2

LEMMA DisksStep == DisksIInv /\ [DisksNext]_disksVars => DisksIInv'
<1>1. DisksIInv /\ UNCHANGED disksVars => DisksIInv'
  <2>. SUFFICES ASSUME DisksIInv, UNCHANGED disksVars
                PROVE  DisksIInv'
    OBVIOUS
  <2>1. DiskFilesInv'
    BY FilesUntouched DEF DisksIInv, disksVars, DiskFiles
  <2>2. DiskStage' /\ DiskWork'
    BY DEF DisksIInv, DiskStage, DiskWork, disksVars, NoneStarted, DiskOf, Free, NoBackups, Nvram
  <2>. QED  BY <2>1, <2>2 DEF DisksIInv
<1>2. DisksIInv /\ Beginnings => DisksIInv'
  BY BeginningsKeepFiles, FilesUntouched, BeginStep DEF DisksIInv
<1>. QED
  BY <1>1, <1>2, LaunchingStep, HaltingStep, SnapshotsStep, ArchiveStep, BackupStep, SwapStep, RemovingStep, CrashStep, GuestStep
     DEF DisksNext, Beginnings, Snapshots

(* An overlay in at most one place, and in at least one, is counted once. *)
LEMMA OnceCounted == DisksIInv => NothingIsLost
<1>. SUFFICES ASSUME DisksIInv, NEW k \in (1..made.disks) \ given
              PROVE  Cardinality(Holding(k, {here})) + Cardinality(Holding(k, archived))
                       + Cardinality({n \in Names : Holding(k, {kept[n]}) # {}}) = 1
  BY DEF NothingIsLost
<1>0. /\ DiskTypes /\ AtMostOnePlace /\ k \in Nat /\ k > 0 /\ None \notin Directory
      /\ DiskOf(here) = k \/ (\E d \in archived : d.disk = k) \/ \E n \in Names : DiskOf(kept[n]) = k
  BY NoDirectory DEF DisksIInv, DiskFilesInv, AtLeastOnePlace
<1>1. /\ Holding(k, {here}) = IF DiskOf(here) = k THEN {here} ELSE {}
      /\ Holding(k, archived) = {d \in archived : d.disk = k}
      /\ {n \in Names : Holding(k, {kept[n]}) # {}} = {n \in Names : DiskOf(kept[n]) = k}
  <2>1. \A d : HasDisk(d) /\ d.disk = k <=> DiskOf(d) = k
    BY <1>0 DEF HasDisk, DiskOf
  <2>2. \A d \in archived : DiskOf(d) = d.disk
    BY <1>0 DEF DiskTypes, DiskOf
  <2>. QED  BY <2>1, <2>2 DEF Holding
<1>2. \A x : Cardinality({x}) = 1 /\ Cardinality({}) = 0
  BY FS_Singleton, FS_EmptySet
<1>3. CASE DiskOf(here) = k
  <2>1. {d \in archived : d.disk = k} = {} /\ {n \in Names : DiskOf(kept[n]) = k} = {}
    BY <1>0, <1>3 DEF AtMostOnePlace
  <2>2. /\ Cardinality(Holding(k, {here})) = 1 /\ Cardinality(Holding(k, archived)) = 0
        /\ Cardinality({n \in Names : Holding(k, {kept[n]}) # {}}) = 0
    BY <1>1, <1>2, <1>3, <2>1, Zenon
  <2>. QED  BY <2>2
<1>4. CASE \E d \in archived : d.disk = k
  <2>1. PICK d \in archived : d.disk = k
    BY <1>4
  <2>2. {e \in archived : e.disk = k} = {d} /\ {n \in Names : DiskOf(kept[n]) = k} = {} /\ DiskOf(here) # k
    BY <1>0, <2>1 DEF AtMostOnePlace
  <2>3. /\ Cardinality(Holding(k, {here})) = 0 /\ Cardinality(Holding(k, archived)) = 1
        /\ Cardinality({n \in Names : Holding(k, {kept[n]}) # {}}) = 0
    BY <1>1, <1>2, <2>2, Zenon
  <2>. QED  BY <2>3
<1>5. CASE \E n \in Names : DiskOf(kept[n]) = k
  <2>1. PICK m \in Names : DiskOf(kept[m]) = k
    BY <1>5
  <2>2. {n \in Names : DiskOf(kept[n]) = k} = {m} /\ DiskOf(here) # k
    BY <1>0, <2>1 DEF AtMostOnePlace
  <2>3. {d \in archived : d.disk = k} = {}
    BY <1>0, <2>1 DEF AtMostOnePlace
  <2>4. /\ Cardinality(Holding(k, {here})) = 0 /\ Cardinality(Holding(k, archived)) = 0
        /\ Cardinality({n \in Names : Holding(k, {kept[n]}) # {}}) = 1
    BY <1>1, <1>2, <2>2, <2>3, Zenon
  <2>. QED  BY <2>4
<1>. QED  BY <1>0, <1>3, <1>4, <1>5

(* No disk is lost or there twice, none is without its base, and a machine that was reported as started can be stopped, *)
(* whatever resets, restores and finalizations were cut short or failed (LabManager.reset, backup_restore, run).        *)
THEOREM DisksAreAlwaysSafe == DisksSpec => []DisksAreSafe
<1>1. DisksIInv => DisksAreSafe
  <2>. SUFFICES ASSUME DisksIInv
                PROVE  DisksAreSafe
    OBVIOUS
  <2>1. DisksHaveTheirBase
    BY DEF DisksIInv, DiskFilesInv, BasesAreThere, DiskOf, DisksHaveTheirBase, HasDisk
  <2>. QED  BY <2>1, OnceCounted DEF DisksAreSafe, DisksIInv, DiskFilesInv
<1>. QED  BY <1>1, DisksStarting, DisksStep, PTL DEF DisksSpec

(* A revert that is reported as done has put back the disk and the NVRAM of the snapshot's moment, on the guests whose *)
(* NVRAM a snapshot pairs (snapshot_create, snapshot_revert); the run lab_x86 shows the others.                        *)
THEOREM RevertAlwaysRestoresBoth == Arch = "aarch64" => (DisksSpec => RevertRestoresBoth)
<1>. SUFFICES ASSUME Arch = "aarch64"
              PROVE  DisksSpec => RevertRestoresBoth
  OBVIOUS
<1>1. ASSUME DisksIInv, DisksNext, said' = "reverted", said # "reverted"
      PROVE  /\ here'.now = here.snaps[running.arg].now
             /\ here.snaps[running.arg].fw > 0 /\ here'.fw > 0 => here'.fw = here.snaps[running.arg].fw
  <2>0. DiskWork /\ DiskTypes /\ PairsFit
    BY <1>1 DEF DisksIInv, DiskFilesInv
  <2>1. CASE ApplySnap
    <3>1. /\ here # None /\ here \in Directory /\ running.arg \in Tags
          /\ Nvram(here) > 0 => here.pairs[running.arg] > 0
          /\ here' = [here EXCEPT !.now = here.snaps[running.arg].now]
      BY <2>0, <2>1 DEF ApplySnap, DiskAt, DiskWork, DiskOf, DiskTypes
    <3>2. here'.now = here.snaps[running.arg].now /\ here'.fw = here.fw /\ here.fw \in Nat /\ Nvram(here) = here.fw
      BY <3>1 DEF Directory, Nvram
    <3>3. here.pairs[running.arg] = 0
      BY <1>1, <2>1 DEF ApplySnap, DiskThen
    <3>. QED  BY <3>1, <3>2, <3>3
  <2>2. CASE RestorePair
    <3>1. /\ here # None /\ here \in Directory /\ running.arg \in Tags /\ here.pairs[running.arg] > 0
          /\ here.now = here.snaps[running.arg].now
          /\ here' = [here EXCEPT !.fw = here.pairs[running.arg]] /\ Fits(here)
      BY <2>0, <2>2 DEF RestorePair, DiskAt, DiskWork, DiskOf, DiskTypes, PairsFit
    <3>2. here'.now = here.now /\ here'.fw = here.pairs[running.arg] /\ here.pairs[running.arg] \in Nat
      BY <3>1 DEF Directory
    <3>. QED  BY <3>1, <3>2 DEF Fits
  <2>3. ApplySnap \/ RestorePair
    <3>1. Beginnings => said' = "nothing"
      BY DEF Beginnings, ImportDisk, Finalize, RunDisk, Matrix, RemoveImage, StopDisk, Reset, SnapshotCreate, SnapshotRevert,
         SnapshotDelete, Restore, BackupDelete, DiskBegin
    <3>2. Crash \/ CrashCopying \/ CrashRemoving => said' = "nothing"
      BY DEF Crash, CrashCopying, CrashRemoving, DiskDies, DiskEnds
    <3>3. PublishDisk \/ RegisterDisk \/ MakeDirectory \/ EnsureOverlay \/ EnsureVars \/ LaunchDisk \/ RecordRun =>
            said' \in {said, "done", "refused"}
      BY DEF PublishDisk, RegisterDisk, MakeDirectory, EnsureOverlay, EnsureVars, LaunchDisk, RecordRun, GiveUp, DiskThen, DiskEnds
    <3>4. Halt \/ Unlink \/ CopyToPair \/ TakeSnap \/ DropSnap \/ Unpair => said' \in {said, "done", "failed", "preserved"}
      <4>1. Unlink => said' \in {said, "done"}
        BY <1>1 DEF Unlink, DisksIInv, DiskStage, DiskThen, DiskEnds
      <4>. QED  BY <4>1 DEF Halt, CopyToPair, TakeSnap, DropSnap, Unpair, DiskThen, DiskEnds
    <3>5. Archive \/ MoveBack \/ MoveToBackup \/ MoveAside \/ SwapIn \/ SwapBack \/ RemoveBases \/ RemoveBackup =>
            said' \in {said, "done", "failed"}
      BY DEF Archive, MoveBack, MoveToBackup, MoveAside, SwapIn, SwapBack, RemoveBases, RemoveBackup, DiskThenAside, DiskEnds
    <3>6. RemoveTree => said' \in {said, "done"}
      BY <1>1 DEF RemoveTree, DisksIInv, DiskStage, DiskThen, DiskEnds
    <3>7. \A l \in 1..MaxLaunch : GuestWrites(l) \/ GuestEnds(l) => said' = said
      BY DEF GuestWrites, GuestEnds
    <3>. QED  BY <1>1, <3>1, <3>2, <3>3, <3>4, <3>5, <3>6, <3>7 DEF DisksNext, Beginnings
  <2>. QED  BY <2>1, <2>2, <2>3
<1>2. DisksIInv /\ [DisksNext]_disksVars =>
        [said' = "reverted" /\ said # "reverted" =>
           LET snap == here.snaps[running.arg] IN
           /\ here'.now = snap.now
           /\ snap.fw > 0 /\ here'.fw > 0 => here'.fw = snap.fw]_disksVars
  BY <1>1
<1>. QED  BY <1>2, DisksStarting, DisksStep, PTL DEF DisksSpec, RevertRestoresBoth
=============================================================================
