------------------------------ MODULE GuiTasks ------------------------------
(***************************************************************************)
(* The single machines page of the Mac application: every button starts a  *)
(* task, a chain of calls of the command line tool whose answers arrive on *)
(* the main thread.  What keeps two tasks apart is the phase, which each   *)
(* handler tests and sets by hand; only the button that chooses a folder   *)
(* is enabled all the time.  A task is here the call it waits for: the     *)
(* tool acts (Acts) and the answer is handled (the action of its name).    *)
(* A call may fail or find no slot, which the handlers do not tell apart.  *)
(* The wizard's texts, favourites and panels are left out.  Bounds:        *)
(* MaxPid launches, and MaxOverlaps folders chosen while a task runs.      *)
(***************************************************************************)
EXTENDS Naturals, FiniteSets, SequencesExt

CONSTANTS Profiles, Folders, Kind, Offers, Genuine, MaxOverlaps, MaxPid, Nobody

ASSUME GuiAssumption ==
  /\ IsFiniteSet(Profiles) /\ Profiles \cap {"report", "matrix"} = {}
  /\ Kind \in [Folders -> {"pack", "list", "plain"}] /\ Offers \in [Folders -> SUBSET Profiles] /\ Genuine \subseteq Folders
  /\ MaxOverlaps \in Nat /\ MaxPid \in Nat /\ Nobody \notin Profiles \cup Folders

VARIABLES
  phase, folder, library,    \* state.phase, state.distDir, the folder that imageLibrary lists
  report,                    \* the folder whose verification succeeded last (state.report), or Nobody
  configured, has, runs,     \* configuredProfileIDs, importedProfileIDs, runningProfileIDs
  selectedProfile, shown,           \* selectedProfileID; nodes: the process each is shown with, 0 for none
  healthy, checked,          \* healthyProfileIDs, and the process that was checked
  stopQueue,                 \* stopImportQueueRequested
  candidate, matrix,         \* the wizard's imported node, and the node whose boot matrix was reported
  tasks,                     \* the calls under way
  imported, pid, pids,       \* the truth: what is imported, what runs, launches so far
  overlaps,                  \* history: how often a folder was chosen while the page was busy
  doubt                      \* history: the answers shown (report, matrix, a node's health) of a task that was crossed

guiVars == <<phase, folder, library, report, configured, has, runs, selectedProfile, shown, healthy, checked, stopQueue, candidate,
             matrix, tasks, imported, pid, pids, overlaps, doubt>>
worldVars == <<imported, pid, pids>>
shownVars == <<has, runs, shown, healthy, checked>>
choiceVars == <<folder, library, report, configured, stopQueue, candidate, matrix>>

(* A call: its operation and node, the nodes that follow, its folder, and what the task was allowed by.  The task has *)
(* a number, and the turn of the page in which it began alone; the status, read beside all of them, has none.         *)
Ticket(op, node, queue, from, proof) ==
  [op |-> op, node |-> node, queue |-> queue, folder |-> from, proof |-> proof, did |-> "waits", seen |-> <<>>, no |-> 0, turn |-> 0]
One(op, node) == Ticket(op, node, <<>>, Nobody, Nobody)
Busy == {"verifying", "importing", "busy"}
IsBusy == phase \in Busy
Queued(s) == SetToSeq(s)

Underway == {t \in tasks : t.op # "status"}
Turn == overlaps + 1
(* A folder was chosen since the task began, or it did not begin alone, or on an answer of such a task. *)
Crossed(t) == t.turn # Turn

Unused == CHOOSE k \in 1..(Cardinality(tasks) + 1) : \A t \in tasks : t.no # k
RestsOn(op) == IF op \in {"install", "import", "onboard"} THEN {"report"} ELSE IF op = "apply" THEN {"matrix"} ELSE {}
Begins(m) == [m EXCEPT !.no = Unused, !.turn = IF Underway = {} /\ RestsOn(m.op) \cap doubt = {} THEN Turn ELSE 0]
TaskGoesOn(m, t) == [m EXCEPT !.no = t.no, !.turn = t.turn]
(* The calls that a step makes: the task goes on, a new one begins, or the status is read. *)
Placed(more, done) ==
  {IF m.op = "status" THEN m ELSE IF done = {} THEN Begins(m) ELSE TaskGoesOn(m, CHOOSE t \in done : TRUE) : m \in more}

GuiInit ==
  /\ phase = "idle" /\ folder = Nobody /\ library = Nobody /\ report = Nobody
  /\ configured = {} /\ has = {} /\ runs = {} /\ selectedProfile = Nobody /\ shown = [n \in Profiles |-> 0]
  /\ healthy = {} /\ checked = [n \in Profiles |-> 0] /\ stopQueue = FALSE
  /\ candidate = Nobody /\ matrix = Nobody /\ tasks = {} /\ pids = 0 /\ pid = [n \in Profiles |-> 0] /\ imported \in {{}, Profiles}
  /\ overlaps = 0 /\ doubt = {}

-----------------------------------------------------------------------------
(* The tool and the machines. *)

Starts == {"launch", "course", "relaunch"}
Stops == {"stop", "restart"}
Adds == {"import", "onboard", "candidate"}

Effect(t) ==
  \/ /\ t.op \in Starts /\ t.node \in imported /\ pid[t.node] = 0 /\ pids < MaxPid
     /\ pids' = pids + 1 /\ pid' = [pid EXCEPT ![t.node] = pids + 1] /\ UNCHANGED imported
  \/ t.op \in Stops /\ pid' = [pid EXCEPT ![t.node] = 0] /\ UNCHANGED <<imported, pids>>
  \/ t.op \in Adds /\ imported' = imported \cup {t.node} /\ UNCHANGED <<pid, pids>>
  \/ t.op = "install" /\ t.folder \in Genuine /\ imported' = Profiles /\ UNCHANGED <<pid, pids>>
  \/ t.op = "remove" /\ pid[t.node] = 0 /\ imported' = imported \ {t.node} /\ UNCHANGED <<pid, pids>>
  \/ /\ t.op \notin Starts \cup Stops \cup Adds \cup {"install", "remove"} /\ UNCHANGED worldVars
     /\ t.op = "verify" => t.folder \in Genuine
     /\ t.op = "health" => pid[t.node] # 0

Told(t) == IF t.op = "health" THEN <<pid[t.node]>> ELSE IF t.op \in {"status", "check"} THEN <<imported, pid>> ELSE <<>>

Acts(t) ==
  /\ t.did = "waits"
  /\ \/ Effect(t) /\ tasks' = (tasks \ {t}) \cup {[t EXCEPT !.did = "well", !.seen = Told(t)]}
     \/ tasks' = (tasks \ {t}) \cup {[t EXCEPT !.did = "badly"]} /\ UNCHANGED worldVars
  /\ UNCHANGED <<phase, selectedProfile, shownVars, choiceVars>>

MachineEnds(n) ==
  /\ pid[n] # 0 /\ pid' = [pid EXCEPT ![n] = 0]
  /\ UNCHANGED <<phase, selectedProfile, shownVars, choiceVars, tasks, imported, pids>>

Answered(t, op) == t.op = op /\ t.did # "waits"
Well(t) == t.did = "well"

-----------------------------------------------------------------------------
(* The status, read by a timer, after most tasks and on request. *)

Refreshing == \E t \in tasks : t.op = "status"
Refresh == IF Refreshing THEN {} ELSE {One("status", Nobody)}
Moves(done, more) == tasks' = (tasks \ done) \cup Placed(more, done) /\ UNCHANGED worldVars
Goes(t, more) == Moves({t}, more)
Shows == UNCHANGED shownVars
Keeps == UNCHANGED <<selectedProfile, shownVars, choiceVars>>

StillRunning(now) == {n \in healthy : now[n] # 0}
StillHealthy(now) == {n \in healthy : now[n] # 0 /\ now[n] = shown[n]}

ApplyStatusReport(seen) ==
  /\ shown' = seen[2] /\ has' = seen[1] /\ runs' = {n \in Profiles : seen[2][n] # 0}
  /\ healthy' = StillHealthy(seen[2]) /\ UNCHANGED checked

RefreshAutomatically ==
  /\ ~IsBusy /\ ~Refreshing
  /\ tasks' = tasks \cup Refresh /\ UNCHANGED <<phase, selectedProfile, shownVars, choiceVars, worldVars>>

StatusAnswered(t) ==
  /\ Answered(t, "status") /\ Goes(t, {})
  /\ IF Well(t) THEN ApplyStatusReport(t.seen) ELSE Shows
  /\ UNCHANGED <<phase, selectedProfile, choiceVars>>

BeginAnyway == TRUE
Begin == ~IsBusy
Ask(t) == Moves({}, {t})

CheckStatus ==
  /\ Begin /\ phase' = "busy" /\ healthy' = {}
  /\ Ask(One("check", Nobody))
  /\ UNCHANGED <<selectedProfile, has, runs, shown, checked, choiceVars>>

HealthSequence(t, q) ==
  IF q = <<>> THEN phase' = "idle" /\ Goes(t, {})
  ELSE UNCHANGED phase /\ Goes(t, {Ticket("health", Head(q), Tail(q), Nobody, Nobody)})

CheckAnswered(t) ==
  /\ Answered(t, "check")
  /\ IF Well(t) THEN ApplyStatusReport(t.seen) ELSE Shows
  /\ HealthSequence(t, Queued({n \in Profiles : shown'[n] # 0}))
  /\ UNCHANGED <<selectedProfile, choiceVars>>

HealthAnswered(t) ==
  /\ Answered(t, "health")
  /\ IF Well(t) THEN healthy' = healthy \cup {t.node} /\ checked' = [checked EXCEPT ![t.node] = t.seen[1]]
     ELSE healthy' \in {healthy, healthy \ {t.node}} /\ UNCHANGED checked
  /\ HealthSequence(t, t.queue)
  /\ UNCHANGED <<has, runs, shown, selectedProfile, choiceVars>>

-----------------------------------------------------------------------------
(* One node: start after a preflight, stop, restart, reset, removal, and    *)
(* the calls that change nothing here but take their turn.                  *)

CanStart(n) == n \in has /\ n \notin runs
CanStop(n) == n \in runs

Takes(op, n) == Begin /\ phase' = "busy" /\ Ask(One(op, n)) /\ Keeps

StartSelected(n) == CanStart(n) /\ Begin /\ phase' = "busy" /\ selectedProfile' = n
                    /\ Ask(One("preflight", n)) /\ UNCHANGED <<shownVars, choiceVars>>
StopSelected(n) == CanStop(n) /\ Begin /\ phase' = "busy" /\ selectedProfile' = n
                   /\ Ask(One("stop", n)) /\ UNCHANGED <<shownVars, choiceVars>>
RestartSelected(n) == CanStop(n) /\ selectedProfile = n /\ Takes("restart", n)
NodeReset(n) == Takes("noderesets", n)
ImageRemove(n) == Takes("remove", n)
Deregister(n) == n \notin has /\ Takes("deregister", n)
ShowDisplay(n) == Takes("display", n)
Diagnose(n) == Takes("diagnose", n)
ExportDiagnostics == Takes("diagnostics", Nobody)
StageUpdate == Takes("stage", Nobody)
LaunchUpdate == Takes("launch update", Nobody)

(* The task is over; most tasks end with a look at the status. *)
Ends(t, next, more) == phase' = next /\ Goes(t, more)

PreflightAnswered(t) ==
  /\ Answered(t, "preflight") /\ Keeps
  /\ IF Well(t) THEN UNCHANGED phase /\ Goes(t, {One("launch", t.node)}) ELSE Ends(t, "idle", {})

RestartAnswered(t) ==
  /\ Answered(t, "restart") /\ Keeps
  /\ IF Well(t) THEN UNCHANGED phase /\ Goes(t, {One("relaunch", t.node)}) ELSE Ends(t, "idle", Refresh)

Forgets(t) == selectedProfile' = IF Well(t) /\ selectedProfile = t.node THEN Nobody ELSE selectedProfile

RefreshingAnswered(t) ==
  /\ t.op \in {"launch", "relaunch", "stop", "display", "noderesets", "remove", "deregister"} /\ t.did # "waits"
  /\ Ends(t, "idle", Refresh)
  /\ IF t.op \in {"remove", "deregister"} THEN Forgets(t) ELSE UNCHANGED selectedProfile
  /\ UNCHANGED <<shownVars, choiceVars>>

QuietAnswered(t) ==
  /\ t.op \in {"diagnose", "diagnostics", "select update", "launch update"} /\ t.did # "waits"
  /\ Ends(t, "idle", {}) /\ Keeps

(* The staged version is selected by a task of its own, if the user agrees. *)
StageAnswered(t) ==
  /\ Answered(t, "stage") /\ Keeps
  /\ \/ Ends(t, "idle", {})
     \/ Well(t) /\ Ends(t, "busy", {One("select update", Nobody)})

-----------------------------------------------------------------------------
(* A course starts its nodes in turn, a reset of all nodes likewise. *)

NotRunning(course) == {n \in course : shown[n] = 0}

CourseStart(course) ==
  /\ Begin /\ course \subseteq has /\ NotRunning(course) # {}
  /\ LET q == Queued(NotRunning(course)) IN Ask(Ticket("course", Head(q), Tail(q), Nobody, Nobody))
  /\ phase' = "busy" /\ Keeps

CourseAnswered(t) ==
  /\ Answered(t, "course")
  /\ runs' = IF Well(t) THEN runs \cup {t.node} ELSE runs
  /\ IF ~Well(t) THEN Ends(t, "failed", Refresh)
     ELSE IF t.queue = <<>> THEN Ends(t, "idle", Refresh)
     ELSE UNCHANGED phase /\ Goes(t, {Ticket("course", Head(t.queue), Tail(t.queue), Nobody, Nobody)})
  /\ UNCHANGED <<selectedProfile, has, shown, healthy, checked, choiceVars>>

CanReset == configured # {} /\ configured \subseteq has /\ runs = {}

ResetAll ==
  /\ CanReset /\ Begin
  /\ LET q == Queued(configured) IN Ask(Ticket("reset", Head(q), Tail(q), Nobody, Nobody))
  /\ phase' = "busy" /\ Keeps

ResetAnswered(t) ==
  /\ Answered(t, "reset") /\ Keeps
  /\ IF ~Well(t) THEN Ends(t, "failed", {})
     ELSE IF t.queue = <<>> THEN Ends(t, "idle", Refresh)
     ELSE UNCHANGED phase /\ Goes(t, {Ticket("reset", Head(t.queue), Tail(t.queue), Nobody, Nobody)})

-----------------------------------------------------------------------------
(* Snapshots and backups of a node that is shown as stopped. *)

LoadRecovery(n) == n \in has /\ n \notin runs /\ Takes("snapshots", n)
RecoveryAct(n, op) == n \in has /\ op \in {"recover", "checkpoint"} /\ Takes(op, n)

SnapshotsAnswered(t) == Answered(t, "snapshots") /\ Keeps /\ UNCHANGED phase /\ Goes(t, {One("backups", t.node)})
BackupsAnswered(t) == Answered(t, "backups") /\ Keeps /\ Ends(t, "idle", {})
RecoverAnswered(t) == Answered(t, "recover") /\ Keeps /\ Ends(t, "busy", {One("snapshots", t.node)} \cup Refresh)
(* A snapshot first; the disk is only put back once that has succeeded. *)
CheckpointAnswered(t) ==
  /\ Answered(t, "checkpoint") /\ Keeps
  /\ IF Well(t) THEN Ends(t, "busy", {One("recover", t.node)}) ELSE Ends(t, "idle", {})

-----------------------------------------------------------------------------
(* Folders: choosing one scans it and imports what is new. *)

Manifest(f) == IF Kind[f] = "plain" THEN {} ELSE Offers[f]
Finishes(done, next, more) == phase' = next /\ Moves(done, more)

(* importNext and onboardNext: the next of the queue, unless the user has asked to stop. *)
ImportNext(done, op, q, f, proof, stop, going) ==
  /\ stopQueue' = FALSE
  /\ IF stop THEN Finishes(done, "idle", Refresh) /\ library' = folder
     ELSE IF q # <<>> THEN Finishes(done, going, {Ticket(op, Head(q), Tail(q), f, proof)}) /\ UNCHANGED library
     ELSE IF op = "import" THEN Finishes(done, "imported", Refresh) /\ UNCHANGED library
     ELSE Finishes(done, "idle", Refresh) /\ library' = folder

OnboardPending(done, next, f, proof) ==
  LET new == Offers[f] \ has IN
  IF new = {} THEN Finishes(done, next, {}) /\ library' = f /\ UNCHANGED stopQueue
  ELSE /\ stopQueue' = FALSE /\ library' = f
       /\ Finishes(done, "importing", {Ticket("onboard", Head(Queued(new)), Tail(Queued(new)), f, proof)})

Scan(done, f, proof) ==
  IF Kind[f] = "plain" THEN OnboardPending(done, "idle", f, proof)
  ELSE library' = f /\ UNCHANGED stopQueue /\ Finishes(done, "verifying", {Ticket("verify", Nobody, <<"import">>, f, Nobody)})

ChooseFolder(f) ==
  /\ IF IsBusy THEN overlaps < MaxOverlaps /\ overlaps' = overlaps + 1 ELSE UNCHANGED overlaps
  /\ folder' = f /\ report' = Nobody /\ configured' = {} /\ selectedProfile' = Nobody /\ healthy' = {}
  /\ Scan({}, f, Nobody)
  /\ UNCHANGED <<has, runs, shown, checked, candidate, matrix>>

ScanAndImport ==
  /\ folder # Nobody /\ Begin /\ Scan({}, folder, report)
  /\ UNCHANGED <<folder, report, configured, selectedProfile, shownVars, candidate, matrix>>

VerifyDistribution ==
  /\ folder # Nobody /\ Begin
  /\ Finishes({}, "verifying", {Ticket("verify", Nobody, <<>>, folder, Nobody)}) /\ Keeps

(* The folder whose report allowed it, if a verification did. *)
Proof(t) == IF Well(t) THEN t.folder ELSE Nobody

(* What follows a verification uses the folder of now, not the one that was verified. *)
ImportMissing(t) ==
  LET missing == Manifest(folder) \ has IN
  IF Kind[t.folder] = "pack"
  THEN Finishes({t}, "importing", {Ticket("install", Nobody, <<>>, folder, Proof(t))}) /\ stopQueue' = FALSE
       /\ configured' = Offers[t.folder] /\ UNCHANGED library
  ELSE IF missing = {}
  THEN OnboardPending({t}, "verified", library, Proof(t)) /\ configured' = Offers[t.folder]
  ELSE ImportNext({t}, "import", Queued(missing), folder, Proof(t), FALSE, "importing") /\ configured' = Manifest(folder)

AnyReport(t) == TRUE
Gate(t) == Well(t)

VerifyAnswered(t) ==
  /\ Answered(t, "verify") /\ UNCHANGED <<shownVars, folder, candidate, matrix>>
  /\ \/ ~Gate(t) /\ Ends(t, "failed", {}) /\ report' \in {report, Nobody} /\ UNCHANGED <<selectedProfile, library, configured, stopQueue>>
     \/ /\ Gate(t) /\ report' = t.folder /\ selectedProfile' = Nobody
        /\ IF t.queue # <<>> THEN ImportMissing(t)
           ELSE Ends(t, "verified", {}) /\ configured' = Offers[t.folder] /\ UNCHANGED <<library, stopQueue>>

ImportAll ==
  /\ report # Nobody /\ runs = {} /\ Begin
  /\ IF Kind[report] = "pack"
     THEN Finishes({}, "importing", {Ticket("install", Nobody, <<>>, folder, report)}) /\ stopQueue' = FALSE
          /\ UNCHANGED <<selectedProfile, configured, library>>
     ELSE /\ Manifest(folder) # {} /\ configured' = Manifest(folder) /\ selectedProfile' = Nobody
          /\ ImportNext({}, "import", Queued(Manifest(folder)), folder, report, FALSE, "importing")
  /\ UNCHANGED <<shownVars, folder, report, candidate, matrix>>

StopRemaining == phase = "importing" /\ ~stopQueue /\ stopQueue' = TRUE
                 /\ UNCHANGED <<phase, selectedProfile, shownVars, folder, library, report, configured, candidate, matrix, tasks, worldVars>>

InstallAnswered(t) ==
  /\ Answered(t, "install")
  /\ \/ Well(t) /\ Ends(t, "imported", Refresh) /\ configured' = Offers[t.folder] /\ selectedProfile' = Nobody /\ library' = folder
     \/ ~Well(t) /\ Ends(t, "failed", {}) /\ UNCHANGED <<configured, selectedProfile, library>>
  /\ UNCHANGED <<shownVars, folder, report, stopQueue, candidate, matrix>>

ImportAnswered(t) ==
  /\ Answered(t, "import")
  /\ \/ Well(t) /\ has' = has \cup {t.node} /\ ImportNext({t}, "import", t.queue, t.folder, t.proof, stopQueue, phase)
     \/ ~Well(t) /\ Ends(t, "failed", {}) /\ UNCHANGED <<has, library, stopQueue>>
  /\ UNCHANGED <<selectedProfile, runs, shown, healthy, checked, folder, report, configured, candidate, matrix>>

OnboardAnswered(t) ==
  /\ Answered(t, "onboard")
  /\ ImportNext({t}, "onboard", t.queue, t.folder, t.proof, stopQueue, phase)
  /\ UNCHANGED <<selectedProfile, shownVars, folder, report, configured, candidate, matrix>>

-----------------------------------------------------------------------------
(* The wizard for one image: inspect, import, boot, apply what booted. *)

WizardStays == UNCHANGED <<shownVars, folder, library, report, stopQueue>>

Inspect == Begin /\ phase' = "busy" /\ Ask(One("inspect", Nobody)) /\ candidate' = Nobody /\ matrix' = Nobody
           /\ UNCHANGED <<selectedProfile, configured>> /\ WizardStays
ImportCandidate(n) == n \notin has /\ Begin /\ phase' = "importing" /\ Ask(One("candidate", n)) /\ Keeps
Probe == candidate # Nobody /\ Begin /\ phase' = "busy" /\ Ask(One("probe", candidate)) /\ matrix' = Nobody
         /\ UNCHANGED <<selectedProfile, configured, candidate>> /\ WizardStays
ApplyMatrix == candidate # Nobody /\ matrix # Nobody /\ Begin /\ phase' = "busy"
               /\ Ask(Ticket("apply", candidate, <<>>, Nobody, matrix)) /\ Keeps

InspectAnswered(t) == Answered(t, "inspect") /\ Ends(t, "idle", {}) /\ Keeps
CandidateAnswered(t) ==
  /\ Answered(t, "candidate") /\ WizardStays
  /\ \/ Well(t) /\ Ends(t, "idle", Refresh) /\ candidate' = t.node /\ matrix' = Nobody
        /\ configured' = configured \cup {t.node} /\ selectedProfile' = t.node
     \/ ~Well(t) /\ Ends(t, "idle", {}) /\ UNCHANGED <<candidate, matrix, configured, selectedProfile>>
ProbeAnswered(t) ==
  /\ Answered(t, "probe") /\ Ends(t, "idle", {}) /\ WizardStays
  /\ matrix' \in (IF Well(t) THEN {t.node, Nobody} ELSE {Nobody}) /\ UNCHANGED <<selectedProfile, configured, candidate>>
ApplyAnswered(t) ==
  /\ Answered(t, "apply") /\ WizardStays /\ UNCHANGED <<selectedProfile, configured, candidate>>
  /\ IF Well(t) THEN Ends(t, "idle", Refresh) /\ matrix' = Nobody ELSE Ends(t, "idle", {}) /\ UNCHANGED matrix

-----------------------------------------------------------------------------
Buttons ==
  \/ RefreshAutomatically \/ CheckStatus \/ ScanAndImport \/ VerifyDistribution \/ ImportAll \/ StopRemaining \/ ResetAll
  \/ ExportDiagnostics \/ StageUpdate \/ LaunchUpdate \/ Inspect \/ Probe \/ ApplyMatrix
  \/ \E course \in SUBSET Profiles : CourseStart(course)
  \/ \E n \in Profiles :
       \/ StartSelected(n) \/ StopSelected(n) \/ RestartSelected(n) \/ NodeReset(n) \/ ImageRemove(n) \/ Deregister(n)
       \/ ShowDisplay(n) \/ Diagnose(n) \/ LoadRecovery(n) \/ ImportCandidate(n)
       \/ \E op \in {"recover", "checkpoint"} : RecoveryAct(n, op)

Handles(t) ==
  \/ StatusAnswered(t) \/ CheckAnswered(t) \/ HealthAnswered(t) \/ PreflightAnswered(t) \/ RestartAnswered(t)
  \/ RefreshingAnswered(t) \/ QuietAnswered(t) \/ StageAnswered(t) \/ CourseAnswered(t) \/ ResetAnswered(t)
  \/ SnapshotsAnswered(t) \/ BackupsAnswered(t) \/ RecoverAnswered(t) \/ CheckpointAnswered(t)
  \/ VerifyAnswered(t) \/ InstallAnswered(t) \/ ImportAnswered(t) \/ OnboardAnswered(t)
  \/ InspectAnswered(t) \/ CandidateAnswered(t) \/ ProbeAnswered(t) \/ ApplyAnswered(t)

Presses == (Buttons /\ UNCHANGED overlaps) \/ (\E f \in Folders : ChooseFolder(f))

(* What an answer shows is in doubt when its task was crossed, until another answer shows it. *)
Settles(t) == IF t.op = "verify" THEN {"report"} ELSE IF t.op = "probe" THEN {"matrix"} ELSE IF t.op = "health" THEN {t.node} ELSE {}
Doubts(t) ==
  doubt' = IF ~Well(t) THEN doubt ELSE IF Crossed(t) THEN doubt \cup Settles(t) ELSE doubt \ Settles(t)

GuiNext ==
  \/ Presses /\ UNCHANGED doubt
  \/ \E t \in tasks : Acts(t) /\ UNCHANGED <<overlaps, doubt>>
  \/ \E t \in tasks : Handles(t) /\ Doubts(t) /\ UNCHANGED overlaps
  \/ \E n \in Profiles : MachineEnds(n) /\ UNCHANGED <<overlaps, doubt>>
GuiSpec == GuiInit /\ [][GuiNext]_guiVars

-----------------------------------------------------------------------------
(* A task has the page to itself, from its first call to its last, unless  *)
(* a folder is chosen under it: the chooser alone is never disabled        *)
(* (isBusy, chooseDistributionDirectory).  While the page is busy a task   *)
(* is under way, and such a task applies what was probed of its own node.  *)
TasksTakeTurns ==
  /\ IsBusy => Underway # {}
  /\ \A t \in Underway : ~Crossed(t) => IsBusy /\ Underway = {t} /\ (t.op = "apply" => t.proof = t.node)

(* Only the folder that this very report is about is imported ("只有本次校验 *)
(* 通过的报告才允许触发安装"), as a whole or node by node.                    *)
FromFolder(t) == t.op \in {"install", "import", "onboard"} /\ Kind[t.folder] # "plain"
InstallsAreVerified == \A t \in tasks : FromFolder(t) => t.proof = t.folder

(* It holds of every task but those under which, or under whose            *)
(* verification, another folder was chosen (importMissingFromManifest).    *)
UncrossedInstallsAreVerified == \A t \in tasks : FromFolder(t) /\ ~Crossed(t) => t.proof = t.folder

(* No machine is shown as healthy that was launched after the one that was *)
(* checked ("否则重启后的节点会被显示成通过"), unless the answer is one of a  *)
(* check under which a folder was chosen and another task begun            *)
(* (applyStatusReport, checkHealthSequence).                               *)
HealthIsCurrent == \A n \in healthy \ doubt : shown[n] <= checked[n]
=============================================================================
