----------------------------- MODULE LabInstall -----------------------------
(***************************************************************************)
(* Installation of a guest from its ISO under LabManager (tools/ctflab.py): *)
(* installer.json, the disk the installer writes, its log, and the base    *)
(* that finalize_install makes of the disk.  The installer is a QEMU       *)
(* process of its own session that goes on when the command dies, and it   *)
(* may be the command of an earlier attempt whose process is still there.  *)
(***************************************************************************)
EXTENDS Naturals

CONSTANTS MaxStarts,   \* bound on launches of the installer
          NoJob

JobStatus == {"preparing", "installing", "failed", "stopped", "finalized"}

ASSUME LabInstallAssumption ==
  MaxStarts \in Nat \ {0} /\ NoJob \notin [status : JobStatus, pid : Nat, mark : Nat, unattended : BOOLEAN]

VARIABLES job,        \* installer.json, or NoJob
          target,     \* what the disk holds
          installer,  \* the launches that are alive
          starts,     \* launches so far
          finished,   \* completions that the log tells of
          step,       \* the command that holds the lock and where it is
          installed,  \* the base that was registered, or NoJob
          strayed     \* whether a command died before it recorded its installer

installVars == <<job, target, installer, starts, finished, step, installed, strayed>>

AtRest == [at |-> "idle", unattended |-> FALSE]

InstallInit ==
  /\ job = NoJob /\ target = "absent" /\ installer = {} /\ starts = 0 /\ finished = 0
  /\ step = AtRest /\ installed = NoJob /\ strayed = FALSE

Recorded == job # NoJob /\ job.pid \in installer

Holds(at) == step.at = at
Steps(at) == step' = [step EXCEPT !.at = at]
Leaves == step' = AtRest

-----------------------------------------------------------------------------
(* start_install.  An existing job is continued only on request, and an
   unattended one, which partitions the disk again, only if confirmed. *)
StartInstall(unattended, resume, confirm) ==
  /\ Holds("idle")
  /\ installed = NoJob
  /\ ~ Recorded
  /\ IF job = NoJob THEN target = "absent"
     ELSE resume /\ (unattended => confirm) /\ target # "absent"
  /\ step' = [at |-> IF job = NoJob THEN "create" ELSE "prepare", unattended |-> unattended]
  /\ UNCHANGED <<job, target, installer, starts, finished, installed, strayed>>

CreateTarget ==
  /\ Holds("create")
  /\ target' = "blank"
  /\ Steps("prepare")
  /\ UNCHANGED <<job, installer, starts, finished, installed, strayed>>

(* The log is read from its present end on: what it tells of earlier attempts
   does not count. *)
LogStartOld == IF job = NoJob THEN finished ELSE job.mark
LogStart == finished

Prepare ==
  /\ Holds("prepare")
  /\ job' = [status |-> "preparing", pid |-> 0, mark |-> LogStart, unattended |-> step.unattended]
  /\ Steps("launch")
  /\ UNCHANGED <<target, installer, starts, finished, installed, strayed>>

(* QEMU refuses a disk that another process holds open. *)
LaunchInstaller ==
  /\ Holds("launch")
  /\ \/ /\ installer = {} /\ starts < MaxStarts
        /\ starts' = starts + 1
        /\ installer' = {starts + 1}
        /\ Steps("record")
        /\ UNCHANGED job
     \/ /\ job' = [job EXCEPT !.status = "failed"]
        /\ Leaves
        /\ UNCHANGED <<installer, starts>>
  /\ UNCHANGED <<target, finished, installed, strayed>>

RecordInstaller ==
  /\ Holds("record")
  /\ job' = [job EXCEPT !.status = "installing", !.pid = starts]
  /\ Leaves
  /\ UNCHANGED <<target, installer, starts, finished, installed, strayed>>

-----------------------------------------------------------------------------
(* stop_install; when the process does not end it changes nothing. *)
StopInstall ==
  /\ Holds("idle")
  /\ job # NoJob
  /\ job' = [job EXCEPT !.status = "stopped"]
  /\ installer' = installer \ {job.pid}
  /\ UNCHANGED <<target, starts, finished, step, installed, strayed>>

(* finalize_install of an installed disk, which the user has to confirm. *)
CompletionHint == finished > job.mark

FinalizeInstall ==
  /\ Holds("idle")
  /\ installed = NoJob /\ job # NoJob
  /\ ~ Recorded
  /\ job.unattended => CompletionHint
  /\ target \in {"partial", "complete"}
  /\ installer = {}
  /\ step' = [at |-> "register", unattended |-> job.unattended]
  /\ UNCHANGED <<job, target, installer, starts, finished, installed, strayed>>

RegisterInstalled ==
  /\ Holds("register")
  /\ installed' = [content |-> target, unattended |-> step.unattended]
  /\ Steps("finalized")
  /\ UNCHANGED <<job, target, installer, starts, finished, strayed>>

MarkFinalized ==
  /\ Holds("finalized")
  /\ job' = [job EXCEPT !.status = "finalized"]
  /\ Leaves
  /\ UNCHANGED <<target, installer, starts, finished, installed, strayed>>

(* remove_image: the job of the installation remains. *)
RemoveInstalled ==
  /\ Holds("idle") /\ installed # NoJob
  /\ installed' = NoJob
  /\ UNCHANGED <<job, target, installer, starts, finished, step, strayed>>

CommandDies ==
  /\ ~ Holds("idle")
  /\ strayed' = (strayed \/ Holds("record"))
  /\ Leaves
  /\ UNCHANGED <<job, target, installer, starts, finished, installed>>

-----------------------------------------------------------------------------
(* The installer partitions the disk, completes it and says so before it ends;
   it may also end at any other moment. *)
InstallerWrites ==
  /\ installer # {} /\ target # "partial"
  /\ target' = "partial"
  /\ \A l \in installer : finished < l
  /\ UNCHANGED <<job, installer, starts, finished, step, installed, strayed>>

InstallerCompletes ==
  /\ installer # {} /\ target = "partial"
  /\ target' = "complete"
  /\ \A l \in installer : finished' = l
  /\ UNCHANGED <<job, installer, starts, step, installed, strayed>>

InstallerEnds ==
  /\ installer # {}
  /\ installer' = {}
  /\ UNCHANGED <<job, target, starts, finished, step, installed, strayed>>

InstallNext ==
  \/ \E unattended, resume, confirm \in BOOLEAN : StartInstall(unattended, resume, confirm)
  \/ CreateTarget \/ Prepare \/ LaunchInstaller \/ RecordInstaller
  \/ StopInstall \/ FinalizeInstall \/ RegisterInstalled \/ MarkFinalized \/ RemoveInstalled
  \/ CommandDies
  \/ InstallerWrites \/ InstallerCompletes \/ InstallerEnds

InstallSpec == InstallInit /\ [][InstallNext]_installVars

-----------------------------------------------------------------------------
(* InstalledMeansComplete: the base of an unattended installation is a copy
   of a disk that the last installer has completed, whatever attempts were
   stopped or cut short before.  It needs every installer to be recorded: the
   end of one that is not may be taken for the end of its successor. *)
InstalledMeansComplete ==
  ~ strayed /\ installed # NoJob /\ installed.unattended => installed.content = "complete"
=============================================================================
