------------------------------ MODULE LabDisks ------------------------------
(***************************************************************************)
(* The disks of one profile under the command line runner, LabManager of   *)
(* tools/ctflab.py: the base images and the record that names the current  *)
(* one, the runtime directory (overlay, NVRAM, internal snapshots with     *)
(* their NVRAM copies, run.json), the whole-disk backups and the archives  *)
(* of finalize-install --from-runtime.                                     *)
(*                                                                         *)
(* Every operation holds the operation lock, so two of them never overlap; *)
(* but a command may die between any two changes of a file and leaves them *)
(* as they are, while QEMU, started in a session of its own, runs on.      *)
(***************************************************************************)
EXTENDS Naturals, FiniteSets

CONSTANTS Bases,      \* base images, each named by the digest of its content
          Names,      \* names of whole-disk backups
          Tags,       \* names of internal snapshots
          Arch,       \* architecture of the guest
          MaxDisk, MaxLaunch, MaxMoment, MaxDeaths,  \* bounds: overlays, launches, guest writes, deaths
          None

(* A directory.  Moments number the guest's writes; 0 is a file that is not
   there.  rec is the launch that run.json names. *)
Directory == [disk : Nat, base : Bases \cup {None}, now : Nat, fw : Nat,
              snaps : [Tags -> [now : Nat, fw : Nat]], pairs : [Tags -> Nat], rec : 0..MaxLaunch]

ASSUME LabDisksAssumption ==
  /\ None \notin Bases \cup Names \cup Tags \cup Directory
  /\ Arch \in {"aarch64", "x86_64"}
  /\ MaxDisk \in Nat \ {0} /\ MaxLaunch \in Nat \ {0} /\ MaxMoment \in Nat \ {0} /\ MaxDeaths \in Nat

VARIABLES image,     \* the base that image.json names, or None
          bases,     \* the base files that exist
          here,      \* the runtime directory, or None
          kept,      \* the backup of each name, or None
          archived,  \* the runtime directories that finalize-install put aside
          qemu,      \* the overlay that each launch holds open, 0 when it has ended
          made,      \* overlays created, launches, guest writes and deaths so far
          running,   \* the operation that holds the lock
          said,      \* the answer of the last operation, as far as it matters
          given,     \* overlays that a command was asked to throw away
          started    \* the launch last reported as started and not stopped since

disksVars == <<image, bases, here, kept, archived, qemu, made, running, said, given, started>>

Torn == MaxMoment + 1    \* an NVRAM file whose copy was cut short

NoSnap == [now |-> 0, fw |-> 0]
Bare == [disk |-> 0, base |-> None, now |-> 0, fw |-> 0,
         snaps |-> [t \in Tags |-> NoSnap], pairs |-> [t \in Tags |-> 0], rec |-> 0]

Alive(l) == l > 0 /\ qemu[l] > 0
DiskRuns == here # None /\ Alive(here.rec)
HasDisk(d) == d # None /\ d.disk > 0

(* QEMU's image lock, which qemu-img respects: a file open in one process can
   be neither changed nor inspected by another. *)
Free(d) == \A l \in DOMAIN qemu : qemu[l] # d.disk

DiskIdle == [op |-> "idle", at |-> "", arg |-> None, aside |-> None]
DiskAt(op, at) == running.op = op /\ running.at = at
DiskBegin(op, at, arg) == /\ running = DiskIdle
                      /\ running' = [op |-> op, at |-> at, arg |-> arg, aside |-> None]
                      /\ said' = "nothing"
DiskThen(at) == running' = [running EXCEPT !.at = at] /\ UNCHANGED said
DiskThenAside(at, d) == running' = [running EXCEPT !.at = at, !.aside = d] /\ UNCHANGED said
DiskEnds(answer) == running' = DiskIdle /\ said' = answer

DisksInit ==
  /\ image = None /\ bases = {} /\ here = None /\ archived = {}
  /\ kept = [n \in Names |-> None]
  /\ qemu = [l \in 1..MaxLaunch |-> 0]
  /\ made = [disks |-> 0, launches |-> 0, moments |-> 1, deaths |-> 0]
  /\ running = DiskIdle /\ said = "nothing" /\ given = {} /\ started = 0

-----------------------------------------------------------------------------
(* import: the base is published under its digest, then recorded. *)
ImportDisk(b) ==
  /\ ~ (image = b /\ b \in bases)
  /\ DiskBegin("import", IF b \in bases THEN "register" ELSE "publish", b)
  /\ UNCHANGED <<image, bases, here, kept, archived, qemu, made, given, started>>

(* finalize_install --from-runtime makes a base of the current overlay, puts
   the directory aside and records the base; if that fails the directory is
   moved back. *)
Inspectable == here # None /\ ~ DiskRuns /\ HasDisk(here) /\ Free(here)

Finalize(b) ==
  /\ Inspectable
  /\ here.fw > 0
  /\ image \in bases \ {b} /\ here.base = image
  /\ DiskBegin("finalize", IF b \in bases THEN "archive" ELSE "publish", b)
  /\ UNCHANGED <<image, bases, here, kept, archived, qemu, made, given, started>>

PublishDisk ==
  /\ running.at = "publish"
  /\ bases' = bases \cup {running.arg}
  /\ DiskThen(IF running.op = "import" THEN "register" ELSE "archive")
  /\ UNCHANGED <<image, here, kept, archived, qemu, made, given, started>>

Archive ==
  /\ DiskAt("finalize", "archive")
  /\ archived' = archived \cup {here}
  /\ here' = None
  /\ DiskThenAside("register", here)
  /\ UNCHANGED <<image, bases, kept, qemu, made, given, started>>

RegisterDisk ==
  /\ running.at = "register"
  /\ image' = running.arg
  /\ DiskEnds("done")
  /\ UNCHANGED <<bases, here, kept, archived, qemu, made, given, started>>

MoveBack ==
  /\ DiskAt("finalize", "register")
  /\ here' = running.aside
  /\ archived' = archived \ {running.aside}
  /\ DiskEnds("failed")
  /\ UNCHANGED <<image, bases, kept, qemu, made, given, started>>

-----------------------------------------------------------------------------
(* run and boot_matrix start the machine by the same steps.  boot_matrix
   refuses to touch an existing directory and throws its own away at the end;
   what goes wrong on the way leads it there too. *)
Launching == running.op \in {"run", "matrix"}
GiveUp == IF running.op = "matrix" /\ here # None THEN DiskThen("halt") ELSE DiskEnds("refused")

Bootable == image # None /\ image \in bases

RunDisk ==
  /\ Bootable
  /\ here # None => /\ ~ DiskRuns
                    /\ HasDisk(here) => Free(here) /\ here.base = image
  /\ DiskBegin("run", "mkdir", None)
  /\ UNCHANGED <<image, bases, here, kept, archived, qemu, made, given, started>>

Matrix ==
  /\ here = None
  /\ Bootable
  /\ DiskBegin("matrix", "mkdir", None)
  /\ UNCHANGED <<image, bases, here, kept, archived, qemu, made, given, started>>

MakeDirectory ==
  /\ Launching /\ running.at = "mkdir"
  /\ here' = IF here = None THEN Bare ELSE here
  /\ DiskThen("overlay")
  /\ UNCHANGED <<image, bases, kept, archived, qemu, made, given, started>>

EnsureOverlay ==
  /\ Launching /\ running.at = "overlay"
  /\ \/ HasDisk(here) /\ DiskThen("vars") /\ UNCHANGED <<here, made>>
     \/ /\ ~ HasDisk(here) /\ made.disks < MaxDisk
        /\ made' = [made EXCEPT !.disks = @ + 1]
        /\ here' = [here EXCEPT !.disk = made.disks + 1, !.base = image, !.now = 1]
        /\ DiskThen("vars")
     \/ ~ HasDisk(here) /\ GiveUp /\ UNCHANGED <<here, made>>
  /\ UNCHANGED <<image, bases, kept, archived, qemu, given, started>>

(* ensure_uefi_vars copies the template only if there is no file yet. *)
EnsureVars ==
  /\ Launching /\ running.at = "vars"
  /\ here' = IF here.fw = 0 THEN [here EXCEPT !.fw = 1] ELSE here
  /\ DiskThen("launch")
  /\ UNCHANGED <<image, bases, kept, archived, qemu, made, given, started>>

(* Popen and the look at the process shortly after; the process outlives the
   command from here on, recorded or not. *)
LaunchDisk ==
  /\ Launching /\ running.at = "launch"
  /\ \/ /\ here.fw # Torn /\ made.launches < MaxLaunch
        /\ made' = [made EXCEPT !.launches = @ + 1]
        /\ qemu' = [qemu EXCEPT ![made.launches + 1] = here.disk]
        /\ DiskThen("record")
     \/ GiveUp /\ UNCHANGED <<made, qemu>>
  /\ UNCHANGED <<image, bases, here, kept, archived, given, started>>

RecordRun ==
  /\ Launching /\ running.at = "record"
  /\ here' = [here EXCEPT !.rec = made.launches]
  /\ IF running.op = "run"
     THEN DiskEnds("done") /\ started' = made.launches
     ELSE DiskThen("halt") /\ UNCHANGED started
  /\ UNCHANGED <<image, bases, kept, archived, qemu, made, given>>

-----------------------------------------------------------------------------
(* stop: gracefully, a machine that does not power off is kept as it is;
   otherwise it is killed, which the command does not wait for. *)
StopDisk(graceful) ==
  /\ here # None /\ here.rec > 0
  /\ DiskBegin("stop", "halt", graceful)
  /\ UNCHANGED <<image, bases, here, kept, archived, qemu, made, given, started>>

Halt ==
  /\ running.at = "halt"
  /\ \/ DiskRuns /\ running.arg = TRUE /\ DiskEnds("preserved") /\ UNCHANGED <<qemu, started>>
     \/ /\ DiskRuns /\ running.arg # TRUE
        /\ started' = 0
        /\ \/ qemu' = [qemu EXCEPT ![here.rec] = 0]
           \/ UNCHANGED qemu
        /\ DiskThen("unlink")
     \/ ~ DiskRuns /\ DiskThen("unlink") /\ UNCHANGED <<qemu, started>>
  /\ UNCHANGED <<image, bases, here, kept, archived, made, given>>

Unlink ==
  /\ running.at = "unlink"
  /\ here' = [here EXCEPT !.rec = 0]
  /\ CASE running.op = "stop" -> DiskEnds("done")
       [] running.op = "reset" -> DiskThen(IF running.arg \in Names THEN "backup" ELSE "rmtree")
       [] running.op = "matrix" -> DiskThen("rmtree")
  /\ UNCHANGED <<image, bases, kept, archived, qemu, made, given, started>>

-----------------------------------------------------------------------------
(* reset: arg is the name of a backup or None. *)
Reset(force, name) ==
  /\ here # None
  /\ DiskRuns => force
  /\ name \in Names => HasDisk(here) /\ kept[name] = None
  /\ DiskBegin("reset", IF DiskRuns THEN "halt" ELSE IF name \in Names THEN "backup" ELSE "rmtree", name)
  /\ UNCHANGED <<image, bases, here, kept, archived, qemu, made, given, started>>

MoveToBackup ==
  /\ DiskAt("reset", "backup")
  /\ kept' = [kept EXCEPT ![running.arg] = here]
  /\ here' = None
  /\ DiskEnds("done")
  /\ UNCHANGED <<image, bases, archived, qemu, made, given, started>>

(* remove_image: the runtime directory first, then the directory of the
   image; backups keep their base. *)
NoBackupHere == here = None \/ ~ HasDisk(here)
NoBackups == \A n \in Names : kept[n] = None

RemoveImage ==
  /\ ~ DiskRuns
  /\ image # None
  /\ NoBackups
  /\ DiskBegin("remove", IF here = None THEN "rmimage" ELSE "rmtree", None)
  /\ UNCHANGED <<image, bases, here, kept, archived, qemu, made, given, started>>

RemoveTree ==
  /\ running.at = "rmtree"
  /\ given' = given \cup {here.disk}
  /\ here' = None
  /\ CASE running.op = "remove" -> DiskThen("rmimage")
       [] running.op = "reset" -> DiskEnds("done")
       [] running.op = "matrix" -> DiskEnds("done") \/ DiskThen("mkdir")
  /\ UNCHANGED <<image, bases, kept, archived, qemu, made, started>>

RemoveBases ==
  /\ DiskAt("remove", "rmimage")
  /\ image' = None /\ bases' = {}
  /\ DiskEnds("done")
  /\ UNCHANGED <<here, kept, archived, qemu, made, given, started>>

-----------------------------------------------------------------------------
(* Internal snapshots pair the state of the disk with a copy of the NVRAM,
   which only the file name of the aarch64 guests is looked for. *)
Nvram(d) == IF Arch = "aarch64" THEN d.fw ELSE 0

SnapshotCreate(t) ==
  /\ Inspectable
  /\ here.snaps[t] = NoSnap
  /\ Nvram(here) > 0 => here.pairs[t] = 0
  /\ DiskBegin("create", IF Nvram(here) > 0 THEN "pair" ELSE "snap", t)
  /\ UNCHANGED <<image, bases, here, kept, archived, qemu, made, given, started>>

CopyToPair ==
  /\ DiskAt("create", "pair")
  /\ here' = [here EXCEPT !.pairs[running.arg] = Nvram(here)]
  /\ DiskThen("snap")
  /\ UNCHANGED <<image, bases, kept, archived, qemu, made, given, started>>

TakeSnap ==
  /\ DiskAt("create", "snap")
  /\ \/ here' = [here EXCEPT !.snaps[running.arg] = [now |-> here.now, fw |-> here.fw]] /\ DiskEnds("done")
     \/ /\ here' = IF Nvram(here) > 0 THEN [here EXCEPT !.pairs[running.arg] = 0] ELSE here
        /\ DiskEnds("failed")
  /\ UNCHANGED <<image, bases, kept, archived, qemu, made, given, started>>

RevertAnyway(t) == FALSE
RevertRefused(t) == Nvram(here) > 0 /\ here.pairs[t] = 0

SnapshotRevert(t) ==
  /\ Inspectable
  /\ here.snaps[t] # NoSnap
  /\ ~ RevertRefused(t)
  /\ DiskBegin("revert", "apply", t)
  /\ UNCHANGED <<image, bases, here, kept, archived, qemu, made, given, started>>

ApplySnap ==
  /\ DiskAt("revert", "apply")
  /\ here' = [here EXCEPT !.now = here.snaps[running.arg].now]
  /\ IF here.pairs[running.arg] = 0 THEN DiskEnds("reverted") ELSE DiskThen("restore")
  /\ UNCHANGED <<image, bases, kept, archived, qemu, made, given, started>>

RestorePair ==
  /\ DiskAt("revert", "restore")
  /\ here' = [here EXCEPT !.fw = here.pairs[running.arg]]
  /\ DiskEnds("reverted")
  /\ UNCHANGED <<image, bases, kept, archived, qemu, made, given, started>>

SnapshotDelete(t) ==
  /\ Inspectable
  /\ here.snaps[t] # NoSnap
  /\ DiskBegin("delete", "drop", t)
  /\ UNCHANGED <<image, bases, here, kept, archived, qemu, made, given, started>>

DropSnap ==
  /\ DiskAt("delete", "drop")
  /\ here' = [here EXCEPT !.snaps[running.arg] = NoSnap]
  /\ IF Nvram(here) > 0 THEN DiskThen("unpair") ELSE DiskEnds("done")
  /\ UNCHANGED <<image, bases, kept, archived, qemu, made, given, started>>

Unpair ==
  /\ DiskAt("delete", "unpair")
  /\ here' = [here EXCEPT !.pairs[running.arg] = 0]
  /\ DiskEnds("done")
  /\ UNCHANGED <<image, bases, kept, archived, qemu, made, given, started>>

-----------------------------------------------------------------------------
(* backup_restore moves the current directory aside under a name of its own
   before the backup takes its place, and back if that fails. *)
Restore(n) ==
  /\ ~ DiskRuns
  /\ HasDisk(kept[n]) /\ Free(kept[n])
  /\ kept[n].base \in bases
  /\ DiskBegin("restore", IF here = None THEN "swap" ELSE "aside", n)
  /\ UNCHANGED <<image, bases, here, kept, archived, qemu, made, given, started>>

MoveAside ==
  /\ DiskAt("restore", "aside")
  /\ \E m \in Names :
       /\ kept[m] = None
       /\ kept' = [kept EXCEPT ![m] = here]
       /\ DiskThenAside("swap", m)
  /\ here' = None
  /\ UNCHANGED <<image, bases, archived, qemu, made, given, started>>

SwapIn ==
  /\ DiskAt("restore", "swap")
  /\ here' = [kept[running.arg] EXCEPT !.rec = 0]
  /\ kept' = [kept EXCEPT ![running.arg] = None]
  /\ DiskEnds("done")
  /\ UNCHANGED <<image, bases, archived, qemu, made, given, started>>

SwapBack ==
  /\ DiskAt("restore", "swap")
  /\ IF running.aside = None THEN UNCHANGED <<here, kept>>
     ELSE here' = kept[running.aside] /\ kept' = [kept EXCEPT ![running.aside] = None]
  /\ DiskEnds("failed")
  /\ UNCHANGED <<image, bases, archived, qemu, made, given, started>>

BackupDelete(n) ==
  /\ ~ DiskRuns
  /\ kept[n] # None
  /\ DiskBegin("drop", "rmbackup", n)
  /\ UNCHANGED <<image, bases, here, kept, archived, qemu, made, given, started>>

RemoveBackup ==
  /\ DiskAt("drop", "rmbackup")
  /\ given' = given \cup {kept[running.arg].disk}
  /\ kept' = [kept EXCEPT ![running.arg] = None]
  /\ DiskEnds("done")
  /\ UNCHANGED <<image, bases, here, archived, qemu, made, started>>

-----------------------------------------------------------------------------
(* A command dies, or an error ends it where it cleans nothing up.  In the
   middle of a copy it leaves a torn file, in the middle of a removal any part
   of the tree. *)
DiskDies ==
  /\ running # DiskIdle /\ made.deaths < MaxDeaths
  /\ made' = [made EXCEPT !.deaths = @ + 1]
  /\ DiskEnds("nothing")

Crash ==
  /\ DiskDies
  /\ UNCHANGED <<image, bases, here, kept, archived, qemu, given, started>>

CrashCopying ==
  /\ DiskDies
  /\ \/ Launching /\ running.at = "vars" /\ here.fw = 0 /\ here' = [here EXCEPT !.fw = Torn]
     \/ DiskAt("create", "pair") /\ here' = [here EXCEPT !.pairs[running.arg] = Torn]
     \/ DiskAt("revert", "restore") /\ here' = [here EXCEPT !.fw = Torn]
  /\ UNCHANGED <<image, bases, kept, archived, qemu, given, started>>

Parts == {"overlay", "nvram", "pairs", "record"}
Without(d, parts) ==
  [disk |-> IF "overlay" \in parts THEN 0 ELSE d.disk,
   base |-> IF "overlay" \in parts THEN None ELSE d.base,
   now |-> IF "overlay" \in parts THEN 0 ELSE d.now,
   snaps |-> IF "overlay" \in parts THEN Bare.snaps ELSE d.snaps,
   fw |-> IF "nvram" \in parts THEN 0 ELSE d.fw,
   pairs |-> IF "pairs" \in parts THEN Bare.pairs ELSE d.pairs,
   rec |-> IF "record" \in parts THEN 0 ELSE d.rec]

CrashRemoving ==
  /\ DiskDies
  /\ \/ /\ running.at = "rmtree"
        /\ \E parts \in SUBSET Parts : here' = Without(here, parts)
        /\ given' = given \cup {here.disk}
        /\ UNCHANGED <<image, bases, kept>>
     \/ /\ running.at = "rmbackup"
        /\ \E parts \in SUBSET Parts :
             kept' = [kept EXCEPT ![running.arg] = Without(@, parts)]
        /\ given' = given \cup {kept[running.arg].disk}
        /\ UNCHANGED <<image, bases, here>>
     \/ /\ running.at = "rmimage"
        /\ \/ image' = None /\ UNCHANGED bases
           \/ bases' = {} /\ UNCHANGED image
        /\ UNCHANGED <<here, kept, given>>
  /\ UNCHANGED <<archived, qemu, started>>

-----------------------------------------------------------------------------
(* The machine: it writes to the files it holds open wherever they have been
   moved, and may end at any time. *)
Written(d, l) ==
  IF d = None \/ d.disk # qemu[l] THEN d
  ELSE [d EXCEPT !.now = made.moments + 1, !.fw = IF @ = 0 THEN 0 ELSE made.moments + 1]

GuestWrites(l) ==
  /\ Alive(l) /\ made.moments < MaxMoment
  /\ made' = [made EXCEPT !.moments = @ + 1]
  /\ here' = Written(here, l)
  /\ kept' = [n \in Names |-> Written(kept[n], l)]
  /\ archived' = {Written(d, l) : d \in archived}
  /\ UNCHANGED <<image, bases, qemu, running, said, given, started>>

GuestEnds(l) ==
  /\ Alive(l)
  /\ qemu' = [qemu EXCEPT ![l] = 0]
  /\ UNCHANGED <<image, bases, here, kept, archived, made, running, said, given, started>>

-----------------------------------------------------------------------------
DisksNext ==
  \/ \E b \in Bases : ImportDisk(b) \/ Finalize(b)
  \/ PublishDisk \/ Archive \/ RegisterDisk \/ MoveBack
  \/ RunDisk \/ Matrix \/ MakeDirectory \/ EnsureOverlay \/ EnsureVars \/ LaunchDisk \/ RecordRun
  \/ \E graceful \in BOOLEAN : StopDisk(graceful)
  \/ Halt \/ Unlink
  \/ \E force \in BOOLEAN, n \in Names \cup {None} : Reset(force, n)
  \/ MoveToBackup \/ RemoveImage \/ RemoveTree \/ RemoveBases
  \/ \E t \in Tags : SnapshotCreate(t) \/ SnapshotRevert(t) \/ SnapshotDelete(t)
  \/ CopyToPair \/ TakeSnap \/ ApplySnap \/ RestorePair \/ DropSnap \/ Unpair
  \/ \E n \in Names : Restore(n) \/ BackupDelete(n)
  \/ MoveAside \/ SwapIn \/ SwapBack \/ RemoveBackup
  \/ Crash \/ CrashCopying \/ CrashRemoving
  \/ \E l \in 1..MaxLaunch : GuestWrites(l) \/ GuestEnds(l)

DisksSpec == DisksInit /\ [][DisksNext]_disksVars

-----------------------------------------------------------------------------
(* DisksAreSafe, however resets, restores and finalizations were cut short or
   failed: an overlay that no command was asked to throw away is in exactly one
   place, the runtime directory, a backup or an archive; the base of the current
   overlay and of those in backups exists; and a machine that was reported as
   started and that no stop has ended is the one that run.json names, on the
   overlay in place. *)
Holding(k, dirs) == {d \in dirs : HasDisk(d) /\ d.disk = k}

NothingIsLost ==
  \A k \in (1..made.disks) \ given :
    Cardinality(Holding(k, {here})) + Cardinality(Holding(k, archived))
      + Cardinality({n \in Names : Holding(k, {kept[n]}) # {}}) = 1

DisksHaveTheirBase ==
  \A d \in {here} \cup {kept[n] : n \in Names} : HasDisk(d) => d.base \in bases

StartedStaysReachable ==
  started > 0 /\ Alive(started) => here # None /\ here.rec = started /\ here.disk = qemu[started]

DisksAreSafe == NothingIsLost /\ DisksHaveTheirBase /\ StartedStaysReachable

(* RevertRestoresBoth: a revert that is reported as done has put the disk back
   to the moment of the snapshot, and an NVRAM that the guest had then is back
   at the same moment; it is never left at a later one. *)
RevertRestoresBoth ==
  [][said' = "reverted" /\ said # "reverted" =>
       LET snap == here.snaps[running.arg] IN
       /\ here'.now = snap.now
       /\ snap.fw > 0 /\ here'.fw > 0 => here'.fw = snap.fw]_disksVars
=============================================================================
