# TLA+ models of ctf-lab

ctf-lab runs labs of virtual machines: single machines under a command line
runner, and scenarios (a few machines and a network) on a student's machine or
on a shared host.  Much of its 350 files checks configurations, generates
teaching material or talks to one platform's native interface.  What is hard to
get right is which request was accepted and whether it has been executed, which
disks are the current ones, which machines run, who pays for them, and what a
user is shown of all that.  These facts are kept in databases, files and
processes that change in separate steps, by commands that may die between any two
of them.  These modules are about that.

Paths below are relative to `src/tools/` unless they begin with `src/`.

- [1. The system](#1-the-system)
- [2. The modules](#2-the-modules)
- [3. How state and actions correspond to the code](#3-how-state-and-actions-correspond-to-the-code)
- [4. The runs, their bounds and what they show](#4-the-runs-their-bounds-and-what-they-show)
- [5. Fairness](#5-fairness)
- [6. What is proved](#6-what-is-proved)
- [7. What is only model-checked](#7-what-is-only-model-checked)
- [8. Where the code does not do what it says](#8-where-the-code-does-not-do-what-it-says)
- [9. What is not modelled](#9-what-is-not-modelled)
- [10. Plan](#10-plan)

## 1. The system

    Mac application (src/gui)                client of remote servers
      |          |        |                     |  private ledger, SSH
      |     scene page  remote page ------------+
      |          |                              |
      |    desktop bridge -- dispatch -->   remote runner: leases, jobs, audit, cache
      |          |         (one process         |        |
      |          |          per operation)      |   lease scheduler --> lease ledger
      |          v                              v
      |       contract service  <--- one database per installation
      |          |  execute, under the worker gate
      |          v
      |       scenario coordinator ----> generation store (one per instance)
      |          v
      |       QEMU driver ----> launch attempts: files, worker, observers, QEMU
      |                             |                 guest agent
      v                             v
    LabManager (ctflab.py)      loopback switch <--- relay <--- outside Kali
      disks, registry, installation, machines

**Contract service** (`ctflab_local_service.py`, `ctflab_contract.py`).
*State*: tables `instances` (state, generation, revision, holder, event floor and
sequence), `operations` (request and answer), `events`.
*Operations*: submit (prepare; start, stop, reset, recover and guest commands;
cancel), restart_preparation, execute, prune_events, and reads.
*Interaction*: any process opens the database; execute runs under one worker gate
for all instances and calls the backend between two transactions.
*Hard*: retried and reordered requests; cancel at any moment; recover and restart
taking an instance from an operation that died or still runs; a commit that fails
because the database is opened with a zero timeout.
*Correct if*: an instance is held by exactly its unresolved operation; a request
is executed at most once; answers are final; revisions version what clients
decide on; the event stream has no hole.

**Generation store** (`ctflab_generation_store.py`).  *State*: the selected
generation, generations with their files, operations, effects on nodes.
*Hard*: an operation that dies while whole disks are copied leaves a row; several
rows may carry one generation number.  *Correct if*: every generation up to the
selected one is found through exactly one prepared row, and nothing preserved is
taken back.

**Scenario coordinator** (`ctflab_scenario_coordinator.py`).  *State*: none; it
moves the store, the machines and, through its outcome, the contract service.
*Hard*: three ledgers that change one after the other; machines that come up late
or power off meanwhile; cancellation between two nodes.  *Correct if*: an instance
shown as usable has the generation the store has selected and nothing unresolved;
one shown as stopped has no machine running or about to run.

**QEMU driver** (`ctflab_qemu_driver.py`).  *State*: a directory per launch attempt
with files written once; a worker that launches QEMU; observers that hold on to
it.  *Hard*: the worker dies between launching QEMU and writing down what it has
launched; files are read while they are written.  *Correct if*: "stopped" is
proven, there is one machine per disk, a command is not repeated.

**Lease ledger, remote lease runner, scheduler** (`ctflab_lease_store.py`,
`ctflab_remote_leases.py`, `ctflab_lease_scheduler.py`).  *State*: leases, disk
reservations, renewals, marks of the host's clocks; job files; a cursor.
*Interaction*: all take the gate of the pool, without waiting, in front of the
contract service's worker gate; cancel and status do not.  *Hard*: deadlines on a
monotonic clock across suspend, clock changes and reboots; a lease that expires
between submission, job and effect; more overdue leases than a visit handles.
*Correct if*: nobody is entitled beyond the time granted but for the tolerance of
the clocks, limits hold, what runs is leased, an expired lease asks for one stop,
and every overdue lease has its turn.

**Runner of single machines** (`LabManager` of `ctflab.py`).  *State*: base images
and the records that name them, runtime directories (overlay, NVRAM, snapshots,
`run.json`), whole-disk backups, profiles, `installer.json`, the switch of a port.
*Interaction*: one operation lock, which onboard's last step, deregister, the end
of remove-image and the user's editor do not take; QEMU, installer and switch run in sessions of their
own.  *Hard*: a command dies between two files; an operation of several nodes
fails half-way and rolls back; a machine outlives the record of it.  *Correct if*:
no disk or base is lost or left without the other, a revert restores what belongs
together, what is registered is complete but for a profile that a command without
the lock took away, what is reported installed is.

**Transactions of a scene** (`ctflab_scenario_reset.py`,
`ctflab_scenario_runtime.py`, `ctflab_scenario_services.py`,
`ctflab_scenario_sessions.py`).  *State*: the active pointer, reset transactions,
the resource registry, session logs, and processes the system runs.  *Hard*: what
was read before the lock; a spawn that dies before it is recorded.  *Correct if*:
what runs is recorded and has the reservation in force.

**Loopback switch** (`ctflab_network.py`), **assistant in an outside Kali**
(`ctflab_kali_attach.py`), **relay** (`ctflab_external_attach.py`,
`ctflab_desktop_bridge.py`).  *State*: the learning table, leases and the gated
port; namespaces, TAPs, pumps and cleanup records; one record of the attachment.
*Hard*: peers that go away while a frame is on its way; every system command may
fail; the relay gives up its lock after two seconds.  *Correct if*: nothing is
sent to a peer that is gone, addresses are not shared, whatever was created stays
on record, and one relay carries frames: the recorded one.

**Content cache** (`ctflab_content_cache.py`, `ctflab_cache_gc.py`,
`ctflab_remote_assets.py`), **audit** (`ctflab_remote_audit.py`,
`ctflab_audit_rotation.py`), **release and update stores**
(`ctflab_release_store.py`, `ctflab_release_update.py`), **client ledger**
(`ctflab_client_store.py`).  *State*: a database beside files each.  *Hard*: rows
commit, files change at once; uploads resume; a collection or a rotation is cut
anywhere; a killed client's request may still arrive.  *Correct if*: promises
survive (space, uploads, verified objects), nothing is collected that is used,
every effect has an intent in exactly one chain, versions change only at rest, and
no change is sent that nobody asked for.

**Guest agent** (`ctflab_guest_agent.py`).  *State*: a ledger of operations and
effects per boot; the kernel's network, docker's containers.  *Correct if*: no
command is repeated, nothing runs outside the rules of this boot, what is
reported as done is there.

**User interface** (`src/gui/*.swift`) and **drafts** (`ctflab_contract.py`,
`ctflab_scenario_v2.py`).  *State*: what a page shows, the call it waits for, the
draft with its undo history.  *Hard*: answers that come late, never, or for a
selection of the past; a folder can be chosen under a task.  *Correct if*: what is
shown is of what is selected, tasks overlap only where a folder was chosen under
one, and so for what is installed without having been verified; what is exported
was accepted.

### Hazards

`PROJECT.json` lists what is hard to test in this code at the line where it
bites, with the properties that would notice.  They fall into four groups:

1. *A process dies between two steps* of different ledgers, files or machines.
2. *Two actors on one object*: recover against a worker that still runs, cancel
   against claim, release against a job, a relay against a disconnection.
3. *Stale knowledge*: a request decided on an older revision, an observation of a
   machine that comes up later, an answer for another selection.
4. *Never waiting*: gates are taken without waiting, so that progress depends on
   somebody trying again; where nobody in the code does, no property promises it.

## 2. The modules

| module | what it models | extends / uses |
|---|---|---|
| `OperationLedger` | abstract: what the contract service promises about operations | |
| `LocalService`, `LocalServiceProps` | contract service, backend left open; its properties, inductive invariant, mapping to `OperationLedger` | |
| `GenerationStore` | generation store under any caller that keeps the order of calls | |
| `ScenarioInstance`, `ScenarioInstanceProps` | contract service + coordinator + store + machines of one instance | `LocalService`, `GenerationStore` (instance) |
| `NodeMachine` | abstract: the machine of one node as the coordinator takes it | |
| `DriverLaunch` | launch attempts of one node, with mapping to `NodeMachine` | `NodeMachine` (instance) |
| `LeaseStore`, `LeaseStoreProps` | lease ledger and the host's clocks; properties against real time (history variables) | |
| `ManagedInstance`, `ManagedInstanceProps` | contract service + lease ledger + jobs + the visits of the scheduler, for one instance | `LocalService`, `LeaseStore` |
| `LeaseScheduler` | the scheduler's loop over the leases that are held, a visit being one step | |
| `LabDisks`, `LabImages`, `LabInstall`, `LabMachines` | LabManager: disks of a node, registrations, unattended installation, machines on a port | |
| `SceneTransactions` | transactions, reservations and sessions of scenes of the first version | |
| `LoopbackSwitch`, `KaliSessions`, `RelaySession` | the switch, the assistant inside an outside Kali, the relay on the host | |
| `CacheStore`, `AuditTrail`, `ReleaseStore`, `ClientLedger` | stores of a database beside files | |
| `GuestAgent` | the agent inside a guest | |
| `GuiTasks`, `GuiScene`, `GuiRemote` | the pages of the Mac application | |
| `ScenarioDraft` | draft, validation, export and qualification | |
| `MC...` | constants, bounds and themes for TLC (section 4) | |

and the proofs, each in a module that extends what it is about:
`LocalServiceProofs` (contract service), `StoreProofs` (generation store),
`InstanceProofs` (the composition `ScenarioInstance`; it extends the first and
uses the second as an instance), `MachineProofs` (driver, guest agent, lease
ledger and the composition `ManagedInstance`), `FileProofs` (the stores kept in
files and the remote page), `LinkProofs` (scenes, switch, Kali, relay), `LabProofs`
(LabManager), `GuiProofs` (pages and drafts).

`LocalService` leaves the backend open: what `observe` and `execute` of a backend
may return is any outcome, believable or not.  The two compositions replace that
choice by what the coordinator, or a job under a lease, really does.  So what is
proved of `LocalService` holds whatever the backend is.

Here and there stand definitions such as `SupersededForgotten` before
`Superseded`: the same definition with a plausible mistake in it.  No
specification uses them; `PROJECT.json` ("mutants") says which property fails
when one of them takes the place of the original.

## 3. How state and actions correspond to the code

`PROJECT.json` ("map") gives the source lines of every definition.  This section
says what is not obvious from them.

**Steps.**  Every SQLite transaction is one action, and so is every external
effect and every file written between two transactions.  A process dies between
two actions.  A commit that fails (`timeout=0`, disk full) is an action that
changes nothing, followed by what the code does then.  A refused request writes
nothing and is a stuttering step.

**Contract service.**  Requests are numbered as they are accepted (`OpIds`,
`rows`, `NoOp` = 0); keys are model values; expected generations and revisions
are any small numbers, so that late and stale requests are included.  `work[w]`
is the local state of a call of `execute`.  `executed` is a history variable.

**Generation store.**  The number of a row is not a key, as in the code.  `call` is
the local state of `prepare_generation`.  The module's own next-state relation is
the most general caller; `StoreIsFollowed` shows that the coordinator is one.

**Scenario instance.**  `coord` is the coordinator's program counter, the nodes
left and whether one has been touched.  `vm[g][n]` is `NodeMachine`.  A machine
may also be lost from `launching`, which the driver does not allow without
evidence: more behaviour than the real one, not less.

**Driver.**  A file is `none`, `torn` or `whole`; a reader that finds it torn
raises.  One caller at a time holds the instance's lock, but the worker and the
observers go on without it.  A reboot is every process dying.  An attempt whose
worker died before its binding stays unknown for ever: the code never guesses.

**Lease ledger.**  The clock is a boot number, the monotonic time of that boot, and
how far the wall clock is ahead of it, either way.  A sleep moves the wall clock
alone, and so does whoever sets it (`SetClock`).  The ledger trusts its deadline as
long as the two clocks have parted by `Tolerance` at most since the lease was
issued (300 seconds in the code), so that a short sleep, and a clock set back
after a long one, leave a lease in force.  `real`, `due` and `byHand` are history
variables: the time that has passed, the time a lease was granted until, and what
the wall clock was set by since it was issued.
Processors and memory are one resource (given back), disk another (kept).  A sum
of rows (`usage`) is the number of their *units*, pairs of an instance and a
number up to its cost, so that two rows of one instance cannot hide a unit.

**Lease scheduler.**  A lease is free, active or due, as a tick reads it; what
clients, clocks and the runner do in between is free.  The batch, the cursor and
each row's visit are steps; a visit gives the lease back, leaves it, or raises,
and the loop goes on.  A policy edited in the middle of a tick ends the process.

**Managed instance.**  The instance's machines are one machine, `on` as long as it
is not proven off.  `pool` is the gate of the pool: `Free`, a worker, `Scheduler`
or `Others` (another instance's caller).  A job without authority, or one that
cannot get the gate, executes with a backend that denies everything.  A visit of
the scheduler may raise at any of its checks before it has saved anything, and
leaves the lease as it was; then nothing happens in the model.

**LabManager.**  A disk is its base and a moment; an NVRAM is a moment too, so
that a pair that does not belong together shows.  `running` is the command under
the operation lock and its step.  Files that are replaced by `os.replace` change
in one step, trees that are removed do not.  A profile is read, hashed, identified,
compared and replaced in steps of their own, because editors take no lock; so do
deregister, between its check and its unlink, and remove-image, whose unlink of
the profile comes after the lock is released (`leaving`).  History variables name
the conditions that properties except, all of them behaviours of the code:
`strayed` and `faulty` for installation and machines; `raced` (a profile unlinked
under an import, a pack or an image), `ruined` (an image whose removal died
halfway) and `slip` (an edit in an instant in which matrix and apply-matrix do not
look) for registrations.

**Scenes.**  `cmds[c]` is a command with what it read before the lock; the record's
digest is the token of its reservation; logs are sequences of records.  The
switch, the assistant and the relay are modelled the same way; DHCP, ARP and
frames keep their addresses and kind only.  QEMU's image locking, nft, systemd
and docker are external and appear by what the code relies on: a second opener of
a disk fails, rules are appended, a named volume is made up when it is missing.

**Cache, audit, releases, client.**  A file is the sequence of its blocks; a block
is TRUE when it is right.  What the cache stores, and what accepted uploads may
still write (`_usage`), are sets of blocks, each in its place.  References are held
under the names of owners and of uploads; an operator can remove either, and
`withdrawn` notes the uploads whose own reference was.  An audit chain is a sequence
nobody can forge.  A session keeps the audit policy it loaded.  The policy has an
*edition*, whatever else it says than the audit root, which an administrator may
change at any moment of a rotation, after its last comparison of digests too.  A
seal names the rotation that wrote it.  A request of a client is a process
with its own step; `wire` holds what was sent and may still arrive.

**Pages.**  A call is a record of what was asked with which parameters; `Acts` is
the tool, the action of the task's name the handler of the answer.  A task has a
number and the *turn* of the page in which it began alone; a folder chosen while
the page is busy begins the next turn, and the tasks of earlier ones are
*crossed*.  `doubt` holds what an answer of a crossed task shows.  A late answer
finds the page as it is then, and its guards (ticket, epoch, phase) are the
code's.  `GuiScene` reduces the service to what a page can tell of it: numbered
operations and events and how far events were pruned.  Drafts are sets: a network
is its usable addresses, a machine what it depends on and its addresses.

## 4. The runs, their bounds and what they show

The components in a run share no variables, so that their interleavings would
show nothing: an MC module puts them side by side, chooses a *theme* at the start
and moves the variables of that theme only.  Where a model is too large with all of
its operations, themes also divide its operations, as said below.

| run | themes | properties |
|---|---|---|
| `contract` (`MCLedgers`) | `contract`, `leases`, `draft` | `GateProtectsExecution`, `AtMostOnce`, `OvertakenDoNothing`, `EventsContiguous`, `ImplementsLedger`; `WithinLimits`, `EntitledOnlyInTime`; `DraftsAreSound` |
| `instance` (`MCInstance`) | `instance`; `power`, `folders`, `wizard`, `course`, `care` (tasks); `records`, `changes` (scene page) | `LedgersAgree`, `MachinesFollowTheStore`, `OutcomesAreTrue`, `StoreIsFollowed`; `TasksTakeTurns`, `UncrossedInstallsAreVerified`, `HealthIsCurrent`; `PageIsOfTheScene` |
| `managed` (`MCMachines`) | `managed`, `driver`, `guest` | `LeasesGovern`; `StoppedIsProven`, `ImplementsMachine`; `NothingIsRepeated`, `PreparedIsReal` |
| `scheduler` (`LeaseScheduler`) | | `EveryOverdueIsVisited` |
| `lab` (`MCLab`) | `moves`, `snaps` (disks); `packs`, `apply` (registrations); `install`; `machines` | `DisksAreSafe`, `RevertRestoresBoth`; `RegisteredIsComplete`, `AppliedWasProbed`; `InstalledMeansComplete`; `MachinesShareASwitch` |
| `files` (`MCFiles`) | `collect`, `upload`, `budget` (cache); `audit`; `release`; `generations`; `client`; `changes`, `administration`, `transfers` (remote page) | `PromisesAreKept`, `CollectedWasApproved`; `TrailIsReliable`; `SwitchesAreSafe`; `OnePreparedRow`, `NothingTakenBack`; `NothingIsSentUnasked`; `RemotePageIsCurrent` |
| `links` (`MCLinks`) | `scene`, `kali`, `relay`, `switch` | `RecordedRunReserved`; `SessionsAreOnRecord`; `CarryingIsRecorded`; `PeersAreTheirOwn` |

They pass, in at most a few minutes each.  Five more runs expect a violation
(section 8).

Some properties are conjunctions of parts that are about one thing:
`OvertakenDoNothing` (one request per revision, nothing after a cancellation in
time), `LedgersAgree` (usable means settled, generations within one),
`MachinesFollowTheStore` (stopped means off, one generation lives), `OutcomesAreTrue`
(done is done, cancelled is untouched), `StoreIsFollowed` (the coordinator is a
caller of the store; launches are declared), `LeasesGovern` (what runs is leased,
nothing outlives its lease, the stop is the recorded one), `DisksAreSafe`,
`PromisesAreKept` (uploads go on, verified is held, the budget suffices),
`TrailIsReliable` (sealed is final, and a policy that still names a sealed chain
can be moved on by the rotation that sealed it, with the text the rotation was
planned with; effects have their intents).

**Bounds, and why they are enough.**

- *Contract service*: 1 instance, 3 keys, 4 operations, 2 workers, 1 restart, 2
  prune cursors, 5 outcomes of the backend.  A property about two operations needs
  a third that comes between them, and recover or restart to take one over: four
  reach every chain of supersession the code distinguishes.  A third worker would
  only fail to take the gate.
- *Leases*: 3 instances of 2 principals, 2 leases, 1 renewal, 2 ticks.  The
  tolerance is one step and the clocks part by two at most, either way, so that a
  sleep stays unnoticed, is noticed, or is hidden by a clock set back; 2 boots.
  Limits are such that the pool and a personal limit
  each refuse something the other allows.
- *Drafts*: 2 machines, 2 networks, 4 revisions, undo of 2; one validation at a
  time in the first three revisions.
- *Scenario instance*: 2 nodes (a first and a last, touched and untouched), 2
  generations (one reset), 4 operations.  New keys are used in the order of
  `KeyOrder`, since keys are interchangeable.
- *Managed instance*: 2 leases one after the other, 4 operations, 1 job, 2 boots.
  The clocks keep together there: what sleeps do to a lease is in `contract`.
  *Driver*: 2 attempts (one retried), one of them re-armed.  *Guest*: 3 requests, 2
  agents, 2 boots, 2 losses.
- *Scheduler*: 4 leases, ticks of 2, so that a batch can be full of leases that
  nobody can settle while others wait, wrap around, and shrink or grow meanwhile.
- *Disks*: 2 bases, 2 backups, 1 snapshot tag, 2 launches, 1 death; without guest
  writes and with a death or a second launch (`moves`), or with snapshots and both
  on one base (`snaps`).  *Registrations*: 2
  nodes; packs without the matrix, where one node at a time has another base or a
  removal that died, and one node with the matrix; deregister and removals in
  both.  *Installation*: 3 starts.  *Machines*: 2 profiles, 2 ports, 4 commands.
- *Cache*: 2 objects of 2 blocks, 2 uploads, 2 collections; collections with whole
  right files and one upload, one upload with wrong blocks, or two uploads with a
  budget, and operators who pin and unpin under any name.  *Audit*: 3 chains (two
  rotations), 2 sessions, 3 attempts; the policy is first edited under a rotation,
  and sessions rest until it is edited back or replaced.  *Releases*: 2 versions,
  launches and updates.  *Client*: 2 sendings in a row; connections or changes, not
  both.
- *Scenes*: 2 commands, of which one is a start when both are under way, 2
  generations, 3 reservations.  *Kali*: 3 sessions set up, 3 crashes or failures.
  *Relay*: a further session or a further generation.  *Switch*: 2 connections used
  4 times, 2 guests that share an address or not, an outside machine.
- *Pages*: 2 launches.  One folder is chosen under a task (`MaxOverlaps`): any one
  in `folders`, an empty one in `wizard` and in `power`, where from then on only the
  first node runs, is checked and restarted; in `folders` and `wizard` the status stays unanswered from then on; in
  `course` and `care`, whose tasks show nothing that rests on an answer, no folder is
  chosen.  The scene page makes two calls at a time, once of those that read and
  once of those that change; the remote page by what its calls are for, with 11 calls, 3 epochs
  and 2 revisions at most.

Symmetry is used for keys, workers, leases, names and commands, only in runs
without liveness and only where no definition distinguishes the elements.
Components that take turns share the names of their members, so that one
permutation serves them all.

Deadlock is not checked: the bounds stop every model in the end, and an
installation without requests rests.

## 5. Fairness

One property is about what eventually happens, and it asks for the weakest
fairness: that the loop of the scheduler, while it runs, takes its next step
(`SchedulerFairness`, weak fairness of `LoopSteps`).  The code justifies it:
`LeaseScheduler.loop` waits `interval` seconds between ticks, reads without
waiting for a gate and catches what a visit raises.  It may end at any moment, by
itself when the policy has changed, and nothing starts it again; the property
excepts that.  Clients, clocks, administrators and what a visit answers are under
no fairness.

`EveryOverdueIsVisited` says that the runner is *asked* to handle every lease that
stays overdue.  It does not say that the lease is settled: a visit takes the gates
without waiting and may find them busy, or raise at a check, every time.  For the
same reason nothing is promised of a pending operation: a worker that finds the
worker gate busy exits, and nothing in the code dispatches the operation again
unless its owner asks for it (`resume-dispatch` of the bridge).  No schedule of
the code makes either happen, so that fairness strong enough to prove them would
be a wish.

## 6. What is proved

The theorems hold for every value of the constants that the named assumptions
allow; the runs check the same statements on small instances.  Every proof of an
invariant is of one shape: an inductive invariant holds initially and is kept by
each action (one lemma per action or per group of actions), and implies the
property, which a run checks.

**Contract service** (`ServiceAssumption`; nothing is assumed of instances, keys
and workers, nor which outcomes the backend chooses).  `ServiceInv`: "the instance
is held by exactly its unresolved operation" needs both directions separately,
that states and answers agree with the status, that a key names one operation,
and what the local state of a call still has to do with the tables, which others
change between two of its transactions: the gate's holder runs an operation that
still holds its instance, the generation it has read is the instance's or one
more, and what it will write is not a transient state.  From it `TypesHold`,
`HeldByTheUnresolved`, `ExecutionIsProtected`, `AnswersFitTheirStatus`,
`TransientsAreHeld`, `ExecutedAtMostOnce`, the action properties `AnswersStay` and
`RevisionsVersion`, and the refinement `ServiceImplementsLedger`.
`OvertakenNeverAct` adds to it that revisions only rise and that a row accepted on
a revision lies behind the instance's, and that a cancellation recorded before
the claim stays in the row.  `StreamsHaveNoGap` needs that sequence numbers in a
stream are between the floor and the instance's last, each once.

**Generation store.**  `StoreInv` adds that an operation has one row, that
rows belong to known operations, that what is unresolved has no result, and that
a call of `prepare_generation` still has its own row and the selection it has
read.  With it the commit makes exactly one row of the next number prepared,
although it looks the row up by its operation and never tests the others
(`EveryGenerationHasItsRow`, `AtMostOneUnresolved`, `OnlyACommitPrepares`,
`StoreOnlyGrows`).

**Scenario instance** (`InstanceAssumption`: one instance, and the order of start
is a sequence of its nodes).  `InstanceInv` is `ServiceInv`, `StoreInv` and what
ties the two ledgers, the machines and the coordinator together: `Sound` says
what an instance nobody works on may show; `StepOK` says what the coordinator
knows at each of its steps, of the operation, the store and every machine; `Ending`
says what it must have done to return an outcome, which `Finishing` keeps until
the service has written it.  None of the properties is inductive by itself: an
outcome is true because of what was observed several steps earlier, and it is
still true when it is written because the gate, the row of the operation and the
driver's proof that a machine is gone do not change meanwhile, whoever crashes.
From it `MachinesFollow`, `LedgersStayTogether`, `OutcomesStayTrue`,
`InstanceFollowsStore` (every step is one of the store as its most general caller
could make it), and, for the contract service with this backend in place of any
backend, `ServiceHoldsUnderCoordinator`, `InstanceAnswersStay` and the refinement
`InstanceImplementsLedger`.

**Driver.**  `DriverInv` says what files tell of processes that their reader cannot
see: a binding means that the launch is over, evidence that the machine is gone,
every earlier attempt has been proven over, an attempt without a worker has no
machine (`FilesTellTheTruth`).  From it `StoppedIsStopped`, `OnlyOneMachine`,
`PowerdownIsNotRepeated` and the refinement `NodeIsTheMachine`, which is the link
to `ScenarioInstance`.

**Guest agent.**  `GuestIInv` is about the ledger: a step has been issued only if
its intent is recorded, an operation at work is the unsettled one, an agent
holds at most one operation, and each program counter says which effects are
already there.  Hence `NothingIsEverRepeated` and `PreparedIsAlwaysReal`.

**Lease ledger.**  `TimedInv` relates the history variables to what the ledger
keeps: within one boot, what the two clocks have parted by, less what was set by
hand, is how long the host has slept, and by no more is the deadline late
(`LateBySleep`).  A lease entitles its holder only while the clocks have parted by
`Tolerance` at most; so it ends less than that after its time, or as much later as
the clock was set back (`LedgerHolds`, `EntitlementEnds`).  `LeasedOnce`,
`DiskReserved` and `GrantsAreKept` come with it.  `LimitsInv` adds that units are finitely
many: a lease that is granted adds at most the units that `fits` has found room
for, one that ends takes its own away, and what is stored only grows with a lease
of an instance that had no reservation (`LimitsAlwaysKept`).

**Managed instance** (`ManagedAssumption`: the key of a lease's stop is its own,
because the code derives it from the identifier of the lease, and the holders of
the pool's gate are different from each other).  `ManagedInv` adds to `ServiceInv`
and the ledger's invariant who may act on what: a permit is written under a lease
of this instance, only an operation with a permit is executed, and whoever looks
at a lease and acts on it holds the pool's gate from the look to the effect.  So
a lease that a job has found reserved is so when the machine starts
(`LaunchesAreReserved`), machines and unresolved operations keep their lease, and
the stop of an expired lease is the recorded one (`LeasesAlwaysGovern`).  The
promises of the two components survive the composition (`ManagedLeasedOnce`,
`ManagedImplementsLedger`).

**Scenes and links.**  `SwitchIInv`: addresses learned are those of peers that
are connected, and leased addresses belong to one machine
(`PeersAreAlwaysTheirOwn`).  `RelayIInv`: what each command and each relay still
knows of the record, of the lock it may have let go of and of the session it
waits for (`CarryingIsAlwaysRecorded`).  `KaliIInv`: at every step of a set-up or a
take-down, the namespace, TAP and record that must still be there
(`SessionsAreAlwaysOnRecord`).  The property on its own is not inductive in
any of them, because a command acts on what it read.  For the scenes,
`RecordedRunReserved` is kept because of `Knows(c)`, what a command has
made sure of before it writes (`RecordedRunIsAlwaysReserved`).

**LabManager.**  `InstallIInv` relates the record, the disk's content and the job
that is alive (`InstalledAlwaysMeansComplete`); `DisksIInv` says that what a command saw before it
acts still holds when it acts (it has the lock, and it moves only what no launch
holds open), that each disk is in one place at most, and in which place the disk,
the base or the NVRAM is that a half-done command has moved
(`DisksAreAlwaysSafe`); with it, on an architecture whose snapshots pair the NVRAM,
a pair is of one moment from the snapshot to the revert
(`RevertAlwaysRestoresBoth`; for the other see section 8); `MachinesIInv` makes the files of
a port tell which switch is there, unless a switch failed by itself
(`MachinesAlwaysShareASwitch`); `ImagesIInv` says what an operation has put where,
so that its rollback takes away only its own, whose profile a command without the
lock may still take, and what matrix and apply-matrix have read and compared so
far, unless an edit slipped in (`RegisteredIsAlwaysComplete`,
`AppliedWasAlwaysProbed`).

**Files.**  `ClientIInv`: whoever sends holds the gate, and the ledger remembers
every sending that somebody asked for (`NothingIsEverSentUnasked`).
`ReleaseIInv`: what runs is unsettled in the records, and one update is open at a
time (`SwitchesAreAlwaysSafe`).  `CollectorIInv`: what a collector is about to
unlink has been tried under its own approval, and found as recorded
(`CollectedIsAlwaysApproved`).  `CacheInv` is about the rest of the cache: a row
that says verified has its object and its reference, blocks are finitely many and
each is stored, awaited or neither, so that a written block leaves those awaited
when it joins those stored, and a renamed file only moves its blocks.  A step adds
to their sum only what was admitted.  With `CollectorIInv`, which says that the
object to unlink is not referred to, the four promises hold together
(`PromisesAreAlwaysKept`).  Operators may pin and unpin under any name, that of an
upload (`remote-upload-...`) included, and who unpins that one takes its promise
back: a verified upload is held unless it is `withdrawn`.
`AuditIInv`: a chain that no rotation has reached is
untouched, and so is the successor of the policy's chain until it is switched to;
whoever rotates knows the chain it closes, and so does whoever resumes, from the
seal; an open attempt has its intent and no
result; and a worker that executes is linked to its operation
(`TrailIsAlwaysReliable`).

**Pages.**  Nothing is assumed of users: the button that chooses a folder is always
enabled, and its handler makes the page idle under whatever task is going on.
`TasksIInv` says what the phase allows for each task of the present turn, and that
an answer which is not in doubt is one of such a task.  From it
`TasksAlwaysTakeTurns`, which excepts the tasks a folder was chosen under, and
`UncrossedInstallsAreAlwaysVerified`; that the exception is needed is a finding of
section 8.  `HealthIInv` orders launches, checks and what is shown, except for a
health result that is in doubt (`HealthIsAlwaysCurrent`).  `SceneIInv` ties
what is on its way (the call's instance, cursor, reading) to what the page shows:
an answer is used only by the call whose ticket it is, and a call that changes is
sent only after a reading of its own (`PageIsAlwaysOfTheScene`).  `RemoteIInv` says
the same of the remote page: a call of this epoch is about the instance and the
server of now, a connection is being made only from an empty page, and while a
change of the instance is under way nothing is taken for known, so that what was
read of pending changes cannot be overtaken by one (`RemotePageIsAlwaysCurrent`; in
`FileProofs`, beside the ledger it reads).

**Drafts** (`DraftAssumption`: machines, networks and ranges are finite and the
scenarios that are opened are valid).  `DraftsIInv` says that the draft and what
can be undone or redone are *sound*: addresses differ and are of their networks,
networks do not overlap, no machine waits for itself; and that an answer that is
kept, and a file, is of a manifest the service accepts.  Each edit makes a sound manifest of a sound one: a new address is the
lowest free one, which exists because numbers are well-founded, and a dependency
is offered only if it closes no cycle.  An answer of the service is about the
manifest it was asked for, whatever was edited since, and what is accepted was
exported (`DraftsAreAlwaysSound`).

## 7. What is only model-checked

- *Liveness* (`EveryOverdueIsVisited`): the prover does not handle ENABLED and
  fairness.  Every other property of the passing runs is proved.
- *Bounds.*  The theorems keep the models' own bounds on counters (attempts,
  generations, edits, reboots) as constants of any size; that a bound which TLC
  uses is large enough is argued in section 4, not proved.
- *The runs that end in a violation* (section 8) stay with TLC: what they show is a
  behaviour.
- `NodeIsTheMachine` links the driver to the machine that `ScenarioInstance`
  assumes, node by node; that a scenario with the driver's files in place of those
  machines keeps `InstanceInv` follows from the two by hand, and is not one module.

## 8. Where the code does not do what it says

Each of these is a run that ends in a violation, with its finding in
`PROJECT.json`.

| run | property | what happens |
|---|---|---|
| `lab_x86` | `RevertRestoresBoth` | a snapshot pairs `uefi-vars.fd` only; an x86_64 UEFI guest has `uefi-vars-x86_64.fd`, which a revert leaves at a later moment |
| `scene_window` | `RunningIsReserved` | a session that dies between recording that it is about to spawn and recording the process counts as proven stopped, and its reservations are released |
| `scene_wedge` | `ScenesGoOn` | a generation that was continued but has not run is continued again; a death between replacing `prepared.json` and moving the pointer, which names the old record by its digest, leaves a scene that no command resumes or releases; with a pointer to `reset-ready.json` the same death is recovered |
| `release_abandon` | `InterruptedUpdatesCanBeAbandoned` | an update that dies between creating its backup directory and writing its intent cannot be abandoned and blocks every later one |
| `gui_install` | `InstallsAreVerified` | another folder can be chosen while one is being verified; what is then installed is the folder of now, which was not |

`InstallsAreVerified` holds of tasks under which no folder is chosen (run
`instance`, and proved);
`RevertRestoresBoth` for the other architectures (run `lab`, and proved).

Seen while modelling, and part of the models as the code has them:

- the page of earlier operations is appended only if it begins at `nextBefore`
  (`src/gui/GuiApp.swift:1388`), while the service pages below it
  (`ctflab_local_service.py:545`): history never grows beyond the first page;
- a cursor that events have been pruned past is never repositioned, because the
  error returns (`src/gui/GuiApp.swift:1369`) before the page of events is looked at;
- administrative changes leave `remotePendingKnown` set, so that the remote page
  may rely on what it read before them (excepted in `RemotePageIsCurrent`);
- a request that the server refused stays unknown in the client's ledger;
- `remoteHistoryInFlight` stays set when the epoch moves while the history of
  transfers is read;
- `unpin` refuses the references of instances only (`ctflab_content_cache.py:239`),
  so the reference of a verified upload can be taken away by its name, and its
  object collected (`withdrawn`);
- choosing a folder under a task makes the page idle (`src/gui/GuiApp.swift:427`),
  so that a second task can run beside the first, and a check that goes on may show
  its result for a machine that was restarted since (`src/gui/GuiApp.swift:1053`);
- a sleep of up to five minutes goes unnoticed and prolongs a lease by as much
  (`ctflab_lease_store.py:111`), and a clock set back after a longer one hides it;
- a profile that is edited between being loaded and being hashed by the matrix
  (`ctflab.py:3848`, `3849`), between the reads of apply-matrix (`4016`, `4017`) or
  between its last comparison and the replacement (`4064`, `4066`) is not noticed,
  and the edit may be overwritten;
- deregister and remove-image unlink the profile without the lock (`ctflab.py:5922`,
  `5933`), so that an image registered meanwhile may be left without one;
- a policy edited between the last comparison of its digest and its replacement
  loses the edit (`ctflab_audit_rotation.py:88`);
- a lease whose machine ignores its stop stays charged until an administrator
  acts; a launch that died before its binding is unknown for ever; a job that
  meets the busy gate of the pool fails its operation as denied;
- a tool may enter a namespace of the Kali assistant while it is being taken down;
  what was created stays on record, but that an ended session has nothing
  left in the system is not promised and not stated.

## 9. What is not modelled

`PROJECT.json` lists every component with the reason.  Left out as a whole:
components without state of their own (planning, courses, packaging and
acceptance, QMP matching, native process observers), wire formats and TLS,
platform access, recoverable logs, `storage_bind`.  Within modelled components:
the content of files; the command lines of QEMU; firmware and Windows driver
preparation; receipts and progress reports of the store; downloads of evidence;
policies that change while leases are held, other than under the scheduler's loop
and an audit rotation; more than one relaying process per session of the Kali
assistant; a DHCP REQUEST that names no address; the desktop bridge used directly
on a managed instance.  In drafts, that the editor's connect may take the address kept
for an outside machine and that a machine may be left without a network are
things the editor allows and the service refuses.

## 10. Plan

Models: dispatch markers of the bridge composed with `LocalService`, to say when a
pending operation may be dispatched again; `LeaseScheduler` composed with
`ManagedInstance`, whose visits it leaves open; the recoverable log; downloads of
evidence.

Proofs: all invariants and action properties that the runs check are proved; each
model of the list above brings its own.  Beyond them, the composition of
`DriverLaunch` with `ScenarioInstance` in one module (section 7) is the next
theorem worth stating.
