--------------------------- MODULE ManagedInstance ---------------------------
(***************************************************************************)
(* One leased instance as the remote runner manages it                     *)
(* (tools/ctflab_remote_leases.py): the lease ledger, the contract service *)
(* of the instance, the jobs that execute its operations and the scheduler *)
(* that handles expired leases.  The gate of the pool is held by a job for *)
(* as long as it executes and by the scheduler while it handles a lease,   *)
(* but not by status and cancel, and a process that dies lets go of it.    *)
(*                                                                         *)
(* The machines of the instance are one machine: "on" while any of them    *)
(* may be running.  The generation store is left out; what it makes fail   *)
(* is among the failures of the backend.                                   *)
(***************************************************************************)
EXTENDS LocalService, LeaseStore

CONSTANTS I,        \* the instance
          StopKey,  \* the idempotency key of the stop that a lease's expiry asks for
          Free, Others, Scheduler, \* the pool's gate, besides the workers
          NoLease

ASSUME ManagedAssumption ==
  /\ Instances = {I} /\ I \in Managed
  /\ "stop" \in Kinds
  /\ StopKey \in [Leases -> Keys]
  /\ \A l, m \in Leases : StopKey[l] = StopKey[m] => l = m
  /\ {Free, Others, Scheduler} \cap Workers = {}
  /\ Free \notin {Others, Scheduler} /\ Others # Scheduler
  /\ NoLease \notin Leases

VARIABLES pool,     \* who holds the gate of the pool
          permit,   \* job files: the lease and the purpose an operation was dispatched under
          job,      \* what the job of each worker has been allowed to do
          sched,    \* the scheduler's call of expiry
          machine

mvars == <<vars, leaseVars, pool, permit, job, sched, machine>>

NoPermit == [lease |-> NoLease, purpose |-> "none"]
Quit == [pc |-> "idle", lease |-> NoLease]

ManagedInit ==
  /\ Init
  /\ LeaseInit
  /\ pool = Free
  /\ permit = [o \in OpIds |-> NoPermit]
  /\ job = [w \in Workers |-> "none"]
  /\ sched = Quit
  /\ machine = "off"

(* The stop that the expiry of the lease asks for has been decided on. *)
Asked(l) == lease[l].stop # NoStop

(* Operations that need no lease. *)
Safe == {"stop", "recover", "cancel"}
ClientKeys == Keys \ {StopKey[l] : l \in Leases}

-----------------------------------------------------------------------------
(* quiet: nothing executes, nothing is unresolved, every machine is proven to
   be off.  Its locks are held until the caller has committed, so that it is
   one step with what the caller decides. *)
QuietInContract == gate = NoWorker /\ inst[I].active = NoOp

Quiet == gate = NoWorker /\ inst[I].active = NoOp /\ machine = "off"

AcquireLease(l, ttl) ==
  /\ pool = Free
  /\ Quiet
  /\ Acquire(l, I, ttl)
  /\ UNCHANGED <<vars, pool, permit, job, sched, machine>>

RenewLease(l, r, ttl) ==
  /\ pool = Free
  /\ lease[l].inst = I
  /\ Renew(l, r, ttl)
  /\ UNCHANGED <<vars, pool, permit, job, sched, machine>>

ReleaseLease(l) ==
  /\ pool = Free
  /\ lease[l].inst = I
  /\ Quiet
  /\ Release(l)
  /\ UNCHANGED <<vars, pool, permit, job, sched, machine>>

-----------------------------------------------------------------------------
(* submit_locked, for requests decided on the instance as it is now; the
   contract refuses all others, which changes nothing.  The permit is written
   when the job is spawned; the process that submits may die before that. *)
Dispatched(l, purpose) ==
  permit' \in {permit, [permit EXCEPT ![rows + 1] = [lease |-> l, purpose |-> purpose]]}

MayRun(kind, l) == kind \in Safe \/ (l \in Leases /\ Admitted(l, I))

SubmitManaged(kind, key, l) ==
  /\ pool = Free
  /\ MayRun(kind, l)
  /\ IF kind = "prepare" THEN Prepare(I, key) ELSE Submit(kind, I, key, inst[I].generation, inst[I].revision)
  /\ Dispatched(l, "remote")
  /\ UNCHANGED <<leaseVars, pool, job, sched, machine>>

(* A cancellation goes to the contract database directly. *)
CancelManaged(key) ==
  /\ Cancel(I, key, inst[I].generation, inst[I].revision, inst[I].active)
  /\ UNCHANGED <<leaseVars, pool, permit, job, sched, machine>>

-----------------------------------------------------------------------------
(* execute_job *)

(* authorized: checked again before every use of the real backend. *)
Authorized(o) ==
  LET l == permit[o].lease
  IN /\ permit[o].purpose = "expiry" =>
          /\ ops[o].kind = "stop" /\ ops[o].key = StopKey[l]
          /\ lease[l].inst = I /\ lease[l].stop = [gen |-> ops[o].gen, rev |-> ops[o].rev]
     /\ MayRun(ops[o].kind, l)

(* The job gets the pool's gate and executes the operation; if that fails,
   because the gate is busy, the operation not authorized or the worker gate
   was busy at that moment, it executes it with a backend that refuses
   everything, which records the failure. *)
JobStarts(w, o) ==
  /\ permit[o] # NoPermit
  /\ Claim(w, o)
  /\ \/ /\ pool = Free /\ Authorized(o)
        /\ pool' = w
        /\ job' = [job EXCEPT ![w] = "bound"]
     \/ /\ job' = [job EXCEPT ![w] = "denied"]
        /\ UNCHANGED pool
  /\ UNCHANGED <<leaseVars, permit, sched, machine>>

JobContinues(w) ==
  /\ \/ CheckCancel(w)
     \/ /\ work[w].pc = "observing" /\ job[w] = "bound" /\ Authorized(work[w].op)
        /\ \E state \in IF machine = "on" THEN {"process-running"} ELSE {"prepared", "stopped"} :
             Observe(w, inst[I].generation, state)
     \/ ObserveFails(w)
     \/ BackendRaises(w)
  /\ UNCHANGED <<leaseVars, pool, permit, job, sched, machine>>

Step(w, from, to) ==
  /\ work[w].pc = "running"
  /\ job[w] = from
  /\ job' = [job EXCEPT ![w] = to]
  /\ UNCHANGED <<vars, leaseVars, pool, permit, sched>>

(* The backend is built, or asked whether to go on. *)
Arm(w) ==
  /\ Step(w, "bound", "armed")
  /\ Authorized(work[w].op)
  /\ UNCHANGED machine

(* Its effect on the machine, which takes place however long after that. *)
Effect(w) ==
  /\ Step(w, "armed", "done")
  /\ machine' = CASE ops[work[w].op].kind = "start" -> "on"
                  [] ops[work[w].op].kind = "stop"  -> "off"
                  [] OTHER                          -> machine

Found == IF machine = "on" THEN "process-running" ELSE "stopped"
Result(w) == [state |-> IF ops[work[w].op].kind = "prepare" THEN "prepared" ELSE Found,
              cancelled |-> FALSE, error |-> FALSE]

(* The backend returns, or gives up before its first effect because the owner
   has asked for that. *)
JobReturns(w) ==
  /\ \/ job[w] = "done" /\ BackendReturns(w, Result(w))
     \/ /\ job[w] = "armed" /\ machine = "off"
        /\ Cancelled(work[w].op)
        /\ BackendReturns(w, [state |-> "stopped", cancelled |-> TRUE, error |-> FALSE])
  /\ UNCHANGED <<leaseVars, pool, permit, job, sched, machine>>

(* The job ends, or dies; what it started goes on running. *)
JobEnds(w) ==
  /\ Finish(w) \/ FinishFails(w) \/ Crash(w)
  /\ job' = [job EXCEPT ![w] = "none"]
  /\ pool' = IF pool = w THEN Free ELSE pool
  /\ UNCHANGED <<leaseVars, permit, sched, machine>>

-----------------------------------------------------------------------------
(* expiry *)

Handle(l, state, stop) ==
  /\ Save(l, state, stop)
  /\ UNCHANGED <<vars, pool, permit, job, sched, machine>>

(* An uncertain clock or a notify-only lease asks for an administrator, and so
   does an instance with an unresolved operation, or one that cannot be
   verified, once both gates were free; a stop is not asked for twice.  A visit
   that finds the worker gate taken, another policy or another binding raises
   before anything is saved, and the lease stays as it is. *)
Questioned(l) ==
  \/ TimeState(lease[l]) = "clock-uncertain"
  \/ /\ TimeState(lease[l]) = "expired" \/ Asked(l)
     /\ ExpiryAction[I] = "notify" \/ gate = NoWorker

ExpiryAttention(l) ==
  /\ pool = Free /\ Held(l) /\ lease[l].inst = I
  /\ Questioned(l)
  /\ Handle(l, "attention", lease[l].stop)

Due(l) ==
  /\ pool = Free /\ Held(l) /\ lease[l].inst = I
  /\ TimeState(lease[l]) = "active" => Asked(l)
  /\ TimeState(lease[l]) # "clock-uncertain"
  /\ ExpiryAction[I] = "request-stop"

ExpiryRelease(l) ==
  /\ Due(l)
  /\ Quiet
  /\ Handle(l, "released", lease[l].stop)

(* The machines are still running and no stop was asked for: the intent is
   saved first, with the revision the stop is decided on. *)
StopDueAgain(l) == Due(l) /\ gate = NoWorker /\ inst[I].active = NoOp /\ machine = "on"

StopDue(l) == StopDueAgain(l) /\ ~Asked(l)

ExpiryIntent(l) ==
  /\ StopDue(l)
  /\ Save(l, "stop-intent", [gen |-> inst[I].generation, rev |-> inst[I].revision])
  /\ pool' = Scheduler
  /\ sched' = [pc |-> "submit", lease |-> l]
  /\ UNCHANGED <<vars, permit, job, machine>>

ExpirySubmit ==
  /\ sched.pc = "submit"
  /\ LET stop == lease[sched.lease].stop
     IN Submit("stop", I, StopKey[sched.lease], stop.gen, stop.rev)
  /\ Dispatched(sched.lease, "expiry")
  /\ sched' = [sched EXCEPT !.pc = "record"]
  /\ UNCHANGED <<leaseVars, pool, job, machine>>

(* The answer is recorded; a submission that was refused, or whose dispatch
   failed, asks for attention. *)
ExpiryRecord ==
  /\ sched.pc \in {"submit", "record"}
  /\ \E state \in {"stop-submitted", "attention"} :
       /\ state = "stop-submitted" => sched.pc = "record"
       /\ Save(sched.lease, state, lease[sched.lease].stop)
  /\ sched' = Quit
  /\ pool' = Free
  /\ UNCHANGED <<vars, permit, job, machine>>

SchedulerDies ==
  /\ sched # Quit
  /\ sched' = Quit
  /\ pool' = Free
  /\ UNCHANGED <<vars, leaseVars, permit, job, machine>>

-----------------------------------------------------------------------------
(* The gate of the pool is taken for another instance. *)
OtherInstance ==
  /\ pool \in {Free, Others}
  /\ pool' = IF pool = Free THEN Others ELSE Free
  /\ UNCHANGED <<vars, leaseVars, permit, job, sched, machine>>

MachineOff ==
  /\ machine = "on"
  /\ machine' = "off"
  /\ UNCHANGED <<vars, leaseVars, pool, permit, job, sched>>

TimePasses ==
  /\ Tick \/ Sleep \/ \E drift \in Drifts : SetClock(drift)
  /\ UNCHANGED <<vars, pool, permit, job, sched, machine>>

(* Everything that runs on the host ends; the databases stay. *)
Reboot ==
  /\ Boot
  /\ machine' = "off"
  /\ work' = [w \in Workers |-> Idle]
  /\ gate' = NoWorker
  /\ job' = [w \in Workers |-> "none"]
  /\ pool' = Free
  /\ sched' = Quit
  /\ UNCHANGED <<inst, ops, rows, events, executed, permit>>

Client ==
  \/ \E l \in Leases :
       \/ \E ttl \in Ttls : AcquireLease(l, ttl)
       \/ \E r \in Renewals, ttl \in Ttls : RenewLease(l, r, ttl)
       \/ ReleaseLease(l)
  \/ \E key \in ClientKeys :
       \/ \E kind \in Kinds \cup {"prepare"}, l \in Leases \cup {NoLease} :
            SubmitManaged(kind, key, l)
       \/ CancelManaged(key)

Job(w) ==
  \/ \E o \in OpIds : JobStarts(w, o)
  \/ JobContinues(w) \/ Arm(w) \/ Effect(w) \/ JobReturns(w) \/ JobEnds(w)

Expiry ==
  \/ \E l \in Leases : ExpiryAttention(l) \/ ExpiryRelease(l) \/ ExpiryIntent(l)
  \/ ExpirySubmit \/ ExpiryRecord

ManagedNext ==
  \/ Client
  \/ \E w \in Workers : Job(w)
  \/ Expiry \/ SchedulerDies
  \/ OtherInstance \/ MachineOff \/ TimePasses \/ Reboot

ManagedSpec == ManagedInit /\ [][ManagedNext]_mvars
=============================================================================
