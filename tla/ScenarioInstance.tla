-------------------------- MODULE ScenarioInstance --------------------------
(***************************************************************************)
(* One instance as it runs: the contract service, with the coordinator of  *)
(* tools/ctflab_scenario_coordinator.py as its backend, the generation     *)
(* store and the virtual machines.  Three ledgers, the contract database,  *)
(* the generation store and the machines themselves, change in separate    *)
(* steps, and a process may die between any two of them.                   *)
(*                                                                         *)
(* The driver (tools/ctflab_qemu_driver.py) appears only through what the  *)
(* coordinator relies on: a machine that was launched may come up late or  *)
(* not at all, may power off at any time, and cannot be observed while its *)
(* launch is unproven.  Any call of the driver or the store may raise.     *)
(***************************************************************************)
EXTENDS LocalService, Sequences

CONSTANTS I,           \* the instance
          StartOrder,  \* its nodes, in the order they are started
          MaxGen       \* bound on generations

Nodes == {StartOrder[k] : k \in 1..Len(StartOrder)}
StopOrder == [k \in 1..Len(StartOrder) |-> StartOrder[Len(StartOrder) + 1 - k]]

ASSUME InstanceAssumption == Instances = {I} /\ StartOrder \in Seq(Nodes) /\ MaxGen \in Nat

VARIABLES selected, generations, ledger, effects, call,  \* the generation store
          vm,          \* the machine of each node of each generation
          coord        \* the coordinator's call of execute under the worker gate

Store == INSTANCE GenerationStore WITH StoreOps <- OpIds

store == <<selected, generations, ledger, effects, call>>
ivars == <<vars, store, vm, coord>>

Generations == 1..MaxGen

Ok(state) == [state |-> state, cancelled |-> FALSE, error |-> FALSE]
CancelledIn(state) == [state |-> state, cancelled |-> TRUE, error |-> FALSE]

(* Where the coordinator is, the nodes it still has to visit, whether it has
   touched one, and the outcome it is about to return. *)
Coord(pc, todo, touched, out) == [pc |-> pc, todo |-> todo, touched |-> touched, out |-> out]
AtRest == Coord("start", <<>>, FALSE, Ok("stopped"))

InstanceInit ==
  /\ Init
  /\ Store!StoreInit
  /\ vm = [g \in Generations |-> [n \in Nodes |-> "off"]]
  /\ coord = AtRest

-----------------------------------------------------------------------------
(* What the driver can prove of a machine: nothing while its launch is under
   way, which is not the same as being stopped. *)
SeenAsOff(g, n) == IF vm[g][n] = "launching" THEN "off" ELSE vm[g][n]

Seen(g, n) == IF vm[g][n] = "launching" THEN "unknown" ELSE vm[g][n]

(* observations: every node of the generation, all of them proven. *)
Observable(g) == g > 0 /\ \A n \in Nodes : Seen(g, n) # "unknown"
AllAre(g, state) == \A n \in Nodes : Seen(g, n) = state
Uniform(g) == AllAre(g, "off") \/ AllAre(g, "on")

Found(g) ==
  IF AllAre(g, "off") THEN "stopped" ELSE IF AllAre(g, "on") THEN "process-running"
  ELSE "recovery-required"

Reported == IF Store!Intents # {} THEN "recovery-required" ELSE Found(selected)

Contract == UNCHANGED <<store, vm, coord>>

(* Between the call of execute and its return; o is the operation. *)
Executing(w, kind) == work[w].pc = "running" /\ ops[work[w].op].kind = kind
AtPc(pc) == coord.pc = pc

Goto(c) == coord' = c /\ UNCHANGED <<vars, vm>>

-----------------------------------------------------------------------------
(* The contract service calls the backend's observe. *)
ObserveInstance(w) ==
  /\ Observable(selected)
  /\ Observe(w, selected, Reported)
  /\ Contract

(* The backend raises wherever it is: a refused precondition, a mixed or
   unproven observation, a cancellation after the first effect, a timeout, a
   full disk or a locked database all end in the same way. *)
Raise(w) ==
  /\ BackendRaises(w)
  /\ coord' = AtRest
  /\ call' = Store!NoCall
  /\ UNCHANGED <<selected, generations, ledger, effects, vm>>

Return(w) ==
  /\ AtPc("return")
  /\ BackendReturns(w, coord.out)
  /\ coord' = AtRest
  /\ UNCHANGED <<store, vm>>

(* recover observes and settles what was left unresolved; it repeats no
   effect and selects no generation. *)
RecoverObserve(w) ==
  /\ Executing(w, "recover")
  /\ AtPc("start")
  /\ Observable(selected) /\ Uniform(selected)
  /\ Goto(Coord("reconcile", <<>>, FALSE, Ok(Found(selected))))
  /\ UNCHANGED store

ReconcileNothing(w) ==
  /\ Executing(w, "recover")
  /\ AtPc("reconcile")
  /\ Goto([coord EXCEPT !.pc = "return"])
  /\ UNCHANGED store

Reconcile(w) ==
  /\ Executing(w, "recover")
  /\ AtPc("reconcile")
  /\ \/ /\ \E p \in Store!Intents : Store!FinishOp(p, "reconciled")
        /\ Goto(coord)
     \/ /\ Store!Intents = {}
        /\ Goto([coord EXCEPT !.pc = "return"])
        /\ UNCHANGED store

(* guest runs one command in a node and changes nothing that is kept here. *)
GuestCommand(w) ==
  /\ Executing(w, "guest")
  /\ AtPc("start")
  /\ selected = work[w].gen
  /\ Store!Intents = {}
  /\ AllAre(selected, "on")
  /\ Goto(Coord("return", <<>>, FALSE,
                IF Cancelled(work[w].op) THEN CancelledIn("process-running") ELSE Ok("process-running")))
  /\ UNCHANGED store

-----------------------------------------------------------------------------
(* prepare and reset: a new generation *)
BeginGeneration(w) ==
  /\ AtPc("start")
  /\ \/ Executing(w, "prepare") /\ selected = 0
     \/ Executing(w, "reset") /\ selected = work[w].gen /\ AllAre(selected, "off")
  /\ Store!Begin(work[w].op, ops[work[w].op].kind, selected)
  /\ Goto(Coord("prepare", <<>>, FALSE, Ok("prepared")))

OpenCopy(w) ==
  /\ work[w].pc = "running"
  /\ AtPc("prepare")
  /\ Store!OpenGeneration(work[w].op, selected)
  /\ Goto([coord EXCEPT !.pc = "copying"])

(* The cancellation is noticed at one of the cancel points. *)
CopyCancelled(w) ==
  /\ work[w].pc = "running"
  /\ AtPc("copying")
  /\ Cancelled(work[w].op)
  /\ Store!LeaveCall
  /\ Goto(Coord("cancelled", <<>>, FALSE,
                CancelledIn(IF ops[work[w].op].kind = "prepare" THEN "failed" ELSE "stopped")))

SettleCancelled(w) ==
  /\ work[w].pc = "running"
  /\ AtPc("cancelled")
  /\ Store!FinishOp(work[w].op, "cancelled")
  /\ Goto([coord EXCEPT !.pc = "return"])

(* A cancellation that comes after the last cancel point changes nothing. *)
CommitCopy(w) ==
  /\ work[w].pc = "running"
  /\ AtPc("copying")
  /\ Store!CommitGeneration(work[w].op, selected)
  /\ Goto([coord EXCEPT !.pc = "return"])

-----------------------------------------------------------------------------
(* start and stop: one node after the other *)
SettleStart(w) ==
  /\ Executing(w, "stop")
  /\ AtPc("start")
  /\ selected = work[w].gen
  /\ Observable(selected)
  /\ \E p \in Store!Intents : ledger[p].action = "start" /\ Store!FinishOp(p, "reconciled")
  /\ Goto(coord)

BeginNodes(w) ==
  /\ AtPc("start")
  /\ selected = work[w].gen
  /\ Observable(selected)
  /\ \/ Executing(w, "start") /\ AllAre(selected, "off")
        /\ Goto(Coord("visit", StartOrder, FALSE, Ok("process-running")))
     \/ Executing(w, "stop")
        /\ Goto(Coord("visit", StopOrder, FALSE, Ok("stopped")))
  /\ Store!Begin(work[w].op, ops[work[w].op].kind, selected)

Visiting(w) == work[w].pc = "running" /\ AtPc("visit") /\ Observable(selected)
Target == IF coord.out.state = "stopped" THEN "off" ELSE "on"
Action == IF coord.out.state = "stopped" THEN "stop" ELSE "start"

(* A cancellation is honoured only before the first effect, and only if
   everything is known to be stopped. *)
VisitCancelled(w) ==
  /\ Visiting(w)
  /\ coord.todo # <<>>
  /\ Cancelled(work[w].op)
  /\ ~coord.touched
  /\ AllAre(selected, "off")
  /\ Goto(Coord("cancelled", <<>>, FALSE, CancelledIn("stopped")))
  /\ UNCHANGED store

(* Otherwise the node is skipped, if it is to be stopped and is, or its effect
   is declared.  A cancellation that comes between the test and the declaration
   is as one that comes after it: they touch different databases. *)
VisitNode(w) ==
  /\ Visiting(w)
  /\ coord.todo # <<>>
  /\ ~Cancelled(work[w].op)
  /\ LET n == Head(coord.todo)
     IN IF Action = "stop" /\ Seen(selected, n) = "off"
        THEN Goto([coord EXCEPT !.todo = Tail(@)]) /\ UNCHANGED store
        ELSE /\ Store!EffectIntent(work[w].op, n, Action)
             /\ Goto([coord EXCEPT !.pc = "act", !.touched = TRUE])

(* driver.start spawns a detached process that will run the machine. *)
Launch(w) ==
  /\ work[w].pc = "running"
  /\ AtPc("act")
  /\ Action = "start"
  /\ vm[selected][Head(coord.todo)] = "off"
  /\ vm' = [vm EXCEPT ![selected][Head(coord.todo)] = "launching"]
  /\ coord' = [coord EXCEPT !.pc = "await"]
  /\ UNCHANGED <<vars, store>>

(* driver.stop asks the machine once to power down. *)
AskToStop(w) ==
  /\ work[w].pc = "running"
  /\ AtPc("act")
  /\ Action = "stop"
  /\ Goto([coord EXCEPT !.pc = "await"])
  /\ UNCHANGED store

ConfirmUnrecorded(w) ==
  /\ work[w].pc = "running"
  /\ AtPc("await")
  /\ Observable(selected)
  /\ Seen(selected, Head(coord.todo)) = Target
  /\ Goto([coord EXCEPT !.pc = "visit", !.todo = Tail(@)])
  /\ UNCHANGED store

(* The driver has seen the node in the state it was asked for; it is observed
   again with all the others and the effect is recorded. *)
Confirm(w) ==
  /\ work[w].pc = "running"
  /\ AtPc("await")
  /\ Observable(selected)
  /\ Seen(selected, Head(coord.todo)) = Target
  /\ Store!EffectRecorded(work[w].op, Head(coord.todo), Action)
  /\ Goto([coord EXCEPT !.pc = "visit", !.todo = Tail(@)])

CloseNodes(w) ==
  /\ Visiting(w)
  /\ coord.todo = <<>>
  /\ AllAre(selected, Target)
  /\ Store!FinishOp(work[w].op, coord.out.state)
  /\ Goto([coord EXCEPT !.pc = "return"])

-----------------------------------------------------------------------------
(* Machines live on their own. *)
MachineUp(g, n) ==
  /\ vm[g][n] = "launching"
  /\ vm' = [vm EXCEPT ![g][n] = "on"]
  /\ UNCHANGED <<vars, store, coord>>

MachineOff(g, n) ==
  /\ vm[g][n] # "off"
  /\ vm' = [vm EXCEPT ![g][n] = "off"]
  /\ UNCHANGED <<vars, store, coord>>

(* The process dies; a machine it was launching may still come up. *)
Die(w) ==
  /\ Crash(w)
  /\ coord' = AtRest
  /\ call' = Store!NoCall
  /\ UNCHANGED <<selected, generations, ledger, effects, vm>>

(* restart_preparation seals in the store before it commits the contract. *)
Restart(original, rev, attempt) ==
  /\ RestartPreparation(I, original, rev, attempt)
  /\ Store!PreserveInitialPreparation(original, rows + 1)
  /\ UNCHANGED <<vm, coord>>

(* The same, but the process dies between the two commits. *)
RestartDies(original) ==
  /\ ExecutorGone
  /\ rows < MaxOps
  /\ original \in Recorded
  /\ RestartAllowed(I, original)
  /\ Store!PreserveInitialPreparation(original, rows + 1)
  /\ UNCHANGED <<vars, vm, coord>>

Coordinate(w) ==
  \/ RecoverObserve(w) \/ Reconcile(w) \/ GuestCommand(w)
  \/ BeginGeneration(w) \/ OpenCopy(w) \/ CopyCancelled(w) \/ SettleCancelled(w) \/ CommitCopy(w)
  \/ SettleStart(w) \/ BeginNodes(w) \/ VisitCancelled(w) \/ VisitNode(w)
  \/ Launch(w) \/ AskToStop(w) \/ Confirm(w) \/ CloseNodes(w)
  \/ Return(w)

InstanceNext ==
  \/ Request(I) /\ Contract
  \/ \E original \in OpIds :
       \/ RestartDies(original)
       \/ \E rev \in Revs, attempt \in Attempts : Restart(original, rev, attempt)
  \/ \E w \in Workers :
       \/ /\ \/ \E o \in OpIds : Claim(w, o)
             \/ CheckCancel(w) \/ ObserveFails(w) \/ Finish(w) \/ FinishFails(w)
          /\ Contract
       \/ ObserveInstance(w)
       \/ Coordinate(w)
       \/ Raise(w)
       \/ Die(w)
  \/ \E g \in Generations, n \in Nodes : MachineUp(g, n) \/ MachineOff(g, n)

InstanceSpec == InstanceInit /\ [][InstanceNext]_ivars

=============================================================================
