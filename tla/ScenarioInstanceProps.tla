------------------------ MODULE ScenarioInstanceProps ------------------------
(* What must be true between the contract database, the generation store and
   the machines. *)
EXTENDS ScenarioInstance

(* The contract service says that the instance is usable and idle. *)
Settled(states) == Present(I) /\ inst[I].active = NoOp /\ inst[I].state \in states

(* Whatever was interrupted and recovered on the way, an instance that is
   shown as prepared, stopped or running has the generation that the store
   has selected, and the store has nothing unresolved left. *)
UsableMeansSettled ==
  Settled({"prepared", "stopped", "process-running"}) =>
    /\ inst[I].generation = selected
    /\ Store!Intents = {}

PoweredOff(g) == \A n \in Nodes : vm[g][n] = "off"

(* An instance that is shown as stopped or prepared has no machine running,
   and none that may still come up, in any generation. *)
StoppedMeansPoweredOff ==
  Settled({"prepared", "stopped"}) =>
    \A g \in Generations : PoweredOff(g)

(* Only machines of the selected generation ever live: no reset selects a new
   generation while a machine of the old one may still write to its disk. *)
OnlySelectedGenerationLives ==
  \A g \in Generations : g # selected => PoweredOff(g)

(* The two ledgers never drift apart by more than one generation, in one
   direction: a committed reset the contract has not been told of. *)
GenerationsWithinOne ==
  Present(I) =>
    \/ selected = 0 /\ inst[I].generation = 1
    \/ selected = inst[I].generation
    \/ selected = inst[I].generation + 1 /\ ~Settled({"prepared", "stopped", "process-running"})

(* An operation that was answered as cancelled has changed nothing: no
   generation was selected and no machine was touched on its behalf. *)
CancelledMeansUntouched ==
  \A o \in Recorded :
    ops[o].status = "completed" /\ ops[o].response.cancelled =>
      /\ \A g \in generations : g.op = o => g.state # "prepared"
      /\ \A e \in effects : e.op # o

(* An operation that was answered as done has been done in the store. *)
CompletedMeansDone ==
  \A o \in Recorded :
    /\ ops[o].status = "completed"
    /\ ~ops[o].response.cancelled
    /\ ops[o].kind \in {"prepare", "reset", "start", "stop"}
    => /\ ledger[o].state = "completed"
       /\ ops[o].kind \in {"prepare", "reset"} => ledger[o].result = "prepared"
       /\ \A e \in effects : e.op = o => e.state = "recorded"

(* Whatever is retried, recovered or restarted, a machine is launched only on
   behalf of the one start that is executing, in the generation it was asked
   for, and after that launch was declared and not yet settled: recovery and
   repeated requests launch nothing. *)
LaunchIsDeclared ==
  [][\A g \in Generations, n \in Nodes :
       vm[g][n] = "off" /\ vm'[g][n] = "launching" =>
         \E w \in Workers :
           /\ Executing(w, "start")
           /\ work[w].gen = g
           /\ ledger[work[w].op].state = "intent"
           /\ [op |-> work[w].op, node |-> n, action |-> "start", state |-> "intent"] \in effects]_ivars

(* Machines live in the generation that the store has selected, and none when
   the instance is shown as stopped (ScenarioCoordinator.observe, execute). *)
MachinesFollowTheStore == StoppedMeansPoweredOff /\ OnlySelectedGenerationLives

(* The two ledgers agree when it matters (ScenarioCoordinator.observe). *)
LedgersAgree == UsableMeansSettled /\ GenerationsWithinOne

(* The coordinator, its crashes and restart_preparation keep the order of calls
   that the store relies on: what holds of the store on its own holds here. *)
ImplementsStore == Store!StoreSpec

(* So does what they make of the machines. *)
StoreIsFollowed == ImplementsStore /\ LaunchIsDeclared

(* What the service answers is what became of the generations and machines:
   done is done, and cancelled has changed nothing (ScenarioCoordinator.execute). *)
OutcomesAreTrue == CompletedMeansDone /\ CancelledMeansUntouched
=============================================================================
