--------------------------- MODULE InstanceProofs ---------------------------
(***************************************************************************)
(* Theorems about one running instance, for any number of operations,      *)
(* workers, nodes and generations: the contract service, the coordinator,  *)
(* the generation store and the machines, none of which changes together   *)
(* with another, and a process that may die between any two steps.         *)
(*                                                                         *)
(* The invariant says what the coordinator knows where it is (StepOK), what*)
(* it needs to have done to return an outcome (Ending), and what follows   *)
(* for an instance nobody works on (Sound).                                *)
(***************************************************************************)
EXTENDS ScenarioInstanceProps, LocalServiceProofs, SequenceTheorems

(* The theorems about the store, for the store of this instance. *)
SP == INSTANCE StoreProofs WITH StoreOps <- OpIds

USE InstanceAssumption

LEMMA SameStore ==
  /\ Store!StoreInit <=> SP!StoreInit
  /\ Store!StoreInv <=> SP!StoreInv
  /\ Store!StoreInv' <=> SP!StoreInv'
  /\ Store!StoreNext <=> SP!StoreNext
  /\ store = SP!svars /\ store = Store!svars
<1>1. Store!StoreInit <=> SP!StoreInit
  BY DEF Store!StoreInit, SP!StoreInit, Store!Absent, SP!Absent, Store!NoCall, SP!NoCall
<1>2. Store!StoreTypeOK <=> SP!StoreTypeOK
  BY DEF Store!StoreTypeOK, SP!StoreTypeOK, Store!GenerationRow, SP!GenerationRow, Store!LedgerRow, SP!LedgerRow,
     Store!Absent, SP!Absent, Store!EffectRow, SP!EffectRow, Store!Calls, SP!Calls,
     Store!StoreActions, SP!StoreActions, Store!StoreResults, SP!StoreResults
<1>3. Store!OnePreparedRow <=> SP!OnePreparedRow
  BY DEF Store!OnePreparedRow, SP!OnePreparedRow, Store!PreparedRows, SP!PreparedRows
<1>4. /\ Store!OperationIsKey <=> SP!OperationIsKey
      /\ Store!RowsHaveOperations <=> SP!RowsHaveOperations
      /\ Store!IntentsHaveNoResult <=> SP!IntentsHaveNoResult
      /\ Store!CallHasItsRow <=> SP!CallHasItsRow
      /\ Store!OneUnresolved <=> SP!OneUnresolved
      /\ Store!PreparedByItsOperation <=> SP!PreparedByItsOperation
  BY DEF Store!OperationIsKey, SP!OperationIsKey, Store!RowsHaveOperations, SP!RowsHaveOperations,
     Store!IntentsHaveNoResult, SP!IntentsHaveNoResult, Store!CallHasItsRow, SP!CallHasItsRow,
     Store!OneUnresolved, SP!OneUnresolved, Store!PreparedByItsOperation, SP!PreparedByItsOperation,
     Store!Intents, SP!Intents, Store!Absent, SP!Absent
<1>5. Store!StoreInv <=> SP!StoreInv
  BY <1>2, <1>3, <1>4 DEF Store!StoreInv, SP!StoreInv
<1>6. ASSUME NEW o PROVE Store!StoreCaller(o) <=> SP!StoreCaller(o)
  BY DEF Store!StoreCaller, SP!StoreCaller, Store!Begin, SP!Begin, Store!FinishOp, SP!FinishOp, Store!Settle, SP!Settle,
     Store!PreserveInitialPreparation, SP!PreserveInitialPreparation, Store!Sealable, SP!Sealable,
     Store!EffectIntent, SP!EffectIntent, Store!EffectRecorded, SP!EffectRecorded,
     Store!OpenGeneration, SP!OpenGeneration, Store!Intents, SP!Intents, Store!Absent, SP!Absent,
     Store!NoCall, SP!NoCall, Store!StoreActions, SP!StoreActions, Store!StoreResults, SP!StoreResults
<1>7. Store!StoreNext <=> SP!StoreNext
  BY <1>6 DEF Store!StoreNext, SP!StoreNext, Store!CommitGeneration, SP!CommitGeneration, Store!Settle, SP!Settle,
     Store!LeaveCall, SP!LeaveCall, Store!NoCall, SP!NoCall
<1>8. store = SP!svars /\ store = Store!svars
  BY DEF store, SP!svars, Store!svars
<1>9. Store!StoreInv' <=> SP!StoreInv'
  BY <1>5, PTL
<1> QED
  BY <1>1, <1>5, <1>7, <1>8, <1>9

LEMMA StoreStarts == Store!StoreInit => Store!StoreInv
  BY SameStore, SP!StoreStart

LEMMA StoreSteps ==
  ASSUME Store!StoreInv, [Store!StoreNext]_store
  PROVE  /\ Store!StoreInv'
         /\ \A o \in OpIds : ledger[o].state = "completed" => ledger'[o] = ledger[o]
<1>1. SP!StoreInv /\ [SP!StoreNext]_SP!svars
  BY SameStore DEF store, SP!svars
<1>2. SP!StoreInv'
  BY <1>1, SP!StoreStep
<1>3. [SP!Grows]_SP!svars
  BY <1>1, SP!StoreGrows
<1>4. \A o \in OpIds : ledger[o].state = "completed" => ledger'[o] = ledger[o]
  BY <1>3 DEF SP!Grows, SP!svars
<1>5. Store!StoreInv'
  BY <1>2, SameStore
<1> QED
  BY <1>4, <1>5

-----------------------------------------------------------------------------
(* The inductive invariant. *)
NoneOf(o) == \A e \in effects : e.op # o
AllRecorded(o) == \A e \in effects : e.op = o => e.state = "recorded"
AllOff == \A g \in Generations : PoweredOff(g)
Intent(o) == ledger[o].state = "intent"

MachineStates == {"off", "launching", "on"}
MachinesTyped == vm \in [Generations -> [Nodes -> MachineStates]]
CoordTyped == coord = Coord(coord.pc, coord.todo, coord.touched, coord.out)
RestsOutsideExecute ==
  (\A w \in Workers : work[w].pc # "running") => coord = AtRest /\ call = {}

(* What the store and the service say of one operation. *)
LedgerOfOperations ==
  \A o \in OpIds : ledger[o] # Store!Absent =>
    o \in Recorded /\ ops[o].status # "pending" /\ ledger[o].action = ops[o].kind
EffectsOfOperations ==
  \A e \in effects : ledger[e.op] # Store!Absent /\ e.action = ledger[e.op].action
UnclaimedUndeclared ==
  \A w \in Workers : work[w].pc \in {"claimed", "observing"} => ledger[work[w].op] = Store!Absent
CancelledIsSettled ==
  \A o \in Recorded : ops[o].status = "completed" /\ ops[o].response.cancelled =>
    ledger[o].state # "intent" /\ ledger[o].result # "prepared" /\ NoneOf(o)

(* What they say of the generation. *)
FirstGeneration ==
  inst[I].active # NoOp /\ ops[inst[I].active].kind = "prepare" => inst[I].generation = 1
NothingSelectedBefore == ~Present(I) => selected = 0
OneApart ==
  Present(I) => \/ selected = 0 /\ inst[I].generation = 1
                \/ selected = inst[I].generation
                \/ selected = inst[I].generation + 1
RunningGeneration ==
  \A w \in Workers : work[w].pc = "running" =>
    work[w].gen = IF ops[work[w].op].kind = "recover" THEN selected ELSE inst[I].generation

(* Generation g may be shown in a state. *)
Sound(g, state) ==
  /\ state \in {"prepared", "stopped", "process-running"} => g = selected /\ Store!Intents = {}
  /\ state \in {"prepared", "stopped"} => AllOff

(* A cancelled operation that was not executed gives back the state that its
   instance had, which is as sound then as it was before. *)
IdleSound == Present(I) /\ inst[I].active = NoOp => Sound(inst[I].generation, inst[I].state)
HeldSound ==
  /\ inst[I].active # NoOp /\ ops[inst[I].active].status = "pending" =>
       Sound(inst[I].generation, inst[I].previous)
  /\ \A w \in Workers : work[w].pc = "claimed" => Sound(inst[I].generation, work[w].previous)

(* The outcome of an operation may be answered. *)
Changing == {"prepare", "reset", "start", "stop"}
Ending(w, out) ==
  LET o == work[w].op
      kind == ops[o].kind
  IN /\ out.error => out.state \in Doubtful
     /\ ~out.error =>
       /\ Sound(GenerationAfter(inst[I], kind, out, work[w].gen), out.state)
       /\ out.cancelled => ~Intent(o) /\ ledger[o].result # "prepared" /\ NoneOf(o)
       /\ ~out.cancelled =>
            /\ out.state \in {"prepared", "stopped", "process-running"}
            /\ kind \in Changing => ledger[o].state = "completed" /\ AllRecorded(o)
            /\ kind \in {"prepare", "reset"} => ledger[o].result = "prepared"
Finishing == \A w \in Workers : work[w].pc = "finish" => Ending(w, work[w].outcome)

(* What the coordinator knows, wherever it is. *)
Declared(o, node, action) == [op |-> o, node |-> node, action |-> action, state |-> "intent"]
AtReconcile(kind) ==
  /\ kind = "recover"
  /\ \/ coord.out = Ok("stopped") /\ AllOff
     \/ coord.out = Ok("process-running")
AtGeneration(o, kind) ==
  /\ kind \in {"prepare", "reset"} /\ Intent(o) /\ AllOff /\ coord.out = Ok("prepared")
  /\ kind = "prepare" => selected = 0
  /\ kind = "reset" => selected = inst[I].generation
AtCancelled(o, kind) ==
  /\ kind \in Changing /\ Intent(o) /\ NoneOf(o)
  /\ \/ coord.out = CancelledIn("failed")
     \/ coord.out = CancelledIn("stopped") /\ selected = inst[I].generation /\ AllOff
AtNodes(o, kind) ==
  /\ kind \in {"start", "stop"} /\ Intent(o) /\ selected = inst[I].generation
  /\ coord.out = Ok(IF kind = "start" THEN "process-running" ELSE "stopped")
  /\ ~coord.touched => NoneOf(o)
  /\ coord.todo \in Seq(Nodes)
AtNode(o, kind) ==
  /\ coord.todo # <<>> /\ coord.touched
  /\ Declared(o, Head(coord.todo), kind) \in effects
  /\ \A e \in effects : e.op = o /\ e.state # "recorded" => e = Declared(o, Head(coord.todo), kind)

Places == {"start", "reconcile", "prepare", "copying", "cancelled", "visit", "act", "await", "return"}
StepOK(w) ==
  LET o == work[w].op
      kind == ops[o].kind
  IN /\ coord.pc \in Places
     /\ coord.pc = "start" => coord = AtRest
     /\ call = IF coord.pc = "copying" THEN {[op |-> o, expected |-> selected]} ELSE {}
     /\ coord.pc = "reconcile" => AtReconcile(kind)
     /\ coord.pc \in {"prepare", "copying"} => AtGeneration(o, kind)
     /\ coord.pc = "cancelled" => AtCancelled(o, kind)
     /\ coord.pc \in {"visit", "act", "await"} => AtNodes(o, kind)
     /\ coord.pc = "visit" => AllRecorded(o)
     /\ coord.pc \in {"act", "await"} => AtNode(o, kind)
     /\ coord.pc = "return" => Ending(w, coord.out) /\ coord.out \in Outcome
Working == \A w \in Workers : work[w].pc = "running" => StepOK(w)

LedgersInv ==
  /\ LedgerOfOperations /\ EffectsOfOperations /\ UnclaimedUndeclared
  /\ CancelledIsSettled /\ CompletedMeansDone
GenerationsInv ==
  /\ FirstGeneration /\ NothingSelectedBefore /\ OneApart /\ RunningGeneration
  /\ OnlySelectedGenerationLives

InstanceInv ==
  /\ ServiceInv /\ Store!StoreInv
  /\ MachinesTyped /\ CoordTyped /\ RestsOutsideExecute
  /\ LedgersInv /\ GenerationsInv
  /\ IdleSound /\ HeldSound /\ Finishing /\ Working

-----------------------------------------------------------------------------
USE ServiceAssumption

LEMMA Basics ==
  ASSUME InstanceInv
  PROVE  /\ selected \in 0..MaxGen /\ I \in Instances
         /\ inst[I] \in InstanceRow /\ inst[I].generation \in Nat
         /\ inst[I].active \in Recorded \cup {NoOp}
         /\ Recorded \subseteq OpIds /\ NoOp \notin Recorded
         /\ rows \in Nat /\ ops \in [Recorded -> OperationRow]
         /\ \A o \in Recorded : ops[o].inst = I /\ ops[o].kind \in AllKinds
         /\ ledger \in [OpIds -> Store!LedgerRow \cup {Store!Absent}]
         /\ effects \subseteq Store!EffectRow
<1>1. TypeOK
  BY DEF InstanceInv, ServiceInv
<1>2. inst[I] \in InstanceRow /\ inst[I].generation \in Nat /\ I \in Instances
  BY <1>1 DEF TypeOK, InstanceRow
<1>3. Recorded \subseteq OpIds /\ NoOp \notin Recorded /\ rows \in Nat
  BY <1>1 DEF TypeOK, Recorded, OpIds, NoOp
<1>4. \A o \in Recorded : ops[o].inst = I /\ ops[o].kind \in AllKinds
  BY <1>1 DEF TypeOK, OperationRow
<1>5. Store!StoreTypeOK
  BY DEF InstanceInv, Store!StoreInv
<1> QED
  BY <1>1, <1>2, <1>3, <1>4, <1>5 DEF TypeOK, Store!StoreTypeOK

(* A worker inside execute is the only one, and its operation holds the instance. *)
LEMMA Actor ==
  ASSUME InstanceInv, NEW w \in Workers, work[w].pc # "idle"
  PROVE  /\ gate = w /\ gate # NoWorker /\ \A v \in Workers : v # w => work[v].pc = "idle"
         /\ work[w].op \in Recorded /\ work[w].op \in OpIds /\ work[w].op # NoOp
         /\ ops[work[w].op].status = "executing" /\ ops[work[w].op].kind \in AllKinds
         /\ ops[work[w].op].inst = I
         /\ inst[I].active = work[w].op /\ Present(I)
         /\ work[w].gen \in Nat
<1>1. GateProtectsExecution /\ AbsentRows /\ TypeOK
  BY DEF InstanceInv, ServiceInv
<1>2. work[w].op \in Recorded /\ ops[work[w].op].inst = I /\ inst[I].active = work[w].op
  BY <1>1, Basics DEF GateProtectsExecution
<1>3. Present(I)
  BY <1>1, <1>2, Basics DEF AbsentRows, NoRow
<1>4. work[w].gen \in Nat
  BY <1>1 DEF TypeOK, Local
<1> QED
  BY <1>1, <1>2, <1>3, <1>4, Basics DEF GateProtectsExecution

(* A step of the coordinator: the service rests, the store takes one of its
   own steps, and what is recorded there is about the operation executed or
   settles another. *)
LEMMA CoordKeeps ==
  ASSUME InstanceInv, NEW w \in Workers, work[w].pc = "running", UNCHANGED vars,
         NEW o, o = work[w].op, NEW kind, kind = ops[o].kind,
         [Store!StoreNext]_store,
         \A p \in OpIds :
            \/ ledger'[p] = ledger[p]
            \/ /\ ledger[p].state = "intent" /\ ledger'[p].state = "completed"
               /\ ledger'[p].action = ledger[p].action
            \/ p = o /\ ledger'[p].action = kind,
         \A e \in effects' :
            \/ e \in effects
            \/ e.op = o /\ ledger'[o] # Store!Absent /\ e.action = ledger'[o].action,
         MachinesTyped', CoordTyped', OnlySelectedGenerationLives', OneApart', RunningGeneration', StepOK(w)'
  PROVE  InstanceInv'
<1>v. /\ inst' = inst /\ ops' = ops /\ rows' = rows /\ work' = work /\ gate' = gate
      /\ Recorded' = Recorded
  BY DEF vars, Recorded
<1>a. /\ gate = w /\ \A v \in Workers : v # w => work[v].pc = "idle"
      /\ o \in Recorded /\ o \in OpIds /\ o # NoOp
      /\ ops[o].status = "executing" /\ kind \in AllKinds
      /\ inst[I].active = o /\ Present(I)
  BY Actor
<1>b. /\ ledger \in [OpIds -> Store!LedgerRow \cup {Store!Absent}] /\ effects \subseteq Store!EffectRow
      /\ Recorded \subseteq OpIds
  BY Basics
<1>i. /\ LedgerOfOperations /\ EffectsOfOperations /\ UnclaimedUndeclared
      /\ CancelledIsSettled /\ CompletedMeansDone
      /\ FirstGeneration /\ NothingSelectedBefore
  BY DEF InstanceInv, LedgersInv, GenerationsInv
<1>1. ServiceInv' /\ Store!StoreInv'
  BY ServiceStep, StoreSteps DEF InstanceInv
<1>2. \A p \in OpIds : ledger[p].state = "completed" => ledger'[p] = ledger[p]
  BY StoreSteps DEF InstanceInv
<1>3. RestsOutsideExecute'
  BY <1>v DEF RestsOutsideExecute
<1>4. LedgerOfOperations'
  BY <1>v, <1>a, <1>b, <1>i DEF LedgerOfOperations, Store!Absent
<1>5. EffectsOfOperations'
  <2> SUFFICES ASSUME NEW e \in effects'
               PROVE  ledger'[e.op] # Store!Absent /\ e.action = ledger'[e.op].action
    BY DEF EffectsOfOperations
  <2>1. CASE e \in effects
    <3>1. e.op \in OpIds /\ ledger[e.op] # Store!Absent /\ e.action = ledger[e.op].action
      BY <1>b, <1>i, <2>1 DEF EffectsOfOperations, Store!EffectRow
    <3>2. e.op = o => ledger[e.op].action = kind /\ kind # "none"
      BY <1>a, <1>i, <3>1 DEF LedgerOfOperations, AllKinds
    <3> QED
      BY <3>1, <3>2 DEF Store!Absent
  <2> QED
    BY <2>1
<1>6. UnclaimedUndeclared'
  BY <1>v, <1>a DEF UnclaimedUndeclared
<1>7. ASSUME NEW q \in Recorded, ops[q].status = "completed"
      PROVE  /\ ledger[q].state # "intent" => ledger'[q] = ledger[q]
             /\ \A e \in effects' : e.op = q => e \in effects
  BY <1>a, <1>b, <1>7
<1>8. CancelledIsSettled'
  BY <1>v, <1>7, <1>i DEF CancelledIsSettled, NoneOf, Intent
<1>9. CompletedMeansDone'
  BY <1>v, <1>7, <1>i DEF CompletedMeansDone
<1>10. FirstGeneration' /\ NothingSelectedBefore'
  BY <1>v, <1>a, <1>i DEF FirstGeneration, NothingSelectedBefore, Present
<1>11. IdleSound' /\ HeldSound' /\ Finishing'
  BY <1>v, <1>a DEF IdleSound, HeldSound, Finishing
<1>12. Working'
  BY <1>v, <1>a DEF Working
<1> QED
  BY <1>1, <1>3, <1>4, <1>5, <1>6, <1>8, <1>9, <1>10, <1>11, <1>12
     DEF InstanceInv, LedgersInv, GenerationsInv

(* The same, where neither the selection nor a machine changes. *)
LEMMA CoordWrites ==
  ASSUME InstanceInv, NEW w \in Workers, work[w].pc = "running", UNCHANGED vars,
         NEW o, o = work[w].op, NEW kind, kind = ops[o].kind,
         [Store!StoreNext]_store, selected' = selected, vm' = vm,
         \A p \in OpIds :
            \/ ledger'[p] = ledger[p]
            \/ /\ ledger[p].state = "intent" /\ ledger'[p].state = "completed"
               /\ ledger'[p].action = ledger[p].action
            \/ p = o /\ ledger'[p].action = kind,
         \A e \in effects' :
            \/ e \in effects
            \/ e.op = o /\ ledger'[o] # Store!Absent /\ e.action = ledger'[o].action,
         CoordTyped', StepOK(w)'
  PROVE  InstanceInv'
<1>1. inst' = inst /\ ops' = ops /\ work' = work
  BY DEF vars
<1>2. MachinesTyped' /\ OnlySelectedGenerationLives' /\ OneApart' /\ RunningGeneration'
  BY <1>1 DEF InstanceInv, GenerationsInv, MachinesTyped, OnlySelectedGenerationLives, PoweredOff,
     OneApart, Present, RunningGeneration
<1> QED
  BY <1>2, CoordKeeps

LEMMA CoordMoves ==
  ASSUME InstanceInv, NEW w \in Workers, work[w].pc = "running", UNCHANGED <<vars, store, vm>>,
         CoordTyped', StepOK(w)'
  PROVE  InstanceInv'
<1>1. UNCHANGED vars /\ vm' = vm /\ selected' = selected /\ ledger' = ledger /\ effects' = effects
      /\ store' = store
  BY DEF store
<1> QED
  BY <1>1, CoordWrites

(* The step of the coordinator that is about to be taken. *)
LEMMA AtWork ==
  ASSUME InstanceInv, NEW w \in Workers, work[w].pc = "running"
  PROVE  /\ StepOK(w) /\ CoordTyped
         /\ selected \in 0..MaxGen /\ inst[I].generation \in Nat /\ inst[I].generation > 0
         /\ work[w].gen = IF ops[work[w].op].kind = "recover" THEN selected ELSE inst[I].generation
         /\ work[w].op \in OpIds /\ work[w].op \in Recorded
         /\ ledger[work[w].op] # Store!Absent => ledger[work[w].op].action = ops[work[w].op].kind
<1>1. work[w].op \in Recorded /\ work[w].op \in OpIds /\ Present(I)
  BY Actor
<1> QED
  BY <1>1, Basics DEF InstanceInv, Working, GenerationsInv, RunningGeneration, LedgersInv, LedgerOfOperations, Present

(* What is observed as off is off, and so is everything in other generations. *)
LEMMA SeenOff ==
  ASSUME InstanceInv, AllAre(selected, "off")
  PROVE  AllOff
<1>1. ASSUME NEW n \in Nodes PROVE vm[selected][n] = "off"
  BY <1>1 DEF AllAre, Seen
<1> QED
  BY <1>1 DEF InstanceInv, GenerationsInv, OnlySelectedGenerationLives, PoweredOff, AllOff

LEMMA OutcomesFit ==
  /\ \A s \in {"prepared", "stopped", "process-running"} : Ok(s) \in Outcome
  /\ \A s \in {"failed", "stopped", "process-running"} : CancelledIn(s) \in Outcome
BY DEF Ok, CancelledIn, Outcome, States, Running, Doubtful

LEMMA RecoverObserves ==
  ASSUME InstanceInv, NEW w \in Workers, RecoverObserve(w)
  PROVE  InstanceInv'
<1>1. /\ work[w].pc = "running" /\ ops[work[w].op].kind = "recover" /\ coord.pc = "start"
      /\ Uniform(selected)
      /\ coord' = Coord("reconcile", <<>>, FALSE, Ok(Found(selected)))
      /\ UNCHANGED <<vars, store, vm>>
  BY DEF RecoverObserve, Executing, AtPc, Goto
<1>2. call = {}
  BY <1>1, AtWork DEF StepOK
<1>3. CoordTyped'
  BY <1>1 DEF CoordTyped, Coord
<1>4. \/ Found(selected) = "stopped" /\ AllOff
      \/ Found(selected) = "process-running"
  BY <1>1, SeenOff DEF Found, Uniform
<1>5. AllOff => AllOff'
  BY <1>1 DEF AllOff, PoweredOff
<1>6. ops' = ops /\ work' = work /\ call' = call
  BY <1>1 DEF vars, store
<1>7. AtReconcile("recover")'
  BY <1>1, <1>4, <1>5 DEF AtReconcile, Coord
<1>8. coord'.pc = "reconcile"
  BY <1>1 DEF Coord
<1>9. StepOK(w)'
  BY <1>1, <1>2, <1>6, <1>7, <1>8 DEF StepOK, Places
<1> QED
  BY <1>1, <1>3, <1>9, CoordMoves

(* An operation is settled in the store, and nothing is unresolved then. *)
LEMMA Settles ==
  ASSUME InstanceInv, NEW p \in OpIds, NEW result \in Store!StoreResults \ {"prepared"},
         Store!FinishOp(p, result), call = {}
  PROVE  /\ [Store!StoreNext]_store
         /\ selected' = selected /\ effects' = effects /\ call' = call
         /\ ledger[p].state = "intent" /\ ledger'[p].state = "completed"
         /\ ledger'[p].action = ledger[p].action /\ ledger'[p].result = result
         /\ \A q \in OpIds : q # p => ledger'[q] = ledger[q]
         /\ Store!Intents = {p} /\ Store!Intents' = {}
<1>1. /\ ledger[p].state = "intent"
      /\ ledger' = [ledger EXCEPT ![p] = [action |-> ledger[p].action, gen |-> ledger[p].gen,
                                          state |-> "completed", result |-> result]]
      /\ UNCHANGED <<selected, generations, effects, call>>
  BY DEF Store!FinishOp, Store!Settle
<1>2. Store!StoreNext
  BY DEF Store!StoreNext, Store!StoreCaller, Store!NoCall
<1>3. /\ ledger'[p].state = "completed" /\ ledger'[p].action = ledger[p].action
      /\ ledger'[p].result = result
      /\ \A q \in OpIds : q # p => ledger'[q] = ledger[q]
  BY <1>1, Basics
<1>4. \A q, s \in Store!Intents : q = s
  BY DEF InstanceInv, Store!StoreInv, Store!OneUnresolved
<1>5. Store!Intents = {p} /\ Store!Intents' = {}
  BY <1>1, <1>3, <1>4 DEF Store!Intents
<1> QED
  BY <1>1, <1>2, <1>3, <1>5

(* Nothing was declared on behalf of an operation that has no row. *)
LEMMA NothingDeclared ==
  ASSUME InstanceInv, NEW o \in OpIds, ledger[o].action \notin {"start", "stop"}
  PROVE  /\ NoneOf(o)
         /\ ledger[o].action = "none" => ~Intent(o) /\ ledger[o].result # "prepared"
<1>1. \A e \in effects : e.action = ledger[e.op].action /\ e.action \in {"start", "stop"}
  BY Basics DEF InstanceInv, LedgersInv, EffectsOfOperations, Store!EffectRow
<1>2. ledger[o] \in Store!LedgerRow \cup {Store!Absent}
  BY Basics
<1>3. ledger[o].action = "none" => ledger[o] = Store!Absent
  BY <1>2 DEF Store!LedgerRow, Store!StoreActions
<1> QED
  BY <1>1, <1>3 DEF NoneOf, Intent, Store!Absent

LEMMA Reconciles ==
  ASSUME InstanceInv, NEW w \in Workers, Reconcile(w)
  PROVE  InstanceInv'
<1> DEFINE o == work[w].op
<1>1. work[w].pc = "running" /\ ops[o].kind = "recover" /\ coord.pc = "reconcile"
  BY DEF Reconcile, Executing, AtPc
<1>2. /\ call = {} /\ AtReconcile("recover") /\ CoordTyped /\ selected \in 0..MaxGen /\ work[w].gen = selected
      /\ o \in OpIds
  BY <1>1, AtWork DEF StepOK
<1>3. CASE /\ \E p \in Store!Intents : Store!FinishOp(p, "reconciled")
           /\ Goto(coord)
  <2>1. PICK p \in OpIds : Store!FinishOp(p, "reconciled")
    BY <1>3 DEF Store!Intents
  <2>2. coord' = coord /\ UNCHANGED <<vars, vm>>
    BY <1>3 DEF Goto
  <2>3. "reconciled" \in Store!StoreResults \ {"prepared"}
    BY DEF Store!StoreResults
  <2>4. /\ [Store!StoreNext]_store
        /\ selected' = selected /\ effects' = effects /\ call' = call
        /\ ledger[p].state = "intent" /\ ledger'[p].state = "completed"
        /\ ledger'[p].action = ledger[p].action
        /\ \A q \in OpIds : q # p => ledger'[q] = ledger[q]
    BY <1>2, <2>1, <2>3, Settles
  <2>5. CoordTyped'
    BY <1>2, <2>2 DEF CoordTyped
  <2>6. ops' = ops /\ work' = work
    BY <2>2 DEF vars
  <2>7. AtReconcile("recover")'
    BY <1>2, <2>2 DEF AtReconcile, AllOff, PoweredOff
  <2>8. StepOK(w)'
    BY <1>1, <1>2, <2>2, <2>4, <2>6, <2>7 DEF StepOK, Places
  <2> QED
    BY <1>1, <2>2, <2>4, <2>5, <2>8, CoordWrites
<1>4. CASE /\ Store!Intents = {}
           /\ Goto([coord EXCEPT !.pc = "return"])
           /\ UNCHANGED store
  <2>1. UNCHANGED <<vars, store, vm>> /\ coord' = [coord EXCEPT !.pc = "return"]
    BY <1>4 DEF Goto
  <2>2. /\ CoordTyped' /\ coord'.pc = "return" /\ coord'.out = coord.out
    BY <1>2, <2>1 DEF CoordTyped, Coord
  <2>3. /\ ops' = ops /\ work' = work /\ call' = call /\ inst' = inst /\ selected' = selected
        /\ ledger' = ledger /\ Store!Intents' = {}
    BY <1>4, <2>1 DEF vars, store, Store!Intents
  <2>4. PICK out : out = coord.out
    OBVIOUS
  <2>5. /\ out \in Outcome /\ ~out.error /\ ~out.cancelled /\ out.state \in {"stopped", "process-running"}
        /\ out.state = "stopped" => AllOff
    BY <1>2, <2>4, OutcomesFit DEF AtReconcile, Ok
  <2>6. GenerationAfter(inst[I], "recover", out, work[w].gen) = selected
    BY <1>2, <2>5 DEF GenerationAfter
  <2>7. AllOff => AllOff'
    BY <2>1 DEF AllOff, PoweredOff
  <2>8. Ending(w, out)'
    BY <1>1, <2>1, <2>3, <2>5, <2>6, <2>7 DEF Ending, Sound, Changing
  <2>9. StepOK(w)'
    BY <1>1, <1>2, <2>2, <2>3, <2>4, <2>5, <2>8 DEF StepOK, Places
  <2> QED
    BY <1>1, <2>1, <2>2, <2>9, CoordMoves
<1> QED
  BY <1>3, <1>4 DEF Reconcile

LEMMA Guests ==
  ASSUME InstanceInv, NEW w \in Workers, GuestCommand(w)
  PROVE  InstanceInv'
<1> DEFINE o == work[w].op
<1>1. /\ work[w].pc = "running" /\ ops[o].kind = "guest" /\ coord.pc = "start"
      /\ selected = work[w].gen /\ Store!Intents = {}
      /\ UNCHANGED <<vars, store, vm>>
  BY DEF GuestCommand, Executing, AtPc, Goto
<1>2. /\ call = {} /\ selected = inst[I].generation /\ o \in OpIds
      /\ ledger[o] # Store!Absent => ledger[o].action = "guest"
      /\ ledger[o] \in Store!LedgerRow \cup {Store!Absent}
  BY <1>1, AtWork, Basics DEF StepOK
<1>3. ledger[o] = Store!Absent
  BY <1>2 DEF Store!LedgerRow, Store!StoreActions
<1>4. NoneOf(o) /\ ~Intent(o) /\ ledger[o].result # "prepared"
  BY <1>2, <1>3, NothingDeclared DEF Store!Absent
<1>5. PICK out : /\ out \in {Ok("process-running"), CancelledIn("process-running")}
                 /\ coord' = Coord("return", <<>>, FALSE, out)
  BY DEF GuestCommand, Goto
<1>6. out \in Outcome /\ ~out.error /\ out.state = "process-running"
  <2>1. out \in Outcome
    BY <1>5, OutcomesFit
  <2> QED
    BY <1>5, <2>1 DEF Ok, CancelledIn
<1>7. CoordTyped' /\ coord'.pc = "return" /\ coord'.out = out
  BY <1>5 DEF CoordTyped, Coord
<1>8. /\ ops' = ops /\ work' = work /\ call' = call /\ inst' = inst /\ selected' = selected
      /\ ledger' = ledger /\ effects' = effects /\ Store!Intents' = {}
  BY <1>1 DEF vars, store, Store!Intents
<1>9. GenerationAfter(inst[I], "guest", out, work[w].gen) = inst[I].generation
  BY DEF GenerationAfter
<1>10. Ending(w, out)'
  BY <1>1, <1>2, <1>4, <1>6, <1>8, <1>9 DEF Ending, Sound, Changing, NoneOf, Intent
<1>11. StepOK(w)'
  BY <1>1, <1>2, <1>6, <1>7, <1>8, <1>10 DEF StepOK, Places
<1> QED
  BY <1>1, <1>7, <1>11, CoordMoves

(* An operation is declared in the store: it is the only one unresolved, and
   nothing was done on its behalf before. *)
LEMMA Begins ==
  ASSUME InstanceInv, NEW o \in OpIds, NEW kind \in Store!StoreActions, Store!Begin(o, kind, selected),
         call = {}
  PROVE  /\ [Store!StoreNext]_store
         /\ selected' = selected /\ effects' = effects /\ call' = call
         /\ ledger'[o].state = "intent" /\ ledger'[o].action = kind
         /\ \A p \in OpIds : p # o => ledger'[p] = ledger[p]
         /\ NoneOf(o) /\ NoneOf(o)' /\ Store!Intents = {}
<1>1. /\ ledger[o] = Store!Absent /\ Store!Intents = {}
      /\ ledger' = [ledger EXCEPT ![o] = [action |-> kind, gen |-> selected,
                                          state |-> "intent", result |-> "none"]]
      /\ UNCHANGED <<selected, generations, effects, call>>
  BY DEF Store!Begin
<1>2. Store!StoreNext
  BY DEF Store!StoreNext, Store!StoreCaller, Store!NoCall
<1>3. /\ ledger'[o].state = "intent" /\ ledger'[o].action = kind
      /\ \A p \in OpIds : p # o => ledger'[p] = ledger[p]
  BY <1>1, Basics
<1>4. NoneOf(o)
  BY <1>1, NothingDeclared DEF Store!Absent
<1>5. NoneOf(o)'
  BY <1>1, <1>4 DEF NoneOf
<1> QED
  BY <1>1, <1>2, <1>3, <1>4, <1>5

LEMMA GenerationBegins ==
  ASSUME InstanceInv, NEW w \in Workers, BeginGeneration(w)
  PROVE  InstanceInv'
<1>0. PICK o \in OpIds, kind \in AllKinds : o = work[w].op /\ kind = ops[o].kind /\ work[w].pc = "running"
  <2>1. work[w].pc = "running"
    BY DEF BeginGeneration, Executing
  <2> QED
    BY <2>1, Actor
<1>1. /\ coord.pc = "start"
      /\ \/ kind = "prepare" /\ selected = 0
         \/ kind = "reset" /\ selected = work[w].gen /\ AllAre(selected, "off")
      /\ Store!Begin(o, kind, selected)
      /\ coord' = Coord("prepare", <<>>, FALSE, Ok("prepared"))
      /\ UNCHANGED <<vars, vm>>
  BY <1>0 DEF BeginGeneration, Executing, AtPc, Goto
<1>2. /\ call = {}
      /\ kind # "recover" => work[w].gen = inst[I].generation
  BY <1>0, <1>1, AtWork DEF StepOK
<1>3. kind \in Store!StoreActions
  BY <1>1 DEF Store!StoreActions
<1>4. /\ [Store!StoreNext]_store
      /\ selected' = selected /\ effects' = effects /\ call' = call
      /\ ledger'[o].state = "intent" /\ ledger'[o].action = kind
      /\ \A p \in OpIds : p # o => ledger'[p] = ledger[p]
  BY <1>1, <1>2, <1>3, Begins
<1>5. AllOff
  <2>1. CASE selected = 0
    BY <2>1 DEF InstanceInv, GenerationsInv, OnlySelectedGenerationLives, AllOff, Generations
  <2> QED
    BY <1>1, <2>1, SeenOff
<1>6. CoordTyped' /\ coord'.pc = "prepare" /\ coord'.out = Ok("prepared")
  BY <1>1 DEF CoordTyped, Coord
<1>7. inst' = inst /\ ops' = ops /\ work' = work /\ AllOff'
  BY <1>1, <1>5 DEF vars, AllOff, PoweredOff
<1>8. AtGeneration(o, kind)'
  BY <1>1, <1>2, <1>4, <1>6, <1>7 DEF AtGeneration, Intent
<1>9. StepOK(w)'
  BY <1>0, <1>2, <1>4, <1>6, <1>7, <1>8 DEF StepOK, Places
<1> QED
  BY <1>0, <1>1, <1>4, <1>6, <1>9, CoordWrites

LEMMA CopyOpens ==
  ASSUME InstanceInv, NEW w \in Workers, OpenCopy(w)
  PROVE  InstanceInv'
<1>0. PICK o \in OpIds, kind \in AllKinds : o = work[w].op /\ kind = ops[o].kind /\ work[w].pc = "running"
  <2>1. work[w].pc = "running"
    BY DEF OpenCopy
  <2> QED
    BY <2>1, Actor
<1>1. /\ coord.pc = "prepare" /\ Store!OpenGeneration(o, selected)
      /\ coord' = [coord EXCEPT !.pc = "copying"]
      /\ UNCHANGED <<vars, vm>>
  BY <1>0 DEF OpenCopy, AtPc, Goto
<1>2. /\ call = {} /\ AtGeneration(o, kind) /\ CoordTyped
      /\ ledger[o].state = "intent" /\ kind \in {"prepare", "reset"}
      /\ ledger[o] # Store!Absent => ledger[o].action = kind
  BY <1>0, <1>1, AtWork DEF StepOK, AtGeneration, Intent
<1>3. /\ selected' = selected /\ ledger' = ledger /\ effects' = effects
      /\ call' = {[op |-> o, expected |-> selected]}
  BY <1>1 DEF Store!OpenGeneration
<1>4. Store!StoreNext
  BY <1>1, <1>2 DEF Store!StoreNext, Store!StoreCaller, Store!NoCall, Store!Absent
<1>5. CoordTyped' /\ coord'.pc = "copying" /\ coord'.out = coord.out
  BY <1>1, <1>2 DEF CoordTyped, Coord
<1>6. inst' = inst /\ ops' = ops /\ work' = work
  BY <1>1 DEF vars
<1>7. AtGeneration(o, kind)'
  BY <1>1, <1>2, <1>3, <1>5, <1>6 DEF AtGeneration, Intent, AllOff, PoweredOff
<1>8. StepOK(w)'
  BY <1>0, <1>3, <1>5, <1>6, <1>7 DEF StepOK, Places
<1> QED
  BY <1>0, <1>1, <1>3, <1>4, <1>5, <1>8, CoordWrites

LEMMA CopyIsCancelled ==
  ASSUME InstanceInv, NEW w \in Workers, CopyCancelled(w)
  PROVE  InstanceInv'
<1>0. PICK o \in OpIds, kind \in AllKinds : o = work[w].op /\ kind = ops[o].kind /\ work[w].pc = "running"
  <2>1. work[w].pc = "running"
    BY DEF CopyCancelled
  <2> QED
    BY <2>1, Actor
<1>1. /\ coord.pc = "copying" /\ Store!LeaveCall
      /\ coord' = Coord("cancelled", <<>>, FALSE, CancelledIn(IF kind = "prepare" THEN "failed" ELSE "stopped"))
      /\ UNCHANGED <<vars, vm>>
  BY <1>0 DEF CopyCancelled, AtPc, Goto
<1>2. /\ AtGeneration(o, kind)
      /\ ledger[o] # Store!Absent => ledger[o].action = kind
  BY <1>0, <1>1, AtWork DEF StepOK
<1>3. /\ selected' = selected /\ ledger' = ledger /\ effects' = effects /\ call' = {}
      /\ Store!StoreNext
  BY <1>1 DEF Store!LeaveCall, Store!StoreNext, Store!NoCall
<1>4. CoordTyped' /\ coord'.pc = "cancelled"
      /\ coord'.out = CancelledIn(IF kind = "prepare" THEN "failed" ELSE "stopped")
  BY <1>1 DEF CoordTyped, Coord
<1>5. inst' = inst /\ ops' = ops /\ work' = work
  BY <1>1 DEF vars
<1>6. NoneOf(o)
  BY <1>2, NothingDeclared DEF AtGeneration, Intent, Store!Absent
<1>7. AtCancelled(o, kind)'
  BY <1>1, <1>2, <1>3, <1>4, <1>5, <1>6 DEF AtCancelled, AtGeneration, Changing, Intent, AllOff, PoweredOff, NoneOf
<1>8. StepOK(w)'
  BY <1>0, <1>3, <1>4, <1>5, <1>7 DEF StepOK, Places
<1> QED
  BY <1>0, <1>1, <1>3, <1>4, <1>8, CoordWrites

LEMMA CancellationSettles ==
  ASSUME InstanceInv, NEW w \in Workers, SettleCancelled(w)
  PROVE  InstanceInv'
<1>0. PICK o \in OpIds, kind \in AllKinds : o = work[w].op /\ kind = ops[o].kind /\ work[w].pc = "running"
  <2>1. work[w].pc = "running"
    BY DEF SettleCancelled
  <2> QED
    BY <2>1, Actor
<1>1. /\ coord.pc = "cancelled" /\ Store!FinishOp(o, "cancelled")
      /\ coord' = [coord EXCEPT !.pc = "return"]
      /\ UNCHANGED <<vars, vm>>
  BY <1>0 DEF SettleCancelled, AtPc, Goto
<1>2. call = {} /\ AtCancelled(o, kind) /\ CoordTyped
  BY <1>0, <1>1, AtWork DEF StepOK
<1>3. "cancelled" \in Store!StoreResults \ {"prepared"}
  BY DEF Store!StoreResults
<1>4. /\ [Store!StoreNext]_store
      /\ selected' = selected /\ effects' = effects /\ call' = call
      /\ ledger[o].state = "intent" /\ ledger'[o].state = "completed"
      /\ ledger'[o].action = ledger[o].action /\ ledger'[o].result = "cancelled"
      /\ \A q \in OpIds : q # o => ledger'[q] = ledger[q]
      /\ Store!Intents' = {}
  BY <1>1, <1>2, <1>3, Settles
<1>5. CoordTyped' /\ coord'.pc = "return" /\ coord'.out = coord.out
  BY <1>1, <1>2 DEF CoordTyped, Coord
<1>6. inst' = inst /\ ops' = ops /\ work' = work
  BY <1>1 DEF vars
<1>7. PICK out : out = coord.out
  OBVIOUS
<1>8. /\ out \in Outcome /\ ~out.error /\ out.cancelled
      /\ out.state \in {"failed", "stopped"}
      /\ out.state = "stopped" => selected = inst[I].generation /\ AllOff
  <2>1. out \in {CancelledIn("failed"), CancelledIn("stopped")}
    BY <1>2, <1>7 DEF AtCancelled
  <2>2. out \in Outcome
    BY <2>1, OutcomesFit
  <2>3. out = CancelledIn("failed") => out.state = "failed"
    BY DEF CancelledIn
  <2> QED
    BY <1>2, <1>7, <2>1, <2>2, <2>3 DEF AtCancelled, CancelledIn
<1>9. GenerationAfter(inst[I], kind, out, work[w].gen) = inst[I].generation
  BY <1>8 DEF GenerationAfter
<1>10. AllOff => AllOff'
  BY <1>1 DEF AllOff, PoweredOff
<1>11. Ending(w, out)'
  <2>1. NoneOf(o)'
    BY <1>2, <1>4 DEF AtCancelled, NoneOf
  <2> QED
    BY <1>0, <1>4, <1>6, <1>8, <1>9, <1>10, <2>1 DEF Ending, Sound, Intent
<1>12. StepOK(w)'
  BY <1>0, <1>2, <1>4, <1>5, <1>6, <1>7, <1>8, <1>11 DEF StepOK, Places
<1> QED
  BY <1>0, <1>1, <1>4, <1>5, <1>12, CoordWrites

LEMMA CopyCommits ==
  ASSUME InstanceInv, NEW w \in Workers, CommitCopy(w)
  PROVE  InstanceInv'
<1>0. PICK o \in OpIds, kind \in AllKinds : o = work[w].op /\ kind = ops[o].kind /\ work[w].pc = "running"
  <2>1. work[w].pc = "running"
    BY DEF CommitCopy
  <2> QED
    BY <2>1, Actor
<1>1. /\ coord.pc = "copying" /\ Store!CommitGeneration(o, selected)
      /\ coord' = [coord EXCEPT !.pc = "return"]
      /\ UNCHANGED <<vars, vm>>
  BY <1>0 DEF CommitCopy, AtPc, Goto
<1>2. /\ AtGeneration(o, kind) /\ CoordTyped
      /\ ledger[o] # Store!Absent => ledger[o].action = kind
      /\ selected \in 0..MaxGen /\ inst[I].generation \in Nat
      /\ work[w].gen = IF kind = "recover" THEN selected ELSE inst[I].generation
  BY <1>0, <1>1, AtWork DEF StepOK
<1>3. /\ ledger[o].state = "intent"
      /\ ledger' = [ledger EXCEPT ![o] = [action |-> ledger[o].action, gen |-> ledger[o].gen,
                                          state |-> "completed", result |-> "prepared"]]
      /\ selected' = selected + 1 /\ call' = {} /\ effects' = effects
      /\ Store!StoreNext
  BY <1>1 DEF Store!CommitGeneration, Store!Settle, Store!StoreNext, Store!NoCall
<1>4. /\ ledger'[o].state = "completed" /\ ledger'[o].action = ledger[o].action /\ ledger'[o].result = "prepared"
      /\ \A q \in OpIds : q # o => ledger'[q] = ledger[q]
  BY <1>3, Basics
<1>5. Store!Intents' = {}
  <2>1. \A q, s \in Store!Intents : q = s
    BY DEF InstanceInv, Store!StoreInv, Store!OneUnresolved
  <2> QED
    BY <1>3, <1>4, <2>1 DEF Store!Intents
<1>6. CoordTyped' /\ coord'.pc = "return" /\ coord'.out = Ok("prepared")
  BY <1>1, <1>2 DEF CoordTyped, Coord, AtGeneration
<1>7. inst' = inst /\ ops' = ops /\ work' = work /\ AllOff' /\ vm' = vm
  BY <1>1, <1>2 DEF vars, AllOff, PoweredOff, AtGeneration
<1>8. inst[I].active = o /\ o # NoOp
  BY <1>0, Actor
<1>9. \/ kind = "prepare" /\ inst[I].generation = 1 /\ selected = 0
      \/ kind = "reset" /\ selected = inst[I].generation
  BY <1>0, <1>2, <1>8 DEF InstanceInv, GenerationsInv, FirstGeneration, AtGeneration
<1>10. OneApart' /\ RunningGeneration'
  <2>1. OneApart'
    BY <1>2, <1>3, <1>7, <1>9 DEF OneApart
  <2>2. \A v \in Workers : work[v].pc = "running" => v = w
    BY <1>0, Actor
  <2> QED
    BY <1>0, <1>2, <1>7, <1>9, <2>1, <2>2 DEF RunningGeneration
<1>11. MachinesTyped' /\ OnlySelectedGenerationLives'
  BY <1>7 DEF InstanceInv, MachinesTyped, OnlySelectedGenerationLives, AllOff
<1>12. NoneOf(o)'
  <2>1. NoneOf(o)
    BY <1>2, NothingDeclared DEF AtGeneration, Intent, Store!Absent
  <2> QED
    BY <1>3, <2>1 DEF NoneOf
<1>13. Ending(w, Ok("prepared"))'
  <2>1. GenerationAfter(inst[I], kind, Ok("prepared"), work[w].gen) = selected'
    BY <1>2, <1>3, <1>9 DEF GenerationAfter, Ok
  <2> QED
    BY <1>0, <1>4, <1>5, <1>7, <1>12, <2>1 DEF Ending, Sound, Ok, AllRecorded, NoneOf
<1>14. StepOK(w)'
  BY <1>0, <1>3, <1>6, <1>7, <1>13, OutcomesFit DEF StepOK, Places
<1> QED
  BY <1>0, <1>1, <1>3, <1>4, <1>6, <1>10, <1>11, <1>14, CoordKeeps

LEMMA StartSettles ==
  ASSUME InstanceInv, NEW w \in Workers, SettleStart(w)
  PROVE  InstanceInv'
<1>0. PICK o \in OpIds, kind \in AllKinds : o = work[w].op /\ kind = ops[o].kind /\ work[w].pc = "running"
  <2>1. work[w].pc = "running"
    BY DEF SettleStart, Executing
  <2> QED
    BY <2>1, Actor
<1>1. PICK p \in OpIds : Store!FinishOp(p, "reconciled")
  BY DEF SettleStart, Store!Intents
<1>2. coord.pc = "start" /\ coord' = coord /\ UNCHANGED <<vars, vm>>
  BY DEF SettleStart, AtPc, Goto
<1>3. call = {} /\ coord = AtRest /\ CoordTyped
  BY <1>0, <1>2, AtWork DEF StepOK
<1>4. "reconciled" \in Store!StoreResults \ {"prepared"}
  BY DEF Store!StoreResults
<1>5. /\ [Store!StoreNext]_store
      /\ selected' = selected /\ effects' = effects /\ call' = call
      /\ ledger[p].state = "intent" /\ ledger'[p].state = "completed"
      /\ ledger'[p].action = ledger[p].action
      /\ \A q \in OpIds : q # p => ledger'[q] = ledger[q]
  BY <1>1, <1>3, <1>4, Settles
<1>6. CoordTyped'
  BY <1>2, <1>3 DEF CoordTyped
<1>7. StepOK(w)'
  BY <1>2, <1>3, <1>5 DEF StepOK, Places
<1> QED
  BY <1>0, <1>2, <1>5, <1>6, <1>7, CoordWrites

LEMMA Orders == StartOrder \in Seq(Nodes) /\ StopOrder \in Seq(Nodes)
  BY DEF StopOrder, Nodes

LEMMA NodesBegin ==
  ASSUME InstanceInv, NEW w \in Workers, BeginNodes(w)
  PROVE  InstanceInv'
<1>0. PICK o \in OpIds, kind \in AllKinds : o = work[w].op /\ kind = ops[o].kind /\ work[w].pc = "running"
  <2>1. work[w].pc = "running"
    BY DEF BeginNodes, Executing
  <2> QED
    BY <2>1, Actor
<1>1. /\ coord.pc = "start" /\ selected = work[w].gen /\ Store!Begin(o, kind, selected)
      /\ UNCHANGED <<vars, vm>>
  BY <1>0 DEF BeginNodes, AtPc, Goto
<1>2. PICK todo \in Seq(Nodes) :
        /\ kind \in {"start", "stop"}
        /\ coord' = Coord("visit", todo, FALSE, Ok(IF kind = "start" THEN "process-running" ELSE "stopped"))
  BY <1>0, Orders DEF BeginNodes, Executing, Goto
<1>3. call = {} /\ selected = inst[I].generation
  BY <1>0, <1>1, <1>2, AtWork DEF StepOK
<1>4. kind \in Store!StoreActions
  BY <1>2 DEF Store!StoreActions
<1>5. /\ [Store!StoreNext]_store
      /\ selected' = selected /\ effects' = effects /\ call' = call
      /\ ledger'[o].state = "intent" /\ ledger'[o].action = kind
      /\ \A p \in OpIds : p # o => ledger'[p] = ledger[p]
      /\ NoneOf(o)'
  BY <1>1, <1>3, <1>4, Begins
<1>6. /\ CoordTyped' /\ coord'.pc = "visit" /\ ~coord'.touched /\ coord'.todo = todo
      /\ coord'.out = Ok(IF kind = "start" THEN "process-running" ELSE "stopped")
  BY <1>2 DEF CoordTyped, Coord
<1>7. inst' = inst /\ ops' = ops /\ work' = work
  BY <1>1 DEF vars
<1>8. AtNodes(o, kind)' /\ AllRecorded(o)'
  BY <1>2, <1>3, <1>5, <1>6, <1>7 DEF AtNodes, Intent, AllRecorded, NoneOf
<1>9. StepOK(w)'
  BY <1>0, <1>3, <1>5, <1>6, <1>7, <1>8 DEF StepOK, Places
<1> QED
  BY <1>0, <1>1, <1>5, <1>6, <1>9, CoordWrites

LEMMA VisitIsCancelled ==
  ASSUME InstanceInv, NEW w \in Workers, VisitCancelled(w)
  PROVE  InstanceInv'
<1>0. PICK o \in OpIds, kind \in AllKinds : o = work[w].op /\ kind = ops[o].kind /\ work[w].pc = "running"
  <2>1. work[w].pc = "running"
    BY DEF VisitCancelled, Visiting
  <2> QED
    BY <2>1, Actor
<1>1. /\ coord.pc = "visit" /\ ~coord.touched /\ AllAre(selected, "off")
      /\ coord' = Coord("cancelled", <<>>, FALSE, CancelledIn("stopped"))
      /\ UNCHANGED <<vars, store, vm>>
  BY DEF VisitCancelled, Visiting, AtPc, Goto
<1>2. call = {} /\ AtNodes(o, kind)
  BY <1>0, <1>1, AtWork DEF StepOK
<1>3. CoordTyped' /\ coord'.pc = "cancelled" /\ coord'.out = CancelledIn("stopped")
  BY <1>1 DEF CoordTyped, Coord
<1>4. /\ ops' = ops /\ work' = work /\ call' = call /\ inst' = inst /\ selected' = selected
      /\ ledger' = ledger /\ effects' = effects /\ vm' = vm
  BY <1>1 DEF vars, store
<1>5. AllOff'
  BY <1>1, <1>4, SeenOff DEF AllOff, PoweredOff
<1>6. AtCancelled(o, kind)'
  BY <1>1, <1>2, <1>3, <1>4, <1>5 DEF AtCancelled, AtNodes, Changing, Intent, NoneOf
<1>7. StepOK(w)'
  BY <1>0, <1>2, <1>3, <1>4, <1>6 DEF StepOK, Places
<1> QED
  BY <1>0, <1>1, <1>3, <1>7, CoordMoves

LEMMA NodeIsVisited ==
  ASSUME InstanceInv, NEW w \in Workers, VisitNode(w)
  PROVE  InstanceInv'
<1>0. PICK o \in OpIds, kind \in AllKinds : o = work[w].op /\ kind = ops[o].kind /\ work[w].pc = "running"
  <2>1. work[w].pc = "running"
    BY DEF VisitNode, Visiting
  <2> QED
    BY <2>1, Actor
<1>1. coord.pc = "visit" /\ coord.todo # <<>>
  BY DEF VisitNode, Visiting, AtPc
<1>2. /\ call = {} /\ AtNodes(o, kind) /\ AllRecorded(o) /\ CoordTyped
      /\ ledger[o] # Store!Absent => ledger[o].action = kind
  BY <1>0, <1>1, AtWork DEF StepOK
<1>3. /\ kind \in {"start", "stop"} /\ Action = kind /\ ledger[o].state = "intent" /\ ledger[o].action = kind
      /\ coord.todo \in Seq(Nodes)
  BY <1>2 DEF AtNodes, Action, Ok, Intent, Store!Absent
<1>4. Head(coord.todo) \in Nodes /\ Tail(coord.todo) \in Seq(Nodes)
  BY <1>1, <1>3
<1>5. UNCHANGED <<vars, vm>>
  BY DEF VisitNode, Goto
<1>6. inst' = inst /\ ops' = ops /\ work' = work /\ vm' = vm
  BY <1>5 DEF vars
<1>7. CASE coord' = [coord EXCEPT !.todo = Tail(coord.todo)] /\ UNCHANGED store
  <2>1. /\ CoordTyped' /\ coord'.pc = "visit" /\ coord'.todo = Tail(coord.todo)
        /\ coord'.touched = coord.touched /\ coord'.out = coord.out
    BY <1>1, <1>2, <1>7 DEF CoordTyped, Coord
  <2>2. selected' = selected /\ ledger' = ledger /\ effects' = effects /\ call' = call
    BY <1>7 DEF store
  <2>3. AtNodes(o, kind)' /\ AllRecorded(o)'
    BY <1>2, <1>4, <1>6, <2>1, <2>2 DEF AtNodes, Intent, AllRecorded, NoneOf
  <2>4. StepOK(w)'
    BY <1>0, <1>2, <1>6, <2>1, <2>2, <2>3 DEF StepOK, Places
  <2> QED
    BY <1>0, <1>5, <1>7, <2>1, <2>4, CoordMoves
<1>8. CASE /\ Store!EffectIntent(o, Head(coord.todo), kind)
           /\ coord' = [coord EXCEPT !.pc = "act", !.touched = TRUE]
  <2>1. coord' = Coord("act", coord.todo, TRUE, coord.out)
    BY <1>2, <1>8 DEF CoordTyped, Coord
  <2>2. /\ CoordTyped' /\ coord'.pc = "act" /\ coord'.todo = coord.todo
        /\ coord'.touched /\ coord'.out = coord.out
    BY <2>1 DEF CoordTyped, Coord
  <2>3. /\ selected' = selected /\ ledger' = ledger /\ call' = call
        /\ effects' = effects \cup {Declared(o, Head(coord.todo), kind)}
    BY <1>8 DEF Store!EffectIntent, Declared
  <2>4. Store!StoreNext
    BY <1>2, <1>3, <1>4, <1>8 DEF Store!StoreNext, Store!StoreCaller, Store!NoCall
  <2>5. AtNodes(o, kind)'
    BY <1>2, <1>6, <2>2, <2>3 DEF AtNodes, Intent
  <2>6. AtNode(o, kind)'
    BY <1>1, <1>2, <2>2, <2>3 DEF AtNode, AllRecorded
  <2>7. StepOK(w)'
    BY <1>0, <1>2, <1>6, <2>2, <2>3, <2>5, <2>6 DEF StepOK, Places
  <2>8. \A e \in effects' : \/ e \in effects
                            \/ e.op = o /\ ledger'[o] # Store!Absent /\ e.action = ledger'[o].action
    BY <1>3, <2>3 DEF Declared, Store!Absent
  <2> QED
    BY <1>0, <1>5, <1>6, <2>2, <2>3, <2>4, <2>7, <2>8, CoordWrites
<1> QED
  BY <1>0, <1>3, <1>7, <1>8 DEF VisitNode, Goto

(* At one node: the effect is declared, and nothing else of the operation is open. *)
LEMMA AtOneNode ==
  ASSUME InstanceInv, NEW w \in Workers, work[w].pc = "running", coord.pc \in {"act", "await"},
         NEW o, o = work[w].op, NEW kind, kind = ops[o].kind
  PROVE  /\ call = {} /\ AtNodes(o, kind) /\ AtNode(o, kind) /\ CoordTyped
         /\ kind \in {"start", "stop"} /\ Action = kind
         /\ ledger[o].state = "intent" /\ ledger[o].action = kind
         /\ Head(coord.todo) \in Nodes /\ Tail(coord.todo) \in Seq(Nodes)
         /\ Declared(o, Head(coord.todo), kind) \in effects
         /\ selected = inst[I].generation /\ selected \in Generations
         /\ work[w].gen = selected
<1>1. /\ call = {} /\ AtNodes(o, kind) /\ AtNode(o, kind) /\ CoordTyped
      /\ ledger[o] # Store!Absent => ledger[o].action = kind
      /\ selected \in 0..MaxGen /\ inst[I].generation > 0
      /\ work[w].gen = IF kind = "recover" THEN selected ELSE inst[I].generation
  BY AtWork DEF StepOK
<1>2. /\ kind \in {"start", "stop"} /\ Action = kind /\ ledger[o].state = "intent" /\ ledger[o].action = kind
      /\ coord.todo \in Seq(Nodes) /\ coord.todo # <<>> /\ selected = inst[I].generation
  BY <1>1 DEF AtNodes, AtNode, Action, Ok, Intent, Store!Absent
<1>3. Head(coord.todo) \in Nodes /\ Tail(coord.todo) \in Seq(Nodes)
  BY <1>2
<1> QED
  BY <1>1, <1>2, <1>3 DEF AtNode, Generations

LEMMA NodeIsLaunched ==
  ASSUME InstanceInv, NEW w \in Workers, Launch(w)
  PROVE  InstanceInv'
<1>0. PICK o \in OpIds, kind \in AllKinds : o = work[w].op /\ kind = ops[o].kind /\ work[w].pc = "running"
  <2>1. work[w].pc = "running"
    BY DEF Launch
  <2> QED
    BY <2>1, Actor
<1>1. /\ coord.pc = "act"
      /\ vm' = [vm EXCEPT ![selected] = [vm[selected] EXCEPT ![Head(coord.todo)] = "launching"]]
      /\ coord' = [coord EXCEPT !.pc = "await"]
      /\ UNCHANGED <<vars, store>>
  BY DEF Launch, AtPc
<1>2. /\ call = {} /\ AtNodes(o, kind) /\ AtNode(o, kind) /\ CoordTyped
      /\ Head(coord.todo) \in Nodes /\ selected \in Generations
  BY <1>0, <1>1, AtOneNode
<1>3. /\ CoordTyped' /\ coord'.pc = "await" /\ coord'.todo = coord.todo
      /\ coord'.touched = coord.touched /\ coord'.out = coord.out
  BY <1>1, <1>2 DEF CoordTyped, Coord
<1>4. /\ inst' = inst /\ ops' = ops /\ work' = work
      /\ selected' = selected /\ ledger' = ledger /\ effects' = effects /\ call' = call /\ store' = store
  BY <1>1 DEF vars, store
<1>5. AtNodes(o, kind)' /\ AtNode(o, kind)'
  BY <1>2, <1>3, <1>4 DEF AtNodes, AtNode, Intent, NoneOf
<1>6. StepOK(w)'
  BY <1>0, <1>2, <1>3, <1>4, <1>5 DEF StepOK, Places
<1>7. MachinesTyped'
  BY <1>1, <1>2 DEF InstanceInv, MachinesTyped, MachineStates
<1>8. OnlySelectedGenerationLives'
  <2>1. \A g \in Generations : g # selected => vm'[g] = vm[g]
    BY <1>1 DEF InstanceInv, MachinesTyped
  <2> QED
    BY <1>4, <2>1 DEF InstanceInv, GenerationsInv, OnlySelectedGenerationLives, PoweredOff
<1>9. OneApart' /\ RunningGeneration'
  BY <1>4 DEF InstanceInv, GenerationsInv, OneApart, Present, RunningGeneration
<1> QED
  BY <1>0, <1>1, <1>3, <1>4, <1>6, <1>7, <1>8, <1>9, CoordKeeps

LEMMA NodeIsAsked ==
  ASSUME InstanceInv, NEW w \in Workers, AskToStop(w)
  PROVE  InstanceInv'
<1>0. PICK o \in OpIds, kind \in AllKinds : o = work[w].op /\ kind = ops[o].kind /\ work[w].pc = "running"
  <2>1. work[w].pc = "running"
    BY DEF AskToStop
  <2> QED
    BY <2>1, Actor
<1>1. /\ coord.pc = "act" /\ coord' = [coord EXCEPT !.pc = "await"]
      /\ UNCHANGED <<vars, store, vm>>
  BY DEF AskToStop, AtPc, Goto
<1>2. call = {} /\ AtNodes(o, kind) /\ AtNode(o, kind) /\ CoordTyped
  BY <1>0, <1>1, AtOneNode
<1>3. /\ CoordTyped' /\ coord'.pc = "await" /\ coord'.todo = coord.todo
      /\ coord'.touched = coord.touched /\ coord'.out = coord.out
  BY <1>1, <1>2 DEF CoordTyped, Coord
<1>4. /\ inst' = inst /\ ops' = ops /\ work' = work
      /\ selected' = selected /\ ledger' = ledger /\ effects' = effects /\ call' = call
  BY <1>1 DEF vars, store
<1>5. AtNodes(o, kind)' /\ AtNode(o, kind)'
  BY <1>2, <1>3, <1>4 DEF AtNodes, AtNode, Intent, NoneOf
<1>6. StepOK(w)'
  BY <1>0, <1>2, <1>3, <1>4, <1>5 DEF StepOK, Places
<1> QED
  BY <1>0, <1>1, <1>3, <1>6, CoordMoves

LEMMA NodeIsConfirmed ==
  ASSUME InstanceInv, NEW w \in Workers, Confirm(w)
  PROVE  InstanceInv'
<1>0. PICK o \in OpIds, kind \in AllKinds : o = work[w].op /\ kind = ops[o].kind /\ work[w].pc = "running"
  <2>1. work[w].pc = "running"
    BY DEF Confirm
  <2> QED
    BY <2>1, Actor
<1>1. /\ coord.pc = "await" /\ Store!EffectRecorded(o, Head(coord.todo), Action)
      /\ coord' = [coord EXCEPT !.pc = "visit", !.todo = Tail(coord.todo)]
      /\ UNCHANGED <<vars, vm>>
  BY <1>0 DEF Confirm, AtPc, Goto
<1>2. /\ call = {} /\ AtNodes(o, kind) /\ AtNode(o, kind) /\ CoordTyped
      /\ kind \in {"start", "stop"} /\ Action = kind
      /\ ledger[o].state = "intent" /\ ledger[o].action = kind
      /\ Head(coord.todo) \in Nodes /\ Tail(coord.todo) \in Seq(Nodes)
  BY <1>0, <1>1, AtOneNode
<1>3. coord' = Coord("visit", Tail(coord.todo), coord.touched, coord.out)
  BY <1>1, <1>2 DEF CoordTyped, Coord
<1>4. /\ CoordTyped' /\ coord'.pc = "visit" /\ coord'.todo = Tail(coord.todo)
      /\ coord'.touched = coord.touched /\ coord'.out = coord.out
  BY <1>3 DEF CoordTyped, Coord
<1>5. PICK done : done = [op |-> o, node |-> Head(coord.todo), action |-> kind, state |-> "recorded"]
  OBVIOUS
<1>6. /\ selected' = selected /\ ledger' = ledger /\ call' = call
      /\ effects' = (effects \ {Declared(o, Head(coord.todo), kind)}) \cup {done}
  BY <1>1, <1>2, <1>5 DEF Store!EffectRecorded, Declared
<1>7. done.op = o /\ done.action = kind /\ done.state = "recorded"
  BY <1>5
<1>8. Store!StoreNext
  BY <1>1, <1>2 DEF Store!StoreNext, Store!StoreCaller, Store!NoCall
<1>9. inst' = inst /\ ops' = ops /\ work' = work /\ vm' = vm
  BY <1>1 DEF vars
<1>10. AllRecorded(o)'
  BY <1>2, <1>6, <1>7 DEF AtNode, AllRecorded
<1>11. AtNodes(o, kind)'
  BY <1>2, <1>4, <1>6, <1>9 DEF AtNodes, AtNode, Intent
<1>12. StepOK(w)'
  BY <1>0, <1>2, <1>4, <1>6, <1>9, <1>10, <1>11 DEF StepOK, Places
<1>13. \A e \in effects' : \/ e \in effects
                           \/ e.op = o /\ ledger'[o] # Store!Absent /\ e.action = ledger'[o].action
  BY <1>2, <1>6, <1>7 DEF Store!Absent
<1> QED
  BY <1>0, <1>1, <1>4, <1>6, <1>8, <1>9, <1>12, <1>13, CoordWrites

LEMMA NodesClose ==
  ASSUME InstanceInv, NEW w \in Workers, CloseNodes(w)
  PROVE  InstanceInv'
<1>0. PICK o \in OpIds, kind \in AllKinds : o = work[w].op /\ kind = ops[o].kind /\ work[w].pc = "running"
  <2>1. work[w].pc = "running"
    BY DEF CloseNodes, Visiting
  <2> QED
    BY <2>1, Actor
<1>1. /\ coord.pc = "visit" /\ AllAre(selected, Target) /\ Store!FinishOp(o, coord.out.state)
      /\ coord' = [coord EXCEPT !.pc = "return"]
      /\ UNCHANGED <<vars, vm>>
  BY <1>0 DEF CloseNodes, Visiting, AtPc, Goto
<1>2. /\ call = {} /\ AtNodes(o, kind) /\ AllRecorded(o) /\ CoordTyped
      /\ work[w].gen = IF kind = "recover" THEN selected ELSE inst[I].generation
  BY <1>0, <1>1, AtWork DEF StepOK
<1>3. PICK out, state :
        /\ out = coord.out /\ out = Ok(state)
        /\ \/ kind = "start" /\ state = "process-running"
           \/ kind = "stop" /\ state = "stopped"
  BY <1>2 DEF AtNodes
<1>4. /\ out \in Outcome /\ ~out.error /\ ~out.cancelled /\ out.state = state
  <2>1. out \in Outcome
    BY <1>3, OutcomesFit
  <2> QED
    BY <1>3, <2>1 DEF Ok
<1>5. state \in Store!StoreResults \ {"prepared"}
  BY <1>3 DEF Store!StoreResults
<1>6. /\ [Store!StoreNext]_store
      /\ selected' = selected /\ effects' = effects /\ call' = call
      /\ ledger[o].state = "intent" /\ ledger'[o].state = "completed"
      /\ ledger'[o].action = ledger[o].action
      /\ \A q \in OpIds : q # o => ledger'[q] = ledger[q]
      /\ Store!Intents' = {}
  BY <1>1, <1>2, <1>3, <1>4, <1>5, Settles
<1>7. CoordTyped' /\ coord'.pc = "return" /\ coord'.out = coord.out
  BY <1>1, <1>2 DEF CoordTyped, Coord
<1>8. inst' = inst /\ ops' = ops /\ work' = work
  BY <1>1 DEF vars
<1>9. state = "stopped" => AllOff'
  <2>1. state = "stopped" => AllAre(selected, "off")
    BY <1>1, <1>3, <1>4 DEF Target
  <2> QED
    BY <1>1, <2>1, SeenOff DEF AllOff, PoweredOff
<1>10. GenerationAfter(inst[I], kind, out, work[w].gen) = inst[I].generation
  BY <1>3, <1>4 DEF GenerationAfter
<1>11. AllRecorded(o)' /\ selected = inst[I].generation
  BY <1>2, <1>6 DEF AllRecorded, AtNodes
<1>12. Ending(w, out)'
  BY <1>0, <1>3, <1>4, <1>6, <1>8, <1>9, <1>10, <1>11 DEF Ending, Sound
<1>13. StepOK(w)'
  BY <1>0, <1>2, <1>3, <1>4, <1>6, <1>7, <1>8, <1>12 DEF StepOK, Places
<1> QED
  BY <1>0, <1>1, <1>6, <1>7, <1>13, CoordWrites

-----------------------------------------------------------------------------
LEMMA InitialInstance == InstanceInit => InstanceInv
<1> SUFFICES ASSUME InstanceInit PROVE InstanceInv
  OBVIOUS
<1>1. ServiceInv /\ Store!StoreInv
  BY InitialService, StoreStarts DEF InstanceInit
<1>2. Recorded = {} /\ inst[I] = NoRow /\ inst[I].active = NoOp /\ ~Present(I)
  BY DEF InstanceInit, Init, Recorded, NoRow, Present
<1>3. \A w \in Workers : work[w].pc = "idle"
  BY DEF InstanceInit, Init, Idle, At
<1>4. /\ selected = 0 /\ effects = {} /\ call = {} /\ coord = AtRest
      /\ \A o \in OpIds : ledger[o] = Store!Absent
  BY DEF InstanceInit, Store!StoreInit, Store!NoCall
<1>5. MachinesTyped /\ \A g \in Generations : PoweredOff(g)
  BY DEF InstanceInit, MachinesTyped, MachineStates, PoweredOff
<1>6. CoordTyped
  BY <1>4 DEF CoordTyped, Coord, AtRest
<1>7. LedgersInv
  BY <1>2, <1>3, <1>4 DEF LedgersInv, LedgerOfOperations, EffectsOfOperations, UnclaimedUndeclared,
     CancelledIsSettled, CompletedMeansDone
<1>8. GenerationsInv
  BY <1>2, <1>3, <1>4, <1>5 DEF GenerationsInv, FirstGeneration, NothingSelectedBefore, OneApart,
     RunningGeneration, OnlySelectedGenerationLives
<1> QED
  BY <1>1, <1>2, <1>3, <1>4, <1>5, <1>6, <1>7, <1>8 DEF InstanceInv, RestsOutsideExecute, IdleSound,
     HeldSound, Finishing, Working

(* A machine that comes up or powers off on its own changes nothing that the
   service, the store or the coordinator know: what is off stays off. *)
LEMMA MachinesLive ==
  ASSUME InstanceInv, NEW g \in Generations, NEW n \in Nodes, MachineUp(g, n) \/ MachineOff(g, n)
  PROVE  InstanceInv'
<1>1. /\ UNCHANGED vars /\ UNCHANGED store /\ coord' = coord
      /\ vm[g][n] # "off"
      /\ \E state \in MachineStates : vm' = [vm EXCEPT ![g] = [vm[g] EXCEPT ![n] = state]]
  BY DEF MachineUp, MachineOff, MachineStates
<1>2. MachinesTyped' /\ \A h \in Generations : PoweredOff(h) => PoweredOff(h)'
  BY <1>1 DEF InstanceInv, MachinesTyped, PoweredOff
<1>3. /\ inst' = inst /\ ops' = ops /\ rows' = rows /\ work' = work /\ gate' = gate /\ executed' = executed
      /\ selected' = selected /\ ledger' = ledger /\ effects' = effects /\ call' = call
      /\ generations' = generations /\ Recorded' = Recorded /\ Store!Intents' = Store!Intents
  BY <1>1 DEF vars, store, Recorded, Store!Intents
<1>4. ServiceInv' /\ Store!StoreInv'
  BY <1>1, ServiceStep, StoreSteps DEF InstanceInv
<1>5. AllOff => AllOff'
  BY <1>2 DEF AllOff
<1>6. \A h, state : Sound(h, state) => Sound(h, state)'
  BY <1>3, <1>5 DEF Sound
<1>7. LedgersInv'
  BY <1>3 DEF InstanceInv, LedgersInv, LedgerOfOperations, EffectsOfOperations, UnclaimedUndeclared,
     CancelledIsSettled, CompletedMeansDone, NoneOf
<1>8. GenerationsInv'
  BY <1>2, <1>3 DEF InstanceInv, GenerationsInv, FirstGeneration, NothingSelectedBefore, OneApart,
     RunningGeneration, OnlySelectedGenerationLives, Present
<1>9. IdleSound' /\ HeldSound'
  BY <1>3, <1>6 DEF InstanceInv, IdleSound, HeldSound, Present
<1>10. ASSUME NEW w \in Workers, NEW out PROVE Ending(w, out) => Ending(w, out)'
  BY <1>3, <1>6 DEF Ending, Intent, NoneOf, AllRecorded
<1>11. Finishing'
  BY <1>3, <1>10 DEF InstanceInv, Finishing
<1>12. ASSUME NEW w \in Workers, StepOK(w) PROVE StepOK(w)'
  BY <1>1, <1>3, <1>5, <1>10, <1>12 DEF StepOK, AtReconcile, AtGeneration, AtCancelled, AtNodes, AtNode,
     Intent, NoneOf, AllRecorded
<1>13. Working'
  BY <1>3, <1>12 DEF InstanceInv, Working
<1> QED
  BY <1>1, <1>2, <1>3, <1>4, <1>7, <1>8, <1>9, <1>11, <1>13 DEF InstanceInv, CoordTyped, RestsOutsideExecute

-----------------------------------------------------------------------------
(* A step of a worker's call of execute that is not the coordinator's, or that
   ends the coordinator's part: the tables and the machines stay, and the
   coordinator rests before it or is made to. *)
LEMMA WorkerKeeps ==
  ASSUME InstanceInv, ServiceInv', NEW w \in Workers, work[w].pc # "idle",
         NEW local, work' = [work EXCEPT ![w] = local],
         UNCHANGED <<inst, ops, rows, selected, generations, ledger, effects, vm>>,
         coord' = AtRest, call' = {},
         local.pc \in {"idle", "observing", "running", "finish"},
         local.pc # "idle" => local.op = work[w].op,
         local.pc = "observing" => work[w].pc = "claimed",
         local.pc = "running" =>
           local.gen = IF ops[work[w].op].kind = "recover" THEN selected ELSE inst[I].generation,
         local.pc = "finish" => local.gen = work[w].gen /\ Ending(w, local.outcome)
  PROVE  InstanceInv'
<1>1. \A v \in Workers : v # w => work[v].pc = "idle"
  BY Actor
<1>2. /\ work'[w] = local
      /\ \A v \in Workers : v # w => work'[v].pc = "idle"
  BY <1>1 DEF InstanceInv, ServiceInv, TypeOK
<1>3. /\ inst' = inst /\ ops' = ops /\ rows' = rows /\ selected' = selected /\ ledger' = ledger
      /\ effects' = effects /\ generations' = generations /\ vm' = vm
      /\ Recorded' = Recorded /\ Store!Intents' = Store!Intents
  BY DEF Recorded, Store!Intents
<1>4. [Store!StoreNext]_store
  BY <1>3 DEF store, Store!StoreNext, Store!LeaveCall, Store!NoCall
<1>5. Store!StoreInv'
  BY <1>4, StoreSteps DEF InstanceInv
<1>6. MachinesTyped' /\ CoordTyped' /\ RestsOutsideExecute'
  BY <1>3 DEF InstanceInv, MachinesTyped, CoordTyped, RestsOutsideExecute, Coord, AtRest
<1>7. LedgersInv'
  BY <1>2, <1>3 DEF InstanceInv, LedgersInv, LedgerOfOperations, EffectsOfOperations, UnclaimedUndeclared,
     CancelledIsSettled, CompletedMeansDone, NoneOf
<1>8. GenerationsInv'
  BY <1>2, <1>3 DEF InstanceInv, GenerationsInv, FirstGeneration, NothingSelectedBefore, OneApart,
     RunningGeneration, OnlySelectedGenerationLives, Present, PoweredOff
<1>9. IdleSound' /\ HeldSound'
  BY <1>2, <1>3 DEF InstanceInv, IdleSound, HeldSound, Present, Sound, AllOff, PoweredOff
<1>10. Finishing'
  <2> SUFFICES ASSUME local.pc = "finish" PROVE Ending(w, local.outcome)'
    BY <1>2 DEF Finishing
  <2>1. work'[w].op = work[w].op /\ work'[w].gen = work[w].gen
    BY <1>2
  <2>2. PICK out : out = local.outcome /\ Ending(w, out)
    OBVIOUS
  <2>3. Ending(w, out)'
    BY <1>3, <2>1, <2>2 DEF Ending, Sound, AllOff, PoweredOff, Intent, NoneOf, AllRecorded
  <2> QED
    BY <2>2, <2>3
<1>11. Working'
  <2>1. coord'.pc = "start"
    BY DEF AtRest, Coord
  <2>2. StepOK(w)'
    BY <2>1 DEF StepOK, Places
  <2> QED
    BY <1>2, <2>2 DEF Working
<1> QED
  BY <1>5, <1>6, <1>7, <1>8, <1>9, <1>10, <1>11 DEF InstanceInv

(* Where nobody executes, the coordinator rests. *)
LEMMA AtRestOutside ==
  ASSUME InstanceInv, NEW w \in Workers, work[w].pc \notin {"idle", "running"}
  PROVE  coord = AtRest /\ call = {}
BY Actor DEF InstanceInv, RestsOutsideExecute

(* Failing is always possible. *)
LEMMA FailureEnds ==
  ASSUME NEW w \in Workers
  PROVE  Ending(w, Failure("recovery-required"))
BY DEF Ending, Failure, Doubtful

LEMMA Dies ==
  ASSUME InstanceInv, NEW w \in Workers, Die(w) \/ (FinishFails(w) /\ Contract)
  PROVE  InstanceInv'
<1>1. /\ work[w].pc # "idle" /\ work' = [work EXCEPT ![w] = Idle]
      /\ UNCHANGED <<inst, ops, rows, selected, generations, ledger, effects, vm>>
  BY DEF Die, Crash, FinishFails, Leave, Contract, store
<1>2. coord' = AtRest /\ call' = {}
  BY AtRestOutside DEF Die, FinishFails, Contract, store, Store!NoCall
<1>3. [Next]_vars
  BY DEF Die, Next, Work
<1>4. ServiceInv'
  BY <1>3, ServiceStep DEF InstanceInv
<1>5. Idle.pc = "idle"
  BY DEF Idle, At
<1> QED
  BY <1>1, <1>2, <1>4, <1>5, WorkerKeeps

(* A worker decides on the outcome of its operation. *)
LEMMA Decides ==
  ASSUME InstanceInv, ServiceInv', NEW w \in Workers, work[w].pc # "idle",
         NEW out, Decide(w, out), Ending(w, out),
         UNCHANGED <<inst, ops, rows, selected, generations, ledger, effects, vm>>,
         coord' = AtRest, call' = {}
  PROVE  InstanceInv'
<1> DEFINE local == At("finish", work[w].op, work[w].gen, work[w].previous, out)
<1>1. work' = [work EXCEPT ![w] = local]
  BY DEF Decide
<1>2. local.pc = "finish" /\ local.op = work[w].op /\ local.gen = work[w].gen /\ local.outcome = out
  BY DEF At
<1> HIDE DEF local
<1> QED
  BY <1>1, <1>2, WorkerKeeps

LEMMA ObservationFails ==
  ASSUME InstanceInv, NEW w \in Workers, Raise(w) \/ (ObserveFails(w) /\ Contract)
  PROVE  InstanceInv'
<1>1. /\ work[w].pc # "idle" /\ Decide(w, Failure("recovery-required"))
      /\ UNCHANGED <<inst, ops, rows, selected, generations, ledger, effects, vm>>
  BY DEF Raise, BackendRaises, ObserveFails, Contract, store
<1>2. coord' = AtRest /\ call' = {}
  BY AtRestOutside DEF Raise, ObserveFails, Contract, store, Store!NoCall
<1>3. [Next]_vars
  BY DEF Raise, Next, Work
<1>4. ServiceInv'
  BY <1>3, ServiceStep DEF InstanceInv
<1> QED
  BY <1>1, <1>2, <1>4, Decides, FailureEnds

(* The coordinator returns: its outcome was settled before, and is believed or
   becomes a failure. *)
LEMMA Returns ==
  ASSUME InstanceInv, NEW w \in Workers, Return(w)
  PROVE  InstanceInv'
<1>1. PICK out : out = coord.out
  OBVIOUS
<1>2. /\ work[w].pc = "running" /\ coord.pc = "return" /\ Decide(w, Judged(work[w].op, out))
      /\ UNCHANGED <<inst, ops, rows, events, gate, executed>>
      /\ UNCHANGED <<store, vm>> /\ coord' = AtRest
  BY <1>1 DEF Return, AtPc, BackendReturns
<1>3. call = {} /\ Ending(w, out) /\ out \in Outcome
  BY <1>1, <1>2, AtWork DEF StepOK
<1>4. PICK judged : judged = Judged(work[w].op, out)
  OBVIOUS
<1>5. /\ judged \in Outcome /\ judged.state \notin Transients
      /\ judged = out \/ judged = Failure("recovery-required")
  BY <1>3, <1>4, JudgedIsSettled DEF Judged
<1>6. Ending(w, judged)
  BY <1>3, <1>5, FailureEnds
<1>7. TypeOK'
  <2> DEFINE local == At("finish", work[w].op, work[w].gen, work[w].previous, judged)
  <2>1. local \in Local /\ local.op = work[w].op
    BY <1>5 DEF InstanceInv, ServiceInv, TypeOK, Local, At
  <2>2. work' = [work EXCEPT ![w] = local]
    BY <1>2, <1>4 DEF Decide
  <2>3. TypeOK /\ executed' \in [OpIds -> Nat]
    BY <1>2 DEF InstanceInv, ServiceInv, TypeOK
  <2> HIDE DEF local
  <2> QED
    BY <1>2, <2>1, <2>2, <2>3, WorkerTypes
<1>8. ServiceInv'
  BY <1>2, <1>4, <1>5, <1>7, DecideKeeps DEF InstanceInv
<1> QED
  BY <1>2, <1>3, <1>4, <1>6, <1>8, Decides DEF store

(* An operation cancelled before it was executed gives back the state that was
   there before, and has done nothing. *)
LEMMA CancelIsChecked ==
  ASSUME InstanceInv, NEW w \in Workers, CheckCancel(w), Contract
  PROVE  InstanceInv'
<1>0. PICK o \in OpIds, kind \in AllKinds : o = work[w].op /\ kind = ops[o].kind /\ work[w].pc = "claimed"
  <2>1. work[w].pc = "claimed"
    BY DEF CheckCancel
  <2> QED
    BY <2>1, Actor
<1>1. /\ UNCHANGED <<inst, ops, rows, selected, generations, ledger, effects, vm>>
      /\ coord' = AtRest /\ call' = {}
  BY <1>0, AtRestOutside DEF CheckCancel, Contract, store
<1>2. ServiceInv'
  <2>1. [Next]_vars
    BY DEF Next, Work
  <2> QED
    BY <2>1, ServiceStep DEF InstanceInv
<1>3. work[w].gen = inst[I].generation
  BY <1>0, Actor DEF InstanceInv, ServiceInv, GenerationSeen, InstanceOf
<1>4. CASE Decide(w, Judged(o, [state |-> work[w].previous, cancelled |-> TRUE, error |-> FALSE]))
  <2>1. PICK early : early = [state |-> work[w].previous, cancelled |-> TRUE, error |-> FALSE]
    OBVIOUS
  <2>2. early.state = work[w].previous /\ early.cancelled /\ ~early.error
    BY <2>1
  <2>3. Sound(inst[I].generation, early.state)
    BY <1>0, <2>2 DEF InstanceInv, HeldSound
  <2>4. ledger[o] = Store!Absent
    BY <1>0 DEF InstanceInv, LedgersInv, UnclaimedUndeclared
  <2>5. NoneOf(o) /\ ~Intent(o) /\ ledger[o].result # "prepared"
    BY <2>4, NothingDeclared DEF Store!Absent
  <2>6. Ending(w, early)
    BY <1>0, <2>2, <2>3, <2>5 DEF Ending, GenerationAfter
  <2>7. PICK judged : judged = Judged(o, early)
    OBVIOUS
  <2>8. Ending(w, judged)
    BY <2>6, <2>7, FailureEnds DEF Judged
  <2> QED
    BY <1>0, <1>1, <1>2, <1>4, <2>1, <2>7, <2>8, Decides
<1>5. CASE kind = "prepare" /\ Call(w, work[w].gen)
  <2> DEFINE local == At("running", work[w].op, work[w].gen, work[w].previous, work[w].outcome)
  <2>1. work' = [work EXCEPT ![w] = local]
    BY <1>5 DEF Call
  <2>2. local.pc = "running" /\ local.op = work[w].op /\ local.gen = work[w].gen
    BY DEF At
  <2> HIDE DEF local
  <2> QED
    BY <1>0, <1>1, <1>2, <1>3, <1>5, <2>1, <2>2, WorkerKeeps
<1>6. CASE work' = [work EXCEPT ![w].pc = "observing"]
  <2> DEFINE local == [work[w] EXCEPT !.pc = "observing"]
  <2>1. local.pc = "observing" /\ local.op = work[w].op
    BY DEF InstanceInv, ServiceInv, TypeOK, Local
  <2>2. work' = [work EXCEPT ![w] = local]
    BY <1>6 DEF InstanceInv, ServiceInv, TypeOK
  <2> HIDE DEF local
  <2> QED
    BY <1>0, <1>1, <1>2, <2>1, <2>2, WorkerKeeps
<1> QED
  BY <1>0, <1>4, <1>5, <1>6 DEF CheckCancel

LEMMA InstanceIsObserved ==
  ASSUME InstanceInv, NEW w \in Workers, ObserveInstance(w)
  PROVE  InstanceInv'
<1>0. PICK o \in OpIds, kind \in AllKinds : o = work[w].op /\ kind = ops[o].kind /\ work[w].pc = "observing"
  <2>1. work[w].pc = "observing"
    BY DEF ObserveInstance, Observe
  <2> QED
    BY <2>1, Actor
<1>1. /\ selected = work[w].gen \/ (kind = "recover" /\ selected = work[w].gen + 1)
      /\ Call(w, selected)
      /\ UNCHANGED <<inst, ops, rows, events, gate>>
      /\ UNCHANGED <<store, vm, coord>>
  BY <1>0 DEF ObserveInstance, Observe, Contract
<1>2. /\ UNCHANGED <<inst, ops, rows, selected, generations, ledger, effects, vm>>
      /\ coord' = AtRest /\ call' = {}
  BY <1>0, <1>1, AtRestOutside DEF store
<1>3. selected \in Nat /\ work[w].gen = inst[I].generation
  <2>1. ops[work[w].op].inst = I /\ work[w].pc = "observing"
    BY <1>0, Actor
  <2>2. GenerationSeen
    BY DEF InstanceInv, ServiceInv
  <2> QED
    BY <2>1, <2>2, Basics DEF GenerationSeen, InstanceOf
<1> DEFINE local == At("running", work[w].op, selected, work[w].previous, work[w].outcome)
<1>4. /\ work' = [work EXCEPT ![w] = local]
      /\ executed' = [executed EXCEPT ![work[w].op] = @ + 1]
  BY <1>1 DEF Call
<1>5. local.pc = "running" /\ local.op = work[w].op /\ local.gen = selected
  BY DEF At
<1>6. local \in Local
  BY <1>3 DEF InstanceInv, ServiceInv, TypeOK, Local, At
<1> HIDE DEF local
<1>7. TypeOK'
  <2>1. TypeOK
    BY DEF InstanceInv, ServiceInv
  <2>2. executed' \in [OpIds -> Nat]
    BY <1>0, <1>4, <2>1 DEF TypeOK
  <2> QED
    BY <1>0, <1>1, <1>4, <1>5, <1>6, <2>1, <2>2, WorkerTypes
<1>8. ServiceInv'
  BY <1>0, <1>1, <1>3, <1>7, CallKeeps DEF InstanceInv
<1> QED
  BY <1>0, <1>1, <1>2, <1>3, <1>4, <1>5, <1>8, WorkerKeeps

LEMMA ClaimTakes ==
  ASSUME InstanceInv, NEW w \in Workers, NEW o \in OpIds, Claim(w, o), Contract
  PROVE  InstanceInv'
<1>1. /\ o \in Recorded /\ inst[I].active = o /\ ops[o].inst = I
      /\ ops[o].status = "pending" /\ rows' = rows
      /\ ops'[o].status = "executing" /\ ops'[o].response = ops[o].response
      /\ \A q \in Recorded : q # o => ops'[q] = ops[q]
      /\ inst'[I].active = o /\ inst'[I].state = inst[I].state
      /\ inst'[I].generation = inst[I].generation
  <2>1. o \in Recorded /\ ops[o].inst = I
    BY Basics DEF Claim, Claimable
  <2> QED
    BY <2>1, ClaimEffects, Basics DEF InstanceInv
<1>2. ops'[o].kind = ops[o].kind
  <2>1. ops' = [ops EXCEPT ![o] = [ops[o] EXCEPT !.status = "executing"]]
    BY DEF Claim
  <2> QED
    BY <1>1, <2>1, Basics DEF OperationRow
<1>3. \A v \in Workers : work[v].pc = "idle"
  <2>1. \A v \in Workers : gate # v
    BY DEF Claim
  <2> QED
    BY <2>1, Actor
<1>4. PICK local : /\ local = At("claimed", o, inst[I].generation, inst[I].previous, Failure("unknown"))
                   /\ work' = [work EXCEPT ![w] = local]
  BY <1>1 DEF Claim
<1>5. local.pc = "claimed" /\ local.op = o /\ local.previous = inst[I].previous
  BY <1>4 DEF At
<1>6. /\ work'[w] = local
      /\ \A v \in Workers : v # w => work'[v].pc = "idle"
  BY <1>3, <1>4 DEF InstanceInv, ServiceInv, TypeOK
<1>7. /\ selected' = selected /\ ledger' = ledger /\ effects' = effects /\ call' = call
      /\ generations' = generations /\ vm' = vm /\ coord' = coord /\ store' = store
      /\ Store!Intents' = Store!Intents /\ Recorded' = Recorded
  BY <1>1 DEF Contract, store, Store!Intents, Recorded
<1>8. ServiceInv' /\ Store!StoreInv'
  <2>1. [Next]_vars
    BY DEF Next, Work
  <2> QED
    BY <1>7, <2>1, ServiceStep, StoreSteps DEF InstanceInv
<1>9. /\ coord' = AtRest /\ call' = {} /\ MachinesTyped' /\ CoordTyped'
  BY <1>3, <1>7 DEF InstanceInv, RestsOutsideExecute, MachinesTyped, CoordTyped
<1>10. ledger[o] = Store!Absent
  BY <1>1 DEF InstanceInv, LedgersInv, LedgerOfOperations
<1>11. LedgersInv'
  <2>1. LedgerOfOperations'
    BY <1>1, <1>7, <1>10 DEF InstanceInv, LedgersInv, LedgerOfOperations
  <2>2. EffectsOfOperations' /\ UnclaimedUndeclared'
    BY <1>5, <1>6, <1>7, <1>10 DEF InstanceInv, LedgersInv, EffectsOfOperations, UnclaimedUndeclared
  <2>3. CancelledIsSettled' /\ CompletedMeansDone'
    BY <1>1, <1>7 DEF InstanceInv, LedgersInv, CancelledIsSettled, CompletedMeansDone, NoneOf
  <2> QED
    BY <2>1, <2>2, <2>3 DEF LedgersInv
<1>12. GenerationsInv'
  BY <1>1, <1>2, <1>5, <1>6, <1>7 DEF InstanceInv, GenerationsInv, FirstGeneration, NothingSelectedBefore,
     OneApart, RunningGeneration, OnlySelectedGenerationLives, Present, PoweredOff
<1>13. Sound(inst[I].generation, inst[I].previous)
  BY <1>1, Basics DEF InstanceInv, HeldSound
<1>14. HeldSound'
  <2>1. inst[I].previous = local.previous
    BY <1>5
  <2>2. Sound(inst[I].generation, local.previous)'
    BY <1>1, <1>4, <1>7, <1>13, <2>1 DEF Sound, AllOff, PoweredOff
  <2> QED
    BY <1>1, <1>5, <1>6, <2>2 DEF HeldSound
<1>15. IdleSound'
  BY <1>1, Basics DEF IdleSound
<1>16. RestsOutsideExecute' /\ Finishing' /\ Working'
  BY <1>5, <1>6, <1>9 DEF RestsOutsideExecute, Finishing, Working
<1> QED
  BY <1>8, <1>9, <1>11, <1>12, <1>14, <1>15, <1>16 DEF InstanceInv

LEMMA Finishes ==
  ASSUME InstanceInv, NEW w \in Workers, Finish(w), Contract
  PROVE  InstanceInv'
<1>0. PICK o \in OpIds, kind \in AllKinds, out \in Outcome, gen \in Nat :
        /\ o = work[w].op /\ kind = ops[o].kind /\ out = work[w].outcome /\ gen = work[w].gen
        /\ work[w].pc = "finish"
  <2>1. work[w].pc = "finish"
    BY DEF Finish
  <2>2. work[w].outcome \in Outcome
    BY DEF InstanceInv, ServiceInv, TypeOK, Local
  <2> QED
    BY <2>1, <2>2, Actor
<1>1. /\ o \in Recorded /\ o # NoOp /\ inst[I].active = o /\ ops[o].inst = I /\ Present(I)
      /\ ops[o].status = "executing"
      /\ \A v \in Workers : v # w => work[v].pc = "idle"
  BY <1>0, Actor
<1>2. /\ rows' = rows /\ Leave(w)
      /\ ops'[o].status \in {"failed", "completed"}
      /\ ops'[o].status = "completed" => ~out.error
      /\ ops'[o].response.cancelled = out.cancelled
      /\ ops'[o].kind = kind
      /\ \A q \in Recorded : q # o => ops'[q] = ops[q]
      /\ inst'[I].active = NoOp /\ inst'[I].state = out.state /\ inst'[I].generation > 0
      /\ inst'[I].generation = GenerationAfter(inst[I], kind, out, gen)
  <2>1. ServiceInv /\ Finish(w)
    BY DEF InstanceInv
  <2>2. /\ rows' = rows /\ Leave(w)
        /\ ops'[o].status \in {"failed", "completed"}
        /\ ops'[o].status = "completed" => ~out.error
        /\ ops'[o].response.cancelled = out.cancelled
    BY <1>0, <2>1, FinishEffects
  <2>3. /\ ops'[o].kind = kind
        /\ \A q \in Recorded : q # o => ops'[q] = ops[q]
    BY <1>0, <1>1, <2>1, FinishEffects
  <2>4. /\ inst'[I].active = NoOp /\ inst'[I].state = out.state /\ inst'[I].generation > 0
        /\ inst'[I].generation = GenerationAfter(inst[I], kind, out, gen)
    <3>1. ops[work[w].op].inst = I
      BY <1>0, <1>1
    <3>2. inst'[I].active = NoOp /\ inst'[I].state = work[w].outcome.state /\ inst'[I].generation > 0
      BY <2>1, <3>1, FinishEffects
    <3>3. inst'[I].generation = GenerationAfter(inst[I], ops[work[w].op].kind, work[w].outcome, work[w].gen)
      BY <2>1, <3>1, FinishEffects
    <3> QED
      BY <1>0, <3>2, <3>3
  <2> QED
    BY <2>2, <2>3, <2>4
<1>3. Ending(w, out)
  BY <1>0 DEF InstanceInv, Finishing
<1>4. \A v \in Workers : work'[v].pc = "idle"
  BY <1>1, <1>2 DEF InstanceInv, ServiceInv, TypeOK, Leave, Idle, At
<1>5. /\ selected' = selected /\ ledger' = ledger /\ effects' = effects /\ call' = call
      /\ generations' = generations /\ vm' = vm /\ coord' = coord /\ store' = store
      /\ Store!Intents' = Store!Intents /\ Recorded' = Recorded
  BY <1>2 DEF Contract, store, Store!Intents, Recorded
<1>6. ServiceInv' /\ Store!StoreInv'
  <2>1. [Next]_vars
    BY DEF Next, Work
  <2> QED
    BY <1>5, <2>1, ServiceStep, StoreSteps DEF InstanceInv
<1>7. coord' = AtRest /\ call' = {} /\ MachinesTyped' /\ CoordTyped'
  <2>1. coord = AtRest /\ call = {}
    BY <1>0, AtRestOutside
  <2> QED
    BY <1>5, <2>1 DEF InstanceInv, MachinesTyped, CoordTyped
<1>8. LedgerOfOperations' /\ EffectsOfOperations'
  BY <1>0, <1>2, <1>5 DEF InstanceInv, LedgersInv, LedgerOfOperations, EffectsOfOperations
<1>9. UnclaimedUndeclared'
  BY <1>4 DEF UnclaimedUndeclared
<1>10. CancelledIsSettled'
  BY <1>0, <1>2, <1>3, <1>5 DEF InstanceInv, LedgersInv, CancelledIsSettled, Ending, Intent, NoneOf
<1>11. CompletedMeansDone'
  BY <1>0, <1>2, <1>3, <1>5 DEF InstanceInv, LedgersInv, CompletedMeansDone, Ending, Changing, AllRecorded
<1>12. Sound(inst'[I].generation, out.state)
  BY <1>0, <1>2, <1>3 DEF Ending, Sound, Doubtful
<1>13. IdleSound'
  BY <1>2, <1>5, <1>12 DEF IdleSound, Sound, AllOff, PoweredOff
<1>14. OneApart'
  <2>1. inst'[I].generation \in {inst[I].generation, selected}
    <3>1. CASE out.error \/ out.cancelled
      BY <1>2, <3>1 DEF GenerationAfter
    <3>2. CASE ~out.error /\ ~out.cancelled
      BY <1>0, <1>3, <1>12, <3>2 DEF Ending, Sound
    <3> QED
      BY <3>1, <3>2
  <2> QED
    BY <1>1, <1>5, <2>1, Basics DEF InstanceInv, GenerationsInv, OneApart
<1>15. GenerationsInv'
  BY <1>2, <1>4, <1>5, <1>14 DEF InstanceInv, GenerationsInv, FirstGeneration, NothingSelectedBefore,
     RunningGeneration, OnlySelectedGenerationLives, Present, PoweredOff
<1>16. RestsOutsideExecute' /\ HeldSound' /\ Finishing' /\ Working'
  BY <1>2, <1>4, <1>7 DEF RestsOutsideExecute, HeldSound, Finishing, Working
<1> QED
  BY <1>6, <1>7, <1>8, <1>9, <1>10, <1>11, <1>13, <1>15, <1>16 DEF InstanceInv, LedgersInv

-----------------------------------------------------------------------------
(* A request records an operation that holds the instance from then on, and
   remembers the state it found, or it is a cancellation and is answered. *)
Holds ==
  /\ ops'[rows + 1].status = "pending" /\ inst'[I].active = rows + 1
  /\ inst'[I].generation = IF Present(I) THEN inst[I].generation ELSE 1
  /\ ops'[rows + 1].kind = "prepare" => inst'[I].generation = 1
  /\ \/ inst'[I].previous = "failed"
     \/ Present(I) /\ inst'[I].previous = inst[I].state
  /\ inst[I].active # NoOp => gate = NoWorker

Answered ==
  /\ ops'[rows + 1].status = "completed" /\ ~ops'[rows + 1].response.cancelled
  /\ ops'[rows + 1].kind = "cancel"
  /\ Present(I) /\ inst[I].active # NoOp
  /\ inst'[I].active = inst[I].active /\ inst'[I].state = inst[I].state
  /\ inst'[I].generation = inst[I].generation /\ inst'[I].previous = inst[I].previous
  /\ \A q \in Recorded : ops'[q].status = ops[q].status

Requested ==
  \/ Request(I)
  \/ \E original \in OpIds, rev \in Revs, attempt \in Attempts : RestartPreparation(I, original, rev, attempt)

LEMMA PreparationHolds ==
  ASSUME InstanceInv, NEW key \in Keys, Prepare(I, key)
  PROVE  Holds
<1> DEFINE new == NewOp("prepare", I, key, 0, 0, NoOp, "pending", NoAnswer)
           row == Taken(NewRow, "prepare", rows + 1)
<1>1. /\ TypeOK /\ rows < MaxOps /\ rows' = rows + 1 /\ ops' = WithRow(ops, new)
      /\ Emit(I, row, rows + 1, "intent") /\ ~Present(I) /\ I \in Instances
      /\ inst[I].active = NoOp
  BY Basics DEF Prepare, InstanceInv, ServiceInv, AbsentRows, NoRow
<1>2. NewRow \in InstanceRow /\ NewRow.state \in States /\ NewRow.revision + 1 \in Nat /\ rows + 1 \in OpIds
  BY <1>1 DEF NewRow, InstanceRow, States, Doubtful, TypeOK, OpIds
<1>3. row \in InstanceRow
  BY <1>2, TakenType DEF Taken
<1>4. row.active = rows + 1 /\ row.generation = 1 /\ row.previous = "failed"
  BY DEF Taken, TakenFrom, NewRow
<1>5. new.status = "pending" /\ new.kind = "prepare"
  BY DEF NewOp
<1> HIDE DEF row, new
<1>6. inst'[I].active = row.active /\ inst'[I].generation = row.generation /\ inst'[I].previous = row.previous
  <2>1. inst'[I] = [row EXCEPT !.seq = row.seq + 1]
    BY <1>1, <1>2, <1>3, EmitType DEF Stages
  <2> QED
    BY <1>3, <2>1 DEF InstanceRow
<1>7. ops'[rows + 1] = new
  BY <1>1, RowAdded
<1> QED
  BY <1>1, <1>4, <1>5, <1>6, <1>7 DEF Holds

LEMMA SubmissionHolds ==
  ASSUME InstanceInv, NEW key \in Keys, NEW gen, NEW rev, NEW kind \in Kinds, Submit(kind, I, key, gen, rev)
  PROVE  Holds
<1> DEFINE new == NewOp(kind, I, key, gen, rev, NoOp, "pending", NoAnswer)
           row == Taken(inst[I], kind, rows + 1)
<1>1. /\ TypeOK /\ rows < MaxOps /\ rows' = rows + 1 /\ ops' = WithRow(Superseded(inst[I]), new)
      /\ Emit(I, row, rows + 1, "intent") /\ Present(I) /\ I \in Instances
      /\ inst[I].active # NoOp => gate = NoWorker
  BY Basics DEF Submit, Gated, InstanceInv, ServiceInv
<1>2. inst[I] \in InstanceRow /\ inst[I].state \in States /\ inst[I].revision + 1 \in Nat /\ rows + 1 \in OpIds
  BY <1>1 DEF InstanceRow, TypeOK, OpIds
<1>3. row \in InstanceRow
  BY <1>2, TakenType DEF Taken
<1>4. row.active = rows + 1 /\ row.generation = inst[I].generation /\ row.previous = inst[I].state
  BY DEF Taken, TakenFrom
<1>5. new.status = "pending" /\ new.kind = kind /\ kind # "prepare"
  BY DEF NewOp
<1> HIDE DEF row, new
<1>6. inst'[I].active = row.active /\ inst'[I].generation = row.generation /\ inst'[I].previous = row.previous
  <2>1. inst'[I] = [row EXCEPT !.seq = row.seq + 1]
    BY <1>1, <1>2, <1>3, EmitType DEF Stages
  <2> QED
    BY <1>3, <2>1 DEF InstanceRow
<1>7. ops'[rows + 1] = new
  BY <1>1, RowAdded
<1> QED
  BY <1>1, <1>4, <1>5, <1>6, <1>7 DEF Holds

LEMMA CancellationIsAnswered ==
  ASSUME InstanceInv, NEW key \in Keys, NEW gen, NEW rev, NEW target \in OpIds, Cancel(I, key, gen, rev, target)
  PROVE  Answered
<1> DEFINE row == [inst[I] EXCEPT !.revision = @ + 1]
           reply == Answer("completed", Logged(row), row.state, FALSE, FALSE)
           new == NewOp("cancel", I, key, gen, rev, target, "completed", reply)
           f == [ops EXCEPT ![target].cancel = TRUE]
<1>1. /\ TypeOK /\ rows < MaxOps /\ rows' = rows + 1 /\ ops' = WithRow(f, new)
      /\ Emit(I, row, rows + 1, "cancel-requested") /\ Present(I) /\ I \in Instances
      /\ inst[I].active # NoOp
  BY Basics DEF Cancel, InstanceInv, ServiceInv
<1>2. inst[I] \in InstanceRow /\ rows + 1 \in OpIds
  BY <1>1 DEF TypeOK, OpIds
<1>3. /\ row \in InstanceRow
      /\ row.active = inst[I].active /\ row.state = inst[I].state
      /\ row.generation = inst[I].generation /\ row.previous = inst[I].previous
  BY <1>2 DEF InstanceRow
<1>4. new.status = "completed" /\ new.kind = "cancel" /\ ~new.response.cancelled
  BY DEF NewOp, Answer
<1>5. \A q \in Recorded : f[q].status = ops[q].status
  BY <1>1 DEF TypeOK, OperationRow
<1> HIDE DEF row, new, f
<1>6. /\ inst'[I].active = row.active /\ inst'[I].generation = row.generation
      /\ inst'[I].previous = row.previous /\ inst'[I].state = row.state
  <2>1. inst'[I] = [row EXCEPT !.seq = row.seq + 1]
    BY <1>1, <1>2, <1>3, EmitType DEF Stages
  <2> QED
    BY <1>3, <2>1 DEF InstanceRow
<1>7. ops'[rows + 1] = new /\ \A q \in Recorded : ops'[q] = f[q]
  BY <1>1, RowAdded
<1> QED
  BY <1>1, <1>3, <1>4, <1>5, <1>6, <1>7 DEF Answered

LEMMA RestartHolds ==
  ASSUME InstanceInv, NEW original \in OpIds, NEW rev, NEW attempt, RestartPreparation(I, original, rev, attempt)
  PROVE  Holds
<1> DEFINE key == <<I, original, rev, attempt>>
           new == NewOp("prepare", I, key, 0, 0, NoOp, "pending", NoAnswer)
           row == TakenFrom(inst[I], "failed", "prepare", rows + 1, inst[I].revision + 1)
<1>1. /\ TypeOK /\ rows < MaxOps /\ rows' = rows + 1 /\ ops' = WithRow(Sealed(original, inst[I]), new)
      /\ Emit(I, row, rows + 1, "intent") /\ Present(I) /\ I \in Instances
      /\ gate = NoWorker /\ inst[I].generation = 1
  BY Basics DEF RestartPreparation, ExecutorGone, RestartAllowed, InstanceInv, ServiceInv
<1>2. inst[I] \in InstanceRow /\ "failed" \in States /\ inst[I].revision + 1 \in Nat /\ rows + 1 \in OpIds
  BY <1>1 DEF InstanceRow, TypeOK, OpIds, States, Doubtful
<1>3. row \in InstanceRow
  BY <1>2, TakenType
<1>4. row.active = rows + 1 /\ row.generation = inst[I].generation /\ row.previous = "failed"
  BY DEF TakenFrom
<1>5. new.status = "pending"
  BY DEF NewOp
<1> HIDE DEF row, new
<1>6. inst'[I].active = row.active /\ inst'[I].generation = row.generation /\ inst'[I].previous = row.previous
  <2>1. inst'[I] = [row EXCEPT !.seq = row.seq + 1]
    BY <1>1, <1>2, <1>3, EmitType DEF Stages
  <2> QED
    BY <1>3, <2>1 DEF InstanceRow
<1>7. ops'[rows + 1] = new
  BY <1>1, RowAdded
<1> QED
  BY <1>1, <1>4, <1>5, <1>6, <1>7 DEF Holds

(* What every request leaves of the operations recorded before it. *)
LEMMA RequestAdds ==
  ASSUME InstanceInv, Requested
  PROVE  /\ ServiceInv' /\ UNCHANGED <<gate, work>>
         /\ rows + 1 \notin Recorded /\ rows + 1 \in OpIds /\ rows + 1 # NoOp
         /\ Recorded' = Recorded \cup {rows + 1}
         /\ \A q \in Recorded :
              /\ ops'[q].kind = ops[q].kind
              /\ \/ ops'[q].status = ops[q].status /\ ops'[q].response = ops[q].response
                 \/ ops'[q].status = "unknown"
<1>1. I \in Instances /\ ServiceInv
  BY Basics DEF InstanceInv
<1>2. ServiceInv'
  <2>1. [Next]_vars
    BY <1>1 DEF Requested, Next
  <2> QED
    BY <1>1, <2>1, ServiceStep
<1>3. RequestStep(I)
  BY <1>1, RequestRecords DEF Requested
<1>4. PICK f, new : \E row \in InstanceRow, stage \in Stages :
        /\ RecordedFor(I, f, new, row, stage)
        /\ Takes(I, f, new, row) \/ Notes(I, f, new, row)
  BY <1>3 DEF RequestStep
<1>5. PICK row \in InstanceRow, stage \in Stages :
        /\ RecordedFor(I, f, new, row, stage)
        /\ Takes(I, f, new, row) \/ Notes(I, f, new, row)
  BY <1>4
<1>6. UNCHANGED <<gate, work>>
  BY <1>5 DEF RecordedFor
<1>7. /\ rows + 1 \notin Recorded /\ rows + 1 \in OpIds /\ rows + 1 # NoOp
      /\ Recorded' = Recorded \cup {rows + 1}
      /\ \A q \in Recorded :
           /\ ops'[q].kind = ops[q].kind
           /\ \/ ops'[q].status = ops[q].status /\ ops'[q].response = ops[q].response
              \/ ops'[q].status = "unknown"
  BY <1>1, <1>5, RecordEffects
<1> QED
  BY <1>2, <1>6, <1>7

(* The operation holds the instance; the state that was there is what a
   cancellation gives back. *)
LEMMA HeldKeeps ==
  ASSUME InstanceInv, Requested, Holds, [Store!StoreNext]_store,
         selected' = selected, effects' = effects, call' = call, vm' = vm, coord' = coord,
         \A p \in OpIds :
            \/ ledger'[p] = ledger[p]
            \/ /\ ledger[p].state = "intent" /\ ledger'[p].state = "completed"
               /\ ledger'[p].action = ledger[p].action
  PROVE  InstanceInv'
<1>1. /\ ServiceInv' /\ gate' = gate /\ work' = work
      /\ rows + 1 \notin Recorded /\ rows + 1 \in OpIds /\ rows + 1 # NoOp
      /\ Recorded' = Recorded \cup {rows + 1}
      /\ \A q \in Recorded :
           /\ ops'[q].kind = ops[q].kind
           /\ \/ ops'[q].status = ops[q].status /\ ops'[q].response = ops[q].response
              \/ ops'[q].status = "unknown"
  BY RequestAdds
<1>2. /\ ops'[rows + 1].status = "pending" /\ inst'[I].active = rows + 1
      /\ inst'[I].generation = IF Present(I) THEN inst[I].generation ELSE 1
      /\ ops'[rows + 1].kind = "prepare" => inst'[I].generation = 1
      /\ \/ inst'[I].previous = "failed"
         \/ Present(I) /\ inst'[I].previous = inst[I].state
  BY DEF Holds
<1>3. \A w \in Workers : work[w].pc = "idle" /\ work'[w].pc = "idle"
  <2>1. \A w \in Workers : work[w].pc = "idle"
    BY Actor DEF Holds
  <2> QED
    BY <1>1, <2>1
<1>4. Store!StoreInv'
  BY StoreSteps DEF InstanceInv
<1>5. MachinesTyped' /\ CoordTyped' /\ RestsOutsideExecute'
  BY <1>3 DEF InstanceInv, MachinesTyped, CoordTyped, RestsOutsideExecute
<1>6. /\ ledger \in [OpIds -> Store!LedgerRow \cup {Store!Absent}] /\ effects \subseteq Store!EffectRow
      /\ inst[I].generation \in Nat /\ Recorded \subseteq OpIds
  BY Basics
<1>7. LedgerOfOperations'
  BY <1>1, <1>6 DEF InstanceInv, LedgersInv, LedgerOfOperations, Store!Absent
<1>8. EffectsOfOperations'
  <2>1. \A e \in effects : e.op \in OpIds
    BY <1>6 DEF Store!EffectRow
  <2>2. \A p \in OpIds : ledger[p] # Store!Absent =>
          ledger'[p] # Store!Absent /\ ledger'[p].action = ledger[p].action
    BY DEF Store!Absent
  <2> QED
    BY <2>1, <2>2 DEF InstanceInv, LedgersInv, EffectsOfOperations
<1>9. UnclaimedUndeclared'
  BY <1>3 DEF UnclaimedUndeclared
<1>10. ASSUME NEW q \in Recorded', ops'[q].status = "completed"
       PROVE  /\ q \in Recorded /\ ops[q].status = "completed" /\ ops'[q].response = ops[q].response
              /\ ops'[q].kind = ops[q].kind
              /\ ledger[q].state # "intent" => ledger'[q] = ledger[q]
  BY <1>1, <1>2, <1>6, <1>10
<1>11. CancelledIsSettled'
  BY <1>10 DEF InstanceInv, LedgersInv, CancelledIsSettled, NoneOf
<1>12. CompletedMeansDone'
  BY <1>10 DEF InstanceInv, LedgersInv, CompletedMeansDone
<1>13. GenerationsInv'
  <2>1. FirstGeneration' /\ NothingSelectedBefore' /\ OneApart'
    BY <1>1, <1>2, <1>6 DEF InstanceInv, GenerationsInv, FirstGeneration, NothingSelectedBefore, OneApart, Present
  <2>2. RunningGeneration' /\ OnlySelectedGenerationLives'
    BY <1>3 DEF InstanceInv, GenerationsInv, RunningGeneration, OnlySelectedGenerationLives, PoweredOff
  <2> QED
    BY <2>1, <2>2 DEF GenerationsInv
<1>14. IdleSound'
  BY <1>1, <1>2 DEF IdleSound
<1>15. Sound(inst'[I].generation, inst'[I].previous)
  <2>1. CASE inst'[I].previous = "failed"
    BY <2>1 DEF Sound
  <2>2. CASE Present(I) /\ inst'[I].previous = inst[I].state /\ inst[I].active = NoOp
    BY <1>2, <2>2 DEF InstanceInv, IdleSound
  <2>3. CASE Present(I) /\ inst'[I].previous = inst[I].state /\ inst[I].active # NoOp
    <3>1. inst[I].state \in Transients
      BY <2>3, Basics, VocabularyType DEF InstanceInv, ServiceInv, TransientWhileHeld
    <3> QED
      BY <2>3, <3>1 DEF Sound, Transients
  <2> QED
    BY <1>2, <2>1, <2>2, <2>3
<1>16. HeldSound'
  <2>1. Store!Intents = {} => Store!Intents' = {}
    BY DEF Store!Intents
  <2>2. AllOff => AllOff'
    BY DEF AllOff, PoweredOff
  <2> QED
    BY <1>3, <1>15, <2>1, <2>2 DEF HeldSound, Sound
<1>17. Finishing' /\ Working'
  BY <1>3 DEF Finishing, Working
<1> QED
  BY <1>1, <1>4, <1>5, <1>7, <1>8, <1>9, <1>11, <1>12, <1>13, <1>14, <1>16, <1>17 DEF InstanceInv, LedgersInv

(* A cancellation changes nothing but the flag of its operation, which may be
   executing. *)
LEMMA AnsweredKeeps ==
  ASSUME InstanceInv, Requested, Answered, Contract
  PROVE  InstanceInv'
<1>1. /\ ServiceInv' /\ gate' = gate /\ work' = work
      /\ rows + 1 \notin Recorded /\ rows + 1 \in OpIds /\ rows + 1 # NoOp
      /\ Recorded' = Recorded \cup {rows + 1}
  BY RequestAdds
<1>2. \A q \in Recorded :
        /\ ops'[q].kind = ops[q].kind /\ ops'[q].status = ops[q].status
        /\ ops[q].status # "unknown" => ops'[q].response = ops[q].response
  BY RequestAdds DEF Answered
<1>3. /\ ops'[rows + 1].status = "completed" /\ ~ops'[rows + 1].response.cancelled
      /\ ops'[rows + 1].kind = "cancel"
      /\ Present(I) /\ inst[I].active # NoOp
      /\ inst'[I].active = inst[I].active /\ inst'[I].state = inst[I].state
      /\ inst'[I].generation = inst[I].generation /\ inst'[I].previous = inst[I].previous
      /\ Present(I)'
  BY DEF Answered, Present
<1>4. /\ selected' = selected /\ ledger' = ledger /\ effects' = effects /\ call' = call
      /\ generations' = generations /\ vm' = vm /\ coord' = coord /\ store' = store
      /\ Store!Intents' = Store!Intents
  BY DEF Contract, store, Store!Intents
<1>5. inst[I].active \in Recorded
  BY <1>3, Basics
<1>6. Store!StoreInv'
  BY <1>4, StoreSteps DEF InstanceInv
<1>7. MachinesTyped' /\ CoordTyped' /\ RestsOutsideExecute'
  BY <1>1, <1>4 DEF InstanceInv, MachinesTyped, CoordTyped, RestsOutsideExecute
<1>8. LedgerOfOperations' /\ EffectsOfOperations' /\ UnclaimedUndeclared'
  BY <1>1, <1>2, <1>4 DEF InstanceInv, LedgersInv, LedgerOfOperations, EffectsOfOperations, UnclaimedUndeclared
<1>9. CancelledIsSettled' /\ CompletedMeansDone'
  BY <1>1, <1>2, <1>3, <1>4 DEF InstanceInv, LedgersInv, CancelledIsSettled, CompletedMeansDone, NoneOf
<1>10. \A w \in Workers : work[w].pc # "idle" => ops'[work[w].op].kind = ops[work[w].op].kind
  BY <1>2, Actor
<1>11. GenerationsInv'
  BY <1>1, <1>2, <1>3, <1>4, <1>5, <1>10 DEF InstanceInv, GenerationsInv, FirstGeneration,
     NothingSelectedBefore, OneApart, RunningGeneration, OnlySelectedGenerationLives, PoweredOff
<1>12. \A g, state : Sound(g, state) => Sound(g, state)'
  BY <1>4 DEF Sound, AllOff, PoweredOff
<1>13. IdleSound' /\ HeldSound'
  BY <1>1, <1>2, <1>3, <1>5, <1>12 DEF InstanceInv, IdleSound, HeldSound
<1>14. ASSUME NEW w \in Workers, work[w].pc # "idle", NEW out
       PROVE  Ending(w, out) => Ending(w, out)'
  <2>1. \A kind : GenerationAfter(inst'[I], kind, out, work[w].gen) = GenerationAfter(inst[I], kind, out, work[w].gen)
    BY <1>3 DEF GenerationAfter
  <2>2. ops'[work[w].op].kind = ops[work[w].op].kind
    BY <1>10, <1>14
  <2> QED
    BY <1>1, <1>4, <1>12, <2>1, <2>2 DEF Ending, Intent, NoneOf, AllRecorded
<1>15. Finishing'
  BY <1>1, <1>14 DEF InstanceInv, Finishing
<1>16. ASSUME NEW w \in Workers, work[w].pc = "running", StepOK(w) PROVE StepOK(w)'
  <2>1. ops'[work[w].op].kind = ops[work[w].op].kind
    BY <1>10, <1>16
  <2>2. coord.pc = "return" => Ending(w, coord.out)'
    <3>1. PICK out : out = coord.out
      OBVIOUS
    <3>2. coord.pc = "return" => Ending(w, out)'
      BY <1>14, <1>16, <3>1 DEF StepOK
    <3> QED
      BY <1>4, <3>1, <3>2
  <2>3. AllOff' <=> AllOff
    BY <1>4 DEF AllOff, PoweredOff
  <2> QED
    BY <1>1, <1>3, <1>4, <1>16, <2>1, <2>2, <2>3 DEF StepOK, AtReconcile, AtGeneration, AtCancelled,
       AtNodes, AtNode, Intent, NoneOf, AllRecorded
<1>17. Working'
  BY <1>1, <1>16 DEF InstanceInv, Working
<1> QED
  BY <1>1, <1>6, <1>7, <1>8, <1>9, <1>11, <1>13, <1>15, <1>17 DEF InstanceInv, LedgersInv

(* restart_preparation seals the first preparation, and nothing else. *)
LEMMA Seals ==
  ASSUME InstanceInv, NEW original \in OpIds, gate = NoWorker, rows < MaxOps,
         Store!PreserveInitialPreparation(original, rows + 1)
  PROVE  /\ [Store!StoreNext]_store
         /\ selected' = selected /\ effects' = effects /\ call' = call
         /\ \A p \in OpIds :
              \/ ledger'[p] = ledger[p]
              \/ /\ ledger[p].state = "intent" /\ ledger'[p].state = "completed"
                 /\ ledger'[p].action = ledger[p].action
         /\ \A w \in Workers : work[w].pc = "idle"
<1>1. rows + 1 \in OpIds /\ rows + 1 \notin Recorded
  BY Basics DEF OpIds, Recorded
<1>2. ledger[rows + 1] = Store!Absent
  BY <1>1 DEF InstanceInv, LedgersInv, LedgerOfOperations
<1>3. \A w \in Workers : work[w].pc = "idle"
  BY Actor
<1>4. call = {}
  BY <1>3 DEF InstanceInv, RestsOutsideExecute
<1>5. Store!StoreNext
  BY <1>1, <1>2, <1>4 DEF Store!StoreNext, Store!StoreCaller, Store!NoCall
<1>6. /\ selected' = selected /\ effects' = effects /\ call' = call
      /\ \/ ledger' = ledger
         \/ /\ ledger[original].state = "intent"
            /\ ledger' = [ledger EXCEPT ![original] =
                            [action |-> ledger[original].action, gen |-> ledger[original].gen,
                             state |-> "completed", result |-> "preserved"]]
  BY DEF Store!PreserveInitialPreparation, Store!Settle
<1> QED
  BY <1>3, <1>5, <1>6, Basics

LEMMA RestartIsBegun ==
  ASSUME InstanceInv, NEW original \in OpIds, RestartDies(original)
  PROVE  InstanceInv'
<1>1. gate = NoWorker /\ UNCHANGED vars /\ vm' = vm /\ coord' = coord
  BY DEF RestartDies, ExecutorGone
<1>2. /\ [Store!StoreNext]_store
      /\ selected' = selected /\ effects' = effects /\ call' = call
      /\ \A p \in OpIds :
           \/ ledger'[p] = ledger[p]
           \/ /\ ledger[p].state = "intent" /\ ledger'[p].state = "completed"
              /\ ledger'[p].action = ledger[p].action
      /\ \A w \in Workers : work[w].pc = "idle"
  BY Seals DEF RestartDies, ExecutorGone
<1>3. /\ inst' = inst /\ ops' = ops /\ rows' = rows /\ work' = work /\ gate' = gate /\ Recorded' = Recorded
  BY <1>1 DEF vars, Recorded
<1>4. ServiceInv' /\ Store!StoreInv'
  BY <1>1, <1>2, ServiceStep, StoreSteps DEF InstanceInv
<1>5. MachinesTyped' /\ CoordTyped' /\ RestsOutsideExecute'
  BY <1>1, <1>2, <1>3 DEF InstanceInv, MachinesTyped, CoordTyped, RestsOutsideExecute
<1>6. /\ effects \subseteq Store!EffectRow /\ Recorded \subseteq OpIds
  BY Basics
<1>7. LedgerOfOperations'
  BY <1>2, <1>3 DEF InstanceInv, LedgersInv, LedgerOfOperations, Store!Absent
<1>8. EffectsOfOperations'
  <2>1. \A e \in effects : e.op \in OpIds
    BY <1>6 DEF Store!EffectRow
  <2>2. \A p \in OpIds : ledger[p] # Store!Absent =>
          ledger'[p] # Store!Absent /\ ledger'[p].action = ledger[p].action
    BY <1>2 DEF Store!Absent
  <2> QED
    BY <1>2, <2>1, <2>2 DEF InstanceInv, LedgersInv, EffectsOfOperations
<1>9. ASSUME NEW q \in Recorded, ledger[q].state # "intent" PROVE ledger'[q] = ledger[q]
  BY <1>2, <1>6, <1>9
<1>10. UnclaimedUndeclared' /\ CancelledIsSettled' /\ CompletedMeansDone'
  BY <1>2, <1>3, <1>9 DEF InstanceInv, LedgersInv, UnclaimedUndeclared, CancelledIsSettled,
     CompletedMeansDone, NoneOf
<1>11. GenerationsInv'
  BY <1>1, <1>2, <1>3 DEF InstanceInv, GenerationsInv, FirstGeneration, NothingSelectedBefore, OneApart,
     RunningGeneration, OnlySelectedGenerationLives, Present, PoweredOff
<1>12. \A g, state : Sound(g, state) => Sound(g, state)'
  <2>1. Store!Intents = {} => Store!Intents' = {}
    BY <1>2 DEF Store!Intents
  <2> QED
    BY <1>1, <1>2, <2>1 DEF Sound, AllOff, PoweredOff
<1>13. IdleSound' /\ HeldSound'
  BY <1>2, <1>3, <1>12 DEF InstanceInv, IdleSound, HeldSound, Present
<1>14. Finishing' /\ Working'
  BY <1>2, <1>3 DEF Finishing, Working
<1> QED
  BY <1>4, <1>5, <1>7, <1>8, <1>10, <1>11, <1>13, <1>14 DEF InstanceInv, LedgersInv

LEMMA RestartIsRecorded ==
  ASSUME InstanceInv, NEW original \in OpIds, NEW rev \in Revs, NEW attempt \in Attempts,
         Restart(original, rev, attempt)
  PROVE  InstanceInv'
<1>1. /\ RestartPreparation(I, original, rev, attempt) /\ vm' = vm /\ coord' = coord
      /\ Store!PreserveInitialPreparation(original, rows + 1)
  BY DEF Restart
<1>2. gate = NoWorker /\ rows < MaxOps
  BY <1>1 DEF RestartPreparation, ExecutorGone
<1>3. Requested /\ Holds
  BY <1>1, RestartHolds DEF Requested
<1> QED
  BY <1>1, <1>2, <1>3, Seals, HeldKeeps

LEMMA RequestsAreRecorded ==
  ASSUME InstanceInv, Request(I), Contract
  PROVE  InstanceInv'
<1>1. Requested
  BY DEF Requested
<1>2. Holds \/ Answered
  BY PreparationHolds, SubmissionHolds, CancellationIsAnswered DEF Request
<1>3. CASE Holds
  <2>1. /\ selected' = selected /\ effects' = effects /\ call' = call /\ vm' = vm /\ coord' = coord
        /\ ledger' = ledger /\ store' = store
    BY DEF Contract, store
  <2> QED
    BY <1>1, <1>3, <2>1, HeldKeeps
<1> QED
  BY <1>1, <1>2, <1>3, AnsweredKeeps

-----------------------------------------------------------------------------
LEMMA CoordinatorKeeps ==
  ASSUME InstanceInv, NEW w \in Workers, Coordinate(w)
  PROVE  InstanceInv'
BY RecoverObserves, Reconciles, Guests, GenerationBegins, CopyOpens, CopyIsCancelled, CancellationSettles,
   CopyCommits, StartSettles, NodesBegin, VisitIsCancelled, NodeIsVisited, NodeIsLaunched, NodeIsAsked,
   NodeIsConfirmed, NodesClose, Returns DEF Coordinate

LEMMA InstanceStep == InstanceInv /\ [InstanceNext]_ivars => InstanceInv'
<1> SUFFICES ASSUME InstanceInv, [InstanceNext]_ivars PROVE InstanceInv'
  OBVIOUS
<1>1. CASE Request(I) /\ Contract
  BY <1>1, RequestsAreRecorded
<1>2. ASSUME NEW original \in OpIds,
             \/ RestartDies(original)
             \/ \E rev \in Revs, attempt \in Attempts : Restart(original, rev, attempt)
      PROVE  InstanceInv'
  BY <1>2, RestartIsBegun, RestartIsRecorded
<1>3. ASSUME NEW w \in Workers, Contract,
             \/ \E o \in OpIds : Claim(w, o)
             \/ CheckCancel(w) \/ ObserveFails(w) \/ Finish(w) \/ FinishFails(w)
      PROVE  InstanceInv'
  BY <1>3, ClaimTakes, CancelIsChecked, ObservationFails, Finishes, Dies
<1>4. ASSUME NEW w \in Workers, ObserveInstance(w) \/ Coordinate(w) \/ Raise(w) \/ Die(w)
      PROVE  InstanceInv'
  BY <1>4, InstanceIsObserved, CoordinatorKeeps, ObservationFails, Dies
<1>5. ASSUME NEW g \in Generations, NEW n \in Nodes, MachineUp(g, n) \/ MachineOff(g, n)
      PROVE  InstanceInv'
  BY <1>5, MachinesLive
<1>6. CASE UNCHANGED ivars
  <2>1. UNCHANGED vars /\ UNCHANGED store /\ vm' = vm /\ coord' = coord
    BY <1>6 DEF ivars
  <2>2. /\ inst' = inst /\ ops' = ops /\ rows' = rows /\ work' = work
        /\ selected' = selected /\ ledger' = ledger /\ effects' = effects /\ call' = call
        /\ Recorded' = Recorded /\ Store!Intents' = Store!Intents
    BY <2>1 DEF vars, store, Recorded, Store!Intents
  <2>3. ServiceInv' /\ Store!StoreInv'
    BY <2>1, ServiceStep, StoreSteps DEF InstanceInv
  <2>4. LedgersInv' /\ MachinesTyped' /\ CoordTyped' /\ RestsOutsideExecute'
    BY <2>1, <2>2 DEF InstanceInv, LedgersInv, LedgerOfOperations, EffectsOfOperations, UnclaimedUndeclared,
       CancelledIsSettled, CompletedMeansDone, NoneOf, MachinesTyped, CoordTyped, RestsOutsideExecute
  <2>5. GenerationsInv'
    BY <2>1, <2>2 DEF InstanceInv, GenerationsInv, FirstGeneration, NothingSelectedBefore, OneApart,
       RunningGeneration, OnlySelectedGenerationLives, Present, PoweredOff
  <2>6. IdleSound' /\ HeldSound'
    BY <2>1, <2>2 DEF InstanceInv, IdleSound, HeldSound, Present, Sound, AllOff, PoweredOff
  <2>7. ASSUME NEW w \in Workers, NEW out PROVE Ending(w, out) => Ending(w, out)'
    BY <2>1, <2>2 DEF Ending, Sound, AllOff, PoweredOff, Intent, NoneOf, AllRecorded
  <2>8. Finishing'
    BY <2>2, <2>7 DEF InstanceInv, Finishing
  <2>9. ASSUME NEW w \in Workers, StepOK(w) PROVE StepOK(w)'
    <3>1. AllOff' <=> AllOff
      BY <2>1 DEF AllOff, PoweredOff
    <3> QED
      BY <2>1, <2>2, <2>7, <2>9, <3>1 DEF StepOK, AtReconcile, AtGeneration, AtCancelled, AtNodes, AtNode,
         Intent, NoneOf, AllRecorded
  <2>10. Working'
    BY <2>2, <2>9 DEF InstanceInv, Working
  <2> QED
    BY <2>3, <2>4, <2>5, <2>6, <2>8, <2>10 DEF InstanceInv
<1> QED
  BY <1>1, <1>2, <1>3, <1>4, <1>5, <1>6 DEF InstanceNext

LEMMA InstanceAlways == InstanceSpec => []InstanceInv
  BY InitialInstance, InstanceStep, PTL DEF InstanceSpec

-----------------------------------------------------------------------------
(* An instance shown as stopped or prepared has no machine that runs or may
   still come up, and only machines of the selected generation ever run,
   whatever process died between a launch and its record. *)
THEOREM MachinesFollow == InstanceSpec => []MachinesFollowTheStore
<1>1. InstanceInv => MachinesFollowTheStore
  BY DEF InstanceInv, IdleSound, GenerationsInv, Sound, AllOff, MachinesFollowTheStore,
     StoppedMeansPoweredOff, Settled
<1> QED
  BY <1>1, InstanceAlways, PTL

(* The contract database and the generation store agree on every instance that
   is shown as usable, and never drift apart by more than one generation. *)
THEOREM LedgersStayTogether == InstanceSpec => []LedgersAgree
<1>1. InstanceInv => LedgersAgree
  <2> SUFFICES ASSUME InstanceInv PROVE LedgersAgree
    OBVIOUS
  <2>1. UsableMeansSettled
    BY DEF InstanceInv, IdleSound, Sound, UsableMeansSettled, Settled
  <2>2. selected \in Nat /\ inst[I].generation \in Nat
    BY Basics
  <2>3. GenerationsWithinOne
    BY <2>1, <2>2 DEF InstanceInv, GenerationsInv, OneApart, GenerationsWithinOne, UsableMeansSettled
  <2> QED
    BY <2>1, <2>3 DEF LedgersAgree
<1> QED
  BY <1>1, InstanceAlways, PTL

(* An operation answered as done has been done in the store, and one answered
   as cancelled has selected no generation and touched no machine. *)
THEOREM OutcomesStayTrue == InstanceSpec => []OutcomesAreTrue
<1>1. InstanceInv => OutcomesAreTrue
  <2> SUFFICES ASSUME InstanceInv PROVE OutcomesAreTrue
    OBVIOUS
  <2>1. CancelledIsSettled /\ CompletedMeansDone /\ Store!PreparedByItsOperation
    BY DEF InstanceInv, LedgersInv, Store!StoreInv
  <2>2. CancelledMeansUntouched
    BY <2>1 DEF CancelledIsSettled, NoneOf, Store!PreparedByItsOperation, CancelledMeansUntouched
  <2> QED
    BY <2>1, <2>2 DEF OutcomesAreTrue
<1> QED
  BY <1>1, InstanceAlways, PTL

-----------------------------------------------------------------------------
(* Every step of the coordinator is one the store allows, or changes nothing
   there: begin comes first, nothing is declared or recorded for an operation
   that is not open, and nothing else happens during prepare_generation. *)
LEMMA CoordinatorFollows ==
  ASSUME InstanceInv, NEW w \in Workers, Coordinate(w)
  PROVE  [Store!StoreNext]_store
<1>1. work[w].pc = "running"
  BY DEF Coordinate, RecoverObserve, Reconcile, GuestCommand, BeginGeneration, OpenCopy, CopyCancelled,
     SettleCancelled, CommitCopy, SettleStart, BeginNodes, VisitCancelled, VisitNode, Launch, AskToStop,
     Confirm, CloseNodes, Return, Executing, Visiting, BackendReturns
<1>2. PICK o \in OpIds, kind \in AllKinds : o = work[w].op /\ kind = ops[o].kind
  BY <1>1, Actor
<1>3. StepOK(w) /\ (ledger[o] # Store!Absent => ledger[o].action = kind)
  BY <1>1, <1>2, AtWork
<1>4. coord.pc # "copying" => call = {}
  BY <1>3 DEF StepOK
<1>5. CASE RecoverObserve(w) \/ GuestCommand(w) \/ VisitCancelled(w) \/ Launch(w) \/ AskToStop(w) \/ Return(w)
  BY <1>5 DEF RecoverObserve, GuestCommand, VisitCancelled, Launch, AskToStop, Return
<1>6. CASE Reconcile(w) \/ SettleStart(w)
  <2>1. CASE UNCHANGED store
    BY <2>1
  <2>2. CASE \E p \in OpIds : Store!FinishOp(p, "reconciled")
    <3>1. "reconciled" \in Store!StoreResults \ {"prepared"} /\ call = {}
      BY <1>4, <1>6 DEF Store!StoreResults, Reconcile, SettleStart, AtPc
    <3> QED
      BY <2>2, <3>1, Settles
  <2> QED
    BY <1>6, <2>1, <2>2 DEF Reconcile, SettleStart, Store!Intents
<1>7. CASE BeginGeneration(w) \/ BeginNodes(w)
  <2>1. /\ Store!Begin(o, kind, selected) /\ call = {}
        /\ kind \in {"prepare", "reset", "start", "stop"}
    BY <1>2, <1>4, <1>7 DEF BeginGeneration, BeginNodes, Executing, AtPc
  <2> QED
    BY <2>1, Begins DEF Store!StoreActions
<1>8. CASE OpenCopy(w)
  <2>1. Store!OpenGeneration(o, selected) /\ call = {} /\ AtGeneration(o, kind)
    BY <1>2, <1>3, <1>4, <1>8 DEF OpenCopy, AtPc, StepOK
  <2>2. ledger[o].state = "intent" /\ ledger[o].action = kind /\ kind \in {"prepare", "reset"}
    BY <1>3, <2>1 DEF AtGeneration, Intent, Store!Absent
  <2> QED
    BY <2>1, <2>2 DEF Store!StoreNext, Store!StoreCaller, Store!NoCall
<1>9. CASE CopyCancelled(w)
  BY <1>9 DEF CopyCancelled, Store!StoreNext
<1>10. CASE CommitCopy(w)
  BY <1>2, <1>10 DEF CommitCopy, Store!StoreNext
<1>11. CASE SettleCancelled(w)
  <2>1. Store!FinishOp(o, "cancelled") /\ call = {} /\ "cancelled" \in Store!StoreResults \ {"prepared"}
    BY <1>2, <1>4, <1>11 DEF SettleCancelled, AtPc, Store!StoreResults
  <2> QED
    BY <2>1, Settles
<1>12. CASE VisitNode(w)
  <2>1. coord.pc = "visit" /\ coord.todo # <<>>
    BY <1>12 DEF VisitNode, Visiting, AtPc
  <2>2. call = {} /\ AtNodes(o, kind)
    BY <1>2, <1>3, <1>4, <2>1 DEF StepOK
  <2>3. /\ kind \in {"start", "stop"} /\ Action = kind /\ ledger[o].state = "intent" /\ ledger[o].action = kind
        /\ coord.todo \in Seq(Nodes)
    BY <1>3, <2>2 DEF AtNodes, Action, Ok, Intent, Store!Absent
  <2>4. Head(coord.todo) \in Nodes
    BY <2>1, <2>3
  <2>5. UNCHANGED store \/ Store!EffectIntent(o, Head(coord.todo), kind)
    BY <1>2, <1>12, <2>3 DEF VisitNode
  <2> QED
    BY <2>2, <2>3, <2>4, <2>5 DEF Store!StoreNext, Store!StoreCaller, Store!NoCall
<1>13. CASE Confirm(w)
  <2>1. /\ coord.pc = "await" /\ Store!EffectRecorded(o, Head(coord.todo), Action)
    BY <1>2, <1>13 DEF Confirm, AtPc
  <2>2. /\ call = {} /\ kind \in {"start", "stop"} /\ Action = kind
        /\ ledger[o].state = "intent" /\ ledger[o].action = kind /\ Head(coord.todo) \in Nodes
    BY <1>1, <1>2, <2>1, AtOneNode
  <2> QED
    BY <2>1, <2>2 DEF Store!StoreNext, Store!StoreCaller, Store!NoCall
<1>14. CASE CloseNodes(w)
  <2>1. coord.pc = "visit" /\ Store!FinishOp(o, coord.out.state)
    BY <1>2, <1>14 DEF CloseNodes, Visiting, AtPc
  <2>2. call = {} /\ AtNodes(o, kind)
    BY <1>2, <1>3, <1>4, <2>1 DEF StepOK
  <2>3. coord.out.state \in Store!StoreResults \ {"prepared"}
    BY <2>2 DEF AtNodes, Ok, Store!StoreResults
  <2> QED
    BY <2>1, <2>2, <2>3, Settles
<1> QED
  BY <1>5, <1>6, <1>7, <1>8, <1>9, <1>10, <1>11, <1>12, <1>13, <1>14 DEF Coordinate

LEMMA CallEnds ==
  ASSUME call' = Store!NoCall, UNCHANGED <<selected, generations, ledger, effects>>
  PROVE  [Store!StoreNext]_store
BY DEF store, Store!StoreNext, Store!LeaveCall

LEMMA StoreIsUsed ==
  ASSUME InstanceInv, [InstanceNext]_ivars
  PROVE  [Store!StoreNext]_store
<1>1. ASSUME NEW original \in OpIds,
             \/ RestartDies(original)
             \/ \E rev \in Revs, attempt \in Attempts : Restart(original, rev, attempt)
      PROVE  [Store!StoreNext]_store
  <2>1. /\ gate = NoWorker /\ rows < MaxOps
        /\ Store!PreserveInitialPreparation(original, rows + 1)
    BY <1>1 DEF RestartDies, Restart, RestartPreparation, ExecutorGone
  <2> QED
    BY <2>1, Seals
<1>2. ASSUME NEW w \in Workers, Raise(w) \/ Die(w) PROVE [Store!StoreNext]_store
  BY <1>2, CallEnds DEF Raise, Die
<1>3. ASSUME NEW w \in Workers, ObserveInstance(w) PROVE UNCHANGED store
  BY <1>3 DEF ObserveInstance, Contract
<1>4. ASSUME NEW g \in Generations, NEW n \in Nodes, MachineUp(g, n) \/ MachineOff(g, n)
      PROVE  UNCHANGED store
  BY <1>4 DEF MachineUp, MachineOff
<1>5. CASE UNCHANGED ivars
  BY <1>5 DEF ivars
<1>6. CASE Contract
  BY <1>6 DEF Contract
<1> QED
  BY <1>1, <1>2, <1>3, <1>4, <1>5, <1>6, CoordinatorFollows DEF InstanceNext

(* A machine is launched by the coordinator alone, at a node whose effect is
   declared. *)
LEMMA LaunchesAreDeclared ==
  ASSUME InstanceInv, [InstanceNext]_ivars, NEW g \in Generations, NEW n \in Nodes,
         vm[g][n] = "off", vm'[g][n] = "launching"
  PROVE  \E w \in Workers :
           /\ Executing(w, "start")
           /\ work[w].gen = g
           /\ ledger[work[w].op].state = "intent"
           /\ [op |-> work[w].op, node |-> n, action |-> "start", state |-> "intent"] \in effects
<1>1. vm' # vm
  OBVIOUS
<1>2. ASSUME NEW h \in Generations, NEW m \in Nodes PROVE ~MachineUp(h, m) /\ ~MachineOff(h, m)
  BY <1>2 DEF MachineUp, MachineOff, InstanceInv, MachinesTyped
<1>3. PICK w \in Workers : Launch(w)
  BY <1>1, <1>2 DEF InstanceNext, ivars, Contract, RestartDies, Restart, ObserveInstance, Raise, Die,
     Coordinate, RecoverObserve, Reconcile, GuestCommand, BeginGeneration, OpenCopy, CopyCancelled,
     SettleCancelled, CommitCopy, SettleStart, BeginNodes, VisitCancelled, VisitNode, AskToStop,
     Confirm, CloseNodes, Return, Goto
<1>4. /\ work[w].pc = "running" /\ coord.pc = "act" /\ Action = "start"
      /\ vm' = [vm EXCEPT ![selected] = [vm[selected] EXCEPT ![Head(coord.todo)] = "launching"]]
  BY <1>3 DEF Launch, AtPc
<1>5. g = selected /\ n = Head(coord.todo)
  BY <1>4 DEF InstanceInv, MachinesTyped
<1>6. PICK o, kind : o = work[w].op /\ kind = ops[o].kind
  OBVIOUS
<1>7. /\ Action = kind /\ ledger[o].state = "intent" /\ work[w].gen = selected
      /\ Declared(o, Head(coord.todo), kind) \in effects
  BY <1>4, <1>6, AtOneNode
<1> QED
  BY <1>4, <1>5, <1>6, <1>7 DEF Executing, Declared

(* The coordinator, its crashes and restart_preparation keep the order of calls
   that the store relies on, and a machine is launched only on behalf of the
   one start that is executing, after that launch was declared. *)
THEOREM InstanceFollowsStore == InstanceSpec => StoreIsFollowed
<1>1. InstanceInit => Store!StoreInit
  BY DEF InstanceInit
<1>2. InstanceInv /\ [InstanceNext]_ivars => [Store!StoreNext]_(Store!svars)
  BY StoreIsUsed DEF store, Store!svars
<1>3. InstanceInv /\ [InstanceNext]_ivars =>
        [\A g \in Generations, n \in Nodes :
           vm[g][n] = "off" /\ vm'[g][n] = "launching" =>
             \E w \in Workers :
               /\ Executing(w, "start")
               /\ work[w].gen = g
               /\ ledger[work[w].op].state = "intent"
               /\ [op |-> work[w].op, node |-> n, action |-> "start", state |-> "intent"] \in effects]_ivars
  BY LaunchesAreDeclared
<1> QED
  BY <1>1, <1>2, <1>3, InstanceAlways, PTL
     DEF InstanceSpec, StoreIsFollowed, ImplementsStore, Store!StoreSpec, LaunchIsDeclared

-----------------------------------------------------------------------------
(* With the coordinator as its backend, which may observe any generation and
   return any outcome, every step is still one of those that the promises of
   the contract service are about. *)
LEMMA InstanceMoves ==
  ASSUME InstanceInv, [InstanceNext]_ivars
  PROVE  ServiceMove
<1>1. ServiceInv /\ I \in Instances
  BY Basics DEF InstanceInv
<1>2. CASE [Next]_vars
  BY <1>1, <1>2, StepShape
<1>3. CASE UNCHANGED <<inst, ops, rows>>
  BY <1>3 DEF ServiceMove, Unmoved
<1>4. ASSUME NEW w \in Workers, ObserveInstance(w) \/ Return(w) PROVE UNCHANGED <<inst, ops, rows>>
  BY <1>4 DEF ObserveInstance, Observe, Return, BackendReturns
<1>5. ASSUME NEW w \in Workers, Coordinate(w), ~Return(w) PROVE UNCHANGED vars
  BY <1>5 DEF Coordinate, RecoverObserve, Reconcile, GuestCommand, BeginGeneration, OpenCopy, CopyCancelled,
     SettleCancelled, CommitCopy, SettleStart, BeginNodes, VisitCancelled, VisitNode, Launch, AskToStop,
     Confirm, CloseNodes, Goto
<1>6. ASSUME NEW w \in Workers,
             \/ \E o \in OpIds : Claim(w, o)
             \/ CheckCancel(w) \/ ObserveFails(w) \/ Finish(w) \/ FinishFails(w) \/ Raise(w) \/ Die(w)
      PROVE  Next
  BY <1>6 DEF Next, Work, Raise, Die
<1>7. ASSUME Request(I) PROVE Next
  BY <1>1, <1>7 DEF Next
<1>8. ASSUME NEW original \in OpIds, NEW rev \in Revs, NEW attempt \in Attempts, Restart(original, rev, attempt)
      PROVE  Next
  BY <1>1, <1>8 DEF Next, Restart
<1>9. ASSUME NEW original \in OpIds, RestartDies(original) PROVE UNCHANGED vars
  BY <1>9 DEF RestartDies
<1>10. ASSUME NEW g \in Generations, NEW n \in Nodes, MachineUp(g, n) \/ MachineOff(g, n) PROVE UNCHANGED vars
  BY <1>10 DEF MachineUp, MachineOff
<1>11. CASE UNCHANGED ivars
  <2>1. UNCHANGED vars
    BY <1>11 DEF ivars
  <2> QED
    BY <1>2, <2>1
<1> QED
  BY <1>2, <1>3, <1>4, <1>5, <1>6, <1>7, <1>8, <1>9, <1>10, <1>11 DEF InstanceNext

(* The contract service keeps its promises with the coordinator as its backend:
   what holds an instance, that nothing is executed twice, and that it
   implements the ledger of operations. *)
THEOREM ServiceHoldsUnderCoordinator ==
  InstanceSpec => [](ActiveIsTheUnresolvedOne /\ GateProtectsExecution /\ AtMostOnce)
<1>1. InstanceInv => ActiveIsTheUnresolvedOne /\ GateProtectsExecution /\ AtMostOnce
  BY UnresolvedAreActive, CalledAtMostOnce DEF InstanceInv, ServiceInv
<1> QED
  BY <1>1, InstanceAlways, PTL

(* Every request, claim, observation, crash and answer of the service under the
   coordinator is a step of the ledger of operations, or one it does not see. *)
THEOREM InstanceImplementsLedger == InstanceSpec => ImplementsLedger
<1>1. InstanceInit => Ledger!Init
  BY LedgerStarts DEF InstanceInit
<1>2. InstanceInv /\ InstanceInv' /\ [InstanceNext]_ivars => [Ledger!Next]_(Ledger!lvars)
  <2>1. InstanceInv => ServiceInv
    BY DEF InstanceInv
  <2>2. InstanceInv' => ServiceInv'
    BY <2>1, PTL
  <2> QED
    BY <2>1, <2>2, InstanceMoves, LedgerFollows
<1> QED
  BY <1>1, <1>2, InstanceAlways, PTL DEF InstanceSpec, ImplementsLedger, Ledger!Spec

(* An answer stays what it is, and two reads of the instance with the same
   revision have seen the same row, whatever the coordinator does. *)
THEOREM InstanceAnswersStay == InstanceSpec => AnswersAreFinal /\ RevisionVersionsTheRow
<1>1. InstanceInv /\ [InstanceNext]_ivars
        => [\A o \in Recorded : ops[o].response # NoAnswer =>
              ops'[o].response = ops[o].response /\ ops'[o].status = ops[o].status]_vars
  BY InstanceMoves, AnswerStays DEF InstanceInv
<1>2. InstanceInv /\ [InstanceNext]_ivars => [\A i \in Instances : Versioned(i)]_vars
  BY InstanceMoves, RowIsVersioned DEF InstanceInv
<1> QED
  BY <1>1, <1>2, InstanceAlways, PTL
     DEF InstanceSpec, AnswersAreFinal, RevisionVersionsTheRow, Versioned
=============================================================================
