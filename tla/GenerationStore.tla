-------------------------- MODULE GenerationStore --------------------------
(***************************************************************************)
(* The disk generations of one instance, tools/ctflab_generation_store.py: *)
(* a ledger of generations, operations and effects in one SQLite database, *)
(* and a gate.  A new generation is copied next to the selected one and    *)
(* selected by a single transaction; nothing is ever overwritten.          *)
(*                                                                         *)
(* Every transaction is one action.  prepare_generation is the only method *)
(* made of several; its caller holds the gate, so there is at most one call*)
(* under way, and it may raise, be cancelled or die at any point.          *)
(***************************************************************************)
EXTENDS Integers

CONSTANTS StoreOps,   \* operation identifiers, given by the contract service
          Nodes,      \* virtual machines of the instance
          MaxGen      \* bound on generations

ASSUME StoreAssumption == MaxGen \in Nat

VARIABLES selected,     \* metadata: number of the active generation, 0 for none
          generations,  \* generations table, operation is its primary key
          ledger,       \* operations table
          effects,      \* effects table
          call          \* the calls of prepare_generation under way: none, or one

svars == <<selected, generations, ledger, effects, call>>

StoreActions == {"prepare", "reset", "start", "stop"}
StoreResults == {"prepared", "cancelled", "stopped", "process-running", "reconciled", "preserved"}

LedgerRow == [action : StoreActions, gen : Nat, state : {"intent", "completed"},
              result : StoreResults \cup {"none"}]
Absent == [action |-> "none", gen |-> 0, state |-> "absent", result |-> "none"]
GenerationRow == [number : Nat, op : StoreOps, state : {"preparing", "prepared", "preserved"}]
EffectRow == [op : StoreOps, node : Nodes, action : {"start", "stop"},
              state : {"intent", "recorded"}]
Calls == [op : StoreOps, expected : 0..MaxGen]
NoCall == {}

StoreInit ==
  /\ selected = 0
  /\ generations = {}
  /\ ledger = [o \in StoreOps |-> Absent]
  /\ effects = {}
  /\ call = NoCall

-----------------------------------------------------------------------------
Intents == {o \in StoreOps : ledger[o].state = "intent"}

Begin(o, action, gen) ==
  /\ ledger[o] = Absent
  /\ Intents = {}
  /\ ledger' = [ledger EXCEPT ![o] = [action |-> action, gen |-> gen,
                                      state |-> "intent", result |-> "none"]]
  /\ UNCHANGED <<selected, generations, effects, call>>

Settle(o, result) ==
  ledger' = [ledger EXCEPT ![o] = [action |-> @.action, gen |-> @.gen,
                                   state |-> "completed", result |-> result]]

FinishAgain(o, result) ==
  /\ ledger[o] # Absent
  /\ Settle(o, result)
  /\ UNCHANGED <<selected, generations, effects, call>>

FinishOp(o, result) ==
  /\ ledger[o].state = "intent"
  /\ Settle(o, result)
  /\ UNCHANGED <<selected, generations, effects, call>>

(* An effect on a node is declared before it is tried and recorded after it
   has been observed; the primary key refuses a second declaration. *)
EffectIntent(o, n, action) ==
  /\ \A e \in effects : ~(e.op = o /\ e.node = n /\ e.action = action)
  /\ effects' = effects \cup {[op |-> o, node |-> n, action |-> action, state |-> "intent"]}
  /\ UNCHANGED <<selected, generations, ledger, call>>

EffectRecorded(o, n, action) ==
  LET declared == [op |-> o, node |-> n, action |-> action, state |-> "intent"]
  IN /\ declared \in effects
     /\ effects' = (effects \ {declared})
                     \cup {[op |-> o, node |-> n, action |-> action, state |-> "recorded"]}
     /\ UNCHANGED <<selected, generations, ledger, call>>

(* A first preparation may be sealed only if nothing was ever selected or
   started and only it is unresolved. *)
Sealable(original) ==
  /\ selected = 0
  /\ effects = {}
  /\ \A g \in generations :
       /\ g.number = 1
       /\ g.state \in {"preserved", "preparing"}
       /\ g.state = "preparing" => g.op = original
       /\ ledger[g.op].action = "prepare" /\ ledger[g.op].gen = 0
       /\ g.state = "preserved" => ledger[g.op].state = "completed"
  /\ Intents \subseteq {original}
  /\ ledger[original] # Absent => ledger[original].action = "prepare" /\ ledger[original].gen = 0

PreserveInitialPreparation(original, replacement) ==
  /\ original # replacement
  /\ Sealable(original)
  /\ IF ledger[original].state = "intent" THEN Settle(original, "preserved") ELSE UNCHANGED ledger
  /\ generations' = {[g EXCEPT !.state = IF g.op = original /\ @ = "preparing"
                                         THEN "preserved" ELSE @] : g \in generations}
  /\ UNCHANGED <<selected, effects, call>>

-----------------------------------------------------------------------------
(* prepare_generation *)
OpenGeneration(o, expected) ==
  /\ call = NoCall
  /\ expected < MaxGen
  /\ selected = expected
  /\ \A g \in generations : g.op # o
  /\ generations' = generations \cup {[number |-> expected + 1, op |-> o, state |-> "preparing"]}
  /\ call' = {[op |-> o, expected |-> expected]}
  /\ UNCHANGED <<selected, ledger, effects>>

(* It is cancelled between two blocks of a copy, finds an asset changed or
   the disk full, or dies: the partial copy and its row stay. *)
LeaveCall ==
  /\ call # NoCall
  /\ call' = NoCall
  /\ UNCHANGED <<selected, generations, ledger, effects>>

CommitByNumber(o, expected) ==
  /\ call = {[op |-> o, expected |-> expected]}
  /\ selected = expected
  /\ ledger[o].state = "intent"
  /\ generations' = {[g EXCEPT !.state = IF g.number = expected + 1 THEN "prepared" ELSE @]
                        : g \in generations}
  /\ selected' = expected + 1
  /\ Settle(o, "prepared")
  /\ call' = NoCall
  /\ UNCHANGED effects

(* The one transaction that selects the new generation, completes the
   operation and marks its files as whole. *)
CommitGeneration(o, expected) ==
  /\ call = {[op |-> o, expected |-> expected]}
  /\ selected = expected
  /\ ledger[o].state = "intent"
  /\ generations' = {[g EXCEPT !.state = IF g.op = o THEN "prepared" ELSE @] : g \in generations}
  /\ selected' = expected + 1
  /\ Settle(o, "prepared")
  /\ call' = NoCall
  /\ UNCHANGED effects

-----------------------------------------------------------------------------
(* Files of a generation are found only through its one prepared row. *)
PreparedRows(number) == {g \in generations : g.number = number /\ g.state = "prepared"}

(* A caller that holds the gate and keeps the order of the calls: begin comes
   first, and nothing else is called during prepare_generation. *)
StoreCaller(o) ==
  \/ \E action \in StoreActions : Begin(o, action, selected)
  \/ \E result \in StoreResults \ {"prepared"} : FinishOp(o, result)
  \/ \E replacement \in StoreOps :
       ledger[replacement] = Absent /\ PreserveInitialPreparation(o, replacement)
  \/ \E n \in Nodes, action \in {"start", "stop"} :
       /\ ledger[o].state = "intent"
       /\ ledger[o].action = action
       /\ EffectIntent(o, n, action) \/ EffectRecorded(o, n, action)
  \/ /\ ledger[o].state = "intent"
     /\ ledger[o].action \in {"prepare", "reset"}
     /\ OpenGeneration(o, selected)

StoreNext ==
  \/ \E o \in StoreOps : call = NoCall /\ StoreCaller(o)
  \/ \E o \in StoreOps : CommitGeneration(o, selected)
  \/ LeaveCall

StoreSpec == StoreInit /\ [][StoreNext]_svars

-----------------------------------------------------------------------------
StoreTypeOK ==
  /\ selected \in 0..MaxGen
  /\ generations \subseteq GenerationRow
  /\ ledger \in [StoreOps -> LedgerRow \cup {Absent}]
  /\ effects \subseteq EffectRow
  /\ call \subseteq Calls

(* node_paths finds the disks of every generation that was ever selected:
   each number up to the selected one has exactly one prepared row, and no
   later number has any, however many preparations of it were abandoned. *)
OnePreparedRow ==
  \A number \in 1..MaxGen :
    IF number <= selected
    THEN \E g \in generations : PreparedRows(number) = {g}
    ELSE PreparedRows(number) = {}

(* What is unresolved after a crash is one operation, so recovery never has
   to guess an order between two. *)
OneUnresolved == \A o, p \in Intents : o = p

(* A generation counts as prepared exactly if its operation says so: one that
   was cancelled, reconciled or sealed has not selected anything. *)
PreparedByItsOperation ==
  \A g \in generations : g.state = "prepared" <=> ledger[g.op].result = "prepared"

(* Why these hold: what the transactions rely on but do not test. *)
OperationIsKey == \A g, h \in generations : g.op = h.op => g = h
RowsHaveOperations == \A g \in generations : ledger[g.op] # Absent
IntentsHaveNoResult == \A o \in Intents : ledger[o].result = "none"
CallHasItsRow ==
  \A c \in call :
    /\ call = {c}
    /\ c.expected = selected
    /\ c.expected < MaxGen
    /\ ledger[c.op].state = "intent"
    /\ [number |-> selected + 1, op |-> c.op, state |-> "preparing"] \in generations

StoreInv ==
  /\ StoreTypeOK
  /\ OperationIsKey /\ RowsHaveOperations /\ IntentsHaveNoResult /\ CallHasItsRow
  /\ OnePreparedRow /\ OneUnresolved /\ PreparedByItsOperation

(* Nothing that was preserved or selected is ever taken back: rows that have
   left "preparing" stay, results stay, and the selection only moves on. *)
NothingTakenBack ==
  [][/\ \A g \in generations : g.state # "preparing" => g \in generations'
     /\ \A o \in StoreOps : ledger[o].state = "completed" => ledger'[o] = ledger[o]
     /\ selected <= selected']_svars

=============================================================================
