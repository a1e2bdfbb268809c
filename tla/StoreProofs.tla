----------------------------- MODULE StoreProofs -----------------------------
(* Theorems about the disk generations of one instance, for any number of
   operations, nodes and generations.  The lemmas StoreStart, StoreStep and
   StoreGrows are also cited for the store inside a running instance. *)
EXTENDS GenerationStore, TLAPS

USE StoreAssumption

LEMMA StoreStart == StoreInit => StoreInv
<1> SUFFICES ASSUME StoreInit PROVE StoreInv
  OBVIOUS
<1>1. StoreTypeOK
  BY DEF StoreInit, StoreTypeOK, NoCall
<1>2. OperationIsKey /\ RowsHaveOperations /\ PreparedByItsOperation
  BY DEF StoreInit, OperationIsKey, RowsHaveOperations, PreparedByItsOperation
<1>3. IntentsHaveNoResult /\ OneUnresolved
  BY DEF StoreInit, IntentsHaveNoResult, OneUnresolved, Intents, Absent
<1>4. CallHasItsRow
  BY DEF StoreInit, CallHasItsRow, NoCall
<1>5. OnePreparedRow
  BY DEF StoreInit, OnePreparedRow, PreparedRows
<1> QED
  BY <1>1, <1>2, <1>3, <1>4, <1>5 DEF StoreInv

(* What one row of the ledger may become. *)
LEMMA SettledRow ==
  ASSUME StoreTypeOK, NEW o \in StoreOps, NEW result \in StoreResults,
         ledger[o].state = "intent", Settle(o, result)
  PROVE  /\ ledger' \in [StoreOps -> LedgerRow \cup {Absent}]
         /\ ledger'[o].state = "completed" /\ ledger'[o].result = result
         /\ \A p \in StoreOps : p # o => ledger'[p] = ledger[p]
         /\ \A p \in StoreOps : ledger'[p] = Absent <=> ledger[p] = Absent
<1>1. ledger[o] \in LedgerRow
  BY DEF StoreTypeOK, Absent
<1>2. [action |-> ledger[o].action, gen |-> ledger[o].gen, state |-> "completed",
       result |-> result] \in LedgerRow
  BY <1>1 DEF LedgerRow
<1>3. ledger[o] # Absent
  BY DEF Absent
<1> QED
  BY <1>1, <1>2, <1>3 DEF StoreTypeOK, Settle, Absent

LEMMA BeginKeeps ==
  ASSUME StoreInv, NEW o \in StoreOps, NEW action \in StoreActions, Begin(o, action, selected)
  PROVE  StoreInv'
<1> USE DEF StoreInv
<1> DEFINE row == [action |-> action, gen |-> selected, state |-> "intent", result |-> "none"]
<1>1. row \in LedgerRow /\ row # Absent
  BY DEF StoreTypeOK, LedgerRow, Absent
<1>2. /\ ledger' = [ledger EXCEPT ![o] = row]
      /\ ledger[o] = Absent /\ Intents = {}
      /\ UNCHANGED <<selected, generations, effects, call>>
  BY DEF Begin
<1>3. StoreTypeOK'
  BY <1>1, <1>2 DEF StoreTypeOK
<1>4. /\ ledger'[o] = row
      /\ \A p \in StoreOps : p # o => ledger'[p] = ledger[p]
  BY <1>2 DEF StoreTypeOK
<1>5. \A g \in generations : g.op \in StoreOps /\ g.op # o
  BY <1>2 DEF RowsHaveOperations, StoreTypeOK, GenerationRow
<1>6. Intents' = {o}
  BY <1>2, <1>4 DEF Intents
<1>7. IntentsHaveNoResult' /\ OneUnresolved'
  BY <1>4, <1>6 DEF IntentsHaveNoResult, OneUnresolved
<1>8. RowsHaveOperations' /\ PreparedByItsOperation'
  BY <1>2, <1>4, <1>5 DEF RowsHaveOperations, PreparedByItsOperation
<1>9. OperationIsKey' /\ OnePreparedRow'
  BY <1>2 DEF OperationIsKey, OnePreparedRow, PreparedRows
<1>10. CallHasItsRow'
  <2>1. call = {}
    BY <1>2 DEF CallHasItsRow, StoreTypeOK, Calls, Intents
  <2> QED
    BY <1>2, <2>1 DEF CallHasItsRow
<1> QED
  BY <1>3, <1>7, <1>8, <1>9, <1>10

LEMMA FinishKeeps ==
  ASSUME StoreInv, NEW o \in StoreOps, NEW result \in StoreResults \ {"prepared"},
         call = NoCall, FinishOp(o, result)
  PROVE  StoreInv'
<1> USE DEF StoreInv
<1>1. /\ ledger[o].state = "intent" /\ Settle(o, result)
      /\ UNCHANGED <<selected, generations, effects, call>>
  BY DEF FinishOp
<1>2. /\ ledger' \in [StoreOps -> LedgerRow \cup {Absent}]
      /\ ledger'[o].state = "completed" /\ ledger'[o].result = result
      /\ \A p \in StoreOps : p # o => ledger'[p] = ledger[p]
      /\ \A p \in StoreOps : ledger'[p] = Absent <=> ledger[p] = Absent
  BY <1>1, SettledRow
<1>3. StoreTypeOK'
  BY <1>1, <1>2 DEF StoreTypeOK
<1>4. Intents' \subseteq Intents /\ o \notin Intents'
  BY <1>2 DEF Intents
<1>5. IntentsHaveNoResult' /\ OneUnresolved'
  BY <1>2, <1>4 DEF IntentsHaveNoResult, OneUnresolved, Intents
<1>6. ledger[o].result = "none"
  BY <1>1 DEF IntentsHaveNoResult, Intents
<1>7. \A g \in generations : g.op \in StoreOps
  BY DEF StoreTypeOK, GenerationRow
<1>8. RowsHaveOperations' /\ PreparedByItsOperation'
  BY <1>1, <1>2, <1>6, <1>7 DEF RowsHaveOperations, PreparedByItsOperation
<1>9. OperationIsKey' /\ OnePreparedRow' /\ CallHasItsRow'
  BY <1>1 DEF OperationIsKey, OnePreparedRow, PreparedRows, CallHasItsRow, NoCall
<1> QED
  BY <1>3, <1>5, <1>8, <1>9

LEMMA EffectKeeps ==
  ASSUME StoreInv, NEW o \in StoreOps, NEW n \in Nodes, NEW action \in {"start", "stop"},
         EffectIntent(o, n, action) \/ EffectRecorded(o, n, action)
  PROVE  StoreInv'
<1> USE DEF StoreInv
<1>1. UNCHANGED <<selected, generations, ledger, call>>
  BY DEF EffectIntent, EffectRecorded
<1>2. effects' \subseteq EffectRow
  <2>1. \A s \in {"intent", "recorded"} :
          [op |-> o, node |-> n, action |-> action, state |-> s] \in EffectRow
    BY DEF EffectRow
  <2> QED
    BY <2>1 DEF EffectIntent, EffectRecorded, StoreTypeOK
<1>3. StoreTypeOK'
  BY <1>1, <1>2 DEF StoreTypeOK
<1> QED
  BY <1>1, <1>3 DEF OperationIsKey, RowsHaveOperations, IntentsHaveNoResult, CallHasItsRow,
     OnePreparedRow, PreparedRows, OneUnresolved, Intents, PreparedByItsOperation

LEMMA PreserveKeeps ==
  ASSUME StoreInv, NEW o \in StoreOps, NEW replacement \in StoreOps, call = NoCall,
         PreserveInitialPreparation(o, replacement)
  PROVE  StoreInv'
<1> USE DEF StoreInv
<1> DEFINE sealed(g) == [g EXCEPT !.state = IF g.op = o /\ @ = "preparing" THEN "preserved" ELSE @]
<1>1. /\ Sealable(o) /\ UNCHANGED <<selected, effects, call>>
      /\ generations' = {sealed(g) : g \in generations}
  BY DEF PreserveInitialPreparation
<1>2. \A g \in generations :
        /\ g \in GenerationRow
        /\ sealed(g) \in GenerationRow
        /\ sealed(g).op = g.op /\ sealed(g).number = g.number
        /\ g.state \in {"preserved", "preparing"} /\ sealed(g).state \in {"preserved", "preparing"}
  BY <1>1 DEF Sealable, StoreTypeOK, GenerationRow
<1>3. /\ ledger' \in [StoreOps -> LedgerRow \cup {Absent}]
      /\ \A p \in StoreOps : ledger'[p] = Absent <=> ledger[p] = Absent
      /\ \A p \in Intents' : p \in Intents /\ ledger'[p] = ledger[p]
      /\ \A p \in StoreOps : ledger'[p] = ledger[p] \/ ledger'[p].result = "preserved"
  <2>1. CASE ledger[o].state = "intent"
    <3>1. Settle(o, "preserved") /\ "preserved" \in StoreResults
      BY <2>1 DEF PreserveInitialPreparation, StoreResults
    <3>2. /\ ledger' \in [StoreOps -> LedgerRow \cup {Absent}]
          /\ ledger'[o].state = "completed" /\ ledger'[o].result = "preserved"
          /\ \A p \in StoreOps : p # o => ledger'[p] = ledger[p]
          /\ \A p \in StoreOps : ledger'[p] = Absent <=> ledger[p] = Absent
      BY <2>1, <3>1, SettledRow
    <3> QED
      BY <3>2 DEF Intents
  <2>2. CASE ledger[o].state # "intent"
    BY <2>2 DEF PreserveInitialPreparation, StoreTypeOK, Intents
  <2> QED
    BY <2>1, <2>2
<1>4. StoreTypeOK'
  BY <1>1, <1>2, <1>3 DEF StoreTypeOK
<1> HIDE DEF sealed
<1>5. OperationIsKey'
  <2> SUFFICES ASSUME NEW g \in generations, NEW h \in generations, sealed(g).op = sealed(h).op
               PROVE  sealed(g) = sealed(h)
    BY <1>1 DEF OperationIsKey
  <2>1. g.op = h.op
    BY <1>2
  <2> QED
    BY <2>1 DEF OperationIsKey
<1>6. RowsHaveOperations'
  BY <1>1, <1>2, <1>3 DEF RowsHaveOperations, GenerationRow
<1>7. IntentsHaveNoResult' /\ OneUnresolved'
  BY <1>3 DEF IntentsHaveNoResult, OneUnresolved
<1>8. CallHasItsRow'
  BY <1>1 DEF CallHasItsRow, NoCall
<1>9. OnePreparedRow'
  BY <1>1, <1>2 DEF OnePreparedRow, PreparedRows, Sealable
<1>10. PreparedByItsOperation'
  BY <1>1, <1>2, <1>3 DEF PreparedByItsOperation, GenerationRow
<1> QED
  BY <1>4, <1>5, <1>6, <1>7, <1>8, <1>9, <1>10

LEMMA OpenKeeps ==
  ASSUME StoreInv, NEW o \in StoreOps, ledger[o].state = "intent", OpenGeneration(o, selected)
  PROVE  StoreInv'
<1> USE DEF StoreInv
<1> DEFINE row == [number |-> selected + 1, op |-> o, state |-> "preparing"]
           c == [op |-> o, expected |-> selected]
<1>1. /\ selected < MaxGen /\ \A g \in generations : g.op # o
      /\ generations' = generations \cup {row} /\ call' = {c}
      /\ UNCHANGED <<selected, ledger, effects>>
  BY DEF OpenGeneration
<1>2. selected \in 0..MaxGen
  BY DEF StoreTypeOK
<1>3. row \in GenerationRow /\ c \in Calls
  BY <1>1, <1>2 DEF GenerationRow, Calls
<1>4. StoreTypeOK'
  BY <1>1, <1>3 DEF StoreTypeOK
<1>5. ledger[o] # Absent
  BY DEF Absent
<1>6. OperationIsKey' /\ RowsHaveOperations'
  BY <1>1, <1>5 DEF OperationIsKey, RowsHaveOperations
<1>7. IntentsHaveNoResult' /\ OneUnresolved'
  BY <1>1 DEF IntentsHaveNoResult, OneUnresolved, Intents
<1>8. CallHasItsRow'
  BY <1>1 DEF CallHasItsRow
<1>9. \A number : PreparedRows(number)' = PreparedRows(number)
  BY <1>1 DEF PreparedRows
<1>10. OnePreparedRow'
  BY <1>1, <1>9 DEF OnePreparedRow
<1>11. PreparedByItsOperation'
  <2>1. ledger[o].result = "none"
    BY DEF IntentsHaveNoResult, Intents
  <2> QED
    BY <1>1, <2>1 DEF PreparedByItsOperation
<1> QED
  BY <1>4, <1>6, <1>7, <1>8, <1>10, <1>11

LEMMA LeaveKeeps ==
  ASSUME StoreInv, LeaveCall
  PROVE  StoreInv'
<1> USE DEF StoreInv
<1>1. call' = {} /\ UNCHANGED <<selected, generations, ledger, effects>>
  BY DEF LeaveCall, NoCall
<1>2. StoreTypeOK' /\ CallHasItsRow'
  BY <1>1 DEF StoreTypeOK, CallHasItsRow
<1> QED
  BY <1>1, <1>2 DEF OperationIsKey, RowsHaveOperations, IntentsHaveNoResult,
     OnePreparedRow, PreparedRows, OneUnresolved, Intents, PreparedByItsOperation

(* The new generation is selected with exactly one prepared row, although
   rows of the same number may have been left by earlier preparations. *)
LEMMA CommitKeeps ==
  ASSUME StoreInv, NEW o \in StoreOps, CommitGeneration(o, selected)
  PROVE  StoreInv'
<1> USE DEF StoreInv
<1> DEFINE whole(g) == [g EXCEPT !.state = IF g.op = o THEN "prepared" ELSE @]
           row == [number |-> selected + 1, op |-> o, state |-> "preparing"]
<1>1. /\ call = {[op |-> o, expected |-> selected]} /\ ledger[o].state = "intent"
      /\ generations' = {whole(g) : g \in generations}
      /\ selected' = selected + 1 /\ Settle(o, "prepared") /\ call' = {}
      /\ UNCHANGED effects
  BY DEF CommitGeneration, NoCall
<1>2. selected < MaxGen /\ row \in generations
  BY <1>1 DEF CallHasItsRow
<1>3. /\ ledger' \in [StoreOps -> LedgerRow \cup {Absent}]
      /\ ledger'[o].state = "completed" /\ ledger'[o].result = "prepared"
      /\ \A p \in StoreOps : p # o => ledger'[p] = ledger[p]
      /\ \A p \in StoreOps : ledger'[p] = Absent <=> ledger[p] = Absent
  BY <1>1, SettledRow DEF StoreResults
<1>4. \A g \in generations :
        /\ g \in GenerationRow /\ whole(g) \in GenerationRow
        /\ whole(g).op = g.op /\ whole(g).number = g.number
        /\ g.op = o => g = row /\ whole(g).state = "prepared"
        /\ g.op # o => whole(g) = g
  BY <1>2 DEF StoreTypeOK, GenerationRow, OperationIsKey
<1>5. StoreTypeOK'
  BY <1>1, <1>2, <1>3, <1>4 DEF StoreTypeOK
<1>6. OperationIsKey'
  BY <1>1, <1>4 DEF OperationIsKey
<1>7. RowsHaveOperations'
  BY <1>1, <1>3, <1>4 DEF RowsHaveOperations, GenerationRow
<1>8. Intents' = {}
  <2>1. \A p \in StoreOps : ledger[p].state = "intent" => p = o
    BY <1>1 DEF OneUnresolved, Intents
  <2> QED
    BY <1>3, <2>1 DEF Intents
<1>9. IntentsHaveNoResult' /\ OneUnresolved' /\ CallHasItsRow'
  BY <1>1, <1>8 DEF IntentsHaveNoResult, OneUnresolved, CallHasItsRow
<1>10. PreparedByItsOperation'
  BY <1>1, <1>3, <1>4 DEF PreparedByItsOperation, GenerationRow
<1>11. whole(row) \in generations' /\ \A g \in generations : g # row => whole(g) = g
  BY <1>1, <1>2, <1>4
<1> HIDE DEF whole
<1>12. \A number :
         /\ number = selected + 1 /\ PreparedRows(number) = {} => PreparedRows(number)' = {whole(row)}
         /\ number # selected + 1 => PreparedRows(number)' = PreparedRows(number)
  <2>1. whole(row).number = selected + 1 /\ whole(row).state = "prepared"
    BY <1>2, <1>4
  <2>2. \A g : g \in generations' <=> \/ g = whole(row)
                                      \/ g \in generations /\ g # row
    BY <1>1, <1>2, <1>4, <1>11
  <2>3. \A number, g : g \in PreparedRows(number)'
                         <=> \/ number = selected + 1 /\ g = whole(row)
                             \/ g \in PreparedRows(number)
    BY <2>1, <2>2 DEF PreparedRows
  <2> QED
    BY <2>3 DEF PreparedRows
<1>13. OnePreparedRow'
  <2> SUFFICES ASSUME NEW number \in 1..MaxGen
               PROVE  IF number <= selected + 1
                      THEN \E g \in generations' : PreparedRows(number)' = {g}
                      ELSE PreparedRows(number)' = {}
    BY <1>1 DEF OnePreparedRow
  <2>1. selected \in 0..MaxGen
    BY DEF StoreTypeOK
  <2>2. CASE number = selected + 1
    <3>1. PreparedRows(number) = {}
      BY <2>1, <2>2 DEF OnePreparedRow
    <3> QED
      BY <1>11, <1>12, <2>1, <2>2, <3>1
  <2>3. CASE number # selected + 1
    <3>1. PreparedRows(number)' = PreparedRows(number)
      BY <1>12, <2>3
    <3>2. CASE number <= selected
      <4>1. PICK g \in generations : PreparedRows(number) = {g}
        BY <3>2 DEF OnePreparedRow
      <4>2. g \in PreparedRows(number)'
        BY <3>1, <4>1
      <4>3. g \in generations'
        BY <4>2 DEF PreparedRows
      <4> QED
        BY <2>1, <3>1, <3>2, <4>1, <4>3
    <3>3. CASE ~(number <= selected)
      BY <2>1, <2>3, <3>1, <3>3 DEF OnePreparedRow
    <3> QED
      BY <3>2, <3>3
  <2> QED
    BY <2>2, <2>3
<1> QED
  BY <1>5, <1>6, <1>7, <1>9, <1>10, <1>13

LEMMA StoreStep == StoreInv /\ [StoreNext]_svars => StoreInv'
<1> SUFFICES ASSUME StoreInv, [StoreNext]_svars PROVE StoreInv'
  OBVIOUS
<1>1. CASE UNCHANGED svars
  BY <1>1 DEF svars, StoreInv, StoreTypeOK, OperationIsKey, RowsHaveOperations, IntentsHaveNoResult,
     CallHasItsRow, OnePreparedRow, PreparedRows, OneUnresolved, Intents, PreparedByItsOperation
<1>2. ASSUME NEW o \in StoreOps, call = NoCall, StoreCaller(o) PROVE StoreInv'
  <2>1. CASE \E action \in StoreActions : Begin(o, action, selected)
    BY <2>1, BeginKeeps
  <2>2. CASE \E result \in StoreResults \ {"prepared"} : FinishOp(o, result)
    BY <1>2, <2>2, FinishKeeps
  <2>3. CASE \E replacement \in StoreOps : PreserveInitialPreparation(o, replacement)
    BY <1>2, <2>3, PreserveKeeps
  <2>4. CASE \E n \in Nodes, action \in {"start", "stop"} :
               EffectIntent(o, n, action) \/ EffectRecorded(o, n, action)
    BY <2>4, EffectKeeps
  <2>5. CASE ledger[o].state = "intent" /\ OpenGeneration(o, selected)
    BY <2>5, OpenKeeps
  <2> QED
    BY <1>2, <2>1, <2>2, <2>3, <2>4, <2>5 DEF StoreCaller
<1>3. ASSUME NEW o \in StoreOps, CommitGeneration(o, selected) PROVE StoreInv'
  BY <1>3, CommitKeeps
<1>4. CASE LeaveCall
  BY <1>4, LeaveKeeps
<1> QED
  BY <1>1, <1>2, <1>3, <1>4 DEF StoreNext

LEMMA StoreAlways == StoreSpec => []StoreInv
  BY StoreStart, StoreStep, PTL DEF StoreSpec

(* Whatever was cancelled, interrupted or sealed before, the files of every
   generation up to the selected one are found through exactly one row
   (node_paths), and no later generation has one. *)
THEOREM EveryGenerationHasItsRow == StoreSpec => []OnePreparedRow
  BY StoreAlways, PTL DEF StoreInv

(* A crash leaves at most one operation unresolved (begin). *)
THEOREM AtMostOneUnresolved == StoreSpec => []OneUnresolved
  BY StoreAlways, PTL DEF StoreInv

(* A generation is prepared if and only if its own operation is recorded as
   having prepared it: none that was cancelled, reconciled or sealed is. *)
THEOREM OnlyACommitPrepares == StoreSpec => []PreparedByItsOperation
  BY StoreAlways, PTL DEF StoreInv

(* What one transaction leaves as it is. *)
Grows ==
  /\ \A g \in generations : g.state # "preparing" => g \in generations'
  /\ \A o \in StoreOps : ledger[o].state = "completed" => ledger'[o] = ledger[o]
  /\ selected <= selected'

LEMMA StoreGrows == StoreInv /\ [StoreNext]_svars => [Grows]_svars
<1> SUFFICES ASSUME StoreInv, StoreNext PROVE Grows
  OBVIOUS
<1> USE DEF Grows
<1>1. selected \in 0..MaxGen
  BY DEF StoreInv, StoreTypeOK
<1>2. ASSUME NEW o \in StoreOps, NEW result \in StoreResults, ledger[o].state = "intent", Settle(o, result)
      PROVE  \A p \in StoreOps : ledger[p].state = "completed" => ledger'[p] = ledger[p]
  BY <1>2, SettledRow DEF StoreInv
<1>3. ASSUME NEW o \in StoreOps, NEW action, Begin(o, action, selected) PROVE Grows
  BY <1>1, <1>3 DEF Begin, StoreInv, StoreTypeOK, Absent
<1>4. ASSUME NEW o \in StoreOps, NEW result \in StoreResults, FinishOp(o, result) PROVE Grows
  BY <1>1, <1>2, <1>4 DEF FinishOp
<1>5. ASSUME NEW o \in StoreOps, NEW replacement, PreserveInitialPreparation(o, replacement) PROVE Grows
  <2>1. \A p \in StoreOps : ledger[p].state = "completed" => ledger'[p] = ledger[p]
    BY <1>2, <1>5 DEF PreserveInitialPreparation, StoreResults
  <2>2. \A g \in generations : g.state # "preparing" => g \in generations'
    BY <1>5 DEF PreserveInitialPreparation, StoreInv, StoreTypeOK, GenerationRow
  <2> QED
    BY <1>1, <1>5, <2>1, <2>2 DEF PreserveInitialPreparation
<1>6. ASSUME NEW o \in StoreOps, NEW n, NEW action,
             EffectIntent(o, n, action) \/ EffectRecorded(o, n, action) \/ OpenGeneration(o, selected)
      PROVE Grows
  BY <1>1, <1>6 DEF EffectIntent, EffectRecorded, OpenGeneration
<1>7. ASSUME NEW o \in StoreOps, CommitGeneration(o, selected) PROVE Grows
  <2>1. \A p \in StoreOps : ledger[p].state = "completed" => ledger'[p] = ledger[p]
    BY <1>2, <1>7 DEF CommitGeneration, StoreResults
  <2>2. \A g \in generations : g.op = o => g.state = "preparing"
    BY <1>7 DEF CommitGeneration, StoreInv, CallHasItsRow, OperationIsKey
  <2>3. \A g \in generations : g.state # "preparing" => g \in generations'
    BY <1>7, <2>2 DEF CommitGeneration, StoreInv, StoreTypeOK, GenerationRow
  <2> QED
    BY <1>1, <1>7, <2>1, <2>3 DEF CommitGeneration
<1>8. CASE LeaveCall
  BY <1>1, <1>8 DEF LeaveCall
<1> QED
  BY <1>3, <1>4, <1>5, <1>6, <1>7, <1>8 DEF StoreNext, StoreCaller

(* No transaction takes back what an earlier one has preserved, answered or
   selected (prepare_generation, finish, preserve_initial_preparation). *)
THEOREM StoreOnlyGrows == StoreSpec => NothingTakenBack
<1>1. StoreInv /\ [StoreNext]_svars => [Grows]_svars
  BY StoreGrows
<1> QED
  BY <1>1, StoreAlways, PTL DEF StoreSpec, NothingTakenBack, Grows
=============================================================================
