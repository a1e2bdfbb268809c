------------------------- MODULE LocalServiceProofs -------------------------
(* Theorems about the contract service, for every value of its constants: its
   types, and the inductive invariant behind its safety properties, which every
   transaction and every step of a worker preserves. *)
EXTENDS LocalServiceProps, TLAPS

(* The vocabulary of the contract is closed. *)
LEMMA VocabularyType ==
  ASSUME NEW kind
  PROVE  /\ TransientOf(kind) \in Transients
         /\ TransientOf(kind) \in States
         /\ Success(kind) \subseteq States \ Transients
         /\ CancelledStates \subseteq States \ Transients
         /\ Doubtful \subseteq States \ Transients
BY DEF TransientOf, Success, CancelledStates, States, Transients, Running, Doubtful

(* A row appended to a table. *)
LEMMA WithRowType ==
  ASSUME NEW T, rows \in Nat, NEW f \in [Recorded -> T], NEW r \in T
  PROVE  /\ WithRow(f, r) \in [1..(rows + 1) -> T]
         /\ WithRow(f, r)[rows + 1] = r
         /\ \A o \in Recorded : WithRow(f, r)[o] = f[o] /\ o # rows + 1
         /\ 1..(rows + 1) = Recorded \cup {rows + 1}
BY DEF WithRow, Recorded

(* Emitting an event keeps both tables typed and touches one instance. *)
LEMMA EmitType ==
  ASSUME TypeOK, NEW i \in Instances, NEW row \in InstanceRow, NEW o \in OpIds,
         NEW stage \in Stages,
         Emit(i, row, o, stage)
  PROVE  /\ inst' \in [Instances -> InstanceRow]
         /\ events' \in [Instances -> SUBSET EventRow]
         /\ inst'[i] = [row EXCEPT !.seq = row.seq + 1]
         /\ inst'[i].active = row.active
         /\ \A j \in Instances : j # i => inst'[j] = inst[j]
         /\ row.seq + 1 \in Nat
BY DEF TypeOK, Emit, Logged, Event, InstanceRow, EventRow

LEMMA AnswerType ==
  ASSUME NEW result \in Results, NEW row \in InstanceRow, NEW state \in States,
         NEW cancelled \in BOOLEAN, NEW error \in BOOLEAN
  PROVE  Answer(result, row, state, cancelled, error) \in Answers
BY DEF Answer, Answers, InstanceRow

LEMMA StaleType ==
  ASSUME NEW row \in InstanceRow
  PROVE  Stale(row) \in Answers
BY AnswerType DEF Stale, Results, States, Doubtful

LEMMA LoggedType ==
  ASSUME NEW row \in InstanceRow
  PROVE  Logged(row) \in InstanceRow
BY DEF Logged, InstanceRow

LEMMA NewOpType ==
  ASSUME NEW kind \in AllKinds, NEW i \in Instances, NEW key \in RequestKeys,
         NEW gen \in Nat, NEW rev \in Nat, NEW target \in OpIds \cup {NoOp},
         NEW status \in Statuses, NEW response \in Answers \cup {NoAnswer}
  PROVE  NewOp(kind, i, key, gen, rev, target, status, response) \in OperationRow
BY DEF NewOp, OperationRow

LEMMA TakenType ==
  ASSUME NEW row \in InstanceRow, NEW previous \in States, NEW kind, NEW o \in OpIds, NEW rev \in Nat
  PROVE  TakenFrom(row, previous, kind, o, rev) \in InstanceRow
<1>1. TransientOf(kind) \in States
  BY VocabularyType
<1> QED
  BY <1>1 DEF TakenFrom, InstanceRow

LEMMA ResolvedType ==
  ASSUME NEW op \in OperationRow, NEW status \in Statuses, NEW response \in Answers \cup {NoAnswer}
  PROVE  /\ Resolved(op, status, response) \in OperationRow
         /\ Resolved(op, status, response).inst = op.inst
         /\ Resolved(op, status, response).status = status
         /\ Resolved(op, status, response).response = response
BY DEF Resolved, OperationRow

LEMMA SupersededType ==
  ASSUME TypeOK, NEW row \in InstanceRow
  PROVE  Superseded(row) \in [Recorded -> OperationRow]
<1>1. ASSUME NEW q \in Recorded
      PROVE  Resolved(ops[q], "unknown", Stale(row)) \in OperationRow /\ ops[q] \in OperationRow
  <2>1. "unknown" \in Statuses
    BY DEF Statuses, Results
  <2> QED
    BY <2>1, StaleType, ResolvedType DEF TypeOK
<1> QED
  BY <1>1 DEF Superseded

LEMMA SealedType ==
  ASSUME TypeOK, NEW row \in InstanceRow, NEW original \in Recorded
  PROVE  Sealed(original, row) \in [Recorded -> OperationRow]
<1>1. Resolved(ops[original], "unknown", Stale(row)) \in OperationRow
  <2>1. "unknown" \in Statuses /\ ops[original] \in OperationRow
    BY DEF Statuses, Results, TypeOK
  <2> QED
    BY <2>1, StaleType, ResolvedType
<1> QED
  BY <1>1 DEF Sealed, TypeOK

(* The tables after an operation has been recorded for an instance. *)
LEMMA RecordType ==
  ASSUME TypeOK, rows < MaxOps, NEW i \in Instances, NEW row \in InstanceRow,
         NEW f \in [Recorded -> OperationRow], NEW new \in OperationRow,
         NEW stage \in Stages,
         row.active \in 1..(rows + 1) \cup {NoOp},
         ops' = WithRow(f, new),
         Emit(i, row, rows + 1, stage),
         rows' = rows + 1,
         UNCHANGED <<gate, work, executed>>
  PROVE  TypeOK'
<1>1. rows \in Nat /\ rows + 1 \in OpIds /\ rows' \in 0..MaxOps /\ MaxOps \in Nat
  BY ServiceAssumption DEF TypeOK, OpIds
<1>2. ops' \in [1..rows' -> OperationRow] /\ 1..rows' = Recorded \cup {rows + 1}
  BY <1>1, WithRowType
<1>3. /\ inst' \in [Instances -> InstanceRow]
      /\ events' \in [Instances -> SUBSET EventRow]
      /\ inst'[i].active = row.active
      /\ \A j \in Instances : j # i => inst'[j] = inst[j]
  BY <1>1, EmitType
<1>4. Recorded' = 1..rows' /\ Recorded \subseteq Recorded'
  BY <1>1 DEF Recorded
<1>5. \A j \in Instances : inst'[j].active \in Recorded' \cup {NoOp}
  BY <1>2, <1>3, <1>4 DEF TypeOK, Recorded
<1>6. \A w \in Workers : work'[w].pc # "idle" => work'[w].op \in Recorded'
  BY <1>4 DEF TypeOK
<1> QED
  BY <1>1, <1>2, <1>3, <1>4, <1>5, <1>6 DEF TypeOK

LEMMA InitialTypes == Init => TypeOK
<1> SUFFICES ASSUME Init PROVE TypeOK
  OBVIOUS
<1>1. NoRow \in InstanceRow /\ NoRow.active = NoOp
  BY DEF NoRow, InstanceRow, States, Doubtful
<1>2. Failure("unknown") \in Outcome
  BY DEF Failure, Outcome, States, Doubtful
<1>3. Idle \in Local /\ Idle.pc = "idle"
  BY <1>2 DEF Idle, At, Local, States, Doubtful
<1>4. rows = 0 /\ Recorded = {} /\ 0 \in 0..MaxOps
  BY ServiceAssumption DEF Init, Recorded
<1>5. ops \in [Recorded -> OperationRow]
  BY <1>4 DEF Init
<1> QED
  BY <1>1, <1>3, <1>4, <1>5 DEF Init, TypeOK

(* A request that is recorded keeps the tables typed; the generation and the
   revision it expects are the current ones, which is all that bounds them. *)
LEMMA PrepareTypes ==
  ASSUME TypeOK, NEW i \in Instances, NEW key \in Keys, Prepare(i, key)
  PROVE  TypeOK'
<1> USE ServiceAssumption
<1> DEFINE o == rows + 1
<1> DEFINE new == NewOp("prepare", i, key, 0, 0, NoOp, "pending", NoAnswer)
<1>1. NewRow \in InstanceRow /\ "failed" \in States /\ NewRow.state \in States /\ o \in OpIds /\ NewRow.revision + 1 \in Nat
  BY DEF NewRow, InstanceRow, States, Doubtful, Prepare, TypeOK, OpIds
<1>2. Taken(NewRow, "prepare", o) \in InstanceRow /\ Taken(NewRow, "prepare", o).active = o
  BY <1>1, TakenType DEF Taken, TakenFrom
<1>3. new \in OperationRow
  <2>1. "prepare" \in AllKinds /\ key \in RequestKeys /\ "pending" \in Statuses
    BY DEF AllKinds, RequestKeys, Statuses
  <2> QED
    BY <2>1, NewOpType
<1>4. ops \in [Recorded -> OperationRow] /\ o \in 1..(rows + 1)
  BY <1>1 DEF TypeOK, OpIds
<1> QED
  BY <1>2, <1>3, <1>4, RecordType DEF Prepare, Stages

LEMMA SubmitTypes ==
  ASSUME TypeOK, NEW i \in Instances, NEW key \in Keys, NEW gen, NEW rev,
         NEW kind \in Kinds, Submit(kind, i, key, gen, rev)
  PROVE  TypeOK'
<1> USE ServiceAssumption
<1> DEFINE o == rows + 1
<1> DEFINE new == NewOp(kind, i, key, gen, rev, NoOp, "pending", NoAnswer)
<1>1. /\ inst[i] \in InstanceRow /\ inst[i].state \in States /\ o \in OpIds /\ inst[i].revision + 1 \in Nat
      /\ gen \in Nat /\ rev \in Nat
  BY DEF InstanceRow, Submit, Current, TypeOK, OpIds
<1>2. Taken(inst[i], kind, o) \in InstanceRow /\ Taken(inst[i], kind, o).active = o
  BY <1>1, TakenType DEF Taken, TakenFrom
<1>3. new \in OperationRow
  <2>1. kind \in AllKinds /\ key \in RequestKeys /\ "pending" \in Statuses
    BY DEF AllKinds, RequestKeys, Statuses
  <2> QED
    BY <1>1, <2>1, NewOpType
<1>4. Superseded(inst[i]) \in [Recorded -> OperationRow] /\ o \in 1..(rows + 1)
  BY <1>1, SupersededType DEF TypeOK, OpIds
<1> QED
  BY <1>2, <1>3, <1>4, RecordType DEF Submit, Stages

LEMMA CancelTypes ==
  ASSUME TypeOK, NEW i \in Instances, NEW key \in Keys, NEW gen, NEW rev,
         NEW target \in OpIds, Cancel(i, key, gen, rev, target)
  PROVE  TypeOK'
<1> USE ServiceAssumption
<1> DEFINE o == rows + 1
<1> DEFINE row == [inst[i] EXCEPT !.revision = @ + 1]
<1> DEFINE reply == Answer("completed", Logged(row), row.state, FALSE, FALSE)
<1> DEFINE new == NewOp("cancel", i, key, gen, rev, target, "completed", reply)
<1>0. /\ inst[i] \in InstanceRow /\ inst[i].active = target /\ o \in OpIds
      /\ gen = inst[i].generation /\ rev = inst[i].revision
  BY DEF Cancel, Current, TypeOK, OpIds
<1>1. row \in InstanceRow /\ row.state \in States /\ row.active = target /\ gen \in Nat /\ rev \in Nat
  BY <1>0 DEF InstanceRow
<1>2. target \in Recorded /\ target \in 1..(rows + 1)
  BY DEF Cancel, TypeOK, Recorded
<1>3. new \in OperationRow
  <2>1. "cancel" \in AllKinds /\ key \in RequestKeys /\ "completed" \in Statuses
    BY DEF AllKinds, RequestKeys, Statuses, Results
  <2>2. reply \in Answers
    BY <1>1, AnswerType, LoggedType DEF Results
  <2> QED
    BY <1>1, <2>1, <2>2, NewOpType
<1>4. [ops EXCEPT ![target].cancel = TRUE] \in [Recorded -> OperationRow]
  BY <1>2 DEF TypeOK, OperationRow
<1> QED
  BY <1>0, <1>1, <1>2, <1>3, <1>4, RecordType DEF Cancel, Stages

LEMMA TypesNext == TypeOK /\ [Next]_vars => TypeOK'
<1> SUFFICES ASSUME TypeOK, [Next]_vars PROVE TypeOK'
  OBVIOUS
<1> USE ServiceAssumption
<1>1. ASSUME NEW i \in Instances, NEW key \in Keys, Prepare(i, key) PROVE TypeOK'
  BY <1>1, PrepareTypes
<1>2. ASSUME NEW i \in Instances, NEW key \in Keys, NEW gen \in Gens, NEW rev \in Revs,
             NEW kind \in Kinds, Submit(kind, i, key, gen, rev)
      PROVE  TypeOK'
  BY <1>2, SubmitTypes
<1>3. ASSUME NEW i \in Instances, NEW key \in Keys, NEW gen \in Gens, NEW rev \in Revs,
             NEW target \in OpIds, Cancel(i, key, gen, rev, target)
      PROVE  TypeOK'
  BY <1>3, CancelTypes
<1>4. ASSUME NEW i \in Instances, NEW original \in OpIds, NEW rev \in Revs, NEW attempt \in Attempts,
             RestartPreparation(i, original, rev, attempt)
      PROVE  TypeOK'
  <2> DEFINE o == rows + 1
  <2> DEFINE key == <<i, original, rev, attempt>>
  <2> DEFINE new == NewOp("prepare", i, key, 0, 0, NoOp, "pending", NoAnswer)
  <2> DEFINE row == TakenFrom(inst[i], "failed", "prepare", o, inst[i].revision + 1)
  <2>1. inst[i] \in InstanceRow /\ "failed" \in States /\ o \in OpIds /\ inst[i].revision + 1 \in Nat
    <3>1. inst[i] \in InstanceRow
      BY DEF TypeOK
    <3>2. o \in OpIds
      BY <1>4 DEF RestartPreparation, TypeOK, OpIds
    <3> QED
      BY <3>1, <3>2 DEF InstanceRow, States, Doubtful
  <2>2. row \in InstanceRow /\ row.active = o
    BY <2>1, TakenType DEF TakenFrom
  <2>3. new \in OperationRow
    <3>1. "prepare" \in AllKinds /\ key \in RequestKeys /\ "pending" \in Statuses
      BY DEF AllKinds, RequestKeys, RestartKeys, Statuses, Revs
    <3> QED
      BY <3>1, NewOpType
  <2>4. Sealed(original, inst[i]) \in [Recorded -> OperationRow] /\ o \in 1..(rows + 1)
    BY <1>4, <2>1, SealedType DEF TypeOK, OpIds, RestartPreparation
  <2> QED
    BY <1>4, <2>2, <2>3, <2>4, RecordType DEF RestartPreparation, Stages
<1>5. ASSUME NEW w \in Workers, NEW o \in OpIds, Claim(w, o) PROVE TypeOK'
  <2> DEFINE i == ops[o].inst
  <2>1. /\ o \in Recorded /\ ops[o] \in OperationRow /\ i \in Instances
        /\ inst[i] \in InstanceRow
    BY <1>5 DEF Claim, Claimable, TypeOK, OperationRow
  <2>2. /\ inst' \in [Instances -> InstanceRow]
        /\ events' \in [Instances -> SUBSET EventRow]
        /\ \A j \in Instances : inst'[j].active = inst[j].active
    <3>1. Emit(i, inst[i], o, "executing") /\ "executing" \in Stages
      BY <1>5 DEF Claim, Stages
    <3> QED
      BY <2>1, <3>1, EmitType
  <2>3. ops' \in [Recorded -> OperationRow] /\ Recorded' = Recorded
    BY <1>5, <2>1 DEF Claim, TypeOK, OperationRow, Statuses, Recorded
  <2>4. At("claimed", o, inst[i].generation, inst[i].previous, Failure("unknown")) \in Local
    BY <2>1 DEF At, Local, Failure, Outcome, InstanceRow, States, Doubtful
  <2>5. work' \in [Workers -> Local] /\ \A v \in Workers : work'[v].pc # "idle" => work'[v].op \in Recorded
    BY <1>5, <2>1, <2>4 DEF Claim, TypeOK, At
  <2> QED
    BY <1>5, <2>2, <2>3, <2>5 DEF Claim, TypeOK
<1>6. ASSUME NEW w \in Workers, NEW outcome \in Outcome, Decide(w, outcome),
             work[w].pc # "idle",
             UNCHANGED <<inst, ops, rows, events, gate, executed>>
      PROVE  TypeOK'
  <2>1. At("finish", work[w].op, work[w].gen, work[w].previous, outcome) \in Local
    BY DEF TypeOK, Local, At
  <2>2. work' \in [Workers -> Local] /\ \A v \in Workers : work'[v].pc # "idle" => work'[v].op \in Recorded
    BY <1>6, <2>1 DEF Decide, TypeOK, At
  <2> QED
    BY <1>6, <2>2 DEF TypeOK, Recorded
<1>7. ASSUME NEW w \in Workers, NEW gen \in Nat, Call(w, gen), work[w].pc # "idle",
             UNCHANGED <<inst, ops, rows, events, gate>>
      PROVE  TypeOK'
  <2>1. At("running", work[w].op, gen, work[w].previous, work[w].outcome) \in Local
    BY DEF TypeOK, Local, At
  <2>2. work' \in [Workers -> Local] /\ \A v \in Workers : work'[v].pc # "idle" => work'[v].op \in Recorded
    <3>1. work' = [work EXCEPT ![w] = At("running", work[w].op, gen, work[w].previous, work[w].outcome)]
      BY <1>7 DEF Call, TypeOK
    <3> QED
      BY <1>7, <2>1, <3>1 DEF TypeOK, At
  <2>3. executed' \in [OpIds -> Nat]
    <3>1. work[w].op \in OpIds
      BY <1>7 DEF TypeOK, Recorded, OpIds
    <3> QED
      BY <1>7, <3>1 DEF Call, TypeOK
  <2> QED
    BY <1>7, <2>2, <2>3 DEF TypeOK, Recorded
<1>8. Failure("recovery-required") \in Outcome /\ \A o, out : out \in Outcome => Judged(o, out) \in Outcome
  BY DEF Failure, Outcome, States, Doubtful, Judged
<1>9. ASSUME NEW w \in Workers, CheckCancel(w) PROVE TypeOK'
  <2>1. work[w] \in Local /\ work[w].pc # "idle" /\ work[w].gen \in Nat
    BY <1>9 DEF CheckCancel, TypeOK, Local
  <2>2. CASE \E out \in Outcome : Decide(w, Judged(work[w].op, out)) /\ UNCHANGED executed
    BY <1>9, <2>1, <2>2, <1>6, <1>8 DEF CheckCancel
  <2>3. CASE Call(w, work[w].gen)
    BY <1>9, <2>1, <2>3, <1>7 DEF CheckCancel
  <2>4. CASE work' = [work EXCEPT ![w].pc = "observing"] /\ UNCHANGED executed
    <3>1. work' \in [Workers -> Local] /\ \A v \in Workers : work'[v].pc # "idle" => work'[v].op \in Recorded
      BY <2>1, <2>4 DEF TypeOK, Local
    <3> QED
      BY <1>9, <2>4, <3>1 DEF CheckCancel, TypeOK, Recorded
  <2>5. [state |-> work[w].previous, cancelled |-> TRUE, error |-> FALSE] \in Outcome
    BY <2>1 DEF Local, Outcome
  <2> QED
    BY <1>9, <2>2, <2>3, <2>4, <2>5 DEF CheckCancel
<1>10. ASSUME NEW w \in Workers, NEW gen \in Gens, NEW state \in States, Observe(w, gen, state)
       PROVE  TypeOK'
  BY <1>10, <1>7 DEF Observe, Gens
<1>11. ASSUME NEW w \in Workers, ObserveFails(w) \/ BackendRaises(w) PROVE TypeOK'
  BY <1>11, <1>6, <1>8 DEF ObserveFails, BackendRaises
<1>12. ASSUME NEW w \in Workers, NEW out \in Outcomes, BackendReturns(w, out) PROVE TypeOK'
  BY <1>12, <1>6, <1>8 DEF BackendReturns
<1>13. ASSUME NEW w \in Workers, Leave(w)
       PROVE  /\ gate' \in Workers \cup {NoWorker}
              /\ work' \in [Workers -> Local]
              /\ \A v \in Workers : work'[v].pc # "idle" => work'[v].op \in Recorded
  <2>1. Idle \in Local /\ Idle.pc = "idle"
    BY DEF Idle, At, Local, Failure, Outcome, States, Doubtful
  <2> QED
    BY <1>13, <2>1 DEF Leave, TypeOK
<1>14. ASSUME NEW w \in Workers, Finish(w) PROVE TypeOK'
  <2> DEFINE o == work[w].op
  <2> DEFINE i == ops[o].inst
  <2> DEFINE out == work[w].outcome
  <2> DEFINE gen == GenerationAfter(inst[i], ops[o].kind, out, work[w].gen)
  <2> DEFINE row == Released(inst[i], out.state, gen)
  <2> DEFINE stage == IF out.error THEN "failed" ELSE IF out.cancelled THEN "cancelled" ELSE "completed"
  <2> DEFINE result == IF out.error THEN "failed" ELSE "completed"
  <2> DEFINE reply == Answer(result, Logged(row), out.state, out.cancelled, out.error)
  <2>1. /\ o \in Recorded /\ ops[o] \in OperationRow /\ i \in Instances /\ inst[i] \in InstanceRow
        /\ work[w].gen \in Nat /\ out \in Outcome /\ o \in OpIds
    <3>1. o \in Recorded /\ o \in OpIds
      BY <1>14 DEF Finish, TypeOK, Recorded, OpIds
    <3>2. work[w].gen \in Nat /\ out \in Outcome
      BY DEF TypeOK, Local
    <3>3. ops[o] \in OperationRow
      BY <3>1 DEF TypeOK
    <3>4. i \in Instances
      BY <3>3 DEF OperationRow
    <3> QED
      BY <3>1, <3>2, <3>3, <3>4 DEF TypeOK
  <2>2. gen \in Nat
    BY <2>1 DEF GenerationAfter, InstanceRow
  <2>3. row \in InstanceRow /\ row.active = NoOp
    BY <2>1, <2>2 DEF Released, InstanceRow, Outcome
  <2>4. Emit(i, row, o, stage) /\ ops' = [ops EXCEPT ![o] = Resolved(@, result, reply)] /\ Leave(w)
        /\ rows' = rows /\ executed' = executed
    BY <1>14 DEF Finish
  <2>5. /\ inst' \in [Instances -> InstanceRow]
        /\ events' \in [Instances -> SUBSET EventRow]
        /\ inst'[i].active = NoOp
        /\ \A j \in Instances : j # i => inst'[j] = inst[j]
    <3>1. stage \in Stages
      BY DEF Stages
    <3> HIDE DEF stage, row, out
    <3> QED
      BY <2>1, <2>3, <2>4, <3>1, EmitType
  <2>6. Resolved(ops[o], result, reply) \in OperationRow
    <3>1. result \in Results /\ result \in Statuses /\ out.state \in States
          /\ out.cancelled \in BOOLEAN /\ out.error \in BOOLEAN
      BY <2>1 DEF Results, Statuses, Outcome
    <3>2. reply \in Answers
      BY <2>3, <3>1, AnswerType, LoggedType
    <3> QED
      BY <2>1, <3>1, <3>2, ResolvedType
  <2>7. ops' \in [Recorded -> OperationRow]
    BY <2>1, <2>4, <2>6 DEF TypeOK
  <2>8. Recorded' = Recorded
    BY <2>4 DEF Recorded
  <2> QED
    BY <1>13, <2>4, <2>5, <2>7, <2>8 DEF TypeOK
<1>15. ASSUME NEW w \in Workers, FinishFails(w) \/ Crash(w) PROVE TypeOK'
  BY <1>13, <1>15 DEF FinishFails, Crash, TypeOK, Recorded
<1>16. ASSUME NEW i \in Instances, NEW through \in Cursors, Prune(i, through) PROVE TypeOK'
  BY <1>16 DEF Prune, TypeOK, InstanceRow, Recorded
<1>17. CASE UNCHANGED vars
  BY <1>17 DEF vars, TypeOK, Recorded
<1> QED
  BY <1>1, <1>2, <1>3, <1>4, <1>5, <1>9, <1>10, <1>11, <1>12, <1>14, <1>15, <1>16, <1>17
     DEF Next, Request, Work

(* Types and references: in every reachable state the tables are typed, an
   instance refers only to recorded operations and a worker works only on one. *)
THEOREM TypesHold == Spec => []TypeOK
BY InitialTypes, TypesNext, PTL DEF Spec

-----------------------------------------------------------------------------
USE ServiceAssumption

LEMMA InitialService == Init => ServiceInv
<1> SUFFICES ASSUME Init PROVE ServiceInv
  OBVIOUS
<1>1. Recorded = {}
  BY DEF Init, Recorded
<1>2. \A i \in Instances : inst[i] = NoRow /\ inst[i].active = NoOp /\ ~Present(i)
  BY DEF Init, NoRow, Present
<1>3. \A w \in Workers : work[w].pc = "idle" /\ gate # w
  BY DEF Init, Idle, At
<1>4. \A o \in OpIds : executed[o] = 0
  BY DEF Init
<1> QED
  BY <1>1, <1>2, <1>3, <1>4, InitialTypes DEF ServiceInv, HeldByUnresolved, UnresolvedHolds,
     AnswerMatchesStatus, TransientWhileHeld, GateProtectsExecution, GenerationSeen,
     OutcomeIsSettled, KeysDiffer, CalledOnce, AbsentRows

-----------------------------------------------------------------------------
(* Requests.  Every one of them records an operation for one instance and
   changes the operations recorded before in at most one way: the operation
   that held the instance is resolved. *)
RecordedFor(i, f, new, row, stage) ==
  /\ rows < MaxOps
  /\ \A q \in Recorded :
       /\ f[q].key = ops[q].key /\ f[q].inst = ops[q].inst /\ f[q].kind = ops[q].kind
       /\ f[q].gen = ops[q].gen /\ f[q].rev = ops[q].rev
       /\ \/ f[q].status = ops[q].status /\ f[q].response = ops[q].response
          \/ /\ q = inst[i].active
             /\ f[q].status = "unknown"
             /\ f[q].response # NoAnswer /\ f[q].response.result = "unknown"
  /\ new.inst = i
  /\ Fresh(new.key)
  /\ ops' = WithRow(f, new)
  /\ row.revision = inst[i].revision + 1
  /\ row.generation \in {inst[i].generation, inst[i].generation + 1}
  /\ Emit(i, row, rows + 1, stage)
  /\ rows' = rows + 1
  /\ UNCHANGED <<gate, work, executed>>

(* The instance is taken by the new operation. *)
Takes(i, f, new, row) ==
  /\ new.status = "pending" /\ new.response = NoAnswer
  /\ row.active = rows + 1
  /\ row.state = TransientOf(new.kind)
  /\ row.generation > 0
  /\ inst[i].active # NoOp => gate = NoWorker /\ ~(f[inst[i].active].status \in {"pending", "executing"})

(* The new operation is answered at once and the instance stays as it is. *)
Notes(i, f, new, row) ==
  /\ new.status \in Results /\ new.response # NoAnswer /\ new.response.result = new.status
  /\ row.active = inst[i].active /\ row.state = inst[i].state
  /\ row.generation = inst[i].generation /\ row.generation > 0
  /\ \A q \in Recorded : f[q].status = ops[q].status /\ f[q].response = ops[q].response

RequestStep(i) ==
  \E f, new : \E row \in InstanceRow, stage \in Stages :
    /\ RecordedFor(i, f, new, row, stage)
    /\ Takes(i, f, new, row) \/ Notes(i, f, new, row)

LEMMA RecordEffects ==
  ASSUME ServiceInv, NEW i \in Instances, NEW f, NEW new,
         NEW row \in InstanceRow, NEW stage \in Stages,
         RecordedFor(i, f, new, row, stage),
         Takes(i, f, new, row) \/ Notes(i, f, new, row)
  PROVE  /\ rows \in Nat /\ rows + 1 \in OpIds /\ rows + 1 # NoOp
         /\ Recorded \subseteq OpIds /\ rows + 1 \notin Recorded
         /\ Recorded' = Recorded \cup {rows + 1}
         /\ ops'[rows + 1] = new /\ \A q \in Recorded : ops'[q] = f[q]
         /\ \A q \in Recorded :
              /\ ops'[q].key = ops[q].key /\ ops'[q].inst = ops[q].inst /\ ops'[q].kind = ops[q].kind
              /\ ops'[q].gen = ops[q].gen /\ ops'[q].rev = ops[q].rev
              /\ \/ ops'[q].status = ops[q].status /\ ops'[q].response = ops[q].response
                 \/ /\ q = inst[i].active /\ gate = NoWorker
                    /\ ops'[q].status = "unknown"
                    /\ ops'[q].response # NoAnswer /\ ops'[q].response.result = "unknown"
         /\ inst'[i].active = row.active /\ inst'[i].state = row.state
         /\ inst'[i].generation = row.generation /\ inst'[i].revision = row.revision
         /\ \A j \in Instances : j # i => inst'[j] = inst[j]
<1> DEFINE o == rows + 1
<1>inv. TypeOK
  BY DEF ServiceInv
<1>rec. /\ rows < MaxOps /\ new.inst = i /\ Fresh(new.key)
        /\ ops' = WithRow(f, new) /\ Emit(i, row, o, stage) /\ rows' = rows + 1
        /\ UNCHANGED <<gate, work, executed>>
  BY DEF RecordedFor
<1>old. \A q \in Recorded :
          /\ f[q].key = ops[q].key /\ f[q].inst = ops[q].inst /\ f[q].kind = ops[q].kind
          /\ f[q].gen = ops[q].gen /\ f[q].rev = ops[q].rev
          /\ \/ f[q].status = ops[q].status /\ f[q].response = ops[q].response
             \/ /\ q = inst[i].active
                /\ f[q].status = "unknown"
                /\ f[q].response # NoAnswer /\ f[q].response.result = "unknown"
  BY DEF RecordedFor
<1>1. rows \in Nat /\ o \in OpIds /\ o # NoOp /\ Recorded \subseteq OpIds /\ o \notin Recorded
  BY <1>inv, <1>rec DEF TypeOK, OpIds, NoOp, Recorded
<1>2. /\ Recorded' = Recorded \cup {o}
      /\ ops'[o] = new
      /\ \A q \in Recorded : ops'[q] = f[q] /\ q # o
  <2>1. /\ WithRow(f, new)[rows + 1] = new
        /\ \A q \in Recorded : WithRow(f, new)[q] = f[q] /\ q # rows + 1
        /\ 1..(rows + 1) = Recorded \cup {rows + 1}
    BY <1>1 DEF WithRow, Recorded
  <2> QED
    BY <1>rec, <2>1 DEF Recorded
<1>3. /\ inst'[i].active = row.active /\ inst'[i].state = row.state
      /\ inst'[i].generation = row.generation /\ inst'[i].revision = row.revision
      /\ \A j \in Instances : j # i => inst'[j] = inst[j]
  <2>1. /\ inst'[i] = [row EXCEPT !.seq = row.seq + 1]
        /\ \A j \in Instances : j # i => inst'[j] = inst[j]
    BY <1>inv, <1>rec, <1>1, EmitType
  <2> QED
    BY <2>1 DEF InstanceRow
<1>6. \A q \in Recorded : \/ ops'[q].status = ops[q].status /\ ops'[q].response = ops[q].response
                          \/ /\ q = inst[i].active /\ gate = NoWorker
                             /\ ops'[q].status = "unknown"
                             /\ ops'[q].response # NoAnswer /\ ops'[q].response.result = "unknown"
  <2>1. CASE Notes(i, f, new, row)
    BY <1>2, <2>1 DEF Notes
  <2>2. CASE Takes(i, f, new, row)
    <3>1. \A q \in Recorded : q # NoOp
      BY DEF Recorded, NoOp
    <3> QED
      BY <1>2, <1>old, <2>2, <3>1 DEF Takes
  <2> QED
    BY <2>1, <2>2
<1> QED
  BY <1>old, <1>1, <1>2, <1>3, <1>6

LEMMA RecordKeeps ==
  ASSUME ServiceInv, TypeOK', NEW i \in Instances, NEW f, NEW new,
         NEW row \in InstanceRow, NEW stage \in Stages,
         RecordedFor(i, f, new, row, stage),
         Takes(i, f, new, row) \/ Notes(i, f, new, row)
  PROVE  ServiceInv'
<1> DEFINE o == rows + 1
<1>inv. /\ TypeOK
        /\ HeldByUnresolved /\ UnresolvedHolds /\ AnswerMatchesStatus /\ TransientWhileHeld
        /\ GateProtectsExecution /\ GenerationSeen /\ OutcomeIsSettled
        /\ KeysDiffer /\ CalledOnce /\ AbsentRows
  BY DEF ServiceInv
<1>rec. /\ rows < MaxOps /\ new.inst = i /\ Fresh(new.key)
        /\ ops' = WithRow(f, new) /\ Emit(i, row, o, stage) /\ rows' = rows + 1
        /\ UNCHANGED <<gate, work, executed>>
  BY DEF RecordedFor
<1>1. rows \in Nat /\ o \in OpIds /\ o # NoOp /\ Recorded \subseteq OpIds /\ o \notin Recorded
  BY RecordEffects
<1>2. Recorded' = Recorded \cup {o} /\ ops'[o] = new /\ \A q \in Recorded : ops'[q] = f[q]
  BY RecordEffects
<1>3. /\ inst'[i].active = row.active /\ inst'[i].state = row.state
      /\ inst'[i].generation = row.generation
      /\ \A j \in Instances : j # i => inst'[j] = inst[j]
  BY RecordEffects
<1>4. \A j \in Instances : inst[j].active \in Recorded \cup {NoOp}
  BY <1>inv DEF TypeOK
<1>5. \A q \in Recorded : ops[q].inst \in Instances
  BY <1>inv DEF TypeOK, OperationRow
<1>6. \A q \in Recorded :
        /\ ops'[q].key = ops[q].key /\ ops'[q].inst = ops[q].inst /\ ops'[q].kind = ops[q].kind
        /\ \/ ops'[q].status = ops[q].status /\ ops'[q].response = ops[q].response
           \/ /\ q = inst[i].active /\ gate = NoWorker
              /\ ops'[q].status = "unknown"
              /\ ops'[q].response # NoAnswer /\ ops'[q].response.result = "unknown"
  BY RecordEffects
<1>7. HeldByUnresolved'
  <2> SUFFICES ASSUME NEW j \in Instances, inst'[j].active # NoOp
               PROVE  /\ ops'[inst'[j].active].inst = j
                      /\ ops'[inst'[j].active].status \in {"pending", "executing"}
    BY DEF HeldByUnresolved, Unresolved
  <2>1. CASE j = i /\ Takes(i, f, new, row)
    BY <1>rec, <1>2, <1>3, <2>1 DEF Takes
  <2>2. CASE j = i /\ Notes(i, f, new, row)
    BY <1>inv, <1>6, <1>2, <1>3, <1>4, <2>2 DEF Notes, Unresolved, HeldByUnresolved
  <2>3. CASE j # i
    <3>1. inst'[j] = inst[j] /\ inst[j].active \in Recorded /\ ops[inst[j].active].inst = j
          /\ Unresolved(inst[j].active)
      BY <1>inv, <1>3, <1>4, <2>3 DEF HeldByUnresolved
    <3>2. inst[j].active # inst[i].active
      BY <1>inv, <1>4, <2>3, <3>1 DEF HeldByUnresolved
    <3> QED
      BY <1>2, <1>6, <3>1, <3>2 DEF Unresolved
  <2> QED
    BY <2>1, <2>2, <2>3
<1>8. UnresolvedHolds'
  <2> SUFFICES ASSUME NEW q \in Recorded', ops'[q].status \in {"pending", "executing"}
               PROVE  inst'[ops'[q].inst].active = q
    BY DEF UnresolvedHolds, Unresolved
  <2>1. CASE q = o
    BY <1>rec, <1>2, <1>3, <2>1 DEF Takes, Notes, Results
  <2>2. CASE q \in Recorded
    <3>1. ops'[q].status = ops[q].status /\ Unresolved(q)
      BY <1>6, <2>2 DEF Unresolved
    <3>2. inst[ops[q].inst].active = q /\ ops'[q].inst = ops[q].inst
      BY <1>inv, <1>6, <1>2, <2>2, <3>1 DEF UnresolvedHolds
    <3>3. CASE Takes(i, f, new, row)
      <4>1. q # NoOp
        BY <2>2 DEF Recorded, NoOp
      <4>2. ops[q].inst # i
        BY <1>2, <2>2, <3>2, <3>3, <4>1 DEF Takes
      <4> QED
        BY <1>3, <1>5, <2>2, <3>2, <4>2
    <3>4. CASE Notes(i, f, new, row)
      BY <1>3, <1>5, <2>2, <3>2, <3>4 DEF Notes
    <3> QED
      BY <3>3, <3>4
  <2> QED
    BY <1>2, <2>1, <2>2
<1>9. AnswerMatchesStatus'
  <2> SUFFICES ASSUME NEW q \in Recorded'
               PROVE  IF ops'[q].status \in {"pending", "executing"}
                      THEN ops'[q].response = NoAnswer
                      ELSE ops'[q].response # NoAnswer /\ ops'[q].response.result = ops'[q].status
    BY DEF AnswerMatchesStatus, Unresolved
  <2>1. CASE q = o
    BY <1>2, <2>1 DEF Takes, Notes, Results
  <2>2. CASE q \in Recorded
    BY <1>inv, <1>6, <2>2 DEF AnswerMatchesStatus, Unresolved
  <2> QED
    BY <1>2, <2>1, <2>2
<1>10. TransientWhileHeld' /\ AbsentRows'
  <2> SUFFICES ASSUME NEW j \in Instances
               PROVE  /\ Present(j)' => IF inst'[j].active = NoOp THEN inst'[j].state \notin Transients
                                        ELSE inst'[j].state = TransientOf(ops'[inst'[j].active].kind)
                      /\ ~Present(j)' => inst'[j] = NoRow
    BY DEF TransientWhileHeld, AbsentRows
  <2>1. CASE j = i /\ Takes(i, f, new, row)
    BY <1>1, <1>2, <1>3, <2>1 DEF Takes, Present
  <2>2. CASE j = i /\ Notes(i, f, new, row)
    BY <1>inv, <1>6, <1>2, <1>3, <1>4, <2>2 DEF Notes, Present, TransientWhileHeld
  <2>3. CASE j # i
    BY <1>inv, <1>6, <1>2, <1>3, <1>4, <2>3 DEF Present, TransientWhileHeld, AbsentRows
  <2> QED
    BY <2>1, <2>2, <2>3
<1>11. ASSUME NEW w \in Workers, work[w].pc # "idle"
       PROVE  /\ work[w].op \in Recorded /\ gate = w /\ gate # NoWorker
              /\ ops'[work[w].op].status = ops[work[w].op].status
              /\ ops'[work[w].op].inst = ops[work[w].op].inst
              /\ inst'[ops[work[w].op].inst].active = inst[ops[work[w].op].inst].active
              /\ inst'[ops[work[w].op].inst].generation = inst[ops[work[w].op].inst].generation
  <2>1. /\ work[w].op \in Recorded /\ gate = w /\ gate # NoWorker
        /\ inst[ops[work[w].op].inst].active = work[w].op
    BY <1>inv, <1>11 DEF GateProtectsExecution
  <2>2. ops'[work[w].op].status = ops[work[w].op].status /\ ops'[work[w].op].inst = ops[work[w].op].inst
    BY <1>2, <1>6, <2>1
  <2>3. CASE ops[work[w].op].inst # i
    BY <1>3, <1>5, <2>1, <2>2, <2>3
  <2>4. CASE ops[work[w].op].inst = i
    <3>1. work[w].op # NoOp
      BY <2>1 DEF Recorded, NoOp
    <3>2. Notes(i, f, new, row)
      BY <2>1, <2>4, <3>1 DEF Takes
    <3> QED
      BY <1>3, <2>1, <2>2, <2>4, <3>2 DEF Notes
  <2> QED
    BY <2>1, <2>2, <2>3, <2>4
<1>12. GateProtectsExecution' /\ GenerationSeen' /\ OutcomeIsSettled'
  <2>1. GateProtectsExecution'
    BY <1>inv, <1>rec, <1>2, <1>11 DEF GateProtectsExecution
  <2>2. GenerationSeen'
    <3>1. work' = work
      BY <1>rec
    <3>2. \A w \in Workers : work[w].pc # "idle" => InstanceOf(w)'.generation = InstanceOf(w).generation
      BY <1>11, <3>1 DEF InstanceOf
    <3> QED
      BY <1>inv, <3>1, <3>2 DEF GenerationSeen
  <2>3. OutcomeIsSettled'
    BY <1>inv, <1>rec DEF OutcomeIsSettled
  <2> QED
    BY <2>1, <2>2, <2>3
<1>13. KeysDiffer'
  BY <1>inv, <1>rec, <1>6, <1>2 DEF KeysDiffer, Fresh
<1>14. CalledOnce'
  BY <1>inv, <1>rec, <1>1, <1>2, <1>6 DEF CalledOnce
<1> QED
  BY <1>7, <1>8, <1>9, <1>10, <1>12, <1>13, <1>14 DEF ServiceInv

LEMMA PrepareRecords ==
  ASSUME ServiceInv, NEW i \in Instances, NEW key \in Keys, Prepare(i, key)
  PROVE  RequestStep(i)
<1> DEFINE o == rows + 1
           new == NewOp("prepare", i, key, 0, 0, NoOp, "pending", NoAnswer)
           row == Taken(NewRow, "prepare", o)
<1>1. inst[i].active = NoOp
  BY DEF ServiceInv, AbsentRows, Prepare, NoRow
<1>2. o \in OpIds /\ NewRow \in InstanceRow /\ NewRow.state \in States /\ NewRow.revision + 1 \in Nat
  BY DEF Prepare, ServiceInv, TypeOK, OpIds, NewRow, InstanceRow, States, Doubtful
<1>3. row \in InstanceRow
  BY <1>2, TakenType DEF Taken
<1>4. RecordedFor(i, ops, new, row, "intent")
  <2>1. inst[i] = NoRow
    BY DEF ServiceInv, AbsentRows, Prepare
  <2>2. row.revision = inst[i].revision + 1 /\ row.generation = inst[i].generation + 1
    BY <2>1 DEF Taken, TakenFrom, NewRow, NoRow
  <2> QED
    BY <2>2 DEF RecordedFor, Prepare, NewOp
<1>5. Takes(i, ops, new, row)
  BY <1>1 DEF Takes, Taken, TakenFrom, NewOp, NewRow
<1> HIDE DEF new, row
<1> QED
  BY <1>3, <1>4, <1>5 DEF RequestStep, Stages

LEMMA StaleIsUnknown ==
  ASSUME NEW row, NEW op
  PROVE  /\ Stale(row) # NoAnswer /\ Stale(row).result = "unknown"
         /\ LET r == Resolved(op, "unknown", Stale(row))
            IN /\ r.status = "unknown" /\ r.response = Stale(row)
               /\ r.key = op.key /\ r.inst = op.inst /\ r.kind = op.kind
               /\ r.gen = op.gen /\ r.rev = op.rev
BY DEF Stale, Answer, NoAnswer, Resolved

LEMMA SubmitRecords ==
  ASSUME ServiceInv, NEW i \in Instances, NEW key \in Keys, NEW gen, NEW rev,
         NEW kind \in Kinds, Submit(kind, i, key, gen, rev)
  PROVE  RequestStep(i)
<1> DEFINE o == rows + 1
           new == NewOp(kind, i, key, gen, rev, NoOp, "pending", NoAnswer)
           row == Taken(inst[i], kind, o)
           f == Superseded(inst[i])
<1>1. o \in OpIds /\ inst[i] \in InstanceRow /\ inst[i].state \in States /\ inst[i].revision + 1 \in Nat
  BY DEF Submit, ServiceInv, TypeOK, OpIds, InstanceRow
<1>2. row \in InstanceRow
  BY <1>1, TakenType DEF Taken
<1>3. \A q \in Recorded : IF q = inst[i].active THEN f[q] = Resolved(ops[q], "unknown", Stale(inst[i]))
                         ELSE f[q] = ops[q]
  BY DEF Superseded
<1>4. RecordedFor(i, f, new, row, "intent")
  <2>1. new.inst = i /\ new.key = key
    BY DEF NewOp
  <2>2. \A q \in Recorded :
          /\ f[q].key = ops[q].key /\ f[q].inst = ops[q].inst /\ f[q].kind = ops[q].kind
          /\ f[q].gen = ops[q].gen /\ f[q].rev = ops[q].rev
          /\ \/ f[q].status = ops[q].status /\ f[q].response = ops[q].response
             \/ /\ q = inst[i].active
                /\ f[q].status = "unknown"
                /\ f[q].response # NoAnswer /\ f[q].response.result = "unknown"
    BY <1>3, StaleIsUnknown
  <2>3. row.revision = inst[i].revision + 1 /\ row.generation = inst[i].generation
    BY DEF Taken, TakenFrom
  <2> QED
    BY <2>1, <2>2, <2>3 DEF RecordedFor, Submit
<1>5. Takes(i, f, new, row)
  <2>1. new.status = "pending" /\ new.response = NoAnswer /\ new.kind = kind
    BY DEF NewOp
  <2>2. row.active = o /\ row.state = TransientOf(kind) /\ row.generation = inst[i].generation
    BY DEF Taken, TakenFrom
  <2>3. inst[i].active # NoOp => gate = NoWorker
    BY DEF Submit, Gated
  <2>4. inst[i].active # NoOp => f[inst[i].active].status = "unknown"
    <3>1. inst[i].active \in Recorded \cup {NoOp}
      BY DEF ServiceInv, TypeOK
    <3> QED
      BY <1>3, <3>1, StaleIsUnknown
  <2> QED
    BY <2>1, <2>2, <2>3, <2>4 DEF Takes, Submit, Present
<1> HIDE DEF new, row, f
<1> QED
  BY <1>2, <1>4, <1>5 DEF RequestStep, Stages

LEMMA CancelRecords ==
  ASSUME ServiceInv, NEW i \in Instances, NEW key \in Keys, NEW gen, NEW rev,
         NEW target \in OpIds, Cancel(i, key, gen, rev, target)
  PROVE  RequestStep(i)
<1> DEFINE row == [inst[i] EXCEPT !.revision = @ + 1]
           reply == Answer("completed", Logged(row), row.state, FALSE, FALSE)
           new == NewOp("cancel", i, key, gen, rev, target, "completed", reply)
           f == [ops EXCEPT ![target].cancel = TRUE]
<1>1. target \in Recorded /\ inst[i] \in InstanceRow /\ ops \in [Recorded -> OperationRow]
  BY DEF ServiceInv, TypeOK, Cancel, NoOp
<1>2. /\ row \in InstanceRow
      /\ row.active = inst[i].active /\ row.state = inst[i].state /\ row.generation = inst[i].generation
      /\ row.revision = inst[i].revision + 1
  BY <1>1 DEF InstanceRow
<1>3. \A q \in Recorded : /\ f[q].key = ops[q].key /\ f[q].inst = ops[q].inst /\ f[q].kind = ops[q].kind
                          /\ f[q].gen = ops[q].gen /\ f[q].rev = ops[q].rev
                          /\ f[q].status = ops[q].status /\ f[q].response = ops[q].response
  BY <1>1 DEF OperationRow
<1>4. /\ new.inst = i /\ new.key = key /\ new.status = "completed" /\ new.response = reply
      /\ reply.result = "completed" /\ reply # NoAnswer
  BY DEF NewOp, Answer, NoAnswer
<1>5. RecordedFor(i, f, new, row, "cancel-requested")
  BY <1>2, <1>3, <1>4 DEF RecordedFor, Cancel
<1>6. Notes(i, f, new, row)
  BY <1>2, <1>3, <1>4 DEF Notes, Cancel, Present, Results
<1> HIDE DEF new, row, f
<1> QED
  BY <1>2, <1>5, <1>6 DEF RequestStep, Stages

(* Restarting finds the original holding the instance, and then seals it, or
   already answered, and then nothing holds the instance. *)
LEMMA RestartRecords ==
  ASSUME ServiceInv, NEW i \in Instances, NEW original \in OpIds, NEW rev, NEW attempt,
         RestartPreparation(i, original, rev, attempt)
  PROVE  RequestStep(i)
<1> DEFINE o == rows + 1
           key == <<i, original, rev, attempt>>
           new == NewOp("prepare", i, key, 0, 0, NoOp, "pending", NoAnswer)
           row == TakenFrom(inst[i], "failed", "prepare", o, inst[i].revision + 1)
           f == Sealed(original, inst[i])
<1>1. /\ o \in OpIds /\ inst[i] \in InstanceRow /\ inst[i].revision + 1 \in Nat /\ "failed" \in States
      /\ original \in Recorded /\ ops[original].inst = i
      /\ inst[i].active \in {original, NoOp}
      /\ ops \in [Recorded -> OperationRow] /\ gate = NoWorker
  <2>1. /\ rows < MaxOps /\ original \in Recorded /\ gate = NoWorker
        /\ ops[original].inst = i /\ inst[i].active \in {original, NoOp}
    BY DEF RestartPreparation, RestartAllowed, Candidate, ExecutorGone
  <2>2. rows \in 0..MaxOps /\ inst[i] \in InstanceRow /\ ops \in [Recorded -> OperationRow]
    BY DEF ServiceInv, TypeOK
  <2>3. o \in OpIds /\ inst[i].revision + 1 \in Nat /\ "failed" \in States
    BY <2>1, <2>2 DEF OpIds, InstanceRow, States, Doubtful
  <2> QED
    BY <2>1, <2>2, <2>3
<1>2. row \in InstanceRow
  BY <1>1, TakenType
<1>3. ops[original].response = NoAnswer <=> inst[i].active = original
  <2>1. original # NoOp
    BY <1>1 DEF Recorded, NoOp
  <2>2. inst[i].active = original => ops[original].response = NoAnswer
    BY <1>1, <2>1 DEF ServiceInv, HeldByUnresolved, AnswerMatchesStatus
  <2>3. ops[original].response = NoAnswer => inst[i].active = original
    BY <1>1 DEF ServiceInv, UnresolvedHolds, AnswerMatchesStatus
  <2> QED
    BY <2>2, <2>3
<1>4. \A q \in Recorded : IF q = inst[i].active THEN f[q] = Resolved(ops[q], "unknown", Stale(inst[i]))
                         ELSE f[q] = ops[q]
  <2>1. CASE ops[original].response = NoAnswer
    <3>1. f = [ops EXCEPT ![original] = Resolved(ops[original], "unknown", Stale(inst[i]))]
      BY <2>1 DEF Sealed
    <3> QED
      BY <1>1, <1>3, <2>1, <3>1
  <2>2. CASE ops[original].response # NoAnswer
    <3>1. inst[i].active = NoOp
      BY <1>1, <1>3, <2>2
    <3>2. f = ops /\ \A q \in Recorded : q # NoOp
      BY <2>2 DEF Sealed, Recorded, NoOp
    <3> QED
      BY <3>1, <3>2
  <2> QED
    BY <2>1, <2>2
<1>5. RecordedFor(i, f, new, row, "intent")
  <2>1. new.inst = i /\ new.key = key
    BY DEF NewOp
  <2>2. \A q \in Recorded :
          /\ f[q].key = ops[q].key /\ f[q].inst = ops[q].inst /\ f[q].kind = ops[q].kind
          /\ f[q].gen = ops[q].gen /\ f[q].rev = ops[q].rev
          /\ \/ f[q].status = ops[q].status /\ f[q].response = ops[q].response
             \/ /\ q = inst[i].active
                /\ f[q].status = "unknown"
                /\ f[q].response # NoAnswer /\ f[q].response.result = "unknown"
    BY <1>4, StaleIsUnknown
  <2>3. row.revision = inst[i].revision + 1 /\ row.generation = inst[i].generation
    BY DEF TakenFrom
  <2> QED
    BY <2>1, <2>2, <2>3 DEF RecordedFor, RestartPreparation
<1>6. Takes(i, f, new, row)
  <2>1. new.status = "pending" /\ new.response = NoAnswer /\ new.kind = "prepare"
    BY DEF NewOp
  <2>2. row.active = o /\ row.state = TransientOf("prepare") /\ row.generation = inst[i].generation
    BY DEF TakenFrom
  <2>3. inst[i].active # NoOp => f[inst[i].active].status = "unknown"
    BY <1>1, <1>4, StaleIsUnknown
  <2> QED
    BY <1>1, <2>1, <2>2, <2>3 DEF Takes, RestartPreparation, Present
<1> HIDE DEF new, row, f
<1> QED
  BY <1>2, <1>5, <1>6 DEF RequestStep, Stages

-----------------------------------------------------------------------------
(* Workers.  Inside execute only the local state of the gate's holder changes
   between the first and the last transaction. *)
LEMMA ClaimKeeps ==
  ASSUME ServiceInv, TypeOK', NEW w \in Workers, NEW o \in OpIds, Claim(w, o)
  PROVE  ServiceInv'
<1> DEFINE i == ops[o].inst
           local == At("claimed", o, inst[i].generation, inst[i].previous, Failure("unknown"))
<1>inv. /\ TypeOK
        /\ HeldByUnresolved /\ UnresolvedHolds /\ AnswerMatchesStatus /\ TransientWhileHeld
        /\ GateProtectsExecution /\ GenerationSeen /\ OutcomeIsSettled
        /\ KeysDiffer /\ CalledOnce /\ AbsentRows
  BY DEF ServiceInv
<1>0. /\ gate = NoWorker /\ work[w].pc = "idle" /\ o \in Recorded /\ inst[i].active = o
      /\ ops[o].status = "pending" /\ ops[o].response = NoAnswer
      /\ gate' = w /\ rows' = rows /\ executed' = executed
  BY DEF Claim, Claimable
<1>1. /\ Emit(i, inst[i], o, "executing")
      /\ work' = [work EXCEPT ![w] = local]
      /\ ops' = [ops EXCEPT ![o].status = "executing"]
  BY DEF Claim
<1>2. Recorded' = Recorded /\ i \in Instances /\ inst[i] \in InstanceRow /\ o # NoOp
  <2>1. ops[o] \in OperationRow
    BY <1>inv, <1>0 DEF TypeOK
  <2>2. i \in Instances
    BY <2>1 DEF OperationRow
  <2> QED
    BY <1>inv, <1>0, <2>2 DEF Recorded, TypeOK, NoOp
<1>3. \A j \in Instances :
        /\ inst'[j].active = inst[j].active /\ inst'[j].state = inst[j].state
        /\ inst'[j].generation = inst[j].generation
        /\ j # i => inst'[j] = inst[j]
  <2>1. /\ inst'[i] = [inst[i] EXCEPT !.seq = inst[i].seq + 1]
        /\ \A j \in Instances : j # i => inst'[j] = inst[j]
    BY <1>inv, <1>1, <1>2, EmitType DEF Stages
  <2> QED
    BY <1>2, <2>1 DEF InstanceRow
<1>4. \A q \in Recorded :
        /\ ops'[q].inst = ops[q].inst /\ ops'[q].key = ops[q].key /\ ops'[q].kind = ops[q].kind
        /\ ops'[q].response = ops[q].response
        /\ ops'[q].status = IF q = o THEN "executing" ELSE ops[q].status
  BY <1>inv, <1>0, <1>1 DEF TypeOK, OperationRow
<1>5. \A q \in Recorded : ops[q].inst \in Instances
  BY <1>inv DEF TypeOK, OperationRow
<1>6. \A j \in Instances : inst[j].active \in Recorded \cup {NoOp}
  BY <1>inv DEF TypeOK
<1>7. HeldByUnresolved'
  <2> SUFFICES ASSUME NEW j \in Instances, inst[j].active # NoOp
               PROVE  /\ ops'[inst[j].active].inst = j
                      /\ ops'[inst[j].active].status \in {"pending", "executing"}
    BY <1>3 DEF HeldByUnresolved, Unresolved
  <2>1. inst[j].active \in Recorded /\ ops[inst[j].active].inst = j /\ Unresolved(inst[j].active)
    BY <1>inv, <1>6 DEF HeldByUnresolved
  <2> QED
    BY <1>4, <2>1 DEF Unresolved
<1>8. UnresolvedHolds' /\ AnswerMatchesStatus' /\ KeysDiffer'
  <2>1. \A q \in Recorded : Unresolved(q)' <=> Unresolved(q)
    BY <1>0, <1>4 DEF Unresolved
  <2>2. UnresolvedHolds'
    BY <1>inv, <1>2, <1>3, <1>4, <1>5, <2>1 DEF UnresolvedHolds
  <2>3. AnswerMatchesStatus'
    BY <1>inv, <1>0, <1>2, <1>4, <2>1 DEF AnswerMatchesStatus, Unresolved
  <2> QED
    BY <1>inv, <1>2, <1>4, <2>2, <2>3 DEF KeysDiffer
<1>9. TransientWhileHeld' /\ AbsentRows'
  <2>1. Present(i)
    BY <1>inv, <1>0, <1>2 DEF AbsentRows, NoRow
  <2>2. AbsentRows'
    BY <1>inv, <1>3, <2>1 DEF AbsentRows, Present
  <2>3. ASSUME NEW j \in Instances, Present(j)
        PROVE  IF inst'[j].active = NoOp THEN inst'[j].state \notin Transients
               ELSE inst'[j].state = TransientOf(ops'[inst'[j].active].kind)
    <3>1. inst[j].active # NoOp => ops'[inst[j].active].kind = ops[inst[j].active].kind
      BY <1>4, <1>6
    <3> QED
      BY <1>inv, <1>3, <2>3, <3>1 DEF TransientWhileHeld
  <2>4. TransientWhileHeld'
    BY <1>3, <2>3 DEF TransientWhileHeld, Present
  <2> QED
    BY <2>2, <2>4
<1>10. \A v \in Workers : v # w => work'[v] = work[v] /\ work'[v].pc = "idle"
  BY <1>inv, <1>0, <1>1, ServiceAssumption DEF GateProtectsExecution, TypeOK
<1>11. /\ work'[w].pc = "claimed" /\ work'[w].op = o /\ work'[w].gen = inst[i].generation
  BY <1>inv, <1>1 DEF TypeOK, At
<1>12. GateProtectsExecution' /\ OutcomeIsSettled'
  <2>1. inst'[ops'[o].inst].active = o
    BY <1>0, <1>2, <1>3, <1>4
  <2> QED
    BY <1>0, <1>2, <1>4, <1>10, <1>11, <2>1 DEF GateProtectsExecution, OutcomeIsSettled
<1>13. GenerationSeen'
  <2>1. inst'[ops'[o].inst].generation = inst[i].generation /\ inst[i].generation \in Nat
    BY <1>0, <1>2, <1>3, <1>4 DEF InstanceRow
  <2> QED
    BY <1>10, <1>11, <2>1 DEF GenerationSeen, InstanceOf
<1>14. CalledOnce'
  BY <1>inv, <1>0, <1>2, <1>4, <1>10, <1>11 DEF CalledOnce
<1> QED
  BY <1>7, <1>8, <1>9, <1>12, <1>13, <1>14 DEF ServiceInv

(* A step that only moves the local state of one worker. *)
LEMMA LocalStepKeeps ==
  ASSUME ServiceInv, TypeOK', NEW w \in Workers, NEW local \in Local,
         work[w].pc # "idle", local.pc # "idle", local.op = work[w].op,
         work' = [work EXCEPT ![w] = local],
         UNCHANGED <<inst, ops, rows, events, gate>>,
         local.gen \in {InstanceOf(w).generation, InstanceOf(w).generation + 1},
         local.pc = "observing" => work[w].pc = "claimed" /\ local.gen = work[w].gen,
         local.pc # "claimed",
         local.pc = "finish" => local.outcome.state \notin Transients,
         \/ executed' = executed
         \/ /\ work[w].pc \in {"claimed", "observing"} /\ local.pc = "running"
            /\ executed' = [executed EXCEPT ![work[w].op] = @ + 1]
  PROVE  ServiceInv'
<1>inv. /\ TypeOK
        /\ HeldByUnresolved /\ UnresolvedHolds /\ AnswerMatchesStatus /\ TransientWhileHeld
        /\ GateProtectsExecution /\ GenerationSeen /\ OutcomeIsSettled
        /\ KeysDiffer /\ CalledOnce /\ AbsentRows
  BY DEF ServiceInv
<1>1. /\ Recorded' = Recorded
      /\ work'[w] = local
      /\ \A v \in Workers : v # w => work'[v] = work[v] /\ work[v].pc = "idle"
  BY <1>inv DEF TypeOK, Recorded, GateProtectsExecution
<1>2. HeldByUnresolved' /\ UnresolvedHolds' /\ AnswerMatchesStatus' /\ TransientWhileHeld'
      /\ KeysDiffer' /\ AbsentRows'
  BY <1>inv, <1>1 DEF HeldByUnresolved, UnresolvedHolds, AnswerMatchesStatus, TransientWhileHeld,
     KeysDiffer, AbsentRows, Unresolved, Present
<1>3. GateProtectsExecution' /\ OutcomeIsSettled'
  BY <1>inv, <1>1 DEF GateProtectsExecution, OutcomeIsSettled
<1>4. GenerationSeen'
  <2>1. InstanceOf(w)' = InstanceOf(w)
    BY <1>1 DEF InstanceOf
  <2>2. local.pc = "observing" => local.gen = InstanceOf(w).generation
    BY <1>inv DEF GenerationSeen
  <2> QED
    BY <1>1, <2>1, <2>2 DEF GenerationSeen
<1>5. CalledOnce'
  <2>1. CASE executed' = executed
    BY <1>inv, <1>1, <2>1 DEF CalledOnce
  <2>2. CASE /\ work[w].pc \in {"claimed", "observing"} /\ local.pc = "running"
             /\ executed' = [executed EXCEPT ![work[w].op] = @ + 1]
    <3> DEFINE o == work[w].op
    <3>1. o \in OpIds /\ o \in Recorded /\ executed[o] = 0 /\ ops[o].status = "executing"
      BY <1>inv, <2>2 DEF CalledOnce, GateProtectsExecution, TypeOK, Recorded, OpIds
    <3>2. executed'[o] = 1 /\ \A q \in OpIds : q # o => executed'[q] = executed[q]
      BY <1>inv, <2>2, <3>1 DEF TypeOK
    <3>3. \A q \in OpIds : executed'[q] <= 1 /\ (q \notin Recorded => executed'[q] = 0)
      BY <1>inv, <3>1, <3>2 DEF CalledOnce
    <3>4. \A q \in Recorded : ops[q].status = "pending" => executed'[q] = 0
      BY <1>inv, <3>1, <3>2 DEF CalledOnce, TypeOK, Recorded, OpIds
    <3>5. \A v \in Workers : work'[v].pc \notin {"claimed", "observing"}
      BY <1>1, <2>2
    <3> QED
      BY <1>1, <3>3, <3>4, <3>5 DEF CalledOnce
  <2> QED
    BY <2>1, <2>2
<1> QED
  BY <1>2, <1>3, <1>4, <1>5 DEF ServiceInv

(* What the service makes of a backend value is never a transient state. *)
LEMMA JudgedIsSettled ==
  ASSUME NEW o, NEW out \in Outcome
  PROVE  /\ Judged(o, out) \in Outcome
         /\ Judged(o, out).state \notin Transients
         /\ Failure("recovery-required") \in Outcome
         /\ Failure("recovery-required").state \notin Transients
<1>1. /\ Failure("recovery-required") \in Outcome
      /\ Failure("recovery-required").state \notin Transients
  BY DEF Failure, Outcome, States, Doubtful, Transients
<1>2. CASE Believable(o, out)
  <2>1. out.error \in BOOLEAN /\ out.cancelled \in BOOLEAN
    BY DEF Outcome
  <2>2. out.state \in Doubtful \cup CancelledStates \cup Success(ops[o].kind)
    BY <1>2, <2>1 DEF Believable
  <2>3. out.state \notin Transients
    BY <2>2, VocabularyType
  <2> QED
    BY <1>1, <1>2, <2>3 DEF Judged
<1>3. CASE ~Believable(o, out)
  BY <1>1, <1>3 DEF Judged
<1> QED
  BY <1>1, <1>2, <1>3

LEMMA DecideKeeps ==
  ASSUME ServiceInv, TypeOK', NEW w \in Workers, NEW outcome \in Outcome,
         outcome.state \notin Transients, work[w].pc # "idle", Decide(w, outcome),
         UNCHANGED <<inst, ops, rows, events, gate, executed>>
  PROVE  ServiceInv'
<1> DEFINE local == At("finish", work[w].op, work[w].gen, work[w].previous, outcome)
<1>1. local \in Local
  BY DEF ServiceInv, TypeOK, Local, At
<1>2. /\ local.pc = "finish" /\ local.op = work[w].op /\ local.gen = work[w].gen
      /\ local.outcome = outcome
  BY DEF At
<1>3. work[w].gen \in {InstanceOf(w).generation, InstanceOf(w).generation + 1}
  BY DEF ServiceInv, GenerationSeen
<1>4. work' = [work EXCEPT ![w] = local]
  BY DEF Decide
<1> HIDE DEF local
<1> QED
  BY <1>1, <1>2, <1>3, <1>4, LocalStepKeeps

LEMMA CallKeeps ==
  ASSUME ServiceInv, TypeOK', NEW w \in Workers, NEW gen \in Nat,
         work[w].pc \in {"claimed", "observing"},
         gen \in {work[w].gen, work[w].gen + 1}, Call(w, gen),
         UNCHANGED <<inst, ops, rows, events, gate>>
  PROVE  ServiceInv'
<1> DEFINE local == At("running", work[w].op, gen, work[w].previous, work[w].outcome)
<1>1. local \in Local
  BY DEF ServiceInv, TypeOK, Local, At
<1>2. local.pc = "running" /\ local.op = work[w].op /\ local.gen = gen
  BY DEF At
<1>3. gen \in {InstanceOf(w).generation, InstanceOf(w).generation + 1}
  BY DEF ServiceInv, GenerationSeen
<1>4. work' = [work EXCEPT ![w] = local] /\ executed' = [executed EXCEPT ![work[w].op] = @ + 1]
  BY DEF Call
<1> HIDE DEF local
<1> QED
  BY <1>1, <1>2, <1>3, <1>4, LocalStepKeeps

LEMMA CheckCancelKeeps ==
  ASSUME ServiceInv, TypeOK', NEW w \in Workers, CheckCancel(w)
  PROVE  ServiceInv'
<1> DEFINE o == work[w].op
           early == [state |-> work[w].previous, cancelled |-> TRUE, error |-> FALSE]
<1>1. /\ work[w] \in Local /\ work[w].pc = "claimed"
      /\ UNCHANGED <<inst, ops, rows, events, gate>>
  BY DEF ServiceInv, TypeOK, CheckCancel
<1>2. CASE Decide(w, Judged(o, early)) /\ UNCHANGED executed
  <2>1. early \in Outcome
    BY <1>1 DEF Local, Outcome
  <2> QED
    BY <1>1, <1>2, <2>1, JudgedIsSettled, DecideKeeps
<1>3. CASE Call(w, work[w].gen)
  BY <1>1, <1>3, CallKeeps DEF Local
<1>4. CASE work' = [work EXCEPT ![w].pc = "observing"] /\ UNCHANGED executed
  <2> DEFINE local == [work[w] EXCEPT !.pc = "observing"]
  <2>1. /\ local \in Local /\ local.pc = "observing" /\ local.op = work[w].op
        /\ local.gen = work[w].gen
    BY <1>1 DEF Local
  <2>2. work' = [work EXCEPT ![w] = local]
    BY <1>1, <1>4 DEF ServiceInv, TypeOK
  <2>3. work[w].gen \in {InstanceOf(w).generation, InstanceOf(w).generation + 1}
    BY <1>1 DEF ServiceInv, GenerationSeen
  <2> HIDE DEF local
  <2> QED
    BY <1>1, <1>4, <2>1, <2>2, <2>3, LocalStepKeeps
<1> QED
  BY <1>2, <1>3, <1>4 DEF CheckCancel

LEMMA BackendKeeps ==
  ASSUME ServiceInv, TypeOK', NEW w \in Workers,
         \/ \E gen \in Gens, state \in States : Observe(w, gen, state)
         \/ ObserveFails(w)
         \/ \E out \in Outcomes : BackendReturns(w, out)
         \/ BackendRaises(w)
  PROVE  ServiceInv'
<1>1. ASSUME NEW gen \in Gens, NEW state \in States, Observe(w, gen, state) PROVE ServiceInv'
  BY <1>1, CallKeeps DEF Observe, Gens
<1>2. CASE ObserveFails(w) \/ BackendRaises(w)
  <2>1. /\ Failure("recovery-required") \in Outcome
        /\ Failure("recovery-required").state \notin Transients
    BY DEF Failure, Outcome, States, Doubtful, Transients
  <2> QED
    BY <1>2, <2>1, DecideKeeps DEF ObserveFails, BackendRaises
<1>3. ASSUME NEW out \in Outcomes, BackendReturns(w, out) PROVE ServiceInv'
  <2>1. out \in Outcome
    BY ServiceAssumption
  <2> QED
    BY <1>3, <2>1, JudgedIsSettled, DecideKeeps DEF BackendReturns
<1> QED
  BY <1>1, <1>2, <1>3

(* The gate is given back, with or without a last transaction. *)
LEMMA LeaveFrees ==
  ASSUME ServiceInv, NEW w \in Workers, work[w].pc # "idle", Leave(w)
  PROVE  \A v \in Workers : work'[v].pc = "idle" /\ gate' # v
BY ServiceAssumption DEF ServiceInv, TypeOK, GateProtectsExecution, Leave, Idle, At

LEMMA DieKeeps ==
  ASSUME ServiceInv, TypeOK', NEW w \in Workers, FinishFails(w) \/ Crash(w)
  PROVE  ServiceInv'
<1>1. work[w].pc # "idle" /\ Leave(w) /\ UNCHANGED <<inst, ops, rows, events, executed>>
  BY DEF FinishFails, Crash
<1>2. \A v \in Workers : work'[v].pc = "idle" /\ gate' # v
  BY <1>1, LeaveFrees
<1> QED
  BY <1>1, <1>2 DEF ServiceInv, HeldByUnresolved, UnresolvedHolds, AnswerMatchesStatus,
     TransientWhileHeld, GateProtectsExecution, GenerationSeen, OutcomeIsSettled, KeysDiffer,
     CalledOnce, AbsentRows, Unresolved, Present, Recorded

LEMMA PruneKeeps ==
  ASSUME ServiceInv, TypeOK', NEW i \in Instances, NEW through \in Cursors, Prune(i, through)
  PROVE  ServiceInv'
<1>1. UNCHANGED <<ops, rows, gate, work, executed>> /\ Present(i)
  BY DEF Prune
<1>2. \A j \in Instances :
        /\ inst'[j].active = inst[j].active /\ inst'[j].state = inst[j].state
        /\ inst'[j].generation = inst[j].generation
        /\ j # i => inst'[j] = inst[j]
  BY DEF Prune, ServiceInv, TypeOK, InstanceRow
<1>3. \A q \in Recorded : ops[q].inst \in Instances
  BY DEF ServiceInv, TypeOK, OperationRow
<1>4. Recorded' = Recorded /\ \A w \in Workers : work[w].pc # "idle" => work[w].op \in Recorded
  BY <1>1 DEF ServiceInv, GateProtectsExecution, Recorded
<1>5. HeldByUnresolved' /\ UnresolvedHolds' /\ AnswerMatchesStatus' /\ KeysDiffer'
  BY <1>1, <1>2, <1>3, <1>4 DEF ServiceInv, HeldByUnresolved, UnresolvedHolds, AnswerMatchesStatus,
     KeysDiffer, Unresolved
<1>6. TransientWhileHeld' /\ AbsentRows'
  BY <1>1, <1>2 DEF ServiceInv, TransientWhileHeld, AbsentRows, Present
<1>7. GateProtectsExecution' /\ GenerationSeen' /\ OutcomeIsSettled' /\ CalledOnce'
  BY <1>1, <1>2, <1>3, <1>4 DEF ServiceInv, GateProtectsExecution, GenerationSeen, OutcomeIsSettled,
     CalledOnce, InstanceOf
<1> QED
  BY <1>5, <1>6, <1>7 DEF ServiceInv

LEMMA FinishEffects ==
  ASSUME ServiceInv, NEW w \in Workers, Finish(w)
  PROVE  LET o == work[w].op
             i == ops[o].inst
         IN /\ o \in Recorded /\ o \in OpIds /\ o # NoOp /\ i \in Instances
            /\ inst[i].active = o /\ rows' = rows /\ executed' = executed /\ Leave(w)
            /\ ops'[o].status \in {"failed", "completed"}
            /\ ops'[o].response # NoAnswer /\ ops'[o].response.result = ops'[o].status
            /\ ops'[o].status = "completed" => ~work[w].outcome.error
            /\ ops'[o].response.cancelled = work[w].outcome.cancelled
            /\ \A q \in Recorded :
                 /\ ops'[q].inst = ops[q].inst /\ ops'[q].key = ops[q].key /\ ops'[q].kind = ops[q].kind
                 /\ q # o => ops'[q] = ops[q]
            /\ inst'[i].active = NoOp /\ inst'[i].state \notin Transients
            /\ inst'[i].revision = inst[i].revision + 1
            /\ inst'[i].generation > 0
            /\ inst'[i].state = work[w].outcome.state
            /\ inst'[i].generation = GenerationAfter(inst[i], ops[o].kind, work[w].outcome, work[w].gen)
            /\ inst'[i].generation \in {inst[i].generation, inst[i].generation + 1}
            /\ \A j \in Instances : j # i => inst'[j] = inst[j]
<1> DEFINE o == work[w].op
           i == ops[o].inst
           out == work[w].outcome
           gen == GenerationAfter(inst[i], ops[o].kind, out, work[w].gen)
           row == Released(inst[i], out.state, gen)
           stage == IF out.error THEN "failed" ELSE IF out.cancelled THEN "cancelled" ELSE "completed"
           result == IF out.error THEN "failed" ELSE "completed"
           reply == Answer(result, Logged(row), out.state, out.cancelled, out.error)
<1>inv. /\ TypeOK
        /\ HeldByUnresolved /\ UnresolvedHolds /\ AnswerMatchesStatus /\ TransientWhileHeld
        /\ GateProtectsExecution /\ GenerationSeen /\ OutcomeIsSettled
        /\ KeysDiffer /\ CalledOnce /\ AbsentRows
  BY DEF ServiceInv
<1>0. /\ work[w].pc = "finish" /\ inst[i].active = o /\ o \in Recorded
      /\ rows' = rows /\ executed' = executed /\ Leave(w)
  BY <1>inv DEF Finish, GateProtectsExecution
<1>1. /\ Emit(i, row, o, stage)
      /\ ops' = [ops EXCEPT ![o] = Resolved(@, result, reply)]
  BY DEF Finish
<1>2. /\ i \in Instances /\ inst[i] \in InstanceRow /\ o \in OpIds /\ o # NoOp
      /\ out \in Outcome /\ out.state \notin Transients
      /\ work[w].gen \in {inst[i].generation, inst[i].generation + 1}
  <2>1. ops[o] \in OperationRow /\ work[w] \in Local
    BY <1>inv, <1>0 DEF TypeOK
  <2>2. i \in Instances /\ out \in Outcome
    BY <2>1 DEF OperationRow, Local
  <2>3. out.state \notin Transients
    BY <1>inv, <1>0 DEF OutcomeIsSettled
  <2>4. work[w].gen \in {inst[i].generation, inst[i].generation + 1}
    BY <1>inv, <1>0 DEF GenerationSeen, InstanceOf
  <2>5. inst[i] \in InstanceRow
    BY <1>inv, <2>2 DEF TypeOK
  <2>6. o \in OpIds /\ o # NoOp
    BY <1>inv, <1>0 DEF TypeOK, Recorded, OpIds, NoOp
  <2> QED
    BY <2>2, <2>3, <2>4, <2>5, <2>6
<1>3. /\ gen \in Nat /\ gen > 0
      /\ gen \in {inst[i].generation, inst[i].generation + 1}
  <2>1. inst[i].generation \in Nat /\ inst[i].generation > 0
    BY <1>inv, <1>0, <1>2 DEF InstanceRow, AbsentRows, Present, NoRow
  <2> HIDE DEF i, out, o
  <2> QED
    BY <1>2, <2>1 DEF GenerationAfter
<1>4. row \in InstanceRow /\ row.active = NoOp /\ row.state = out.state /\ row.generation = gen
      /\ row.revision = inst[i].revision + 1
  <2>1. out.state \in States
    BY <1>2 DEF Outcome
  <2> HIDE DEF gen, i, out, o
  <2> QED
    BY <1>2, <1>3, <2>1 DEF Released, InstanceRow
<1>5. \A j \in Instances :
        /\ j # i => inst'[j] = inst[j]
        /\ j = i => inst'[j].active = NoOp /\ inst'[j].state = out.state /\ inst'[j].generation = gen
                    /\ inst'[j].revision = inst[i].revision + 1
  <2> HIDE DEF row, stage
  <2>1. stage \in Stages
    BY DEF stage, Stages
  <2>2. /\ inst'[i] = [row EXCEPT !.seq = row.seq + 1]
        /\ \A j \in Instances : j # i => inst'[j] = inst[j]
    BY <1>inv, <1>1, <1>2, <1>4, <2>1, EmitType
  <2>3. /\ inst'[i].active = row.active /\ inst'[i].state = row.state
        /\ inst'[i].generation = row.generation /\ inst'[i].revision = row.revision
    BY <1>4, <2>2 DEF InstanceRow
  <2> QED
    BY <1>4, <2>2, <2>3
<1>6. \A q \in Recorded :
        /\ ops'[q].inst = ops[q].inst /\ ops'[q].key = ops[q].key /\ ops'[q].kind = ops[q].kind
        /\ q # o => ops'[q] = ops[q]
        /\ q = o => /\ ops'[q].status = result /\ ops'[q].response = reply
  <2>1. ops'[o] = Resolved(ops[o], result, reply) /\ \A q \in Recorded : q # o => ops'[q] = ops[q]
    BY <1>inv, <1>0, <1>1 DEF TypeOK
  <2> HIDE DEF result, reply
  <2>2. /\ ops'[o].inst = ops[o].inst /\ ops'[o].key = ops[o].key /\ ops'[o].kind = ops[o].kind
        /\ ops'[o].status = result /\ ops'[o].response = reply
    BY <2>1 DEF Resolved
  <2> QED
    BY <2>1, <2>2
<1>7. /\ result \in {"failed", "completed"} /\ reply.result = result /\ reply # NoAnswer
      /\ reply.cancelled = out.cancelled
      /\ result = "completed" => ~out.error
  BY DEF Answer, NoAnswer
<1> HIDE DEF row, gen, stage, result, reply, out, i, o
<1>8. /\ inst'[i].active = NoOp /\ inst'[i].state \notin Transients
      /\ inst'[i].revision = inst[i].revision + 1
      /\ inst'[i].generation > 0
      /\ inst'[i].generation \in {inst[i].generation, inst[i].generation + 1}
      /\ inst'[i].state = out.state /\ inst'[i].generation = gen
      /\ \A j \in Instances : j # i => inst'[j] = inst[j]
  BY <1>2, <1>3, <1>5
<1>9. /\ ops'[o].status \in {"failed", "completed"}
      /\ ops'[o].response # NoAnswer /\ ops'[o].response.result = ops'[o].status
      /\ ops'[o].response.cancelled = out.cancelled
      /\ ops'[o].status = "completed" => ~out.error
  BY <1>0, <1>6, <1>7
<1>10. gen = GenerationAfter(inst[i], ops[o].kind, out, work[w].gen)
  BY DEF gen
<1> QED
  BY <1>0, <1>2, <1>6, <1>8, <1>9, <1>10 DEF o, i, out

LEMMA FinishKeeps ==
  ASSUME ServiceInv, TypeOK', NEW w \in Workers, Finish(w)
  PROVE  ServiceInv'
<1> DEFINE o == work[w].op
           i == ops[o].inst
<1>inv. /\ TypeOK
        /\ HeldByUnresolved /\ UnresolvedHolds /\ AnswerMatchesStatus /\ TransientWhileHeld
        /\ GateProtectsExecution /\ GenerationSeen /\ OutcomeIsSettled
        /\ KeysDiffer /\ CalledOnce /\ AbsentRows
  BY DEF ServiceInv
<1>0. /\ o \in Recorded /\ o # NoOp /\ i \in Instances
      /\ inst[i].active = o /\ rows' = rows /\ executed' = executed /\ Leave(w)
      /\ work[w].pc # "idle"
  BY FinishEffects DEF Finish
<1>5. /\ inst'[i].active = NoOp /\ inst'[i].state \notin Transients /\ inst'[i].generation > 0
      /\ \A j \in Instances : j # i => inst'[j] = inst[j]
  BY FinishEffects
<1>6. \A q \in Recorded :
        /\ ops'[q].inst = ops[q].inst /\ ops'[q].key = ops[q].key /\ ops'[q].kind = ops[q].kind
        /\ q # o => ops'[q] = ops[q]
  BY FinishEffects
<1>7. /\ ops'[o].status \in {"failed", "completed"}
      /\ ops'[o].response # NoAnswer /\ ops'[o].response.result = ops'[o].status
  BY FinishEffects
<1> HIDE DEF o, i
<1>8. \A v \in Workers : work'[v].pc = "idle" /\ gate' # v
  BY <1>0, LeaveFrees
<1>9. Recorded' = Recorded /\ (\A q \in Recorded : ops[q].inst \in Instances)
      /\ (\A j \in Instances : inst[j].active \in Recorded \cup {NoOp})
  BY <1>inv, <1>0 DEF Recorded, TypeOK, OperationRow
<1>10. HeldByUnresolved'
  <2> SUFFICES ASSUME NEW j \in Instances, inst'[j].active # NoOp
               PROVE  /\ ops'[inst'[j].active].inst = j
                      /\ ops'[inst'[j].active].status \in {"pending", "executing"}
    BY DEF HeldByUnresolved, Unresolved
  <2>1. j # i /\ inst'[j] = inst[j]
    BY <1>5
  <2>2. inst[j].active \in Recorded /\ ops[inst[j].active].inst = j /\ Unresolved(inst[j].active)
    BY <1>inv, <1>9, <2>1 DEF HeldByUnresolved
  <2>3. inst[j].active # o
    BY <2>1, <2>2 DEF i
  <2> QED
    BY <1>6, <2>1, <2>2, <2>3 DEF Unresolved
<1>11. UnresolvedHolds'
  <2> SUFFICES ASSUME NEW q \in Recorded, ops'[q].status \in {"pending", "executing"}
               PROVE  inst'[ops'[q].inst].active = q
    BY <1>9 DEF UnresolvedHolds, Unresolved
  <2>1. q # o
    BY <1>6, <1>7
  <2>2. inst[ops[q].inst].active = q /\ ops'[q] = ops[q]
    BY <1>inv, <1>6, <2>1 DEF UnresolvedHolds, Unresolved
  <2>3. ops[q].inst # i
    BY <1>0, <2>1, <2>2
  <2> QED
    BY <1>5, <1>9, <2>2, <2>3
<1>12. AnswerMatchesStatus'
  BY <1>inv, <1>6, <1>7, <1>9 DEF AnswerMatchesStatus, Unresolved
<1>13. TransientWhileHeld' /\ AbsentRows'
  <2> SUFFICES ASSUME NEW j \in Instances
               PROVE  /\ Present(j)' => IF inst'[j].active = NoOp THEN inst'[j].state \notin Transients
                                        ELSE inst'[j].state = TransientOf(ops'[inst'[j].active].kind)
                      /\ ~Present(j)' => inst'[j] = NoRow
    BY DEF TransientWhileHeld, AbsentRows
  <2>1. CASE j = i
    BY <1>5, <2>1 DEF Present
  <2>2. CASE j # i
    BY <1>inv, <1>5, <1>6, <1>9, <2>2 DEF Present, TransientWhileHeld, AbsentRows
  <2> QED
    BY <2>1, <2>2
<1>14. GateProtectsExecution' /\ GenerationSeen' /\ OutcomeIsSettled'
  BY <1>8 DEF GateProtectsExecution, GenerationSeen, OutcomeIsSettled
<1>15. KeysDiffer'
  BY <1>inv, <1>6, <1>9 DEF KeysDiffer
<1>16. CalledOnce'
  BY <1>inv, <1>0, <1>6, <1>7, <1>8, <1>9 DEF CalledOnce
<1> QED
  BY <1>10, <1>11, <1>12, <1>13, <1>14, <1>15, <1>16 DEF ServiceInv

-----------------------------------------------------------------------------
(* Every request that is accepted is a record step. *)
LEMMA RequestRecords ==
  ASSUME ServiceInv, NEW i \in Instances,
         \/ Request(i)
         \/ \E original \in OpIds, rev \in Revs, attempt \in Attempts :
              RestartPreparation(i, original, rev, attempt)
  PROVE  RequestStep(i)
BY PrepareRecords, SubmitRecords, CancelRecords, RestartRecords DEF Request

LEMMA ServiceStep == ServiceInv /\ [Next]_vars => ServiceInv'
<1> SUFFICES ASSUME ServiceInv, [Next]_vars PROVE ServiceInv'
  OBVIOUS
<1>1. TypeOK'
  BY TypesNext DEF ServiceInv
<1>2. ASSUME NEW i \in Instances,
             \/ Request(i)
             \/ \E original \in OpIds, rev \in Revs, attempt \in Attempts :
                  RestartPreparation(i, original, rev, attempt)
      PROVE  ServiceInv'
  <2>1. RequestStep(i)
    BY <1>2, RequestRecords
  <2> QED
    BY <1>1, <2>1, RecordKeeps DEF RequestStep
<1>4. ASSUME NEW w \in Workers, Work(w) PROVE ServiceInv'
  <2>1. CASE \E o \in OpIds : Claim(w, o)
    BY <1>1, <2>1, ClaimKeeps
  <2>2. CASE CheckCancel(w)
    BY <1>1, <2>2, CheckCancelKeeps
  <2>3. CASE \/ \E gen \in Gens, state \in States : Observe(w, gen, state)
             \/ ObserveFails(w)
             \/ \E out \in Outcomes : BackendReturns(w, out)
             \/ BackendRaises(w)
    BY <1>1, <2>3, BackendKeeps
  <2>4. CASE Finish(w)
    BY <1>1, <2>4, FinishKeeps
  <2>5. CASE FinishFails(w) \/ Crash(w)
    BY <1>1, <2>5, DieKeeps
  <2> QED
    BY <1>4, <2>1, <2>2, <2>3, <2>4, <2>5 DEF Work
<1>5. ASSUME NEW i \in Instances, NEW through \in Cursors, Prune(i, through) PROVE ServiceInv'
  BY <1>1, <1>5, PruneKeeps
<1>6. CASE UNCHANGED vars
  BY <1>6 DEF vars, ServiceInv, TypeOK, HeldByUnresolved, UnresolvedHolds, AnswerMatchesStatus,
     TransientWhileHeld, GateProtectsExecution, GenerationSeen, OutcomeIsSettled, KeysDiffer,
     CalledOnce, AbsentRows, Unresolved, Present, Recorded, InstanceOf
<1> QED
  BY <1>2, <1>4, <1>5, <1>6 DEF Next

LEMMA ServiceAlways == Spec => []ServiceInv
  BY InitialService, ServiceStep, PTL DEF Spec

LEMMA UnresolvedAreActive == ServiceInv => ActiveIsTheUnresolvedOne
<1> SUFFICES ASSUME ServiceInv, NEW i \in Instances
             PROVE  {o \in Recorded : ops[o].inst = i /\ Unresolved(o)} = {inst[i].active} \ {NoOp}
  BY DEF ActiveIsTheUnresolvedOne
<1>1. inst[i].active \in Recorded \cup {NoOp}
  BY DEF ServiceInv, TypeOK
<1>2. \A o \in Recorded : o # NoOp
  BY DEF Recorded, NoOp
<1>3. \A o \in Recorded : ops[o].inst = i /\ Unresolved(o) => inst[i].active = o
  BY DEF ServiceInv, UnresolvedHolds
<1>4. inst[i].active # NoOp => ops[inst[i].active].inst = i /\ Unresolved(inst[i].active)
  BY DEF ServiceInv, HeldByUnresolved
<1> QED
  BY <1>1, <1>2, <1>3, <1>4

(* Whatever requests, crashes, takeovers and restarts come in between, the
   unresolved operations are exactly those that hold an instance. *)
THEOREM HeldByTheUnresolved == Spec => []ActiveIsTheUnresolvedOne
  BY UnresolvedAreActive, ServiceAlways, PTL

(* Only the holder of the gate executes, and what it executes still holds its
   instance when _finish commits. *)
THEOREM ExecutionIsProtected == Spec => []GateProtectsExecution
  BY ServiceAlways, PTL DEF ServiceInv

(* The history shows no row whose answer contradicts its status. *)
THEOREM AnswersFitTheirStatus == Spec => []AnswerMatchesStatus
  BY ServiceAlways, PTL DEF ServiceInv

(* A transient state is shown exactly while an operation of its kind holds the
   instance, whatever the backend returns. *)
THEOREM TransientsAreHeld == Spec => []TransientWhileHeld
  BY ServiceAlways, PTL DEF ServiceInv

LEMMA CalledAtMostOnce == ServiceInv => AtMostOnce
  BY DEF ServiceInv, TypeOK, CalledOnce, KeysDiffer, AtMostOnce, Recorded, OpIds

(* The backend is called at most once for a request, and a request is
   recorded at most once. *)
THEOREM ExecutedAtMostOnce == Spec => []AtMostOnce
  BY CalledAtMostOnce, ServiceAlways, PTL

-----------------------------------------------------------------------------
(***************************************************************************)
(* What one committed transaction does to the answers, the revision, the   *)
(* events and the ledger of operations.                                    *)
(***************************************************************************)
HIDE ServiceAssumption

(* A step that neither records, claims nor finishes an operation: the local
   steps of a worker, its death, a pruning. *)
Unmoved ==
  /\ ops' = ops /\ rows' = rows
  /\ \A i \in Instances :
       /\ inst'[i].active = inst[i].active /\ inst'[i].state = inst[i].state
       /\ inst'[i].generation = inst[i].generation /\ inst'[i].revision = inst[i].revision

(* What the promises of the service need to know of a step.  It does not matter
   here what the backend returned. *)
ServiceMove ==
  \/ \E i \in Instances : RequestStep(i)
  \/ \E w \in Workers, o \in OpIds : Claim(w, o)
  \/ \E w \in Workers : Finish(w)
  \/ Unmoved

LEMMA StepShape ==
  ASSUME ServiceInv, [Next]_vars
  PROVE  ServiceMove
<1>1. ASSUME NEW i \in Instances,
             \/ Request(i)
             \/ \E original \in OpIds, rev \in Revs, attempt \in Attempts :
                  RestartPreparation(i, original, rev, attempt)
      PROVE  RequestStep(i)
  BY <1>1, RequestRecords
<1>2. ASSUME NEW i \in Instances, NEW through \in Cursors, Prune(i, through) PROVE Unmoved
  BY <1>2 DEF Prune, ServiceInv, TypeOK, InstanceRow, Unmoved
<1>3. ASSUME NEW w \in Workers,
             \/ CheckCancel(w)
             \/ \E gen \in Gens, state \in States : Observe(w, gen, state)
             \/ ObserveFails(w)
             \/ \E out \in Outcomes : BackendReturns(w, out)
             \/ BackendRaises(w) \/ FinishFails(w) \/ Crash(w)
      PROVE  Unmoved
  BY <1>3 DEF CheckCancel, Observe, ObserveFails, BackendReturns, BackendRaises, FinishFails,
     Crash, Unmoved
<1>4. CASE UNCHANGED vars
  BY <1>4 DEF vars, Unmoved, ServiceMove
<1> QED
  BY <1>1, <1>2, <1>3, <1>4 DEF Next, Work, ServiceMove

LEMMA ClaimEffects ==
  ASSUME ServiceInv, NEW w \in Workers, NEW o \in OpIds, Claim(w, o)
  PROVE  LET i == ops[o].inst
         IN /\ o \in Recorded /\ i \in Instances /\ inst[i].active = o
            /\ ops[o].status = "pending" /\ ops[o].response = NoAnswer /\ rows' = rows
            /\ ops'[o].status = "executing" /\ ops'[o].response = ops[o].response
            /\ \A q \in Recorded : q # o => ops'[q] = ops[q]
            /\ \A j \in Instances :
                 /\ inst'[j].active = inst[j].active /\ inst'[j].state = inst[j].state
                 /\ inst'[j].generation = inst[j].generation
                 /\ inst'[j].revision = inst[j].revision
<1> DEFINE i == ops[o].inst
<1>1. /\ o \in Recorded /\ ops \in [Recorded -> OperationRow] /\ ops[o] \in OperationRow
      /\ i \in Instances /\ inst[i] \in InstanceRow /\ TypeOK
  BY DEF ServiceInv, TypeOK, Claim, Claimable, OperationRow
<1>2. /\ inst[i].active = o /\ ops[o].status = "pending" /\ ops[o].response = NoAnswer /\ rows' = rows
  BY DEF Claim, Claimable
<1>3. ops' = [ops EXCEPT ![o].status = "executing"] /\ Emit(i, inst[i], o, "executing")
  BY DEF Claim
<1>4. /\ ops'[o].status = "executing" /\ ops'[o].response = ops[o].response
      /\ \A q \in Recorded : q # o => ops'[q] = ops[q]
  BY <1>1, <1>3 DEF OperationRow
<1>5. /\ inst'[i] = [inst[i] EXCEPT !.seq = inst[i].seq + 1]
      /\ \A j \in Instances : j # i => inst'[j] = inst[j]
  BY <1>1, <1>3, EmitType DEF Stages
<1>6. /\ inst'[i].active = inst[i].active /\ inst'[i].state = inst[i].state
      /\ inst'[i].generation = inst[i].generation /\ inst'[i].revision = inst[i].revision
  BY <1>1, <1>5 DEF InstanceRow
<1> QED
  BY <1>1, <1>2, <1>4, <1>5, <1>6

-----------------------------------------------------------------------------
LEMMA AnswerStays ==
  ASSUME ServiceInv, ServiceMove, NEW o \in Recorded, ops[o].response # NoAnswer
  PROVE  ops'[o].response = ops[o].response /\ ops'[o].status = ops[o].status
<1>inv. /\ HeldByUnresolved /\ AnswerMatchesStatus /\ GateProtectsExecution
  BY DEF ServiceInv
<1>0. ~Unresolved(o)
  BY <1>inv DEF AnswerMatchesStatus
<1>1. ASSUME NEW i \in Instances, RequestStep(i)
      PROVE  ops'[o].response = ops[o].response /\ ops'[o].status = ops[o].status
  <2>1. o # NoOp
    BY DEF Recorded, NoOp
  <2>2. o # inst[i].active
    BY <1>0, <1>inv, <2>1 DEF HeldByUnresolved
  <2> QED
    BY <1>1, <2>2, RecordEffects DEF RequestStep
<1>2. ASSUME NEW w \in Workers, NEW q \in OpIds, Claim(w, q)
      PROVE  ops'[o].response = ops[o].response /\ ops'[o].status = ops[o].status
  BY <1>2, ClaimEffects
<1>3. ASSUME NEW w \in Workers, Finish(w)
      PROVE  ops'[o].response = ops[o].response /\ ops'[o].status = ops[o].status
  <2>1. ops[work[w].op].status = "executing"
    BY <1>3, <1>inv DEF GateProtectsExecution, Finish
  <2> QED
    BY <1>0, <1>3, <2>1, FinishEffects DEF Unresolved
<1>4. CASE Unmoved
  BY <1>4 DEF Unmoved
<1> QED
  BY <1>1, <1>2, <1>3, <1>4 DEF ServiceMove

(* An answer is written once: no takeover, restart, crash or late worker ever
   changes what a client has been, or will be, told about an operation. *)
THEOREM AnswersStay == Spec => AnswersAreFinal
<1>1. ServiceInv /\ [Next]_vars
        => [\A o \in Recorded : ops[o].response # NoAnswer =>
              ops'[o].response = ops[o].response /\ ops'[o].status = ops[o].status]_vars
  BY AnswerStays, StepShape
<1> QED
  BY <1>1, ServiceAlways, PTL DEF Spec, AnswersAreFinal

Versioned(i) ==
  /\ <<inst'[i].state, inst'[i].generation, inst'[i].active>>
       # <<inst[i].state, inst[i].generation, inst[i].active>>
     => inst'[i].revision = inst[i].revision + 1
  /\ inst[i].generation <= inst'[i].generation
  /\ inst'[i].generation <= inst[i].generation + 1

LEMMA RowIsVersioned ==
  ASSUME ServiceInv, ServiceMove, NEW i \in Instances
  PROVE  Versioned(i)
<1>0. inst[i].generation \in Nat
  BY DEF ServiceInv, TypeOK, InstanceRow
<1>1. ASSUME NEW j \in Instances, RequestStep(j) PROVE Versioned(i)
  <2>1. PICK f, new : \E row \in InstanceRow, stage \in Stages :
          /\ RecordedFor(j, f, new, row, stage)
          /\ Takes(j, f, new, row) \/ Notes(j, f, new, row)
    BY <1>1 DEF RequestStep
  <2>2. PICK row \in InstanceRow, stage \in Stages :
          /\ RecordedFor(j, f, new, row, stage)
          /\ Takes(j, f, new, row) \/ Notes(j, f, new, row)
    BY <2>1
  <2>3. /\ inst'[j].generation = row.generation /\ inst'[j].revision = row.revision
        /\ \A k \in Instances : k # j => inst'[k] = inst[k]
    BY <2>2, RecordEffects
  <2>4. row.revision = inst[j].revision + 1
        /\ row.generation \in {inst[j].generation, inst[j].generation + 1}
    BY <2>2 DEF RecordedFor
  <2> QED
    BY <1>0, <2>3, <2>4 DEF Versioned
<1>2. ASSUME NEW w \in Workers, NEW q \in OpIds, Claim(w, q) PROVE Versioned(i)
  BY <1>0, <1>2, ClaimEffects DEF Versioned
<1>3. ASSUME NEW w \in Workers, Finish(w) PROVE Versioned(i)
  <2> DEFINE j == ops[work[w].op].inst
  <2>1. /\ j \in Instances /\ inst'[j].revision = inst[j].revision + 1
        /\ inst'[j].generation \in {inst[j].generation, inst[j].generation + 1}
        /\ \A k \in Instances : k # j => inst'[k] = inst[k]
    BY <1>3, FinishEffects
  <2> HIDE DEF j
  <2> QED
    BY <1>0, <2>1 DEF Versioned
<1>4. CASE Unmoved
  BY <1>0, <1>4 DEF Unmoved, Versioned
<1> QED
  BY <1>1, <1>2, <1>3, <1>4 DEF ServiceMove

(* Two reads of an instance with the same revision have seen the same state,
   generation and holder. *)
THEOREM RevisionsVersion == Spec => RevisionVersionsTheRow
<1>1. ServiceInv /\ [Next]_vars => [\A i \in Instances : Versioned(i)]_vars
  BY RowIsVersioned, StepShape
<1> QED
  BY <1>1, ServiceAlways, PTL DEF Spec, RevisionVersionsTheRow, Versioned

-----------------------------------------------------------------------------
(* The refinement of the ledger: phases and answers before and after a step. *)
AnswerOf(o) == IF o \in Recorded THEN ops[o].response ELSE NoAnswer

LEMMA PhaseSteps ==
  ASSUME ServiceInv, NEW q
  PROVE  /\ q \notin Recorded => PhaseOf(q) = "absent" /\ AnswerOf(q) = NoAnswer
         /\ q \in Recorded => AnswerOf(q) = ops[q].response
         /\ q \in Recorded /\ ops[q].status = "pending" => PhaseOf(q) = "open"
         /\ q \in Recorded /\ ops[q].status = "executing" => PhaseOf(q) = "running"
         /\ q \in Recorded /\ ~Unresolved(q) => PhaseOf(q) = "closed"
BY DEF PhaseOf, AnswerOf, Unresolved

LEMMA PhaseStepsAfter ==
  ASSUME ServiceInv, NEW q
  PROVE  /\ q \notin Recorded' => PhaseOf(q)' = "absent" /\ AnswerOf(q)' = NoAnswer
         /\ q \in Recorded' => AnswerOf(q)' = ops'[q].response
         /\ q \in Recorded' /\ ops'[q].status = "pending" => PhaseOf(q)' = "open"
         /\ q \in Recorded' /\ ops'[q].status = "executing" => PhaseOf(q)' = "running"
         /\ q \in Recorded' /\ ops'[q].status \notin {"pending", "executing"} => PhaseOf(q)' = "closed"
         /\ q \in Recorded /\ q \in Recorded' /\ ops'[q].status = ops[q].status => PhaseOf(q)' = PhaseOf(q)
BY DEF PhaseOf, AnswerOf

(* The three variables of the ledger, as functions of the tables. *)
Phase == [o \in OpIds |-> PhaseOf(o)]
AnswerMap == [o \in OpIds |-> AnswerOf(o)]
Holder == [i \in Instances |-> inst[i].active]

LEMMA LedgerTakes ==
  ASSUME ServiceInv, ServiceInv', NEW i \in Instances, NEW f, NEW new,
         NEW row \in InstanceRow, NEW stage \in Stages,
         RecordedFor(i, f, new, row, stage), Takes(i, f, new, row),
         NEW o, o = rows + 1, NEW h, h = inst[i].active
  PROVE  Ledger!Open(i, o) \/ Ledger!TakeOver(i, o)
<1>inv. /\ TypeOK /\ HeldByUnresolved /\ AnswerMatchesStatus
  BY DEF ServiceInv
<1>1. /\ o \in OpIds /\ o # NoOp /\ Recorded \subseteq OpIds /\ o \notin Recorded
      /\ Recorded' = Recorded \cup {o} /\ ops'[o] = new /\ \A q \in Recorded : ops'[q] = f[q]
      /\ \A q \in Recorded :
           \/ ops'[q].status = ops[q].status /\ ops'[q].response = ops[q].response
           \/ /\ q = h /\ ops'[q].status = "unknown" /\ ops'[q].response # NoAnswer
      /\ inst'[i].active = row.active /\ \A j \in Instances : j # i => inst'[j] = inst[j]
  BY RecordEffects
<1>2. /\ new.status = "pending" /\ new.response = NoAnswer /\ row.active = o
      /\ h # NoOp => ~(f[h].status \in {"pending", "executing"})
  BY DEF Takes
<1>3. \A q \in Recorded : q # NoOp
  BY DEF Recorded, NoOp
<1>4. Holder' = [Holder EXCEPT ![i] = o]
  BY <1>1, <1>2 DEF Holder
<1>5. PhaseOf(o) = "absent" /\ PhaseOf(o)' = "open" /\ AnswerOf(o) = NoAnswer /\ AnswerOf(o)' = NoAnswer
  BY <1>1, <1>2, PhaseSteps, PhaseStepsAfter
<1>6. \A q \in OpIds : q # o /\ q # h => PhaseOf(q)' = PhaseOf(q) /\ AnswerOf(q)' = AnswerOf(q)
  <2> SUFFICES ASSUME NEW q \in OpIds, q # o, q # h
               PROVE  PhaseOf(q)' = PhaseOf(q) /\ AnswerOf(q)' = AnswerOf(q)
    OBVIOUS
  <2>1. CASE q \in Recorded
    BY <1>1, <2>1, PhaseSteps, PhaseStepsAfter
  <2>2. CASE q \notin Recorded
    BY <1>1, <2>2, PhaseSteps, PhaseStepsAfter
  <2> QED
    BY <2>1, <2>2
<1>7. CASE h = NoOp
  <2>1. \A q \in OpIds : q # h
    BY <1>7 DEF OpIds, NoOp
  <2>2. Phase' = [Phase EXCEPT ![o] = "open"]
    BY <1>1, <1>5, <1>6, <2>1 DEF Phase
  <2>3. \A q \in OpIds : AnswerOf(q)' = AnswerOf(q)
    BY <1>5, <1>6, <2>1
  <2>4. AnswerMap' = AnswerMap
    BY <2>3 DEF AnswerMap
  <2> QED
    BY <1>1, <1>4, <1>5, <1>7, <2>2, <2>4 DEF Ledger!Open, Phase, AnswerMap, Holder, AnswerOf
<1>8. CASE h # NoOp
  <2>1. h \in Recorded /\ h # o /\ Unresolved(h)
    BY <1>inv, <1>1, <1>8 DEF TypeOK, HeldByUnresolved
  <2>2. ops'[h].status \notin {"pending", "executing"}
    BY <1>1, <1>2, <1>8, <2>1
  <2>3. ops'[h].response # NoAnswer
    BY <1>1, <2>1, <2>2 DEF Unresolved
  <2>4. ops'[h].response \in Answers
    <3>1. ops'[h] \in OperationRow
      BY <1>1, <2>1 DEF ServiceInv, TypeOK
    <3> QED
      BY <2>3, <3>1 DEF OperationRow
  <2>5. PhaseOf(h)' = "closed" /\ AnswerOf(h)' \in Answers
    BY <1>1, <2>1, <2>2, <2>4, PhaseStepsAfter
  <2>6. Phase' = [Phase EXCEPT ![h] = "closed", ![o] = "open"]
    BY <1>1, <1>5, <1>6, <2>1, <2>5 DEF Phase
  <2>7. AnswerMap' = [AnswerMap EXCEPT ![h] = AnswerMap'[h]] /\ AnswerMap'[h] \in Answers
    <3>1. \A q \in OpIds : q # h => AnswerOf(q)' = AnswerOf(q)
      BY <1>5, <1>6
    <3> QED
      BY <1>1, <2>1, <2>5, <3>1 DEF AnswerMap
  <2> QED
    BY <1>1, <1>4, <1>5, <1>8, <2>6, <2>7
       DEF Ledger!TakeOver, Ledger!Answered, Phase, AnswerMap, Holder, AnswerOf
<1> QED
  BY <1>7, <1>8

LEMMA LedgerNotes ==
  ASSUME ServiceInv, ServiceInv', NEW i \in Instances, NEW f, NEW new,
         NEW row \in InstanceRow, NEW stage \in Stages,
         RecordedFor(i, f, new, row, stage), Notes(i, f, new, row),
         NEW o, o = rows + 1
  PROVE  Ledger!Note(o)
<1>1. /\ o \in OpIds /\ Recorded \subseteq OpIds /\ o \notin Recorded
      /\ Recorded' = Recorded \cup {o} /\ ops'[o] = new /\ \A q \in Recorded : ops'[q] = f[q]
      /\ inst'[i].active = row.active /\ \A j \in Instances : j # i => inst'[j] = inst[j]
  BY RecordEffects
<1>2. /\ new.status \in Results /\ new.response # NoAnswer /\ row.active = inst[i].active
      /\ \A q \in Recorded : f[q].status = ops[q].status /\ f[q].response = ops[q].response
  BY DEF Notes
<1>3. Holder' = Holder
  BY <1>1, <1>2 DEF Holder
<1>4. new.response \in Answers
  <2>1. ops'[o] \in OperationRow
    BY <1>1 DEF ServiceInv, TypeOK
  <2> QED
    BY <1>1, <1>2, <2>1 DEF OperationRow
<1>5. PhaseOf(o) = "absent" /\ PhaseOf(o)' = "closed" /\ AnswerOf(o)' \in Answers
  BY <1>1, <1>2, <1>4, PhaseSteps, PhaseStepsAfter DEF Results
<1>6. \A q \in OpIds : q # o => PhaseOf(q)' = PhaseOf(q) /\ AnswerOf(q)' = AnswerOf(q)
  <2> SUFFICES ASSUME NEW q \in OpIds, q # o
               PROVE  PhaseOf(q)' = PhaseOf(q) /\ AnswerOf(q)' = AnswerOf(q)
    OBVIOUS
  <2>1. CASE q \in Recorded
    BY <1>1, <1>2, <2>1, PhaseSteps, PhaseStepsAfter
  <2>2. CASE q \notin Recorded
    BY <1>1, <2>2, PhaseSteps, PhaseStepsAfter
  <2> QED
    BY <2>1, <2>2
<1>7. /\ Phase' = [Phase EXCEPT ![o] = "closed"]
      /\ AnswerMap' = [AnswerMap EXCEPT ![o] = AnswerMap'[o]] /\ AnswerMap'[o] \in Answers
  BY <1>1, <1>5, <1>6 DEF Phase, AnswerMap
<1> QED
  BY <1>1, <1>3, <1>5, <1>7 DEF Ledger!Note, Ledger!Answered, Phase, AnswerMap, Holder, AnswerOf

LEMMA LedgerRuns ==
  ASSUME ServiceInv, NEW w \in Workers, NEW o \in OpIds, Claim(w, o), NEW i, i = ops[o].inst
  PROVE  Ledger!Run(i, o)
<1>1. /\ o \in Recorded /\ i \in Instances /\ inst[i].active = o
      /\ ops[o].status = "pending" /\ rows' = rows
      /\ ops'[o].status = "executing" /\ ops'[o].response = ops[o].response
      /\ \A q \in Recorded : q # o => ops'[q] = ops[q]
      /\ \A j \in Instances : inst'[j].active = inst[j].active
  BY ClaimEffects
<1>2. Recorded' = Recorded
  BY <1>1 DEF Recorded
<1>3. Holder' = Holder
  BY <1>1 DEF Holder
<1>4. PhaseOf(o) = "open" /\ PhaseOf(o)' = "running" /\ AnswerOf(o)' = AnswerOf(o)
  BY <1>1, <1>2, PhaseSteps, PhaseStepsAfter
<1>5. \A q \in OpIds : q # o => PhaseOf(q)' = PhaseOf(q) /\ AnswerOf(q)' = AnswerOf(q)
  <2> SUFFICES ASSUME NEW q \in OpIds, q # o
               PROVE  PhaseOf(q)' = PhaseOf(q) /\ AnswerOf(q)' = AnswerOf(q)
    OBVIOUS
  <2> QED
    BY <1>1, <1>2, PhaseSteps, PhaseStepsAfter
<1>6. Phase' = [Phase EXCEPT ![o] = "running"] /\ AnswerMap' = AnswerMap
  BY <1>4, <1>5 DEF Phase, AnswerMap
<1> QED
  BY <1>1, <1>3, <1>4, <1>6 DEF Ledger!Run, Phase, AnswerMap, Holder, AnswerOf

LEMMA LedgerCloses ==
  ASSUME ServiceInv, ServiceInv', NEW w \in Workers, Finish(w),
         NEW o, o = work[w].op, NEW i, i = ops[o].inst
  PROVE  Ledger!Close(i, o)
<1>1. /\ o \in Recorded /\ o \in OpIds /\ i \in Instances /\ inst[i].active = o /\ rows' = rows
      /\ ops'[o].status \in {"failed", "completed"} /\ ops'[o].response # NoAnswer
      /\ \A q \in Recorded : q # o => ops'[q] = ops[q]
      /\ inst'[i].active = NoOp /\ \A j \in Instances : j # i => inst'[j] = inst[j]
  BY FinishEffects
<1>2. ops[o].status = "executing"
  BY DEF ServiceInv, GateProtectsExecution, Finish
<1>3. Recorded' = Recorded
  BY <1>1 DEF Recorded
<1>4. ops'[o].response \in Answers
  <2>1. ops'[o] \in OperationRow
    BY <1>1, <1>3 DEF ServiceInv, TypeOK
  <2> QED
    BY <1>1, <2>1 DEF OperationRow
<1>5. Holder' = [Holder EXCEPT ![i] = NoOp]
  BY <1>1 DEF Holder
<1>6. PhaseOf(o) = "running" /\ PhaseOf(o)' = "closed" /\ AnswerOf(o)' \in Answers
  BY <1>1, <1>2, <1>3, <1>4, PhaseSteps, PhaseStepsAfter
<1>7. \A q \in OpIds : q # o => PhaseOf(q)' = PhaseOf(q) /\ AnswerOf(q)' = AnswerOf(q)
  <2> SUFFICES ASSUME NEW q \in OpIds, q # o
               PROVE  PhaseOf(q)' = PhaseOf(q) /\ AnswerOf(q)' = AnswerOf(q)
    OBVIOUS
  <2> QED
    BY <1>1, <1>3, PhaseSteps, PhaseStepsAfter
<1>8. /\ Phase' = [Phase EXCEPT ![o] = "closed"]
      /\ AnswerMap' = [AnswerMap EXCEPT ![o] = AnswerMap'[o]] /\ AnswerMap'[o] \in Answers
  BY <1>1, <1>6, <1>7 DEF Phase, AnswerMap
<1> QED
  BY <1>1, <1>5, <1>6, <1>8 DEF Ledger!Close, Ledger!Answered, Phase, AnswerMap, Holder, AnswerOf

LEMMA LedgerStarts == Init => Ledger!Init
<1> SUFFICES ASSUME Init PROVE Ledger!Init
  OBVIOUS
<1>1. Recorded = {} /\ \A i \in Instances : inst[i].active = NoOp
  BY DEF Init, Recorded, NoRow
<1>2. \A o \in OpIds : PhaseOf(o) = "absent" /\ AnswerOf(o) = NoAnswer
  BY <1>1 DEF PhaseOf, AnswerOf
<1> QED
  BY <1>1, <1>2 DEF Ledger!Init, AnswerOf

LEMMA LedgerFollows ==
  ASSUME ServiceInv, ServiceInv', ServiceMove
  PROVE  [Ledger!Next]_(Ledger!lvars)
<1>1. ASSUME NEW i \in Instances, RequestStep(i) PROVE Ledger!Next
  <2>1. PICK f, new : \E row \in InstanceRow, stage \in Stages :
          /\ RecordedFor(i, f, new, row, stage)
          /\ Takes(i, f, new, row) \/ Notes(i, f, new, row)
    BY <1>1 DEF RequestStep
  <2>2. PICK row \in InstanceRow, stage \in Stages :
          /\ RecordedFor(i, f, new, row, stage)
          /\ Takes(i, f, new, row) \/ Notes(i, f, new, row)
    BY <2>1
  <2>3. PICK o, h : o = rows + 1 /\ h = inst[i].active
    OBVIOUS
  <2>4. o \in OpIds
    BY <2>2, <2>3, RecordEffects
  <2>5. Ledger!Open(i, o) \/ Ledger!TakeOver(i, o) \/ Ledger!Note(o)
    BY <2>2, <2>3, LedgerTakes, LedgerNotes
  <2> QED
    BY <2>4, <2>5 DEF Ledger!Next
<1>2. ASSUME NEW w \in Workers, NEW o \in OpIds, Claim(w, o) PROVE Ledger!Next
  <2>1. PICK i \in Instances : i = ops[o].inst
    BY <1>2, ClaimEffects
  <2> QED
    BY <1>2, <2>1, LedgerRuns DEF Ledger!Next
<1>3. ASSUME NEW w \in Workers, Finish(w) PROVE Ledger!Next
  <2>1. PICK o \in OpIds, i \in Instances : o = work[w].op /\ i = ops[o].inst
    BY <1>3, FinishEffects
  <2> QED
    BY <1>3, <2>1, LedgerCloses DEF Ledger!Next
<1>4. CASE Unmoved
  <2>1. Recorded' = Recorded /\ ops' = ops /\ \A i \in Instances : inst'[i].active = inst[i].active
    BY <1>4 DEF Unmoved, Recorded
  <2>2. ASSUME NEW o \in OpIds PROVE PhaseOf(o)' = PhaseOf(o) /\ AnswerOf(o)' = AnswerOf(o)
    BY <2>1, PhaseSteps, PhaseStepsAfter
  <2>3. Phase' = Phase /\ AnswerMap' = AnswerMap /\ Holder' = Holder
    BY <2>1, <2>2 DEF Phase, AnswerMap, Holder
  <2> QED
    BY <2>3 DEF Ledger!lvars, Phase, AnswerMap, Holder, AnswerOf
<1> QED
  BY <1>1, <1>2, <1>3, <1>4 DEF ServiceMove

(* The service is the ledger with revisions, keys, events, a gate and workers
   added: every transaction opens, takes over, notes, runs or closes exactly
   one operation, or leaves the ledger as it is. *)
THEOREM ServiceImplementsLedger == Spec => ImplementsLedger
<1>1. ServiceInv /\ ServiceInv' /\ [Next]_vars => [Ledger!Next]_(Ledger!lvars)
  BY StepShape, LedgerFollows
<1> QED
  BY <1>1, LedgerStarts, ServiceAlways, PTL DEF Spec, ImplementsLedger, Ledger!Spec

-----------------------------------------------------------------------------
(* The content of a request, which no later transaction changes, and the
   cancellation flag, which none takes back. *)
ContentKept(q) ==
  /\ ops'[q].rev = ops[q].rev /\ ops'[q].target = ops[q].target
  /\ ops'[q].inst = ops[q].inst /\ ops'[q].kind = ops[q].kind
  /\ ops[q].cancel => ops'[q].cancel
  /\ ops[q].status # "pending" => ops'[q].status # "pending"

(* What a request other than a cancellation adds: an operation decided on the
   revision the row had, and an event that announces it. *)
Announces(i) ==
  /\ ops'[rows + 1].kind = "prepare" \/ ops'[rows + 1].rev = inst[i].revision
  /\ \E row \in InstanceRow :
       /\ row.seq = inst[i].seq /\ row.floor = inst[i].floor /\ row.revision = inst[i].revision + 1
       /\ Emit(i, row, rows + 1, "intent")

LEMMA RowAdded ==
  ASSUME TypeOK, rows < MaxOps, NEW f, NEW new, ops' = WithRow(f, new), rows' = rows + 1
  PROVE  /\ Recorded' = Recorded \cup {rows + 1} /\ rows + 1 \notin Recorded
         /\ ops'[rows + 1] = new /\ \A q \in Recorded : ops'[q] = f[q]
<1>1. rows \in Nat
  BY DEF TypeOK
<1>2. /\ WithRow(f, new)[rows + 1] = new
      /\ \A q \in Recorded : WithRow(f, new)[q] = f[q] /\ q # rows + 1
      /\ 1..(rows + 1) = Recorded \cup {rows + 1}
  BY <1>1 DEF WithRow, Recorded
<1> QED
  BY <1>2 DEF Recorded

LEMMA TakenRow ==
  ASSUME NEW row, NEW previous, NEW kind, NEW o, NEW rev
  PROVE  LET taken == TakenFrom(row, previous, kind, o, rev)
         IN taken.seq = row.seq /\ taken.floor = row.floor /\ taken.revision = rev
BY DEF TakenFrom

LEMMA PrepareAnnounces ==
  ASSUME ServiceInv, NEW i \in Instances, NEW key \in Keys, Prepare(i, key)
  PROVE  Announces(i) /\ \A q \in Recorded : ops'[q] = ops[q]
<1> DEFINE new == NewOp("prepare", i, key, 0, 0, NoOp, "pending", NoAnswer)
           row == Taken(NewRow, "prepare", rows + 1)
<1>1. TypeOK /\ rows < MaxOps /\ rows' = rows + 1 /\ ops' = WithRow(ops, new) /\ Emit(i, row, rows + 1, "intent")
      /\ inst[i] = NoRow
  BY DEF Prepare, ServiceInv, AbsentRows
<1>2. ops'[rows + 1] = new /\ \A q \in Recorded : ops'[q] = ops[q]
  BY <1>1, RowAdded
<1>3. NewRow \in InstanceRow /\ NewRow.state \in States /\ NewRow.revision + 1 \in Nat /\ rows + 1 \in OpIds
  BY <1>1, ServiceAssumption DEF NewRow, InstanceRow, States, Doubtful, TypeOK, OpIds
<1>4. row \in InstanceRow
  BY <1>3, TakenType DEF Taken
<1>5. row.seq = inst[i].seq /\ row.floor = inst[i].floor /\ row.revision = inst[i].revision + 1
  BY <1>1, TakenRow DEF Taken, NewRow, NoRow
<1>6. new.kind = "prepare"
  BY DEF NewOp
<1> HIDE DEF new, row
<1> QED
  BY <1>1, <1>2, <1>4, <1>5, <1>6 DEF Announces

LEMMA ResolvedKeeps ==
  ASSUME NEW op, NEW status, NEW answer
  PROVE  LET r == Resolved(op, status, answer)
         IN /\ r.rev = op.rev /\ r.target = op.target /\ r.inst = op.inst /\ r.kind = op.kind
            /\ r.cancel = op.cancel /\ r.status = status
BY DEF Resolved

LEMMA SubmitAnnounces ==
  ASSUME ServiceInv, NEW i \in Instances, NEW key \in Keys, NEW gen, NEW rev,
         NEW kind \in Kinds, Submit(kind, i, key, gen, rev)
  PROVE  Announces(i) /\ \A q \in Recorded : ContentKept(q)
<1> DEFINE new == NewOp(kind, i, key, gen, rev, NoOp, "pending", NoAnswer)
           row == Taken(inst[i], kind, rows + 1)
           f == Superseded(inst[i])
<1>1. TypeOK /\ rows < MaxOps /\ rows' = rows + 1 /\ ops' = WithRow(f, new) /\ Emit(i, row, rows + 1, "intent")
      /\ rev = inst[i].revision
  BY DEF Submit, ServiceInv, Current
<1>2. ops'[rows + 1] = new /\ \A q \in Recorded : ops'[q] = f[q]
  BY <1>1, RowAdded
<1>3. \A q \in Recorded : f[q] = ops[q] \/ f[q] = Resolved(ops[q], "unknown", Stale(inst[i]))
  BY DEF Superseded
<1>4. inst[i] \in InstanceRow /\ inst[i].state \in States /\ inst[i].revision + 1 \in Nat /\ rows + 1 \in OpIds
  BY <1>1, ServiceAssumption DEF InstanceRow, TypeOK, OpIds
<1>5. row \in InstanceRow
  BY <1>4, TakenType DEF Taken
<1>6. row.seq = inst[i].seq /\ row.floor = inst[i].floor /\ row.revision = inst[i].revision + 1
  BY TakenRow DEF Taken
<1>7. new.rev = rev
  BY DEF NewOp
<1> HIDE DEF new, row, f
<1>8. \A q \in Recorded : ContentKept(q)
  BY <1>2, <1>3, ResolvedKeeps DEF ContentKept
<1> QED
  BY <1>1, <1>2, <1>5, <1>6, <1>7, <1>8 DEF Announces

LEMMA RestartAnnounces ==
  ASSUME ServiceInv, NEW i \in Instances, NEW original \in OpIds, NEW rev \in Revs, NEW attempt \in Attempts,
         RestartPreparation(i, original, rev, attempt)
  PROVE  Announces(i) /\ \A q \in Recorded : ContentKept(q)
<1> DEFINE key == <<i, original, rev, attempt>>
           new == NewOp("prepare", i, key, 0, 0, NoOp, "pending", NoAnswer)
           row == TakenFrom(inst[i], "failed", "prepare", rows + 1, inst[i].revision + 1)
           f == Sealed(original, inst[i])
<1>1. TypeOK /\ rows < MaxOps /\ rows' = rows + 1 /\ ops' = WithRow(f, new) /\ Emit(i, row, rows + 1, "intent")
      /\ original \in Recorded
  BY DEF RestartPreparation, ServiceInv
<1>2. ops'[rows + 1] = new /\ \A q \in Recorded : ops'[q] = f[q]
  BY <1>1, RowAdded
<1>3. \A q \in Recorded : f[q] = ops[q] \/ f[q] = Resolved(ops[q], "unknown", Stale(inst[i]))
  BY <1>1 DEF Sealed, TypeOK
<1>4. inst[i] \in InstanceRow /\ "failed" \in States /\ inst[i].revision + 1 \in Nat /\ rows + 1 \in OpIds
  BY <1>1, ServiceAssumption DEF InstanceRow, TypeOK, OpIds, States, Doubtful
<1>5. row \in InstanceRow
  BY <1>4, TakenType
<1>6. row.seq = inst[i].seq /\ row.floor = inst[i].floor /\ row.revision = inst[i].revision + 1
  BY TakenRow
<1>7. new.kind = "prepare"
  BY DEF NewOp
<1> HIDE DEF new, row, f
<1>8. \A q \in Recorded : ContentKept(q)
  BY <1>2, <1>3, ResolvedKeeps DEF ContentKept
<1> QED
  BY <1>1, <1>2, <1>5, <1>6, <1>7, <1>8 DEF Announces

(* A cancellation leaves its event, marks its target and counts as a request
   decided on the revision it found. *)
Asks(i, target) ==
  /\ target \in Recorded /\ ops'[rows + 1].target = target /\ ops'[target].cancel
  /\ ops'[rows + 1].rev = inst[i].revision
  /\ \E row \in InstanceRow :
       /\ row.seq = inst[i].seq /\ row.floor = inst[i].floor /\ row.revision = inst[i].revision + 1
       /\ Emit(i, row, rows + 1, "cancel-requested")

LEMMA CancelAsks ==
  ASSUME ServiceInv, NEW i \in Instances, NEW key \in Keys, NEW gen, NEW rev, NEW target \in OpIds,
         Cancel(i, key, gen, rev, target)
  PROVE  Asks(i, target) /\ \A q \in Recorded : ContentKept(q)
<1> DEFINE row == [inst[i] EXCEPT !.revision = @ + 1]
           answer == Answer("completed", Logged(row), row.state, FALSE, FALSE)
           new == NewOp("cancel", i, key, gen, rev, target, "completed", answer)
           f == [ops EXCEPT ![target].cancel = TRUE]
<1>1. TypeOK /\ rows < MaxOps /\ rows' = rows + 1 /\ ops' = WithRow(f, new) /\ Emit(i, row, rows + 1, "cancel-requested")
      /\ rev = inst[i].revision /\ target \in Recorded
  BY DEF Cancel, ServiceInv, Current, TypeOK
<1>2. ops'[rows + 1] = new /\ \A q \in Recorded : ops'[q] = f[q]
  BY <1>1, RowAdded
<1>3. /\ \A q \in Recorded : q # target => f[q] = ops[q]
      /\ f[target] = [ops[target] EXCEPT !.cancel = TRUE] /\ ops[target] \in OperationRow
  BY <1>1 DEF TypeOK
<1>4. /\ f[target].cancel = TRUE /\ f[target].rev = ops[target].rev /\ f[target].target = ops[target].target
      /\ f[target].inst = ops[target].inst /\ f[target].kind = ops[target].kind /\ f[target].status = ops[target].status
  BY <1>3 DEF OperationRow
<1>5. inst[i] \in InstanceRow
  BY <1>1 DEF TypeOK
<1>6. row \in InstanceRow /\ row.seq = inst[i].seq /\ row.floor = inst[i].floor /\ row.revision = inst[i].revision + 1
  BY <1>5 DEF InstanceRow
<1>7. new.rev = rev /\ new.target = target
  BY DEF NewOp
<1> HIDE DEF new, row, f, answer
<1>8. \A q \in Recorded : ContentKept(q)
  BY <1>2, <1>3, <1>4 DEF ContentKept
<1> QED
  BY <1>1, <1>2, <1>4, <1>6, <1>7, <1>8 DEF Asks

(* Every step records a request, claims or finishes an operation, prunes, or
   leaves the instances and their events alone. *)
Silent == UNCHANGED <<inst, ops, rows, events>>

LEMMA RecordedSteps ==
  ASSUME ServiceInv, NEW i \in Instances,
         \/ Request(i)
         \/ \E original \in OpIds, rev \in Revs, attempt \in Attempts :
              RestartPreparation(i, original, rev, attempt)
  PROVE  /\ Announces(i) \/ \E target \in OpIds : Asks(i, target)
         /\ \A q \in Recorded : ContentKept(q)
         /\ Recorded' = Recorded \cup {rows + 1} /\ rows + 1 \notin Recorded /\ rows + 1 \in OpIds
         /\ ops'[rows + 1].inst = i
         /\ UNCHANGED <<gate, work, executed>>
<1>1. RequestStep(i)
  BY RequestRecords
<1>2. PICK f, new : \E row \in InstanceRow, stage \in Stages :
        /\ RecordedFor(i, f, new, row, stage)
        /\ Takes(i, f, new, row) \/ Notes(i, f, new, row)
  BY <1>1 DEF RequestStep
<1>3. PICK row \in InstanceRow, stage \in Stages :
        /\ RecordedFor(i, f, new, row, stage)
        /\ Takes(i, f, new, row) \/ Notes(i, f, new, row)
  BY <1>2
<1>4. /\ Recorded' = Recorded \cup {rows + 1} /\ rows + 1 \notin Recorded /\ rows + 1 \in OpIds
      /\ ops'[rows + 1].inst = i /\ UNCHANGED <<gate, work, executed>>
  BY <1>3, RecordEffects DEF RecordedFor
<1>5. ASSUME NEW key \in Keys, Prepare(i, key)
      PROVE  Announces(i) /\ \A q \in Recorded : ContentKept(q)
  BY <1>5, PrepareAnnounces DEF ContentKept
<1> QED
  BY <1>4, <1>5, SubmitAnnounces, CancelAsks, RestartAnnounces DEF Request

LEMMA FinishLogs ==
  ASSUME ServiceInv, NEW w \in Workers, Finish(w)
  PROVE  LET i == ops[work[w].op].inst
         IN \E row \in InstanceRow, stage \in {"failed", "cancelled", "completed"} :
              /\ row.seq = inst[i].seq /\ row.floor = inst[i].floor
              /\ Emit(i, row, work[w].op, stage)
<1> DEFINE o == work[w].op
           i == ops[o].inst
           out == work[w].outcome
           gen == GenerationAfter(inst[i], ops[o].kind, out, work[w].gen)
           row == Released(inst[i], out.state, gen)
           stage == IF out.error THEN "failed" ELSE IF out.cancelled THEN "cancelled" ELSE "completed"
<1>1. /\ o \in Recorded /\ o \in OpIds /\ i \in Instances
  BY FinishEffects
<1>2. /\ inst[i] \in InstanceRow /\ out \in Outcome /\ work[w].gen \in Nat /\ ops[o] \in OperationRow
  BY <1>1 DEF ServiceInv, TypeOK, Local
<1>3. Emit(i, row, o, stage)
  BY DEF Finish
<1>4. gen \in Nat
  <2>1. inst[i].generation \in Nat
    BY <1>2 DEF InstanceRow
  <2> HIDE DEF i, out, o
  <2> QED
    BY <1>2, <2>1 DEF GenerationAfter
<1>5. row \in InstanceRow /\ row.seq = inst[i].seq /\ row.floor = inst[i].floor
  <2>1. out.state \in States
    BY <1>2 DEF Outcome
  <2> HIDE DEF gen, i, out, o
  <2> QED
    BY <1>2, <1>4, <2>1 DEF Released, InstanceRow
<1>6. stage \in {"failed", "cancelled", "completed"}
  OBVIOUS
<1> HIDE DEF row, stage, gen, out
<1> QED
  BY <1>3, <1>5, <1>6

LEMMA ServiceMoves ==
  ASSUME ServiceInv, [Next]_vars
  PROVE  \/ \E i \in Instances :
              /\ Announces(i) \/ \E target \in OpIds : Asks(i, target)
              /\ \A q \in Recorded : ContentKept(q)
              /\ Recorded' = Recorded \cup {rows + 1} /\ rows + 1 \notin Recorded /\ rows + 1 \in OpIds
              /\ ops'[rows + 1].inst = i
              /\ UNCHANGED <<gate, work, executed>>
         \/ \E w \in Workers, o \in OpIds : Claim(w, o)
         \/ \E w \in Workers : Finish(w)
         \/ \E i \in Instances, through \in Cursors : Prune(i, through)
         \/ Silent
<1>1. ASSUME NEW w \in Workers,
             \/ CheckCancel(w)
             \/ \E gen \in Gens, state \in States : Observe(w, gen, state)
             \/ ObserveFails(w)
             \/ \E out \in Outcomes : BackendReturns(w, out)
             \/ BackendRaises(w) \/ FinishFails(w) \/ Crash(w)
      PROVE  Silent
  BY <1>1 DEF CheckCancel, Observe, ObserveFails, BackendReturns, BackendRaises, FinishFails, Crash, Silent
<1>2. CASE UNCHANGED vars
  BY <1>2 DEF vars, Silent
<1> QED
  BY <1>1, <1>2, RecordedSteps DEF Next, Work

-----------------------------------------------------------------------------
(* The stream of events between floor and last number, read pointwise. *)
Filled(i) ==
  /\ inst[i].floor <= inst[i].seq
  /\ \A e \in events[i] : inst[i].floor < e.seq /\ e.seq <= inst[i].seq
  /\ \A k \in (inst[i].floor + 1)..inst[i].seq : \E e \in events[i] : e.seq = k
  /\ \A e, f \in events[i] : e.seq = f.seq => e = f

StreamsFilled == \A i \in Instances : Filled(i)

LEMMA EmitFills ==
  ASSUME TypeOK, StreamsFilled, NEW i \in Instances, NEW row \in InstanceRow, NEW o \in OpIds, NEW stage \in Stages,
         row.seq = inst[i].seq, row.floor = inst[i].floor, Emit(i, row, o, stage)
  PROVE  /\ StreamsFilled'
         /\ \A j \in Instances \ {i} : events'[j] = events[j] /\ inst'[j] = inst[j]
         /\ events'[i] = events[i] \cup {Event(row, o, stage)}
         /\ inst'[i].revision = row.revision /\ inst'[i].seq = inst[i].seq + 1
         /\ Event(row, o, stage).seq = inst[i].seq + 1
         /\ Event(row, o, stage).op = o /\ Event(row, o, stage).stage = stage
<1>1. /\ inst'[i] = [row EXCEPT !.seq = row.seq + 1] /\ \A j \in Instances : j # i => inst'[j] = inst[j]
  BY EmitType
<1>2. /\ events' = [events EXCEPT ![i] = @ \cup {Event(row, o, stage)}]
      /\ events'[i] = events[i] \cup {Event(row, o, stage)}
      /\ \A j \in Instances : j # i => events'[j] = events[j]
  BY DEF Emit, TypeOK
<1>3. inst'[i].seq = inst[i].seq + 1 /\ inst'[i].floor = inst[i].floor /\ inst'[i].revision = row.revision
  BY <1>1 DEF InstanceRow
<1>4. /\ Event(row, o, stage).seq = inst[i].seq + 1
      /\ Event(row, o, stage).op = o /\ Event(row, o, stage).stage = stage
  BY DEF Event
<1>5. inst[i].seq \in Nat /\ inst[i].floor \in Nat /\ \A e \in events[i] : e.seq \in Nat
  BY DEF TypeOK, InstanceRow, EventRow
<1>6. Filled(i)'
  <2>0. Filled(i)
    BY DEF StreamsFilled
  <2>1. inst'[i].floor <= inst'[i].seq /\ \A e \in events'[i] : inst'[i].floor < e.seq /\ e.seq <= inst'[i].seq
    BY <2>0, <1>2, <1>3, <1>4, <1>5 DEF Filled
  <2>2. ASSUME NEW k \in (inst'[i].floor + 1)..inst'[i].seq PROVE \E e \in events'[i] : e.seq = k
    <3>1. CASE k = inst[i].seq + 1
      BY <3>1, <1>2, <1>4
    <3>2. CASE k # inst[i].seq + 1
      <4>1. k \in (inst[i].floor + 1)..inst[i].seq
        BY <3>2, <1>3, <1>5
      <4> QED
        BY <4>1, <2>0, <1>2 DEF Filled
    <3> QED
      BY <3>1, <3>2
  <2>3. \A e, f \in events'[i] : e.seq = f.seq => e = f
    BY <2>0, <1>2, <1>4, <1>5 DEF Filled
  <2> QED
    BY <2>1, <2>2, <2>3 DEF Filled
<1>7. StreamsFilled'
  <2>1. ASSUME NEW j \in Instances, j # i PROVE Filled(j)'
    <3>1. Filled(j) /\ inst'[j] = inst[j] /\ events'[j] = events[j]
      BY <2>1, <1>1, <1>2 DEF StreamsFilled
    <3> QED
      BY <3>1 DEF Filled
  <2> QED
    BY <2>1, <1>6 DEF StreamsFilled
<1> QED
  BY <1>1, <1>2, <1>3, <1>4, <1>7

LEMMA PruneFills ==
  ASSUME TypeOK, StreamsFilled, NEW i \in Instances, NEW through \in Cursors, Prune(i, through)
  PROVE  /\ StreamsFilled'
         /\ \A j \in Instances : events'[j] \subseteq events[j] /\ inst'[j].revision = inst[j].revision /\ inst'[j].seq = inst[j].seq
<1>1. /\ inst' = [inst EXCEPT ![i].floor = through] /\ events' = [events EXCEPT ![i] = {e \in @ : e.seq > through}]
      /\ inst[i].floor <= through /\ through <= inst[i].seq /\ through \in Nat
  BY ServiceAssumption DEF Prune
<1>2. /\ inst'[i].floor = through /\ inst'[i].seq = inst[i].seq /\ inst'[i].revision = inst[i].revision
      /\ events'[i] = {e \in events[i] : e.seq > through}
      /\ \A j \in Instances : j # i => inst'[j] = inst[j] /\ events'[j] = events[j]
  BY <1>1 DEF TypeOK, InstanceRow
<1>3. inst[i].seq \in Nat /\ inst[i].floor \in Nat /\ \A e \in events[i] : e.seq \in Nat
  BY DEF TypeOK, InstanceRow, EventRow
<1>4. Filled(i)'
  <2>0. Filled(i)
    BY DEF StreamsFilled
  <2>1. ASSUME NEW k \in (through + 1)..inst[i].seq PROVE \E e \in events'[i] : e.seq = k
    <3>1. k \in (inst[i].floor + 1)..inst[i].seq /\ k > through
      BY <1>1, <1>3
    <3> QED
      BY <3>1, <2>0, <1>2 DEF Filled
  <2> QED
    BY <2>0, <2>1, <1>1, <1>2, <1>3 DEF Filled
<1>5. StreamsFilled'
  BY <1>2, <1>4 DEF StreamsFilled, Filled
<1> QED
  BY <1>2, <1>5

LEMMA StreamsStep == ServiceInv /\ StreamsFilled /\ [Next]_vars => StreamsFilled'
<1> SUFFICES ASSUME ServiceInv, StreamsFilled, [Next]_vars
             PROVE  StreamsFilled'
  OBVIOUS
<1>0. TypeOK
  BY DEF ServiceInv
<1>1. ASSUME NEW i \in Instances, Announces(i) \/ \E target \in OpIds : Asks(i, target), rows + 1 \in OpIds
      PROVE  StreamsFilled'
  <2>1. PICK row \in InstanceRow, stage \in {"intent", "cancel-requested"} :
          row.seq = inst[i].seq /\ row.floor = inst[i].floor /\ Emit(i, row, rows + 1, stage)
    BY <1>1 DEF Announces, Asks
  <2> QED
    BY <1>0, <1>1, <2>1, EmitFills DEF Stages
<1>2. ASSUME NEW w \in Workers, NEW o \in OpIds, Claim(w, o)
      PROVE  StreamsFilled'
  <2>1. ops[o].inst \in Instances /\ Emit(ops[o].inst, inst[ops[o].inst], o, "executing")
    BY <1>2, ClaimEffects DEF Claim
  <2> QED
    BY <1>0, <2>1, EmitFills DEF Stages, TypeOK
<1>3. ASSUME NEW w \in Workers, Finish(w)
      PROVE  StreamsFilled'
  <2>1. work[w].op \in OpIds /\ ops[work[w].op].inst \in Instances
    BY <1>3, FinishEffects
  <2> QED
    BY <1>0, <1>3, <2>1, FinishLogs, EmitFills DEF Stages
<1>4. CASE Silent
  BY <1>4 DEF Silent, StreamsFilled, Filled
<1> QED
  BY <1>0, <1>1, <1>2, <1>3, <1>4, ServiceMoves, PruneFills

(* No event between the floor and the last one is missing or there twice,
   whatever commits while the stream is pruned (_event, prune_events). *)
THEOREM StreamsHaveNoGap == Spec => []EventsContiguous
<1>1. Init => StreamsFilled
  BY DEF Init, StreamsFilled, Filled, NoRow
<1>2. ServiceInv /\ StreamsFilled => EventsContiguous
  <2> SUFFICES ASSUME ServiceInv, StreamsFilled, NEW i \in Instances
               PROVE  /\ {e.seq : e \in events[i]} = (inst[i].floor + 1)..inst[i].seq
                      /\ \A e, f \in events[i] : e.seq = f.seq => e = f
    BY DEF EventsContiguous
  <2>1. inst[i].seq \in Nat /\ inst[i].floor \in Nat /\ \A e \in events[i] : e.seq \in Nat
    BY DEF ServiceInv, TypeOK, InstanceRow, EventRow
  <2>2. Filled(i)
    BY DEF StreamsFilled
  <2> QED
    BY <2>1, <2>2 DEF Filled
<1> QED
  BY <1>1, <1>2, StreamsStep, ServiceAlways, PTL DEF Spec

-----------------------------------------------------------------------------
(* Requests that were overtaken.  Whatever was decided on a revision is older
   than the row is now; what an event says of an operation stays true. *)
RevisionsBelow ==
  \A o \in Recorded : ops[o].kind # "prepare" => ops[o].rev < inst[ops[o].inst].revision

Remembered ==
  \A i \in Instances : \A e \in events[i] :
    /\ e.op \in Recorded
    /\ e.stage = "cancel-requested" => ops[e.op].target \in Recorded /\ ops[ops[e.op].target].cancel
    /\ e.stage = "executing" => ops[e.op].status # "pending"

Pair(i, asked, begun) ==
  /\ asked.stage = "cancel-requested" /\ begun.stage = "executing"
  /\ ops[asked.op].target = begun.op /\ asked.seq < begun.seq

Spared(o) == executed[o] = 0 /\ \A w \in Workers : work[w].op = o => work[w].pc \in {"idle", "claimed", "finish"}

PairsSpared == \A i \in Instances : \A asked, begun \in events[i] : Pair(i, asked, begun) => Spared(begun.op)

OvertakenInv == StreamsFilled /\ RevisionsBelow /\ OneRequestPerRevision /\ Remembered /\ PairsSpared

(* The revisions of the rows, and the contents of the operations on record. *)
LEMMA RevisionsGrow ==
  ASSUME ServiceInv, StreamsFilled, [Next]_vars
  PROVE  \A i \in Instances : inst'[i].revision \in Nat /\ inst[i].revision <= inst'[i].revision
<1> SUFFICES ASSUME NEW i \in Instances
             PROVE  inst'[i].revision \in Nat /\ inst[i].revision <= inst'[i].revision
  OBVIOUS
<1>0. TypeOK /\ TypeOK'
  BY TypesNext DEF ServiceInv
<1>1. inst[i].revision \in Nat /\ inst'[i].revision \in Nat
  BY <1>0 DEF TypeOK, InstanceRow
<1>2. ASSUME NEW j \in Instances, Announces(j) \/ \E target \in OpIds : Asks(j, target), rows + 1 \in OpIds
      PROVE  inst[i].revision <= inst'[i].revision
  <2>1. PICK row \in InstanceRow, stage \in {"intent", "cancel-requested"} :
          /\ row.seq = inst[j].seq /\ row.floor = inst[j].floor /\ row.revision = inst[j].revision + 1
          /\ Emit(j, row, rows + 1, stage)
    BY <1>2 DEF Announces, Asks
  <2>2. inst'[j].revision = inst[j].revision + 1 /\ \A k \in Instances \ {j} : inst'[k] = inst[k]
    BY <1>0, <1>2, <2>1, EmitFills DEF Stages
  <2> QED
    BY <1>1, <2>2
<1>3. ASSUME NEW w \in Workers, Finish(w)
      PROVE  inst[i].revision <= inst'[i].revision
  <2> DEFINE j == ops[work[w].op].inst
  <2>1. /\ j \in Instances /\ inst'[j].revision = inst[j].revision + 1
        /\ \A k \in Instances : k # j => inst'[k] = inst[k]
    BY <1>3, FinishEffects
  <2> HIDE DEF j
  <2> QED
    BY <1>1, <2>1
<1>4. ASSUME NEW w \in Workers, NEW o \in OpIds, Claim(w, o)
      PROVE  inst[i].revision <= inst'[i].revision
  BY <1>1, <1>4, ClaimEffects
<1>5. CASE Silent
  BY <1>1, <1>5 DEF Silent
<1> QED
  BY <1>0, <1>1, <1>2, <1>3, <1>4, <1>5, ServiceMoves, PruneFills

LEMMA ContentsStay ==
  ASSUME ServiceInv, [Next]_vars
  PROVE  /\ \A q \in Recorded : q \in Recorded' /\ ContentKept(q)
         /\ \A q \in Recorded' \ Recorded : q = rows + 1
<1>0. TypeOK /\ \A q \in Recorded : ops[q] \in OperationRow
  BY DEF ServiceInv, TypeOK
<1>1. ASSUME NEW w \in Workers, NEW o \in OpIds, Claim(w, o)
      PROVE  Recorded' = Recorded /\ \A q \in Recorded : ContentKept(q)
  <2>1. /\ o \in Recorded /\ rows' = rows /\ ops[o] \in OperationRow /\ ops'[o] = [ops[o] EXCEPT !.status = "executing"]
        /\ \A q \in Recorded : q # o => ops'[q] = ops[q]
    BY <1>0, <1>1, ClaimEffects DEF Claim, TypeOK
  <2>2. ContentKept(o)
    BY <2>1 DEF ContentKept, OperationRow
  <2> QED
    BY <2>1, <2>2 DEF ContentKept, Recorded
<1>2. ASSUME NEW w \in Workers, Finish(w)
      PROVE  Recorded' = Recorded /\ \A q \in Recorded : ContentKept(q)
  <2> DEFINE o == work[w].op
  <2>1. /\ o \in Recorded /\ rows' = rows /\ ops'[o].status \in {"failed", "completed"}
        /\ \A q \in Recorded : q # o => ops'[q] = ops[q]
    BY <1>2, FinishEffects
  <2>2. \E result, answer : ops'[o] = Resolved(ops[o], result, answer)
    BY <1>0, <1>2, <2>1 DEF Finish, TypeOK
  <2> HIDE DEF o
  <2>3. ContentKept(o)
    BY <2>1, <2>2, ResolvedKeeps DEF ContentKept
  <2> QED
    BY <2>1, <2>3 DEF ContentKept, Recorded
<1>3. ASSUME \/ Silent \/ \E i \in Instances, through \in Cursors : Prune(i, through)
      PROVE  Recorded' = Recorded /\ \A q \in Recorded : ContentKept(q)
  BY <1>3 DEF Silent, Prune, ContentKept, Recorded
<1> QED
  BY <1>1, <1>2, <1>3, ServiceMoves

LEMMA RevisionsStep ==
  ASSUME ServiceInv, StreamsFilled, RevisionsBelow, OneRequestPerRevision, [Next]_vars
  PROVE  RevisionsBelow' /\ OneRequestPerRevision'
<1>0. /\ TypeOK /\ TypeOK' /\ \A q \in Recorded : ops[q] \in OperationRow /\ ops[q].inst \in Instances /\ ops[q].rev \in Nat
      /\ \A i \in Instances : inst[i].revision \in Nat
  BY TypesNext DEF ServiceInv, TypeOK, OperationRow, InstanceRow
<1>1. /\ \A q \in Recorded : q \in Recorded' /\ ContentKept(q)
      /\ \A q \in Recorded' \ Recorded : q = rows + 1
      /\ \A i \in Instances : inst'[i].revision \in Nat /\ inst[i].revision <= inst'[i].revision
  BY ContentsStay, RevisionsGrow
<1>2. \A q \in Recorded : ops'[q].kind # "prepare" =>
        /\ ops'[q].rev < inst[ops'[q].inst].revision
        /\ ops'[q].rev = ops[q].rev /\ ops'[q].inst = ops[q].inst /\ ops[q].kind # "prepare"
  BY <1>1 DEF ContentKept, RevisionsBelow
<1>3. \A q \in Recorded' \ Recorded : ops'[q].kind # "prepare" =>
        /\ ops'[q].inst \in Instances /\ ops'[q].rev = inst[ops'[q].inst].revision
        /\ inst'[ops'[q].inst].revision = inst[ops'[q].inst].revision + 1
  <2> SUFFICES ASSUME NEW q \in Recorded' \ Recorded, ops'[q].kind # "prepare"
               PROVE  /\ ops'[q].inst \in Instances /\ ops'[q].rev = inst[ops'[q].inst].revision
                      /\ inst'[ops'[q].inst].revision = inst[ops'[q].inst].revision + 1
    OBVIOUS
  <2>1. q = rows + 1
    BY <1>1
  <2>2. Recorded' # Recorded
    OBVIOUS
  <2>3. \A w \in Workers, o \in OpIds : Claim(w, o) => Recorded' = Recorded
    BY ClaimEffects DEF Recorded
  <2>4. \A w \in Workers : Finish(w) => Recorded' = Recorded
    BY FinishEffects DEF Recorded
  <2>5. ~Silent /\ \A i \in Instances, through \in Cursors : ~Prune(i, through)
    BY <2>2 DEF Silent, Prune, Recorded
  <2>6. PICK i \in Instances :
          /\ Announces(i) \/ \E target \in OpIds : Asks(i, target)
          /\ ops'[rows + 1].inst = i /\ rows + 1 \in OpIds
    BY <2>2, <2>3, <2>4, <2>5, ServiceMoves
  <2>7. PICK row \in InstanceRow, stage \in {"intent", "cancel-requested"} :
          /\ row.seq = inst[i].seq /\ row.floor = inst[i].floor /\ row.revision = inst[i].revision + 1
          /\ Emit(i, row, rows + 1, stage)
    BY <2>6 DEF Announces, Asks
  <2>8. inst'[i].revision = inst[i].revision + 1
    BY <1>0, <2>6, <2>7, EmitFills DEF Stages
  <2>9. ops'[rows + 1].rev = inst[i].revision
    BY <2>1, <2>6 DEF Announces, Asks
  <2> QED
    BY <2>1, <2>6, <2>8, <2>9
<1>4. RevisionsBelow'
  <2> SUFFICES ASSUME NEW q \in Recorded', ops'[q].kind # "prepare"
               PROVE  ops'[q].rev < inst'[ops'[q].inst].revision
    BY DEF RevisionsBelow
  <2> QED
    BY <1>0, <1>1, <1>2, <1>3
<1>5. OneRequestPerRevision'
  <2> SUFFICES ASSUME NEW o \in Recorded', NEW q \in Recorded',
                      ops'[o].inst = ops'[q].inst, ops'[o].rev = ops'[q].rev,
                      ops'[o].kind # "prepare", ops'[q].kind # "prepare"
               PROVE  o = q
    BY DEF OneRequestPerRevision
  <2>1. CASE o \in Recorded /\ q \in Recorded
    BY <2>1, <1>2 DEF OneRequestPerRevision
  <2>2. CASE o \in Recorded /\ q \notin Recorded
    BY <2>2, <1>0, <1>2, <1>3
  <2>3. CASE o \notin Recorded /\ q \in Recorded
    BY <2>3, <1>0, <1>2, <1>3
  <2>4. CASE o \notin Recorded /\ q \notin Recorded
    BY <2>4, <1>1
  <2> QED
    BY <2>1, <2>2, <2>3, <2>4
<1> QED
  BY <1>4, <1>5

(* What the one event that a step may append to a stream is about. *)
Plain(e) == e.stage \notin {"cancel-requested", "executing"} /\ e.op \in Recorded'

Asking(e) == /\ e.stage = "cancel-requested" /\ e.op \in Recorded'
             /\ ops'[e.op].target \in Recorded /\ ops'[ops'[e.op].target].cancel

Beginning(e) == e.stage = "executing" /\ \E w \in Workers : Claim(w, e.op)

LEMMA NewEvents ==
  ASSUME ServiceInv, StreamsFilled, [Next]_vars, NEW i \in Instances, NEW e \in events'[i], e \notin events[i]
  PROVE  e.seq = inst[i].seq + 1 /\ (Plain(e) \/ Asking(e) \/ Beginning(e))
<1>0. TypeOK
  BY DEF ServiceInv
<1>1. ASSUME NEW j \in Instances,
             Announces(j) \/ \E target \in OpIds : Asks(j, target),
             Recorded' = Recorded \cup {rows + 1}, rows + 1 \in OpIds
      PROVE  e.seq = inst[i].seq + 1 /\ (Plain(e) \/ Asking(e))
  <2>1. CASE Announces(j)
    <3>1. PICK row \in InstanceRow : row.seq = inst[j].seq /\ row.floor = inst[j].floor /\ Emit(j, row, rows + 1, "intent")
      BY <2>1 DEF Announces
    <3> QED
      BY <1>0, <1>1, <3>1, EmitFills DEF Stages, Plain
  <2>2. ASSUME NEW target \in OpIds, Asks(j, target)
        PROVE  e.seq = inst[i].seq + 1 /\ Asking(e)
    <3>1. PICK row \in InstanceRow :
            row.seq = inst[j].seq /\ row.floor = inst[j].floor /\ Emit(j, row, rows + 1, "cancel-requested")
      BY <2>2 DEF Asks
    <3>2. i = j /\ e.seq = inst[i].seq + 1 /\ e.stage = "cancel-requested" /\ e.op = rows + 1
      BY <1>0, <1>1, <3>1, EmitFills DEF Stages
    <3> QED
      BY <1>1, <2>2, <3>2 DEF Asks, Asking
  <2> QED
    BY <1>1, <2>1, <2>2
<1>2. ASSUME NEW w \in Workers, NEW o \in OpIds, Claim(w, o)
      PROVE  e.seq = inst[i].seq + 1 /\ Beginning(e)
  <2>1. ops[o].inst \in Instances /\ Emit(ops[o].inst, inst[ops[o].inst], o, "executing") /\ inst[ops[o].inst] \in InstanceRow
    BY <1>0, <1>2, ClaimEffects DEF Claim, TypeOK
  <2>2. i = ops[o].inst /\ e.seq = inst[i].seq + 1 /\ e.stage = "executing" /\ e.op = o
    BY <1>0, <2>1, EmitFills DEF Stages
  <2> QED
    BY <1>2, <2>2 DEF Beginning
<1>3. ASSUME NEW w \in Workers, Finish(w)
      PROVE  e.seq = inst[i].seq + 1 /\ Plain(e)
  <2>1. /\ work[w].op \in Recorded /\ work[w].op \in OpIds /\ ops[work[w].op].inst \in Instances /\ Recorded' = Recorded
    BY <1>3, FinishEffects DEF Recorded
  <2>2. PICK row \in InstanceRow, stage \in {"failed", "cancelled", "completed"} :
          /\ row.seq = inst[ops[work[w].op].inst].seq /\ row.floor = inst[ops[work[w].op].inst].floor
          /\ Emit(ops[work[w].op].inst, row, work[w].op, stage)
    BY <1>3, FinishLogs
  <2>3. e.seq = inst[i].seq + 1 /\ e.stage = stage /\ e.op = work[w].op
    BY <1>0, <2>1, <2>2, EmitFills DEF Stages
  <2> QED
    BY <2>1, <2>2, <2>3 DEF Plain
<1>4. CASE Silent
  BY <1>4 DEF Silent
<1>5. ASSUME NEW j \in Instances, NEW through \in Cursors, Prune(j, through)
      PROVE  FALSE
  BY <1>0, <1>5, PruneFills
<1> QED
  BY <1>1, <1>2, <1>3, <1>4, <1>5, ServiceMoves

LEMMA RememberedStep ==
  ASSUME ServiceInv, StreamsFilled, Remembered, [Next]_vars
  PROVE  Remembered'
<1> SUFFICES ASSUME NEW i \in Instances, NEW e \in events'[i]
             PROVE  /\ e.op \in Recorded'
                    /\ e.stage = "cancel-requested" => ops'[e.op].target \in Recorded' /\ ops'[ops'[e.op].target].cancel
                    /\ e.stage = "executing" => ops'[e.op].status # "pending"
  BY DEF Remembered
<1>1. \A q \in Recorded : q \in Recorded' /\ ContentKept(q)
  BY ContentsStay
<1>2. CASE e \in events[i]
  BY <1>1, <1>2 DEF Remembered, ContentKept
<1>3. CASE e \notin events[i]
  <2>1. CASE Plain(e)
    BY <2>1 DEF Plain
  <2>2. CASE Asking(e)
    BY <1>1, <2>2 DEF Asking
  <2>3. CASE Beginning(e)
    <3>1. PICK w \in Workers : Claim(w, e.op)
      BY <2>3 DEF Beginning
    <3>2. e.op \in OpIds
      BY <3>1, ServiceAssumption DEF Claim, Claimable, ServiceInv, TypeOK, Recorded, OpIds
    <3> QED
      BY <1>1, <2>3, <3>1, <3>2, ClaimEffects DEF Beginning
  <2> QED
    BY <1>3, <2>1, <2>2, <2>3, NewEvents
<1> QED
  BY <1>2, <1>3

(* A step of a worker leaves an operation alone that was cancelled in time. *)
LEMMA SparedStays ==
  ASSUME ServiceInv, [Next]_vars, NEW o \in Recorded, ops[o].cancel, ops[o].status # "pending", Spared(o)
  PROVE  Spared(o)'
<1>0. TypeOK /\ GateProtectsExecution /\ o \in OpIds /\ \A w \in Workers : work[w] \in Local
  BY ServiceAssumption DEF ServiceInv, TypeOK, Recorded, OpIds
<1>1. CASE UNCHANGED <<work, executed>>
  BY <1>1 DEF Spared
<1>2. ASSUME NEW w \in Workers, NEW q \in OpIds, Claim(w, q)
      PROVE  Spared(o)'
  <2>0. ops[q].status = "pending"
    BY <1>2 DEF Claim, Claimable
  <2>1. q # o /\ executed' = executed /\ \A v \in Workers : v # w => work'[v] = work[v]
    BY <1>0, <1>2, <2>0 DEF Claim, TypeOK
  <2>2. work'[w].op = q
    BY <1>0, <1>2 DEF Claim, At, TypeOK
  <2> QED
    BY <2>1, <2>2 DEF Spared
<1>3. ASSUME NEW w \in Workers, work[w].pc # "idle",
             CheckCancel(w) \/ (\E gen \in Gens, state \in States : Observe(w, gen, state))
      PROVE  Spared(o)'
  <2>1. \A v \in Workers : v # w => work'[v] = work[v]
    BY <1>0, <1>3 DEF CheckCancel, Observe, Call, Decide, TypeOK
  <2>2. CASE work[w].op = o
    <3>1. work[w].pc = "claimed"
      BY <1>3, <2>2 DEF Spared, CheckCancel, Observe
    <3>2. Cancelled(o) /\ CheckCancel(w)
      BY <1>3, <3>1 DEF Cancelled, Observe
    <3>3. work'[w].pc = "finish" /\ executed' = executed
      BY <1>0, <2>2, <3>2 DEF CheckCancel, Decide, At, TypeOK
    <3> QED
      BY <2>1, <3>3 DEF Spared
  <2>3. CASE work[w].op # o
    <3>1. work'[w].op = work[w].op /\ executed'[o] = executed[o]
      BY <1>0, <1>3, <2>3 DEF CheckCancel, Observe, Call, Decide, At, TypeOK, Local
    <3> QED
      BY <2>1, <2>3, <3>1 DEF Spared
  <2> QED
    BY <2>2, <2>3
<1>4. ASSUME NEW w \in Workers, work[w].pc # "idle",
             ObserveFails(w) \/ (\E out \in Outcomes : BackendReturns(w, out)) \/ BackendRaises(w)
      PROVE  Spared(o)'
  <2>1. /\ executed' = executed /\ \A v \in Workers : v # w => work'[v] = work[v]
        /\ work'[w].op = work[w].op /\ work'[w].pc = "finish"
    BY <1>0, <1>4 DEF ObserveFails, BackendReturns, BackendRaises, Decide, At, TypeOK
  <2> QED
    BY <2>1 DEF Spared
<1>5. ASSUME NEW w \in Workers, Leave(w), executed' = executed
      PROVE  Spared(o)'
  <2>1. work'[w].pc = "idle" /\ \A v \in Workers : v # w => work'[v] = work[v]
    BY <1>0, <1>5 DEF Leave, Idle, At, TypeOK
  <2> QED
    BY <1>5, <2>1 DEF Spared
<1>6. CASE UNCHANGED vars
  BY <1>1, <1>6 DEF vars
<1>7. ASSUME NEW i \in Instances,
             \/ Request(i)
             \/ \E original \in OpIds, rev \in Revs, attempt \in Attempts :
                  RestartPreparation(i, original, rev, attempt)
             \/ \E through \in Cursors : Prune(i, through)
      PROVE  UNCHANGED <<work, executed>>
  BY <1>7, RecordedSteps DEF Prune
<1>8. ASSUME NEW w \in Workers, Work(w)
      PROVE  Spared(o)'
  <2>1. \/ \E q \in OpIds : Claim(w, q)
        \/ /\ work[w].pc # "idle"
           /\ CheckCancel(w) \/ (\E gen \in Gens, state \in States : Observe(w, gen, state))
        \/ /\ work[w].pc # "idle"
           /\ ObserveFails(w) \/ (\E out \in Outcomes : BackendReturns(w, out)) \/ BackendRaises(w)
        \/ Leave(w) /\ executed' = executed
    BY <1>8 DEF Work, CheckCancel, Observe, ObserveFails, BackendReturns, BackendRaises, Finish, FinishFails, Crash
  <2> QED
    BY <1>2, <1>3, <1>4, <1>5, <2>1
<1> QED
  BY <1>1, <1>6, <1>7, <1>8 DEF Next

LEMMA PairsStep ==
  ASSUME ServiceInv, StreamsFilled, Remembered, PairsSpared, [Next]_vars
  PROVE  PairsSpared'
<1> SUFFICES ASSUME NEW i \in Instances, NEW asked \in events'[i], NEW begun \in events'[i], Pair(i, asked, begun)'
             PROVE  Spared(begun.op)'
  BY DEF PairsSpared
<1>0. /\ asked.stage = "cancel-requested" /\ begun.stage = "executing"
      /\ ops'[asked.op].target = begun.op /\ asked.seq < begun.seq
      /\ \A q \in Recorded : ContentKept(q)
      /\ \A e \in events[i] : e.seq \in Nat /\ e.seq <= inst[i].seq
      /\ inst[i].seq \in Nat
  <2>1. inst[i].seq \in Nat /\ \A e \in events[i] : e.seq \in Nat
    BY DEF ServiceInv, TypeOK, InstanceRow, EventRow
  <2> QED
    BY <2>1, ContentsStay DEF Pair, StreamsFilled, Filled
<1>1. CASE begun \in events[i]
  <2>1. asked \in events[i]
    <3>1. asked \notin events[i] => asked.seq = inst[i].seq + 1
      BY NewEvents
    <3> QED
      BY <1>0, <1>1, <3>1
  <2>2. /\ asked.op \in Recorded /\ begun.op \in Recorded /\ ops[asked.op].target = begun.op
        /\ ops[begun.op].cancel /\ ops[begun.op].status # "pending"
    BY <1>0, <1>1, <2>1 DEF Remembered, ContentKept
  <2>3. Spared(begun.op)
    BY <1>0, <1>1, <2>1, <2>2 DEF PairsSpared, Pair
  <2> QED
    BY <2>2, <2>3, SparedStays
<1>2. CASE begun \notin events[i]
  <2>1. Beginning(begun)
    BY <1>0, <1>2, NewEvents DEF Plain, Asking
  <2>2. PICK w \in Workers : Claim(w, begun.op)
    BY <2>1 DEF Beginning
  <2>3. begun.op \in Recorded /\ ops[begun.op].status = "pending" /\ executed' = executed
        /\ work' = [work EXCEPT ![w] = At("claimed", begun.op, inst[ops[begun.op].inst].generation,
                                          inst[ops[begun.op].inst].previous, Failure("unknown"))]
        /\ gate = NoWorker
    BY <2>2 DEF Claim, Claimable
  <2>4. /\ executed[begun.op] = 0 /\ \A v \in Workers : work[v].pc = "idle"
        /\ work'[w].pc = "claimed" /\ \A v \in Workers : v # w => work'[v] = work[v]
    BY <2>3, ServiceAssumption DEF ServiceInv, CalledOnce, GateProtectsExecution, TypeOK, At
  <2> QED
    BY <2>3, <2>4 DEF Spared
<1> QED
  BY <1>1, <1>2

LEMMA OvertakenStep == ServiceInv /\ OvertakenInv /\ [Next]_vars => OvertakenInv'
  BY StreamsStep, RevisionsStep, RememberedStep, PairsStep DEF OvertakenInv

(* Of the requests decided on one revision one is accepted, and the backend
   is not called for an operation whose cancellation was on record before the
   operation was claimed (_submit, execute). *)
THEOREM OvertakenNeverAct == Spec => []OvertakenDoNothing
<1>1. Init => OvertakenInv
  BY DEF Init, OvertakenInv, StreamsFilled, Filled, NoRow, RevisionsBelow, OneRequestPerRevision, Remembered,
     PairsSpared, Recorded
<1>2. OvertakenInv => OvertakenDoNothing
  BY DEF OvertakenInv, PairsSpared, Pair, Spared, OvertakenDoNothing, CancelBeforeClaimPreventsExecution
<1> QED
  BY <1>1, <1>2, OvertakenStep, ServiceAlways, PTL DEF Spec
-----------------------------------------------------------------------------
(***************************************************************************)
(* The service within a larger system, whose backend may observe any       *)
(* generation and return any outcome, and whose callers expect whatever is *)
(* current.                                                                *)
(***************************************************************************)
LEMMA AnyRequest ==
  ASSUME ServiceInv, NEW i \in Instances, NEW key \in Keys, NEW gen, NEW rev,
         \/ Prepare(i, key)
         \/ \E kind \in Kinds : Submit(kind, i, key, gen, rev)
         \/ \E target \in OpIds : Cancel(i, key, gen, rev, target)
  PROVE  RequestStep(i) /\ ServiceInv'
<1>1. TypeOK'
  BY PrepareTypes, SubmitTypes, CancelTypes DEF ServiceInv
<1>2. RequestStep(i)
  BY PrepareRecords, SubmitRecords, CancelRecords
<1> QED
  BY <1>1, <1>2, RecordKeeps DEF RequestStep

(* A step of a worker from one place to another keeps the tables typed. *)
LEMMA WorkerTypes ==
  ASSUME TypeOK, NEW w \in Workers, work[w].pc # "idle", NEW local \in Local,
         work' = [work EXCEPT ![w] = local], local.op = work[w].op,
         UNCHANGED <<inst, ops, rows, events, gate>>, executed' \in [OpIds -> Nat]
  PROVE  TypeOK'
<1>1. Recorded' = Recorded
  BY DEF Recorded
<1>2. work' \in [Workers -> Local] /\ \A v \in Workers : v # w => work'[v] = work[v]
  BY DEF TypeOK
<1>3. work'[w] = local
  BY DEF TypeOK
<1> QED
  BY <1>1, <1>2, <1>3 DEF TypeOK

LEMMA AnyReturn ==
  ASSUME ServiceInv, NEW w \in Workers, NEW out \in Outcome, BackendReturns(w, out)
  PROVE  ServiceInv'
<1>1. PICK judged : judged = Judged(work[w].op, out)
  OBVIOUS
<1>2. judged \in Outcome /\ judged.state \notin Transients
  BY <1>1, JudgedIsSettled
<1>3. /\ work[w].pc # "idle" /\ Decide(w, judged)
      /\ UNCHANGED <<inst, ops, rows, events, gate, executed>>
  BY <1>1 DEF BackendReturns
<1> DEFINE local == At("finish", work[w].op, work[w].gen, work[w].previous, judged)
<1>4. local \in Local /\ local.op = work[w].op
  BY <1>2 DEF ServiceInv, TypeOK, Local, At
<1>5. work' = [work EXCEPT ![w] = local]
  BY <1>3 DEF Decide
<1>6. TypeOK /\ executed' \in [OpIds -> Nat]
  BY <1>3 DEF ServiceInv, TypeOK
<1> HIDE DEF local
<1>7. TypeOK'
  BY <1>3, <1>4, <1>5, <1>6, WorkerTypes
<1> QED
  BY <1>2, <1>3, <1>7, DecideKeeps

LEMMA AnyObservation ==
  ASSUME ServiceInv, NEW w \in Workers, NEW gen, NEW state, Observe(w, gen, state)
  PROVE  ServiceInv'
<1>1. /\ work[w].pc = "observing" /\ Call(w, gen)
      /\ gen \in {work[w].gen, work[w].gen + 1}
      /\ UNCHANGED <<inst, ops, rows, events, gate>>
  BY DEF Observe
<1>2. gen \in Nat /\ work[w].op \in OpIds
  <2>1. work[w].gen \in Nat /\ work[w].op \in Recorded /\ rows \in 0..MaxOps /\ MaxOps \in Nat
    BY <1>1, ServiceAssumption DEF ServiceInv, TypeOK, Local
  <2> QED
    BY <1>1, <2>1 DEF Recorded, OpIds
<1> DEFINE local == At("running", work[w].op, gen, work[w].previous, work[w].outcome)
<1>3. local \in Local /\ local.op = work[w].op
  BY <1>2 DEF ServiceInv, TypeOK, Local, At
<1>4. work' = [work EXCEPT ![w] = local] /\ executed' = [executed EXCEPT ![work[w].op] = @ + 1]
  BY <1>1 DEF Call
<1>5. TypeOK /\ executed' \in [OpIds -> Nat]
  BY <1>2, <1>4 DEF ServiceInv, TypeOK
<1> HIDE DEF local
<1>6. TypeOK'
  BY <1>1, <1>3, <1>4, <1>5, WorkerTypes
<1> QED
  BY <1>1, <1>2, <1>6, CallKeeps

(* What an operation was recorded with stays, and none that was resolved is
   unresolved again. *)
LEMMA RequestsStay ==
  ASSUME ServiceInv, ServiceMove, NEW q \in Recorded
  PROVE  /\ q \in Recorded'
         /\ ops'[q].kind = ops[q].kind /\ ops'[q].key = ops[q].key /\ ops'[q].inst = ops[q].inst
         /\ ops'[q].gen = ops[q].gen /\ ops'[q].rev = ops[q].rev
         /\ ops'[q].status \in {"pending", "executing"} => Unresolved(q)
<1>0. ops \in [Recorded -> OperationRow] /\ ops[q] \in OperationRow
  BY DEF ServiceInv, TypeOK
<1>1. CASE \E i \in Instances : RequestStep(i)
  <2>0. PICK i \in Instances : RequestStep(i)
    BY <1>1
  <2>1. PICK f, new : \E row \in InstanceRow, stage \in Stages :
          /\ RecordedFor(i, f, new, row, stage)
          /\ Takes(i, f, new, row) \/ Notes(i, f, new, row)
    BY <2>0 DEF RequestStep
  <2>2. /\ Recorded' = Recorded \cup {rows + 1} /\ ops'[q] = f[q]
    BY <2>1, RecordEffects
  <2> QED
    BY <2>1, <2>2 DEF RecordedFor, Unresolved
<1>2. CASE \E w \in Workers, o \in OpIds : Claim(w, o)
  <2>1. PICK w \in Workers, o \in OpIds : Claim(w, o)
    BY <1>2
  <2>2. /\ ops' = [ops EXCEPT ![o].status = "executing"] /\ rows' = rows /\ o \in Recorded
        /\ ops[o].status = "pending"
    BY <2>1 DEF Claim, Claimable
  <2> QED
    BY <1>0, <2>2 DEF Recorded, OperationRow, Unresolved
<1>3. CASE \E w \in Workers : Finish(w)
  <2>1. PICK w \in Workers : Finish(w)
    BY <1>3
  <2>2. PICK o, status, reply : /\ o = work[w].op
                                /\ ops' = [ops EXCEPT ![o] = Resolved(@, status, reply)] /\ rows' = rows
                                /\ status \in {"failed", "completed"}
    BY <2>1 DEF Finish
  <2>3. q = o => ops'[q] = Resolved(ops[q], status, reply)
    BY <1>0, <2>2
  <2>4. q # o => ops'[q] = ops[q]
    BY <1>0, <2>2
  <2> QED
    BY <2>2, <2>3, <2>4 DEF Recorded, Resolved, Unresolved
<1>4. CASE Unmoved
  BY <1>4 DEF Unmoved, Recorded, Unresolved
<1> QED
  BY <1>1, <1>2, <1>3, <1>4 DEF ServiceMove
=============================================================================
