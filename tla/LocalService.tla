---------------------------- MODULE LocalService ----------------------------
(***************************************************************************)
(* The contract service of tools/ctflab_local_service.py: one SQLite       *)
(* database of instances, operations and events, and a second one whose    *)
(* write lock is the worker gate.  Every committed transaction is one      *)
(* action.  Requests arrive with any expected generation and revision, so  *)
(* a stale, delayed or duplicated request is one of the inputs.  A request *)
(* the code refuses writes nothing and is a stuttering step.               *)
(*                                                                         *)
(* The backend is arbitrary: it may raise, observe anything and return any *)
(* outcome; the service must stay correct whatever it does.  Workers may   *)
(* die anywhere, which releases the gate and nothing else.                 *)
(***************************************************************************)
EXTENDS Integers, FiniteSets

CONSTANTS Instances,  \* instance identifiers
          Keys,       \* pairs of principal and idempotency key, as sent by clients
          Attempts,   \* attempt identifiers of restart_preparation
          Workers,    \* processes that call execute
          NoWorker,   \* the gate is free
          Kinds,      \* operations that clients ask for, besides prepare and cancel
          Outcomes,   \* what the backend may return from execute
          Cursors,    \* event cursors that prune_events is called with
          MaxOps      \* bound on the operations ever recorded

(* The state names of the contract. *)
Transients == {"preparing", "starting", "stopping", "resetting", "recovering"}
Running    == {"process-running", "guest-ready", "service-ready", "course-verified"}
Doubtful   == {"failed", "unknown", "recovery-required"}
States     == Transients \cup Running \cup Doubtful \cup {"prepared", "stopped"}

AllKinds == {"prepare", "start", "stop", "reset", "recover", "guest", "cancel"}

(* A backend value: a state, whether it says it stopped early because of a
   cancellation, and whether it carries an error code. *)
Outcome == [state : States, cancelled : BOOLEAN, error : BOOLEAN]

ASSUME ServiceAssumption ==
  /\ NoWorker \notin Workers
  /\ Kinds \subseteq {"start", "stop", "reset", "recover", "guest"}
  /\ Outcomes \subseteq Outcome
  /\ Cursors \subseteq Nat
  /\ MaxOps \in Nat

TransientOf(kind) ==
  CASE kind = "prepare" -> "preparing"
    [] kind = "start"   -> "starting"
    [] kind = "stop"    -> "stopping"
    [] kind = "reset"   -> "resetting"
    [] OTHER            -> "recovering"

(* States in which an operation may be accepted, and in which the backend
   must find the instance before it is executed. *)
Allowed(kind) ==
  CASE kind \in {"start", "reset"} -> {"prepared", "stopped"}
    [] kind = "stop"    -> Running \cup {"prepared", "stopped", "recovery-required"}
    [] kind = "guest"   -> {"process-running"}
    [] kind = "recover" -> States
    [] OTHER            -> {}

(* States a successful operation may end in. *)
Success(kind) ==
  CASE kind \in {"prepare", "reset"} -> {"prepared"}
    [] kind = "start"   -> Running
    [] kind = "stop"    -> {"stopped"}
    [] kind = "guest"   -> {"process-running"}
    [] kind = "recover" -> Running \cup {"prepared", "stopped"}
    [] OTHER            -> {}

CancelledStates == Running \cup {"prepared", "stopped", "failed", "recovery-required"}

-----------------------------------------------------------------------------
(* Operation identifiers are the rowids of the operations table: rows are
   only ever appended.  0 stands for SQL NULL. *)
OpIds == 1..MaxOps
NoOp == 0

RestartKeys == Instances \X OpIds \X Nat \X Attempts
RequestKeys == Keys \cup RestartKeys

Results == {"completed", "failed", "unknown"}
Answers == [result : Results, state : States, gen : Nat, rev : Nat, cursor : Nat,
            cancelled : BOOLEAN, error : BOOLEAN]
NoAnswer == [result |-> "none", state |-> "unknown", gen |-> 0, rev |-> 0, cursor |-> 0,
             cancelled |-> FALSE, error |-> FALSE]

VARIABLES inst,      \* instances table; generation 0 when there is no row
          ops,       \* operations table, by rowid
          rows,      \* number of operations recorded
          events,    \* events table, a set of rows for each instance
          gate,      \* the worker whose transaction holds the worker database
          work,      \* local state of each worker's call of execute
          executed   \* history: how often backend.execute was called for an operation

vars == <<inst, ops, rows, events, gate, work, executed>>

Statuses == {"pending", "executing"} \cup Results

InstanceRow == [generation : Nat, revision : Nat, state : States, active : OpIds \cup {NoOp},
                previous : States, seq : Nat, floor : Nat]
OperationRow == [status : Statuses, kind : AllKinds, inst : Instances, key : RequestKeys,
                 gen : Nat, rev : Nat, target : OpIds \cup {NoOp},
                 cancel : BOOLEAN, response : Answers \cup {NoAnswer}]
Stages == {"intent", "executing", "cancel-requested", "failed", "cancelled", "completed"}
EventRow == [seq : Nat, op : OpIds, stage : Stages, gen : Nat, rev : Nat, state : States]
Local == [pc : {"idle", "claimed", "observing", "running", "finish"}, op : OpIds \cup {NoOp},
          gen : Nat, previous : States, outcome : Outcome]

Failure(state) == [state |-> state, cancelled |-> FALSE, error |-> TRUE]
At(pc, o, gen, previous, outcome) ==
  [pc |-> pc, op |-> o, gen |-> gen, previous |-> previous, outcome |-> outcome]
Idle == At("idle", NoOp, 0, "unknown", Failure("unknown"))
NoRow == [generation |-> 0, revision |-> 0, state |-> "unknown", active |-> NoOp,
          previous |-> "unknown", seq |-> 0, floor |-> 0]
NewRow == [generation |-> 1, revision |-> 0, state |-> "failed", active |-> NoOp,
           previous |-> "unknown", seq |-> 0, floor |-> 0]

Init ==
  /\ inst = [i \in Instances |-> NoRow]
  /\ ops = [o \in {} |-> NoOp]
  /\ rows = 0
  /\ events = [i \in Instances |-> {}]
  /\ gate = NoWorker
  /\ work = [w \in Workers |-> Idle]
  /\ executed = [o \in OpIds |-> 0]

-----------------------------------------------------------------------------
Present(i) == inst[i].generation > 0
Recorded == 1..rows
Unresolved(o) == ops[o].status \in {"pending", "executing"}

Pending(o) == o \in Recorded /\ ops[o].status = "pending"

(* table with a further row. *)
WithRow(table, row) == [o \in 1..(rows + 1) |-> IF o = rows + 1 THEN row ELSE table[o]]

(* The idempotency key has not been used; a request whose key is on record
   is answered from the record, or refused if its content differs. *)
Fresh(key) == \A o \in Recorded : ops[o].key # key

(* A row as the events table and the responses show it: append an event
   that carries the row's revision, generation and state. *)
LoggedUncounted(row) == row

Logged(row) == [row EXCEPT !.seq = row.seq + 1]
Event(row, o, stage) == [seq |-> row.seq + 1, op |-> o, stage |-> stage,
                         gen |-> row.generation, rev |-> row.revision, state |-> row.state]
Emit(i, row, o, stage) ==
  /\ inst' = [inst EXCEPT ![i] = Logged(row)]
  /\ events' = [events EXCEPT ![i] = @ \cup {Event(row, o, stage)}]

Answer(result, row, state, cancelled, error) ==
  [result |-> result, state |-> state, gen |-> row.generation, rev |-> row.revision,
   cursor |-> row.seq, cancelled |-> cancelled, error |-> error]

(* The answer written to an operation whose fate is not known. *)
Stale(row) == Answer("unknown", row, "recovery-required", FALSE, TRUE)

NewOp(kind, i, key, gen, rev, target, status, response) ==
  [status |-> status, kind |-> kind, inst |-> i, key |-> key, gen |-> gen, rev |-> rev,
   target |-> target, cancel |-> FALSE, response |-> response]

Resolved(op, status, answer) ==
  [status |-> status, kind |-> op.kind, inst |-> op.inst, key |-> op.key, gen |-> op.gen,
   rev |-> op.rev, target |-> op.target, cancel |-> op.cancel, response |-> answer]

(* The operations table once the operation holding the row, if there is one,
   has been given up: nobody knows what it did. *)
SupersededForgotten(row) == ops

Superseded(row) ==
  [q \in Recorded |->
     IF q = row.active THEN Resolved(ops[q], "unknown", Stale(row)) ELSE ops[q]]

(* The row after an operation has been accepted for it. *)
TakenFrom(row, previous, kind, o, rev) ==
  [generation |-> row.generation, revision |-> rev, state |-> TransientOf(kind),
   active |-> o, previous |-> previous, seq |-> row.seq, floor |-> row.floor]

Taken(row, kind, o) == TakenFrom(row, row.state, kind, o, row.revision + 1)

-----------------------------------------------------------------------------
(* submit and _submit *)

(* First preparation: the instance's row is inserted and taken at once. *)
Prepare(i, key) ==
  /\ rows < MaxOps
  /\ Fresh(key)
  /\ ~Present(i)
  /\ LET o == rows + 1
     IN /\ ops' = WithRow(ops, NewOp("prepare", i, key, 0, 0, NoOp, "pending", NoAnswer))
        /\ Emit(i, Taken(NewRow, "prepare", o), o, "intent")
  /\ rows' = rows + 1
  /\ UNCHANGED <<gate, work, executed>>

(* The request was decided on the row as it is now. *)
Current(i, gen, rev) == inst[i].generation = gen /\ inst[i].revision = rev

(* recover needs the proof that no executor is left; everything else may be
   recorded, or refused, while an operation executes. *)
Ungated(kind) == TRUE

Gated(kind) == kind = "recover" => gate = NoWorker

(* Any other operation on an existing instance.  The expected generation and
   revision must be the current ones.  Only recover may take an instance from
   an unresolved operation, and only while nobody holds the worker gate. *)
Submit(kind, i, key, gen, rev) ==
  /\ rows < MaxOps
  /\ Gated(kind)
  /\ Fresh(key)
  /\ Present(i)
  /\ Current(i, gen, rev)
  /\ inst[i].active # NoOp => kind = "recover"
  /\ inst[i].state \in Allowed(kind)
  /\ LET o == rows + 1
         row == inst[i]
     IN /\ ops' = WithRow(Superseded(row), NewOp(kind, i, key, gen, rev, NoOp, "pending", NoAnswer))
        /\ Emit(i, Taken(row, kind, o), o, "intent")
  /\ rows' = rows + 1
  /\ UNCHANGED <<gate, work, executed>>

(* Cancelling marks the active operation and is answered at once. *)
Cancel(i, key, gen, rev, target) ==
  /\ rows < MaxOps
  /\ Fresh(key)
  /\ Present(i)
  /\ Current(i, gen, rev)
  /\ target # NoOp
  /\ inst[i].active = target
  /\ LET o == rows + 1
         row == [inst[i] EXCEPT !.revision = @ + 1]
         answer == Answer("completed", Logged(row), row.state, FALSE, FALSE)
     IN /\ ops' = WithRow([ops EXCEPT ![target].cancel = TRUE],
                         NewOp("cancel", i, key, gen, rev, target, "completed", answer))
        /\ Emit(i, row, o, "cancel-requested")
  /\ rows' = rows + 1
  /\ UNCHANGED <<gate, work, executed>>

(* The preparation that may be restarted: the active operation if there is
   one, otherwise the latest preparation recorded for the instance. *)
Candidate(i, o) ==
  /\ ops[o].kind = "prepare"
  /\ ops[o].inst = i
  /\ \/ inst[i].active = o
     \/ /\ inst[i].active = NoOp
        /\ \A q \in Recorded : ops[q].kind = "prepare" /\ ops[q].inst = i => q <= o

RestartAllowed(i, o) ==
  /\ Candidate(i, o)
  /\ inst[i].generation = 1
  /\ \/ ops[o].status \in {"executing", "unknown", "failed"}
     \/ ops[o].status = "completed" /\ ops[o].response.cancelled
  /\ inst[i].state \in {"preparing", "failed", "recovery-required"}

(* The operations table once the original preparation has been sealed: it
   keeps the answer it has, and is answered "unknown" if it has none. *)
Sealed(original, row) ==
  IF ops[original].response = NoAnswer
  THEN [ops EXCEPT ![original] = Resolved(@, "unknown", Stale(row))]
  ELSE ops

(* Whoever gets the worker gate knows that no executor is left. *)
ExecutorAssumedGone == TRUE

ExecutorGone == gate = NoWorker

(* A first preparation that did not complete is sealed by the backend and a
   new one is recorded.  The gate proves that its executor is gone. *)
RestartPreparation(i, original, rev, attempt) ==
  LET key == <<i, original, rev, attempt>>
      o == rows + 1
      row == inst[i]
  IN /\ rows < MaxOps
     /\ ExecutorGone
     /\ original \in Recorded
     /\ Fresh(key)
     /\ Present(i)
     /\ RestartAllowed(i, original)
     /\ row.revision = rev
     /\ ops' = WithRow(Sealed(original, row), NewOp("prepare", i, key, 0, 0, NoOp, "pending", NoAnswer))
     /\ Emit(i, TakenFrom(row, "failed", "prepare", o, row.revision + 1), o, "intent")
     /\ rows' = rows + 1
     /\ UNCHANGED <<gate, work, executed>>

-----------------------------------------------------------------------------
(* execute *)

(* An operation that has an answer is not executed again; one that is not
   pending, or does not hold its instance, is refused. *)
ClaimableAgain(o) ==
  /\ o \in Recorded
  /\ ops[o].response = NoAnswer
  /\ inst[ops[o].inst].active = o

Claimable(o) ==
  /\ o \in Recorded
  /\ ops[o].response = NoAnswer
  /\ inst[ops[o].inst].active = o
  /\ ops[o].status = "pending"

(* The gate is taken and the operation claimed. *)
Claim(w, o) ==
  /\ gate = NoWorker
  /\ work[w].pc = "idle"
  /\ Claimable(o)
  /\ LET i == ops[o].inst
     IN /\ Emit(i, inst[i], o, "executing")
        /\ work' = [work EXCEPT ![w] = At("claimed", o, inst[i].generation, inst[i].previous,
                                          Failure("unknown"))]
  /\ ops' = [ops EXCEPT ![o].status = "executing"]
  /\ gate' = w
  /\ UNCHANGED <<rows, executed>>

(* The cancellation flag of the operation, as read between transactions. *)
CancelIgnored(o) == FALSE

Cancelled(o) == ops[o].cancel

(* Whether an outcome fits the operation. *)
Believable(o, out) ==
  /\ out.error => out.state \in Doubtful
  /\ ~out.error /\ out.cancelled => Cancelled(o) /\ out.state \in CancelledStates
  /\ ~out.error /\ ~out.cancelled => out.state \in Success(ops[o].kind)

(* The service does not believe the backend: an outcome that does not fit
   the operation becomes an error that asks for recovery. *)
Judged(o, out) == IF Believable(o, out) THEN out ELSE Failure("recovery-required")

Decide(w, outcome) ==
  work' = [work EXCEPT ![w] = At("finish", @.op, @.gen, @.previous, outcome)]

(* backend.execute is called. *)
Call(w, gen) ==
  /\ work' = [work EXCEPT ![w] = At("running", @.op, gen, @.previous, @.outcome)]
  /\ executed' = [executed EXCEPT ![work[w].op] = @ + 1]

CheckCancel(w) ==
  LET o == work[w].op
  IN /\ work[w].pc = "claimed"
     /\ \/ /\ Cancelled(o)
           /\ Decide(w, Judged(o, [state |-> work[w].previous, cancelled |-> TRUE, error |-> FALSE]))
           /\ UNCHANGED executed
        \/ /\ ~Cancelled(o)
           /\ ops[o].kind = "prepare"
           /\ Call(w, work[w].gen)
        \/ /\ ~Cancelled(o)
           /\ ops[o].kind # "prepare"
           /\ work' = [work EXCEPT ![w].pc = "observing"]
           /\ UNCHANGED executed
     /\ UNCHANGED <<inst, ops, rows, events, gate>>

(* What backend.observe reports is believed only if the generation is the
   instance's own (recover may also find the next one, committed by a reset
   that never answered) and the operation is allowed in the state found. *)
Observe(w, gen, state) ==
  LET kind == ops[work[w].op].kind
  IN /\ work[w].pc = "observing"
     /\ \/ gen = work[w].gen
        \/ kind = "recover" /\ gen = work[w].gen + 1
     /\ state \in Allowed(kind)
     /\ Call(w, gen)
     /\ UNCHANGED <<inst, ops, rows, events, gate>>

(* It raised, could not verify the identity, or was not believed. *)
ObserveFails(w) ==
  /\ work[w].pc = "observing"
  /\ Decide(w, Failure("recovery-required"))
  /\ UNCHANGED <<inst, ops, rows, events, gate, executed>>

BackendReturns(w, out) ==
  /\ work[w].pc = "running"
  /\ Decide(w, Judged(work[w].op, out))
  /\ UNCHANGED <<inst, ops, rows, events, gate, executed>>

BackendRaises(w) ==
  /\ work[w].pc = "running"
  /\ Decide(w, Failure("recovery-required"))
  /\ UNCHANGED <<inst, ops, rows, events, gate, executed>>

(* The generation an operation leaves its instance with. *)
GenerationAfter(row, kind, outcome, observed) ==
  IF outcome.error \/ outcome.cancelled THEN row.generation
  ELSE CASE kind = "reset"   -> row.generation + 1
         [] kind = "recover" -> observed
         [] OTHER            -> row.generation

Leave(w) ==
  /\ work' = [work EXCEPT ![w] = Idle]
  /\ gate' = NoWorker

Released(row, state, generation) ==
  [generation |-> generation, revision |-> row.revision + 1, state |-> state,
   active |-> NoOp, previous |-> row.previous, seq |-> row.seq, floor |-> row.floor]

Finish(w) ==
  LET o == work[w].op
      i == ops[o].inst
      out == work[w].outcome
      row == Released(inst[i], out.state, GenerationAfter(inst[i], ops[o].kind, out, work[w].gen))
      stage == IF out.error THEN "failed" ELSE IF out.cancelled THEN "cancelled" ELSE "completed"
      result == IF out.error THEN "failed" ELSE "completed"
  IN /\ work[w].pc = "finish"
     /\ inst[i].active = o
     /\ Emit(i, row, o, stage)
     /\ ops' = [ops EXCEPT ![o] =
                  Resolved(@, result, Answer(result, Logged(row), out.state, out.cancelled, out.error))]
     /\ Leave(w)
     /\ UNCHANGED <<rows, executed>>

(* The last transaction cannot be committed (the contract database is locked
   by a concurrent request, or the disk fails): the caller is told that the
   outcome is unknown and the operation stays "executing". *)
FinishFails(w) ==
  /\ work[w].pc = "finish"
  /\ Leave(w)
  /\ UNCHANGED <<inst, ops, rows, events, executed>>

(* The process dies inside execute; SQLite releases its locks. *)
Crash(w) ==
  /\ work[w].pc # "idle"
  /\ Leave(w)
  /\ UNCHANGED <<inst, ops, rows, events, executed>>

-----------------------------------------------------------------------------
(* prune_events *)
Prune(i, through) ==
  /\ Present(i)
  /\ inst[i].floor <= through
  /\ through <= inst[i].seq
  /\ inst' = [inst EXCEPT ![i].floor = through]
  /\ events' = [events EXCEPT ![i] = {e \in @ : e.seq > through}]
  /\ UNCHANGED <<ops, rows, gate, work, executed>>

-----------------------------------------------------------------------------
(* Every revision, generation and sequence number is bounded by the number
   of operations: an operation bumps the revision at most twice and the
   generation at most once. *)
Gens == 1..(MaxOps + 1)
Revs == 0..(2 * MaxOps)

Request(i) ==
  \/ \E key \in Keys : Prepare(i, key)
  \/ \E gen \in Gens, rev \in Revs :
       /\ Current(i, gen, rev)
       /\ \E key \in Keys :
            \/ \E kind \in Kinds : Submit(kind, i, key, gen, rev)
            \/ \E target \in OpIds : Cancel(i, key, gen, rev, target)

Work(w) ==
  \/ \E o \in OpIds : Claim(w, o)
  \/ CheckCancel(w)
  \/ \E gen \in Gens, state \in States : Observe(w, gen, state)
  \/ ObserveFails(w)
  \/ \E out \in Outcomes : BackendReturns(w, out)
  \/ BackendRaises(w)
  \/ Finish(w)
  \/ FinishFails(w)
  \/ Crash(w)

Next ==
  \/ \E i \in Instances :
       \/ Request(i)
       \/ \E original \in OpIds, rev \in Revs, attempt \in Attempts :
            RestartPreparation(i, original, rev, attempt)
       \/ \E through \in Cursors : Prune(i, through)
  \/ \E w \in Workers : Work(w)

Spec == Init /\ [][Next]_vars

=============================================================================
