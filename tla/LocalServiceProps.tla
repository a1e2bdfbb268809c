-------------------------- MODULE LocalServiceProps --------------------------
(* What must be true of the contract service. *)
EXTENDS LocalService

(* Types of the tables and of the workers' local state; references to
   operations are to recorded ones. *)
TypeOK ==
  /\ inst \in [Instances -> InstanceRow]
  /\ rows \in 0..MaxOps
  /\ ops \in [Recorded -> OperationRow]
  /\ events \in [Instances -> SUBSET EventRow]
  /\ gate \in Workers \cup {NoWorker}
  /\ work \in [Workers -> Local]
  /\ executed \in [OpIds -> Nat]
  /\ \A i \in Instances : inst[i].active \in Recorded \cup {NoOp}
  /\ \A w \in Workers : work[w].pc # "idle" => work[w].op \in Recorded

(* An instance is held by exactly its unresolved operation: whatever crashed,
   was taken over or was restarted, no operation is left unresolved without
   holding its instance, and no resolved one still holds it. *)
ActiveIsTheUnresolvedOne ==
  \A i \in Instances :
    {o \in Recorded : ops[o].inst = i /\ Unresolved(o)} = {inst[i].active} \ {NoOp}

(* What _saved_operation demands of every row before it is shown in the
   history: a resolved operation carries an answer whose result is the row's
   status, an unresolved one carries none. *)
AnswerMatchesStatus ==
  \A o \in Recorded :
    /\ Unresolved(o) => ops[o].response = NoAnswer
    /\ ~Unresolved(o) => ops[o].response # NoAnswer /\ ops[o].response.result = ops[o].status

(* An instance shows a transient state exactly while an operation of that
   kind holds it, so a client that waits for a transient state to end does
   not wait for an operation that is gone. *)
TransientWhileHeld ==
  \A i \in Instances : Present(i) =>
    IF inst[i].active = NoOp THEN inst[i].state \notin Transients
    ELSE inst[i].state = TransientOf(ops[inst[i].active].kind)

(* The worker gate makes execution exclusive: only its holder is inside
   execute, and the operation it runs still holds its instance, so the commit
   in _finish never finds the instance taken over by recover or restart. *)
GateProtectsExecution ==
  \A w \in Workers :
    /\ work[w].pc # "idle" <=> gate = w
    /\ work[w].pc # "idle" =>
         /\ work[w].op \in Recorded
         /\ ops[work[w].op].status = "executing"
         /\ inst[ops[work[w].op].inst].active = work[w].op

(* However often a request is delivered, executed or retried after crashes,
   the backend is called at most once on its behalf. *)
AtMostOnce ==
  \A o \in Recorded :
    /\ executed[o] <= 1
    /\ \A q \in Recorded : ops[o].key = ops[q].key => o = q

(* Of the requests that clients decided on one revision of an instance, at
   most one is accepted. *)
OneRequestPerRevision ==
  \A o, q \in Recorded :
    /\ ops[o].inst = ops[q].inst /\ ops[o].rev = ops[q].rev
    /\ ops[o].kind # "prepare" /\ ops[q].kind # "prepare"
    => o = q

(* A cancellation recorded before the operation was claimed keeps the backend
   from being called for it at all. *)
CancelBeforeClaimPreventsExecution ==
  \A i \in Instances : \A asked, begun \in events[i] :
    /\ asked.stage = "cancel-requested"
    /\ begun.stage = "executing"
    /\ ops[asked.op].target = begun.op
    /\ asked.seq < begun.seq
    => executed[begun.op] = 0

(* The event stream of an instance has no gap between its floor and its
   last event, whatever is pruned while operations commit. *)
EventsContiguous ==
  \A i \in Instances :
    /\ {e.seq : e \in events[i]} = (inst[i].floor + 1)..inst[i].seq
    /\ \A e, f \in events[i] : e.seq = f.seq => e = f

(* The inductive invariant behind the properties above: holding read in both
   directions, and what the local state of a call still has to do with the
   tables, which other processes change between two of its transactions. *)
HeldByUnresolved ==
  \A i \in Instances : inst[i].active # NoOp =>
    ops[inst[i].active].inst = i /\ Unresolved(inst[i].active)
UnresolvedHolds == \A o \in Recorded : Unresolved(o) => inst[ops[o].inst].active = o
KeysDiffer == \A o, q \in Recorded : ops[o].key = ops[q].key => o = q
CalledOnce ==
  /\ \A o \in OpIds : executed[o] <= 1 /\ (o \notin Recorded => executed[o] = 0)
  /\ \A o \in Recorded : ops[o].status = "pending" => executed[o] = 0
  /\ \A w \in Workers : work[w].pc \in {"claimed", "observing"} => executed[work[w].op] = 0
InstanceOf(w) == inst[ops[work[w].op].inst]
GenerationSeen ==
  \A w \in Workers :
    /\ work[w].pc # "idle" =>
         work[w].gen \in {InstanceOf(w).generation, InstanceOf(w).generation + 1}
    /\ work[w].pc \in {"claimed", "observing"} => work[w].gen = InstanceOf(w).generation
OutcomeIsSettled == \A w \in Workers : work[w].pc = "finish" => work[w].outcome.state \notin Transients
AbsentRows == \A i \in Instances : ~Present(i) => inst[i] = NoRow

ServiceInv ==
  /\ TypeOK
  /\ HeldByUnresolved /\ UnresolvedHolds /\ AnswerMatchesStatus /\ TransientWhileHeld
  /\ GateProtectsExecution /\ GenerationSeen /\ OutcomeIsSettled
  /\ KeysDiffer /\ CalledOnce /\ AbsentRows

(* Every commit that changes what a client may have decided on (state,
   generation, holder) moves the revision by one, and the generation moves by
   at most one: two equal revisions are the same instance. *)
RevisionVersionsTheRow ==
  [][\A i \in Instances :
       /\ <<inst'[i].state, inst'[i].generation, inst'[i].active>>
            # <<inst[i].state, inst[i].generation, inst[i].active>>
          => inst'[i].revision = inst[i].revision + 1
       /\ inst[i].generation <= inst'[i].generation
       /\ inst'[i].generation <= inst[i].generation + 1]_vars

(* An answer, once recorded, is what every later retry and query gets. *)
AnswersAreFinal ==
  [][\A o \in Recorded : ops[o].response # NoAnswer =>
       ops'[o].response = ops[o].response /\ ops'[o].status = ops[o].status]_vars

(* The service implements the ledger of operations. *)
PhaseOf(o) ==
  IF o \notin Recorded THEN "absent"
  ELSE CASE ops[o].status = "pending"   -> "open"
         [] ops[o].status = "executing" -> "running"
         [] OTHER                       -> "closed"

Ledger == INSTANCE OperationLedger WITH
            phase  <- [o \in OpIds |-> PhaseOf(o)],
            answer <- [o \in OpIds |-> IF o \in Recorded THEN ops[o].response ELSE NoAnswer],
            holder <- [i \in Instances |-> inst[i].active]

ImplementsLedger == Ledger!Spec

(* Requests that were overtaken do nothing: of those decided on one revision
   one is accepted, and one that was cancelled in time is not carried out
   (LocalService._submit, execute). *)
OvertakenDoNothing == OneRequestPerRevision /\ CancelBeforeClaimPreventsExecution
=============================================================================
