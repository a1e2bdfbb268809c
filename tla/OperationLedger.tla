--------------------------- MODULE OperationLedger ---------------------------
(***************************************************************************)
(* What the contract service promises about operations, without revisions, *)
(* keys, events or workers: an instance is held by at most one operation   *)
(* at a time, an operation runs only while it holds its instance, and the  *)
(* answer it leaves with is written once and never changes.                *)
(***************************************************************************)
EXTENDS Integers

CONSTANTS Instances, OpIds, Answers,
          NoOp,      \* not in OpIds: the instance is free
          NoAnswer   \* not in Answers: the operation is not closed

VARIABLES phase, answer, holder

lvars == <<phase, answer, holder>>

Phases == {"absent", "open", "running", "closed"}

TypeOK == /\ phase \in [OpIds -> Phases]
          /\ answer \in [OpIds -> Answers \cup {NoAnswer}]
          /\ holder \in [Instances -> OpIds \cup {NoOp}]

Init == /\ phase = [o \in OpIds |-> "absent"]
        /\ answer = [o \in OpIds |-> NoAnswer]
        /\ holder = [i \in Instances |-> NoOp]

(* The answer of o, and no other, is written. *)
Answered(o) ==
  /\ answer' = [answer EXCEPT ![o] = answer'[o]]
  /\ answer'[o] \in Answers

(* A free instance is taken by a new operation. *)
Open(i, o) ==
  /\ phase[o] = "absent"
  /\ holder[i] = NoOp
  /\ phase' = [phase EXCEPT ![o] = "open"]
  /\ holder' = [holder EXCEPT ![i] = o]
  /\ UNCHANGED answer

(* A new operation takes the instance over; the previous holder is closed
   in the same step with the answer "outcome unknown". *)
TakeOver(i, o) ==
  /\ phase[o] = "absent"
  /\ holder[i] # NoOp
  /\ phase' = [phase EXCEPT ![holder[i]] = "closed", ![o] = "open"]
  /\ Answered(holder[i])
  /\ holder' = [holder EXCEPT ![i] = o]

(* An operation that is answered when it is recorded and holds nothing. *)
Note(o) ==
  /\ phase[o] = "absent"
  /\ phase' = [phase EXCEPT ![o] = "closed"]
  /\ Answered(o)
  /\ UNCHANGED holder

Run(i, o) ==
  /\ holder[i] = o
  /\ phase[o] = "open"
  /\ phase' = [phase EXCEPT ![o] = "running"]
  /\ UNCHANGED <<answer, holder>>

Close(i, o) ==
  /\ holder[i] = o
  /\ phase[o] = "running"
  /\ phase' = [phase EXCEPT ![o] = "closed"]
  /\ Answered(o)
  /\ holder' = [holder EXCEPT ![i] = NoOp]

Next ==
  \E o \in OpIds :
    \/ Note(o)
    \/ \E i \in Instances : Open(i, o) \/ TakeOver(i, o) \/ Run(i, o) \/ Close(i, o)

Spec == Init /\ [][Next]_lvars

=============================================================================
