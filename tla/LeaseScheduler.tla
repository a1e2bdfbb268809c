--------------------------- MODULE LeaseScheduler ---------------------------
(***************************************************************************)
(* The loop that handles the leases whose time is over                     *)
(* (tools/ctflab_lease_scheduler.py).  Each tick lists the leases that are *)
(* held, reads a bounded number of them, starting after the last one of    *)
(* the tick before, and asks the remote lease runner to handle those that  *)
(* were not active when they were read.  Clients, clocks and the runner    *)
(* change the leases meanwhile, and the policy file may be edited.         *)
(*                                                                         *)
(* The loop keeps its root's gate as long as it runs, so that no second    *)
(* scheduler handles leases; what a visit does is an action of             *)
(* ManagedInstance (expiry) and only its outcome is kept here.             *)
(***************************************************************************)
EXTENDS Integers, SequencesExt, FiniteSetsExt

CONSTANTS Ids,   \* lease ids, in the order of the database
          Limit  \* how many leases one tick looks at

ASSUME SchedulerAssumption ==
  /\ Ids \subseteq Nat \ {0} /\ IsFiniteSet(Ids)
  /\ Limit \in Nat \ {0}

VARIABLES entry,  \* "free": no lease is held under the id; "active"; "due": expired or of an uncertain clock
          edited, \* the policy is not the one that this tick has read
          pc,     \* "down", "idle" between ticks, "reading" the batch, "visiting" it
          cursor, \* the last lease of the last batch; 0 in a new process
          todo,   \* the ids of the batch that are still to be read
          batch,  \* the leases with their time states as read, still to be visited
          called  \* history: the lease the runner was asked to handle last

schedulerVars == <<entry, edited, pc, cursor, todo, batch, called>>

SchedulerInit ==
  /\ entry = [l \in Ids |-> "free"]
  /\ edited = FALSE
  /\ pc = "down"
  /\ cursor = 0 /\ todo = <<>> /\ batch = <<>> /\ called = 0

HeldIds == {l \in Ids : entry[l] # "free"}

Ordered(S) == SetToSortSeq(S, <)

(* Those after the cursor come first. *)
FromTheStart == Ordered(HeldIds)

Rotation ==
  Ordered({l \in HeldIds : l > cursor}) \o Ordered({l \in HeldIds : l <= cursor})

(* A new process starts from the first lease. *)
LoopStarts ==
  /\ pc = "down"
  /\ pc' = "idle"
  /\ cursor' = 0
  /\ UNCHANGED <<entry, edited, todo, batch, called>>

(* The policy is read again and the first leases of the rotation are taken. *)
TickBegins ==
  /\ pc = "idle"
  /\ edited' = FALSE
  /\ todo' = SubSeq(Rotation, 1, Min({Limit, Len(Rotation)}))
  /\ pc' = IF todo' = <<>> THEN "idle" ELSE "reading"
  /\ UNCHANGED <<entry, cursor, batch, called>>

(* Each lease is read in a transaction of its own; the cursor moves when all
   were read, before any of them is handled. *)
Reads ==
  /\ pc = "reading"
  /\ batch' = Append(batch, [lease |-> Head(todo), timing |-> entry[Head(todo)]])
  /\ todo' = Tail(todo)
  /\ IF todo' = <<>>
     THEN pc' = "visiting" /\ cursor' = Head(todo)
     ELSE UNCHANGED <<pc, cursor>>
  /\ UNCHANGED <<entry, edited, called>>

NextRow ==
  /\ batch' = Tail(batch)
  /\ pc' = IF batch' = <<>> THEN "idle" ELSE "visiting"
  /\ UNCHANGED <<edited, cursor, todo>>

Skips ==
  /\ pc = "visiting" /\ ~edited
  /\ Head(batch).timing = "active"
  /\ NextRow
  /\ UNCHANGED <<entry, called>>

(* The runner gives the lease back, saves something else in it, or raises:
   the gate of the pool is busy, the instance cannot be verified.  The loop goes
   on with the next row in either case. *)
Visits ==
  /\ pc = "visiting" /\ ~edited
  /\ Head(batch).timing # "active"
  /\ called' = Head(batch).lease
  /\ entry' \in {entry, [entry EXCEPT ![Head(batch).lease] = "free"]}
  /\ NextRow

Down ==
  /\ pc' = "down"
  /\ todo' = <<>> /\ batch' = <<>>
  /\ UNCHANGED <<entry, edited, cursor, called>>

(* A policy that changed in the middle of a tick ends the process. *)
PolicyRefused == pc = "visiting" /\ edited /\ Down

LoopEnds == pc # "down" /\ Down

-----------------------------------------------------------------------------
(* Clients, clocks and the administrator. *)
EntryBecomes(l, from, to) ==
  /\ entry[l] \in from
  /\ entry' = [entry EXCEPT ![l] = to]
  /\ UNCHANGED <<edited, pc, cursor, todo, batch, called>>

Acquired(l)  == EntryBecomes(l, {"free"}, "active")
Overdue(l)   == EntryBecomes(l, {"active"}, "due")
TrustedAgain(l) == EntryBecomes(l, {"due"}, "active")
GivenBack(l) == EntryBecomes(l, {"active", "due"}, "free")

EditPolicy ==
  /\ ~edited
  /\ edited' = TRUE
  /\ UNCHANGED <<entry, pc, cursor, todo, batch, called>>

LoopSteps == TickBegins \/ Reads \/ Skips \/ Visits \/ PolicyRefused

SchedulerNext ==
  \/ LoopStarts \/ LoopSteps \/ LoopEnds
  \/ \E l \in Ids : Acquired(l) \/ Overdue(l) \/ TrustedAgain(l) \/ GivenBack(l)
  \/ EditPolicy

(* Only the loop itself keeps going, and only as long as it runs: nothing
   starts it again. *)
SchedulerFairness == WF_schedulerVars(LoopSteps)

SchedulerSpec == SchedulerInit /\ [][SchedulerNext]_schedulerVars /\ SchedulerFairness

-----------------------------------------------------------------------------
(* The bounded rotation starves nobody (the comment in candidates): however
   many leases stay overdue because nobody can settle them, and whatever comes
   and goes among them, the runner is asked to handle each overdue lease, unless
   its time state changes before or the loop ends.  What the runner answers is
   another matter: a visit that raises leaves the lease as it is until the next. *)
EveryOverdueIsVisited ==
  \A l \in Ids : entry[l] = "due" ~> (called = l \/ entry[l] # "due" \/ pc = "down")
=============================================================================
