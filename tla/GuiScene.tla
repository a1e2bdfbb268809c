------------------------------ MODULE GuiScene ------------------------------
(***************************************************************************)
(* The scene page of the Mac application: one selected instance, one call  *)
(* at a time, and what the page shows of the instance, read by calls that  *)
(* may be answered late, never or with nonsense.  A call of the generic    *)
(* chain has a ticket and a timer, which gives the page back to the user   *)
(* after 30 s; a call of the old fixed chain has neither.  The service     *)
(* behind the calls is here what the page can tell of it: operations and   *)
(* events, numbered, and how far the events have been pruned.              *)
(* Drafts are in ScenarioDraft.  Bounds: MaxTickets calls, MaxChanges      *)
(* operations and MaxEvents events of an instance.                         *)
(***************************************************************************)
EXTENDS Integers, Sequences, FiniteSets

CONSTANTS
  Scenes,                    \* the instances that exist
  Unset,                     \* a new identifier, for which nothing exists yet
  Page, EventPage, Shown,    \* rows of a page of the history and of the events; events kept on screen
  MaxTickets, MaxChanges, MaxEvents

ASSUME SceneAssumption ==
  /\ Unset \notin Scenes /\ Page \in Nat \ {0} /\ EventPage \in Nat \ {0} /\ Shown \in Nat
  /\ MaxTickets \in Nat /\ MaxChanges \in Nat /\ MaxEvents \in Nat

VARIABLES
  scene, generic,            \* sceneInstance, sceneGeneric
  view, snapshot,            \* sceneLocalView, sceneSnapshot: sets of at most one
  busy, ticket, tickets,     \* sceneWorkspaceBusy, sceneCallTicket (0 for none), calls so far
  calls,                     \* the calls that were not answered yet
  history, nextBefore,       \* sceneHistory, sceneHistoryNext (0 for none)
  timeline, cursor,          \* sceneEvents, sceneEventCursor
  sent,                      \* the changes asked for: each call, and the reading it rested on
  operations, floor, lastEvent  \* the service: operations, pruned events, events of each instance

sceneVars == <<scene, generic, view, snapshot, busy, ticket, tickets, calls, history, nextBefore, timeline, cursor, sent,
               operations, floor, lastEvent>>
pageVars == <<scene, generic>>
recordVars == <<history, nextBefore, timeline, cursor>>
serviceVars == <<operations, floor, lastEvent>>

SceneInit ==
  /\ scene = Unset /\ generic = TRUE /\ view = {} /\ snapshot = {} /\ busy = FALSE /\ ticket = 0 /\ tickets = 0 /\ calls = {}
  /\ history = <<>> /\ nextBefore = 0 /\ timeline = <<>> /\ cursor = 0 /\ sent = {}
  /\ operations = [i \in Scenes |-> 0] /\ floor = [i \in Scenes |-> 0] /\ lastEvent = [i \in Scenes |-> 0]

-----------------------------------------------------------------------------
(* What is selected.  The whole form is disabled while the page is busy,   *)
(* and a change of the selection forgets what was read of the last one.    *)

sceneResetReadonly == history' = <<>> /\ nextBefore' = 0 /\ timeline' = <<>> /\ cursor' = 0
Forget == view' = {} /\ snapshot' = {} /\ sceneResetReadonly

Select(i) ==
  /\ ~busy /\ i # scene /\ scene' = i /\ Forget
  /\ UNCHANGED <<generic, busy, ticket, tickets, calls, sent, serviceVars>>

SwitchChain ==
  /\ ~busy /\ generic' = ~generic /\ scene' = Unset /\ Forget
  /\ UNCHANGED <<busy, ticket, tickets, calls, sent, serviceVars>>

-----------------------------------------------------------------------------
(* Calls. *)

Reads == {"overview", "operation-history", "events", "query-request"}
Changes == {"start", "recover", "cancel"}
None == [kind |-> "none"]
NewCall(action, arg) == [id |-> tickets + 1, of |-> scene, action |-> action, arg |-> arg, generic |-> generic, reply |-> None]

sceneGenericCall(action, arg) ==
  /\ ~busy /\ generic /\ tickets < MaxTickets /\ busy' = TRUE /\ ticket' = tickets + 1 /\ tickets' = tickets + 1
  /\ calls' = calls \cup {NewCall(action, arg)}
  /\ IF action \in Reads THEN UNCHANGED <<view, snapshot>> ELSE view' = {} /\ snapshot' = {}
  /\ UNCHANGED <<pageVars, serviceVars>>

sceneGenericAllowed(action) ==
  \E v \in view :
    IF action = "cancel" THEN v.result = "accepted"
    ELSE v.result # "accepted" /\ (action = "recover" \/ v.fresh)

sceneSubmit(action) ==
  /\ sceneGenericAllowed(action)
  /\ \E v \in view : sceneGenericCall(action, v.revision) /\ sent' = sent \cup {[id |-> tickets + 1, reading |-> v.reading]}
  /\ UNCHANGED recordVars

ReadStatus == sceneGenericCall("overview", 0) /\ UNCHANGED <<recordVars, sent>>
QueryOriginal == sent # {} /\ sceneGenericCall("query-request", 0) /\ UNCHANGED <<recordVars, sent>>
ListInstances == sceneGenericCall("instances", 0) /\ UNCHANGED <<recordVars, sent>>
sceneEventsRefresh == sceneGenericCall("events", cursor) /\ UNCHANGED <<recordVars, sent>>
sceneHistoryLoad ==
  /\ sceneGenericCall("operation-history", 0) /\ history' = <<>> /\ nextBefore' = 0
  /\ UNCHANGED <<timeline, cursor, sent>>
sceneHistoryNextPage ==
  /\ nextBefore # 0 /\ sceneGenericCall("operation-history", nextBefore) /\ UNCHANGED <<recordVars, sent>>

(* The fixed chain: every call uses up the snapshot, a change needs one. *)
sceneRequest(action) ==
  /\ ~busy /\ ~generic /\ tickets < MaxTickets /\ tickets' = tickets + 1 /\ busy' = TRUE /\ snapshot' = {}
  /\ calls' = calls \cup {NewCall(action, 0)}
  /\ \/ action = "status" /\ UNCHANGED sent
     \/ action \in Changes /\ \E s \in snapshot : sent' = sent \cup {[id |-> tickets + 1, reading |-> s.reading]}
  /\ UNCHANGED <<pageVars, view, ticket, recordVars, serviceVars>>

-----------------------------------------------------------------------------
(* The service. *)

Least(a, b) == IF a <= b THEN a ELSE b
Newest(i, before, n) == [k \in 1..Least(n, before - 1) |-> before - k]
HistoryPage(i, before) ==
  LET top == IF before = 0 THEN operations[i] + 1 ELSE before
      rows == Newest(i, top, Page)
      more == top - 1 > Page
  IN [kind |-> "page", rows |-> rows, next |-> IF more THEN rows[Page] ELSE 0]

AnswerOf(c) ==
  IF c.action = "operation-history" THEN HistoryPage(c.of, c.arg)
  ELSE IF c.action = "events"
  THEN IF floor[c.of] <= c.arg /\ c.arg <= lastEvent[c.of]
       THEN [kind |-> "events", rows |-> [k \in 1..Least(EventPage, lastEvent[c.of] - c.arg) |-> c.arg + k]]
       ELSE [kind |-> "pruned"]
  ELSE [kind |-> "status", cursor |-> lastEvent[c.of], revision |-> operations[c.of]]

Settle(c, reply) == calls' = (calls \ {c}) \cup {[c EXCEPT !.reply = reply]}

(* A change is taken when it was asked for with the present revision; the old chain's snapshot is of that same state. *)
Accepts(c) ==
  /\ c.action \in Changes /\ c.of \in Scenes /\ (c.generic => c.arg = operations[c.of])
  /\ operations[c.of] < MaxChanges /\ lastEvent[c.of] < MaxEvents
  /\ operations' = [operations EXCEPT ![c.of] = @ + 1] /\ lastEvent' = [lastEvent EXCEPT ![c.of] = @ + 1] /\ UNCHANGED floor

Serves(c) ==
  /\ c.reply = None
  /\ \/ c.of \in Scenes /\ c.action \notin Changes /\ Settle(c, AnswerOf(c)) /\ UNCHANGED serviceVars
     \/ Accepts(c) /\ Settle(c, [kind |-> "status", cursor |-> 0, revision |-> 0])
     \/ \E bad \in {"unreadable", "strange"} : Settle(c, [kind |-> bad]) /\ UNCHANGED serviceVars
  /\ UNCHANGED <<pageVars, view, snapshot, busy, ticket, tickets, recordVars, sent>>

(* Another client's operation is accepted, or one goes on: both are events. *)
Emits(i) ==
  /\ lastEvent[i] < MaxEvents /\ lastEvent' = [lastEvent EXCEPT ![i] = @ + 1]
  /\ \/ operations[i] > 0 /\ UNCHANGED operations
     \/ operations[i] < MaxChanges /\ operations' = [operations EXCEPT ![i] = @ + 1]
  /\ UNCHANGED <<pageVars, view, snapshot, busy, ticket, tickets, calls, recordVars, sent, floor>>
Prunes(i) ==
  /\ \E f \in floor[i]..lastEvent[i] : f # floor[i] /\ floor' = [floor EXCEPT ![i] = f]
  /\ UNCHANGED <<pageVars, view, snapshot, busy, ticket, tickets, calls, recordVars, sent, operations, lastEvent>>

-----------------------------------------------------------------------------
(* Answers. *)

Invalidated == {[v EXCEPT !.fresh = FALSE] : v \in view}

WindowEnds ==
  /\ \E v \in view : v.fresh
  /\ view' = Invalidated
  /\ UNCHANGED <<pageVars, snapshot, busy, ticket, tickets, calls, recordVars, sent, serviceVars>>

TimeUp ==
  /\ ticket # 0 /\ ticket' = 0 /\ busy' = FALSE
  /\ view' = IF generic /\ (\E c \in calls : c.id = ticket /\ c.of = scene) THEN Invalidated ELSE view
  /\ UNCHANGED <<pageVars, snapshot, tickets, calls, recordVars, sent, serviceVars>>

AnyAnswer(c) == TRUE
Awaited(c) == ticket = c.id
Ours(c) == generic = c.generic /\ scene = c.of

(* MacEventPage.consume: the rows that continue the timeline, or a refusal. *)
Continues(rows) == \A k \in DOMAIN rows : rows[k] = cursor + k
LastOf(s, n) == SubSeq(s, Len(s) - Least(n, Len(s)) + 1, Len(s))

EventsRead(r) ==
  IF r.kind = "events" /\ Continues(r.rows)
  THEN timeline' = LastOf(timeline \o r.rows, Shown) /\ cursor' = cursor + Len(r.rows)
  ELSE timeline' = <<>> /\ cursor' = IF view = {} THEN 0 ELSE (CHOOSE v \in view : TRUE).cursor

FollowsPage(rows) == rows # <<>> /\ rows[1] = nextBefore
HistoryRead(r) ==
  IF r.kind # "page" THEN UNCHANGED <<history, nextBefore>>
  ELSE IF nextBefore = 0 THEN history' = r.rows /\ nextBefore' = r.next
  ELSE IF FollowsPage(r.rows) THEN history' = history \o r.rows /\ nextBefore' = r.next
  ELSE UNCHANGED <<history, nextBefore>>

Read(c) ==
  LET r == c.reply IN
  IF r.kind \in {"pruned", "unreadable"} THEN view' = Invalidated /\ UNCHANGED recordVars
  ELSE CASE c.action = "overview" /\ r.kind = "status" ->
              /\ \E result \in {"accepted", "completed"}, fresh \in BOOLEAN :
                   view' = {[of |-> c.of, reading |-> c.id, revision |-> r.revision, cursor |-> r.cursor, result |-> result,
                             fresh |-> fresh]}
              /\ UNCHANGED recordVars
         [] c.action = "events" -> EventsRead(r) /\ UNCHANGED <<view, history, nextBefore>>
         [] c.action = "operation-history" -> HistoryRead(r) /\ UNCHANGED <<view, timeline, cursor>>
         [] OTHER -> UNCHANGED <<view, recordVars>>

GenericAnswered(c) ==
  /\ c.generic /\ c.reply # None /\ calls' = calls \ {c}
  /\ IF Awaited(c) THEN ticket' = 0 /\ busy' = FALSE /\ (IF Ours(c) THEN Read(c) ELSE UNCHANGED <<view, recordVars>>)
     ELSE UNCHANGED <<ticket, busy, view, recordVars>>
  /\ UNCHANGED <<pageVars, snapshot, tickets, sent, serviceVars>>

FixedAnswered(c) ==
  /\ ~c.generic /\ c.reply # None /\ calls' = calls \ {c} /\ busy' = FALSE
  /\ snapshot' = IF scene = c.of /\ c.action = "status" /\ c.reply.kind = "status"
                 THEN {[of |-> c.of, reading |-> c.id]} ELSE snapshot
  /\ UNCHANGED <<pageVars, view, ticket, tickets, recordVars, sent, serviceVars>>

SceneNext ==
  \/ \E i \in Scenes : Select(i) \/ Emits(i) \/ Prunes(i)
  \/ SwitchChain \/ ReadStatus \/ QueryOriginal \/ ListInstances \/ sceneEventsRefresh \/ sceneHistoryLoad \/ sceneHistoryNextPage
  \/ \E a \in Changes : sceneSubmit(a)
  \/ \E a \in Changes \cup {"status"} : sceneRequest(a)
  \/ WindowEnds \/ TimeUp
  \/ \E c \in calls : Serves(c) \/ GenericAnswered(c) \/ FixedAnswered(c)

SceneSpec == SceneInit /\ [][SceneNext]_sceneVars

-----------------------------------------------------------------------------
(* The page shows the selected instance: what was read belongs to it and   *)
(* to the chain that is chosen; the timeline is an unbroken run of events  *)
(* that ends at the cursor, the history an unbroken run of operations; a   *)
(* busy page waits for a call that is still to be answered.  And whatever  *)
(* was answered late, a change rests on a reading that was asked for after *)
(* the change before it (不会自动重发, GuiApp.swift:1357).                  *)
PageIsOfTheScene ==
  /\ \A v \in view : generic /\ v.of = scene
  /\ \A s \in snapshot : ~generic /\ s.of = scene
  /\ \A k \in DOMAIN timeline : timeline[k] = cursor - Len(timeline) + k
  /\ \A k \in 2..Len(history) : history[k] = history[k - 1] - 1
  /\ history # <<>> => scene \in Scenes /\ history[1] <= operations[scene] /\ nextBefore \in {0, history[Len(history)]}
  /\ busy => \E c \in calls : c.id = ticket \/ ~c.generic
  /\ \A x, y \in sent : x.id < y.id => x.id < y.reading
=============================================================================
