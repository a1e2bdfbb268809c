----------------------------- MODULE GuiRemote -----------------------------
(***************************************************************************)
(* The remote page of the Mac application.  Every call is a process of the *)
(* client ledger; its answer counts only in the epoch it was made in.      *)
(* Most calls keep the page busy; those that pause a transfer, cancel a    *)
(* connection or read the history of transfers do not, and the page may be *)
(* closed whatever is under way.  Reading the state of an instance is three*)
(* calls: the overview, the leases, and what of the ledger is pending.     *)
(* A connection is taken to offer everything a server can.                 *)
(* Bounds: MaxCalls calls, MaxRevision revisions of an instance.           *)
(***************************************************************************)
EXTENDS Naturals, FiniteSets

CONSTANTS RemoteTargets, RemoteInstances, NoInstance, MaxCalls, MaxRevision

ASSUME RemoteAssumption == NoInstance \notin RemoteInstances /\ MaxCalls \in Nat /\ MaxRevision \in Nat

VARIABLES
  epoch, calls, made,        \* remoteEpoch, the calls under way, how many there were
  busy, connection, transfer, reading, \* remoteBusy, remoteConnectionID, remoteTransferID (0 for none), remoteHistoryInFlight
  context, instance, view,   \* remoteContext, remoteInstance, remoteView
  leases, lease,             \* remoteLeases, remoteLease (0 for none)
  pending, known,            \* remotePending, remotePendingKnown
  plan,                      \* remoteCoursePlan, remoteAuditPlan
  recorded,                  \* the changes on the client's record
  revision, leased,          \* the servers: of each instance its revision and its lease
  overtaken                  \* history: changes under way when the page was closed

pageVars == <<busy, connection, transfer, reading, context, instance, view, leases, lease, pending, known, plan>>
shownVars == <<context, instance, view, leases, lease, pending, known, plan>>
serverVars == <<recorded, revision, leased>>
remoteVars == <<epoch, calls, made, pageVars, serverVars, overtaken>>

Places == RemoteTargets \X RemoteInstances

RemoteInit ==
  /\ epoch = 0 /\ calls = {} /\ made = 0 /\ busy = FALSE /\ connection = 0 /\ transfer = 0 /\ reading = FALSE
  /\ context = {} /\ instance = NoInstance /\ view = {} /\ leases = {} /\ lease = 0 /\ pending = {} /\ known = FALSE /\ plan = {}
  /\ recorded = {} /\ revision = [x \in Places |-> 1] /\ leased = [x \in Places |-> 0] /\ overtaken = {}

-----------------------------------------------------------------------------
(* Calls.  A change is known by the number of the call that first made it. *)

NoReply == [ok |-> FALSE, from |-> "nobody"]
Call(kind, t, arg) ==
  [id |-> made + 1, epoch |-> epoch', kind |-> kind, of |-> t, instance |-> instance, arg |-> arg, served |-> FALSE, reply |-> NoReply]

Made(new) == made < MaxCalls /\ made' = made + 1 /\ calls' = calls \cup {new}
Then(c, new) == made < MaxCalls /\ made' = made + 1 /\ calls' = (calls \ {c}) \cup {new}
Done(c) == calls' = calls \ {c} /\ UNCHANGED made

Own == UNCHANGED <<serverVars, overtaken>>

Asks(kind, t, arg) ==
  /\ ~busy /\ busy' = TRUE /\ UNCHANGED epoch /\ Made(Call(kind, t, arg)) /\ Own

loadRemoteTargets == \E t \in RemoteTargets : Asks("targets", t, 0) /\ UNCHANGED <<connection, transfer, reading, shownVars>>

Closed ==
  /\ epoch' = epoch + 1 /\ context' = {} /\ instance' = NoInstance /\ view' = {} /\ leases' = {} /\ lease' = 0
  /\ pending' = {} /\ known' = FALSE /\ plan' = {} /\ transfer' = 0 /\ reading' = FALSE
Changing == {"change", "admin-change", "retry", "admin-retry"}
Overtakes == overtaken' = overtaken \cup {c.arg.change : c \in {d \in calls : d.kind \in Changing}}

disconnectRemote ==
  /\ context # {} \/ busy \/ connection # 0
  /\ Closed /\ busy' = FALSE /\ connection' = 0 /\ Overtakes /\ UNCHANGED <<calls, made, serverVars>>

connectRemote(t) ==
  /\ ~busy /\ (context # {} => t \in context)
  /\ Closed /\ busy' = TRUE /\ connection' = made + 1 /\ Overtakes
  /\ Made([Call("connect", t, 0) EXCEPT !.instance = NoInstance]) /\ UNCHANGED serverVars

cancelRemoteConnection ==
  /\ connection # 0 /\ \E c \in calls : c.id = connection /\ UNCHANGED epoch /\ Made(Call("cancel-connect", c.of, connection))
  /\ Own /\ UNCHANGED pageVars

selectRemoteInstance(i) ==
  /\ ~busy /\ context # {} /\ epoch' = epoch + 1 /\ instance' = i /\ view' = {} /\ leases' = {} /\ lease' = 0 /\ pending' = {} /\ known' = FALSE
  /\ UNCHANGED <<calls, made, busy, connection, transfer, reading, context, plan>> /\ Own

refreshRemote ==
  /\ instance # NoInstance /\ \E t \in context : Asks("overview", t, 0)
  /\ known' = FALSE /\ UNCHANGED <<connection, transfer, reading, context, instance, view, leases, lease, pending, plan>>

-----------------------------------------------------------------------------
(* Changes of the instance, of its lease, and of courses and audits. *)

remoteHasPending == ~known \/ pending # {}
ActiveLease == \E l \in leases : lease # 0 /\ l.active = lease

Request(op, arg) == [change |-> made + 1, op |-> op, arg |-> arg]
sendRemoteMutation(t, op, arg) ==
  /\ Asks("change", t, Request(op, arg))
  /\ known' = FALSE /\ UNCHANGED <<connection, transfer, reading, context, instance, view, leases, lease, pending, plan>>

performRemote(op) ==
  /\ ~remoteHasPending /\ (op = "start" => ActiveLease)
  /\ \E t \in context, v \in view : sendRemoteMutation(t, op, v.revision)

changeRemoteLease(op) ==
  /\ ~remoteHasPending
  /\ \E t \in context, l \in leases :
       /\ IF op = "acquire" THEN l.active = 0 ELSE lease # 0 /\ l.active = lease
       /\ sendRemoteMutation(t, op, lease)

remoteAdministration(op) ==
  /\ \E t \in context :
       IF op = "provision" THEN (\E p \in plan : Asks("admin-change", t, Request(op, p))) ELSE Asks("admin", t, op)
  /\ UNCHANGED <<connection, transfer, reading, shownVars>>

loadRemoteAdminPending ==
  /\ \E t \in context : Asks("admin-pending", t, 0) /\ UNCHANGED <<connection, transfer, reading, shownVars>>

Again(a) == [change |-> a.change, op |-> a.op, arg |-> a.arg]
retryRemote(a) ==
  /\ a.op # "provision" /\ a.instance = instance /\ \E t \in context : a.of = t /\ Asks("retry", t, Again(a))
  /\ known' = FALSE /\ UNCHANGED <<connection, transfer, reading, context, instance, view, leases, lease, pending, plan>>
retryRemoteAdministration(a) ==
  /\ a.op = "provision" /\ \E t \in context : a.of = t /\ Asks("admin-retry", t, Again(a))
  /\ UNCHANGED <<connection, transfer, reading, shownVars>>

-----------------------------------------------------------------------------
(* Transfers: uploading, downloading, resuming; pausing; their history. *)

Transfers ==
  /\ \E t \in context : Asks("transfer", t, 0) /\ transfer' = made + 1
  /\ UNCHANGED <<connection, reading, shownVars>>
Pauses ==
  /\ transfer # 0 /\ UNCHANGED epoch /\ \E t \in context : Made(Call("pause", t, transfer))
  /\ UNCHANGED pageVars /\ Own
refreshRemoteTransferHistory ==
  /\ ~reading /\ reading' = TRUE /\ UNCHANGED epoch /\ \E t \in context : Made(Call("assets", t, 0))
  /\ UNCHANGED <<busy, connection, transfer, shownVars>> /\ Own

(* The same, after the answer c. *)
HistoryAfter(c) ==
  IF reading \/ context = {} THEN Done(c) /\ UNCHANGED reading
  ELSE Then(c, Call("assets", c.of, 0)) /\ reading' = TRUE

-----------------------------------------------------------------------------
(* The client's processes and the servers. *)

Replies(c, reply) == calls' = (calls \ {c}) \cup {[c EXCEPT !.served = TRUE, !.reply = reply]}
Place(c) == <<c.of, c.instance>>
Row(c, phase) == [change |-> c.arg.change, op |-> c.arg.op, arg |-> c.arg.arg, of |-> c.of, instance |-> c.instance, phase |-> phase]
PutsDown(c, phase) == recorded' = {a \in recorded : a.change # c.arg.change} \cup {Row(c, phase)}

Reads(c) ==
  CASE c.kind = "overview" -> \E r \in 1..revision[Place(c)] : Replies(c, [ok |-> TRUE, revision |-> r])
    [] c.kind = "lease-status" -> Replies(c, [ok |-> TRUE, active |-> leased[Place(c)]])
    [] c.kind \in {"pending", "admin-pending"} ->
         Replies(c, [ok |-> TRUE, attempts |-> {a \in recorded : a.of = c.of /\ a.phase # "returned"}])
    [] OTHER -> Replies(c, [ok |-> TRUE])

(* A change is carried out, or refused by the contract in its answer; and   *)
(* the lease that it makes is known by the number of the change.           *)
Carries(c) ==
  LET x == Place(c) IN
  CASE c.arg.op = "acquire" /\ leased[x] = 0 -> leased' = [leased EXCEPT ![x] = c.arg.change] /\ UNCHANGED revision
    [] c.arg.op = "release" /\ leased[x] = c.arg.arg -> leased' = [leased EXCEPT ![x] = 0] /\ UNCHANGED revision
    [] c.arg.op \in {"start", "stop"} /\ revision[x] = c.arg.arg /\ revision[x] < MaxRevision ->
         revision' = [revision EXCEPT ![x] = @ + 1] /\ UNCHANGED leased
    [] OTHER -> UNCHANGED <<revision, leased>>
Returned(c) == \E a \in recorded : a.change = c.arg.change /\ a.phase = "returned"

IsServed(c) ==
  /\ ~c.served
  /\ \/ /\ c.kind \notin Changing /\ (Reads(c) \/ Replies(c, NoReply)) /\ UNCHANGED serverVars
     \/ /\ c.kind \in Changing /\ Returned(c) /\ Replies(c, [ok |-> TRUE, lease |-> 0]) /\ UNCHANGED serverVars
     \/ /\ c.kind \in Changing /\ ~Returned(c) /\ Carries(c) /\ PutsDown(c, "returned")
        /\ Replies(c, [ok |-> TRUE, lease |-> IF c.arg.op = "acquire" /\ leased'[Place(c)] = c.arg.change THEN c.arg.change ELSE 0])
     \/ /\ c.kind \in Changing /\ ~Returned(c) /\ (Carries(c) \/ UNCHANGED <<revision, leased>>)
        /\ PutsDown(c, "unknown") /\ Replies(c, NoReply)
     \/ /\ c.kind \in Changing /\ Replies(c, NoReply) /\ UNCHANGED serverVars     \* not even written down
  /\ UNCHANGED <<epoch, made, pageVars, overtaken>>

(* Another client, or time. *)
Moves(x) ==
  /\ \/ revision[x] < MaxRevision /\ revision' = [revision EXCEPT ![x] = @ + 1] /\ UNCHANGED leased
     \/ leased[x] # 0 /\ leased' = [leased EXCEPT ![x] = 0] /\ UNCHANGED revision
  /\ UNCHANGED <<epoch, calls, made, pageVars, recorded, overtaken>>

-----------------------------------------------------------------------------
(* Answers. *)

AnyEpoch(c) == TRUE
Current(c) == c.epoch = epoch

Dropped(c) == c.served /\ ~Current(c) /\ Done(c) /\ UNCHANGED <<epoch, pageVars, serverVars, overtaken>>

Frees(c) == Done(c) /\ busy' = FALSE
GoesOn(c, kind) == Then(c, Call(kind, c.of, 0)) /\ UNCHANGED busy

(* MacRemoteRules.overview: a revision that goes back does not replace what is shown. *)
Overview(c) ==
  LET new == [of |-> c.of, instance |-> c.instance, revision |-> c.reply.revision, read |-> c.id] IN
  {IF \E v \in view : v.revision > new.revision THEN [(CHOOSE v \in view : TRUE) EXCEPT !.read = c.id] ELSE new}

(* A change was answered: the page is read again. *)
RefreshAfter(c) == Then(c, Call("overview", c.of, 0)) /\ busy' = TRUE /\ known' = FALSE

CallAnswered(c) ==
  /\ c.served /\ Current(c) /\ UNCHANGED epoch
  /\ LET ok == c.reply.ok IN
     CASE c.kind = "targets" -> Frees(c) /\ UNCHANGED <<connection, transfer, reading, shownVars>>
       [] c.kind = "connect" ->
            /\ Frees(c) /\ connection' = 0 /\ context' = IF ok THEN {c.of} ELSE {}
            /\ UNCHANGED <<transfer, reading, instance, view, leases, lease, pending, known, plan>>
       [] c.kind \in {"cancel-connect"} -> Done(c) /\ UNCHANGED pageVars
       [] c.kind = "overview" ->
            /\ IF ok THEN view' = Overview(c) /\ GoesOn(c, "lease-status") ELSE view' = {} /\ Frees(c)
            /\ UNCHANGED <<connection, transfer, reading, context, instance, leases, lease, pending, known, plan>>
       [] c.kind = "lease-status" ->
            /\ leases' = IF ok THEN {[of |-> c.of, instance |-> c.instance, active |-> c.reply.active]} ELSE {}
            /\ GoesOn(c, "pending") /\ UNCHANGED <<connection, transfer, reading, context, instance, view, lease, pending, known, plan>>
       [] c.kind = "pending" ->
            /\ Frees(c) /\ known' = ok /\ pending' = IF ok THEN c.reply.attempts ELSE pending
            /\ UNCHANGED <<connection, transfer, reading, context, instance, view, leases, lease, plan>>
       [] c.kind = "admin-pending" ->
            /\ Frees(c) /\ pending' = IF ok THEN c.reply.attempts ELSE pending
            /\ UNCHANGED <<connection, transfer, reading, context, instance, view, leases, lease, known, plan>>
       [] c.kind \in {"change", "retry"} ->
            /\ RefreshAfter(c) /\ lease' = IF c.kind = "change" /\ ok /\ c.reply.lease # 0 THEN c.reply.lease ELSE lease
            /\ UNCHANGED <<connection, transfer, reading, context, instance, view, leases, pending, plan>>
       [] c.kind \in {"admin", "admin-change", "admin-retry"} ->
            /\ plan' = IF ok /\ c.kind = "admin" /\ c.arg = "preview" THEN {c.id} ELSE {}
            /\ Then(c, Call("admin-pending", c.of, 0)) /\ busy' = TRUE
            /\ UNCHANGED <<connection, transfer, reading, context, instance, view, leases, lease, pending, known>>
       [] c.kind = "transfer" ->
            /\ busy' = FALSE /\ transfer' = 0 /\ HistoryAfter(c) /\ UNCHANGED <<connection, shownVars>>
       [] c.kind = "pause" -> HistoryAfter(c) /\ UNCHANGED <<busy, connection, transfer, shownVars>>
       [] c.kind = "assets" -> GoesOn(c, "downloads") /\ UNCHANGED <<connection, transfer, reading, shownVars>>
       [] c.kind = "downloads" -> Done(c) /\ reading' = FALSE /\ UNCHANGED <<busy, connection, transfer, shownVars>>
  /\ Own

RemoteNext ==
  \/ loadRemoteTargets \/ disconnectRemote \/ cancelRemoteConnection \/ refreshRemote
  \/ \E t \in RemoteTargets : connectRemote(t)
  \/ \E i \in RemoteInstances : selectRemoteInstance(i)
  \/ \E op \in {"start", "stop"} : performRemote(op)
  \/ \E op \in {"acquire", "release"} : changeRemoteLease(op)
  \/ \E op \in {"list", "preview", "provision"} : remoteAdministration(op)
  \/ loadRemoteAdminPending \/ \E a \in pending : retryRemote(a) \/ retryRemoteAdministration(a)
  \/ Transfers \/ Pauses \/ refreshRemoteTransferHistory
  \/ \E c \in calls : IsServed(c) \/ CallAnswered(c) \/ Dropped(c)
  \/ \E x \in Places : Moves(x)

RemoteSpec == RemoteInit /\ [][RemoteNext]_remoteVars

-----------------------------------------------------------------------------
Waited == {"targets", "connect", "overview", "lease-status", "pending", "change", "admin", "admin-change", "admin-pending", "retry",
           "admin-retry", "transfer"}
Unsettled(t) == {a \in recorded : a.of = t /\ a.phase # "returned" /\ a.change \notin overtaken}

(* What the page shows is of the connection and the instance that are      *)
(* chosen, whatever is answered late; a busy page waits for a call whose   *)
(* answer still counts, and a page that is not waits for none; and the     *)
(* page takes no change of the instance for settled that is not, unless it *)
(* was closed while the change was under way.  Changes of courses and      *)
(* audits are excepted: after one of those, the page may rely on what it   *)
(* read before (remoteAdministration leaves remotePendingKnown alone).     *)
RemotePageIsCurrent ==
  /\ \A v \in view : v.of \in context /\ v.instance = instance
  /\ \A l \in leases : l.of \in context /\ l.instance = instance
  /\ \A a \in pending : a.of \in context
  /\ busy <=> \E c \in calls : Current(c) /\ c.kind \in Waited
  /\ \A c, d \in calls : Current(c) /\ Current(d) /\ {c.kind, d.kind} \subseteq Waited => c = d
  /\ known /\ pending = {} => \A t \in context : \A a \in Unsettled(t) : a.op = "provision"

=============================================================================
