---------------------------- MODULE KaliSessions ----------------------------
(***************************************************************************)
(* The assistant inside an outside Kali: a root daemon that gives a        *)
(* session a network namespace with a TAP, hands the TAP to the frame pump *)
(* of a client, runs tools in the namespace, and takes it all down again,  *)
(* on request, when the session has lapsed, or when it stops.  The daemon  *)
(* does one thing at a time, but clients, tools and crashes come between   *)
(* its steps, and every command of the system it runs may fail.            *)
(* A signal sent to a tool is no step: the tool ends when it ends.         *)
(* Bounds: MaxSetups sessions set up, MaxFaults crashes and failures.      *)
(***************************************************************************)
EXTENDS Naturals, FiniteSets

CONSTANTS KaliSessionIds, Tools, MaxSetups, MaxFaults, NoSession

ASSUME KaliAssumption == NoSession \notin KaliSessionIds /\ MaxSetups \in Nat /\ MaxFaults \in Nat

VARIABLES
  attachd,   \* the daemon: is it alive, what is it doing, for which sessions still, with something left over
  entries,   \* its memory of sessions: known, cleanup_pending, tap_fd held
  grantFile, \* STATE_ROOT/<session>.json: "none", "pending", "usable"
  netns,     \* sessions whose namespace has a name
  taps,      \* sessions whose namespace has its TAP
  pumps,     \* session -> the client's copy of the descriptor: "none", "live", "dead"
  tools,     \* tool -> session and whether it is forked or inside the namespace
  lapsed,    \* sessions whose grant has expired
  attachUsed \* setups and faults so far

kaliVars == <<attachd, entries, grantFile, netns, taps, pumps, tools, lapsed, attachUsed>>

NoEntry == [known |-> FALSE, pending |-> FALSE, fd |-> FALSE]
NoTool == [session |-> NoSession, inside |-> FALSE]
Listening == [alive |-> TRUE, op |-> "listen", session |-> NoSession, todo |-> {}, left |-> FALSE, last |-> FALSE]
Dead == [Listening EXCEPT !.alive = FALSE, !.op = "none"]

KaliInit ==
  /\ attachd = Dead /\ entries = [s \in KaliSessionIds |-> NoEntry] /\ grantFile = [s \in KaliSessionIds |-> "none"]
  /\ netns = {} /\ taps = {} /\ pumps = [s \in KaliSessionIds |-> "none"] /\ tools = [t \in Tools |-> NoTool]
  /\ lapsed = {} /\ attachUsed = [setups |-> 0, faults |-> 0]

Does(op, s) == attachd.op = op /\ attachd.session = s
Continues(op) == attachd' = [attachd EXCEPT !.op = op]
ContinuesLeaving(op) == attachd' = [attachd EXCEPT !.op = op, !.left = TRUE]
TakesDown(s) == attachd' = [attachd EXCEPT !.op = "mark", !.session = s, !.left = FALSE]
Fault == attachUsed.faults < MaxFaults /\ attachUsed' = [attachUsed EXCEPT !.faults = @ + 1]
NoFault == UNCHANGED attachUsed

(* A command either does what it is for or fails; the outcome may be lost with the effect there. *)
Outcomes == {"done", "failed", "unknown"}
With(outcome) == IF outcome = "done" THEN NoFault ELSE Fault

----------------------------------------------------------------------------
(* The daemon begins and ends. *)

(* A restarted daemon has no TAP: what is on record is only to be taken down. *)
RestoredAsWritten(s) == IF grantFile[s] = "none" THEN NoEntry ELSE [known |-> TRUE, pending |-> grantFile[s] = "pending", fd |-> FALSE]
Restored(s) == IF grantFile[s] = "none" THEN NoEntry ELSE [known |-> TRUE, pending |-> TRUE, fd |-> FALSE]

DaemonStarts ==
  /\ ~attachd.alive
  /\ attachd' = Listening /\ entries' = [s \in KaliSessionIds |-> Restored(s)]
  /\ UNCHANGED <<grantFile, netns, taps, pumps, tools, lapsed, attachUsed>>

(* The descriptors of a dead process are closed, and a TAP lives as long as one is open. *)
DaemonGoes ==
  /\ attachd' = Dead /\ entries' = [s \in KaliSessionIds |-> NoEntry]
  /\ taps' = {s \in taps : pumps[s] = "live"}
  /\ UNCHANGED <<grantFile, netns, pumps, tools, lapsed>>

DaemonDies == attachd.alive /\ Fault /\ DaemonGoes

(* SIGTERM: every session is taken down before the end. *)
DaemonStops ==
  /\ attachd.op = "listen"
  /\ attachd' = [attachd EXCEPT !.op = "next", !.todo = {s \in KaliSessionIds : entries[s].known}, !.last = TRUE]
  /\ UNCHANGED <<entries, grantFile, netns, taps, pumps, tools, lapsed, attachUsed>>

----------------------------------------------------------------------------
(* setup_session.  The record is written first, as one that is only good for taking down. *)

(* A write that fails has replaced the file or has not. *)
Writes(s, value, outcome) ==
  grantFile' = IF outcome = "failed" THEN grantFile ELSE [grantFile EXCEPT ![s] = value]

Setup(s) ==
  /\ attachd.op = "listen" /\ attachUsed.setups < MaxSetups
  /\ ~entries[s].known /\ grantFile[s] = "none" /\ s \notin netns
  /\ lapsed' = lapsed \ {s}
  /\ \E outcome \in Outcomes :
       /\ Writes(s, "pending", outcome)
       /\ IF outcome = "done"
          THEN /\ attachd' = [attachd EXCEPT !.op = "netns", !.session = s]
               /\ entries' = [entries EXCEPT ![s] = [known |-> TRUE, pending |-> TRUE, fd |-> FALSE]]
               /\ attachUsed' = [attachUsed EXCEPT !.setups = @ + 1]
          ELSE UNCHANGED <<attachd, entries>> /\ Fault
  /\ UNCHANGED <<netns, taps, pumps, tools>>

SetupNamespace(s) ==
  /\ Does("netns", s)
  /\ \E outcome \in Outcomes :
       /\ With(outcome)
       /\ netns' = IF outcome = "failed" THEN netns ELSE netns \cup {s}
       /\ IF outcome = "done" THEN Continues("tap") ELSE TakesDown(s)
  /\ UNCHANGED <<entries, grantFile, taps, pumps, tools, lapsed>>

SetupTap(s) ==
  /\ Does("tap", s)
  /\ \E outcome \in {"done", "failed"} :
       /\ With(outcome)
       /\ IF outcome = "done"
          THEN taps' = taps \cup {s} /\ entries' = [entries EXCEPT ![s].fd = TRUE] /\ Continues("configure")
          ELSE TakesDown(s) /\ UNCHANGED <<taps, entries>>
  /\ UNCHANGED <<grantFile, netns, pumps, tools, lapsed>>

SetupConfigured(s) ==
  /\ Does("configure", s)
  /\ \/ /\ entries' = [entries EXCEPT ![s].pending = FALSE]
        /\ \E outcome \in Outcomes :
             /\ With(outcome) /\ Writes(s, "usable", outcome)
             /\ IF outcome = "done" THEN attachd' = Listening ELSE TakesDown(s)
     \/ Fault /\ TakesDown(s) /\ UNCHANGED <<entries, grantFile>>
  /\ UNCHANGED <<netns, taps, pumps, tools, lapsed>>

----------------------------------------------------------------------------
(* teardown_session, asked for by the administrator, the sweep or the end of the daemon. *)

Teardown(s) ==
  /\ attachd.op = "listen" /\ (entries[s].known \/ grantFile[s] # "none")
  /\ TakesDown(s) /\ entries' = [entries EXCEPT ![s].known = TRUE]
  /\ UNCHANGED <<grantFile, netns, taps, pumps, tools, lapsed, attachUsed>>

Sweep ==
  /\ attachd.op = "listen"
  /\ LET due == {s \in KaliSessionIds : entries[s].known /\ (entries[s].pending \/ s \in lapsed)}
     IN due # {} /\ attachd' = [attachd EXCEPT !.op = "next", !.todo = due]
  /\ UNCHANGED <<entries, grantFile, netns, taps, pumps, tools, lapsed, attachUsed>>

SweepNext ==
  /\ attachd.op = "next"
  /\ IF attachd.todo # {}
     THEN /\ \E s \in attachd.todo : attachd' = [attachd EXCEPT !.op = "mark", !.session = s, !.left = FALSE, !.todo = @ \ {s}]
          /\ UNCHANGED <<entries, grantFile, netns, taps, pumps, tools, lapsed, attachUsed>>
     ELSE IF attachd.last THEN DaemonGoes /\ NoFault
     ELSE attachd' = Listening /\ UNCHANGED <<entries, grantFile, netns, taps, pumps, tools, lapsed, attachUsed>>

TeardownMarks(s) ==
  /\ Does("mark", s)
  /\ entries' = [entries EXCEPT ![s].pending = TRUE, ![s].fd = FALSE]
  /\ taps' = IF entries[s].fd /\ pumps[s] # "live" THEN taps \ {s} ELSE taps
  /\ \E outcome \in Outcomes :
       /\ With(outcome) /\ Writes(s, "pending", outcome)
       /\ IF outcome = "done" THEN Continues("unlink") ELSE ContinuesLeaving("unlink")
  /\ UNCHANGED <<netns, pumps, tools, lapsed>>

(* namespace_present, then the link deleted: other copies of the descriptor go dead. *)
TeardownLink(s) ==
  /\ Does("unlink", s)
  /\ \E seen, deleted \in BOOLEAN :
       /\ IF (seen /\ deleted) \/ s \notin netns THEN NoFault ELSE Fault
       /\ IF seen /\ deleted /\ s \in netns
          THEN taps' = taps \ {s} /\ pumps' = [pumps EXCEPT ![s] = IF @ = "live" THEN "dead" ELSE @]
          ELSE UNCHANGED <<taps, pumps>>
       /\ Continues(IF seen /\ s \in netns THEN "inspect" ELSE "gone")
  /\ UNCHANGED <<entries, grantFile, netns, tools, lapsed>>

ToolsInside(s) == {t \in Tools : tools[t].session = s /\ tools[t].inside}
Unoccupied(s) == s \notin taps /\ ToolsInside(s) = {}

(* namespace_resources: a query that fails says nothing. *)
TeardownInspects(s) ==
  /\ Does("inspect", s)
  /\ \E answered \in BOOLEAN :
       /\ IF answered THEN NoFault ELSE Fault
       /\ IF answered /\ Unoccupied(s)
          THEN Continues(IF attachd.left THEN "gone" ELSE "delete")
          ELSE ContinuesLeaving("gone")
  /\ UNCHANGED <<entries, grantFile, netns, taps, pumps, tools, lapsed>>

TeardownNamespace(s) ==
  /\ Does("delete", s)
  /\ Continues("gone")
  /\ \/ netns' = netns \ {s} /\ NoFault
     \/ UNCHANGED netns /\ Fault
  /\ UNCHANGED <<entries, grantFile, taps, pumps, tools, lapsed>>

MayForget(s) == s \notin netns /\ ~attachd.left

TeardownForgets(s) ==
  /\ Does("gone", s)
  /\ attachd' = [attachd EXCEPT !.op = "next"]
  /\ \/ /\ MayForget(s)
        /\ grantFile' = [grantFile EXCEPT ![s] = "none"] /\ entries' = [entries EXCEPT ![s] = NoEntry] /\ NoFault
     \/ ~MayForget(s) /\ UNCHANGED <<grantFile, entries, attachUsed>>
     \/ MayForget(s) /\ Fault /\ UNCHANGED <<grantFile, entries>>
  /\ UNCHANGED <<netns, taps, pumps, tools, lapsed>>

----------------------------------------------------------------------------
(* Clients and tools.  A session lapses in its time. *)

Usable(s) == attachd.op = "listen" /\ entries[s].known /\ ~entries[s].pending /\ s \notin lapsed

Attach(s) ==
  /\ Usable(s) /\ pumps[s] # "live"
  /\ pumps' = [pumps EXCEPT ![s] = IF s \in taps THEN "live" ELSE "dead"]
  /\ UNCHANGED <<attachd, entries, grantFile, netns, taps, tools, lapsed, attachUsed>>

(* The pump ends with its stream, the quota, the time, or a record out of order. *)
PumpEnds(s) ==
  /\ pumps[s] # "none"
  /\ pumps' = [pumps EXCEPT ![s] = "none"]
  /\ taps' = IF pumps[s] = "live" /\ ~entries[s].fd THEN taps \ {s} ELSE taps
  /\ UNCHANGED <<attachd, entries, grantFile, netns, tools, lapsed, attachUsed>>

(* A shell or a raw tool: forked by the daemon, it enters the namespace by its name later. *)
RunTool(s, t) ==
  /\ Usable(s) /\ tools[t] = NoTool
  /\ tools' = [tools EXCEPT ![t] = [session |-> s, inside |-> FALSE]]
  /\ UNCHANGED <<attachd, entries, grantFile, netns, taps, pumps, lapsed, attachUsed>>

ToolEnters(t) ==
  /\ tools[t] # NoTool /\ ~tools[t].inside
  /\ tools' = [tools EXCEPT ![t] = IF tools[t].session \in netns THEN [@ EXCEPT !.inside = TRUE] ELSE NoTool]
  /\ UNCHANGED <<attachd, entries, grantFile, netns, taps, pumps, lapsed, attachUsed>>

ToolEnds(t) ==
  /\ tools[t].inside
  /\ tools' = [tools EXCEPT ![t] = NoTool]
  /\ UNCHANGED <<attachd, entries, grantFile, netns, taps, pumps, lapsed, attachUsed>>

Lapses(s) ==
  /\ grantFile[s] # "none" /\ s \notin lapsed
  /\ lapsed' = lapsed \cup {s}
  /\ UNCHANGED <<attachd, entries, grantFile, netns, taps, pumps, tools, attachUsed>>

KaliNext ==
  \/ DaemonStarts \/ DaemonDies \/ DaemonStops \/ Sweep \/ SweepNext
  \/ \E s \in KaliSessionIds :
       \/ Setup(s) \/ SetupNamespace(s) \/ SetupTap(s) \/ SetupConfigured(s)
       \/ Teardown(s) \/ TeardownMarks(s) \/ TeardownLink(s) \/ TeardownInspects(s) \/ TeardownNamespace(s) \/ TeardownForgets(s)
       \/ Attach(s) \/ PumpEnds(s) \/ Lapses(s)
       \/ \E t \in Tools : RunTool(s, t)
  \/ \E t \in Tools : ToolEnters(t) \/ ToolEnds(t)

KaliSpec == KaliInit /\ [][KaliNext]_kaliVars

(* What is left of a session can be found: a namespace is on record, a TAP is in a namespace that still has its    *)
(* name, and a session that is offered to clients has both, whatever failed or died before (test_kali_attach_      *)
(* functions: "restart restores cleanup only", "failed netns delete keeps record").  A tool that was forked before *)
(* a teardown can still enter the namespace between its inspection and its deletion; nothing is said of those.     *)
SessionsAreOnRecord ==
  /\ \A s \in netns : grantFile[s] # "none"
  /\ taps \subseteq netns
  /\ \A s \in KaliSessionIds : Usable(s) => s \in taps /\ entries[s].fd
=============================================================================
