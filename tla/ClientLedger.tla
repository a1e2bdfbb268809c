---------------------------- MODULE ClientLedger ----------------------------
(***************************************************************************)
(* The private ledger of a client of remote servers (ctflab_client_store)  *)
(* and the fixed SSH channel its requests take.  Every request is a        *)
(* process of its own.  A change is written down before it is sent and is  *)
(* sent again only when somebody asks for it; the gate is held for as long *)
(* as a change is on its way, and whatever a killed process sent may still *)
(* arrive.  A fingerprint stands for a configuration with its identity     *)
(* file, and so for the server that it leads to.  Uploads are in           *)
(* CacheStore, downloads in ClientEvidence.  Bound: MaxTurns sendings.     *)
(***************************************************************************)
EXTENDS Naturals, FiniteSets

CONSTANTS
  Targets, Prints,           \* saved targets, and what a configuration may come to
  Attempts, Bodies,          \* idempotent changes, and what they may ask for
  Connections, Clients,      \* explicit connections; processes of the client
  NoClient, NoPrint, MaxTurns

ASSUME ClientAssumption ==
  NoClient \notin Clients /\ NoPrint \notin Prints /\ MaxTurns \in Nat \ {0}

VARIABLES
  stage,                     \* of the store: none, directory, ready
  saved, live,               \* targets: the fingerprint on record, and that of the files as they are now
  rows, conns,               \* the tables attempts and connections
  holder, at,                \* the gate, and the processes
  wire,                      \* messages on their way, and answers
  sends, served, settled     \* history: how often each change was sent; where it was carried out; which once had returned

clientVars == <<stage, saved, live, rows, conns, holder, at, wire, sends, served, settled>>

NoEntry == [phase |-> "none"]
Rest == [pc |-> "idle"]

ClientInit ==
  /\ stage = "none" /\ saved = [t \in Targets |-> NoPrint] /\ live \in [Targets -> Prints]
  /\ rows = [a \in Attempts |-> NoEntry] /\ conns = [c \in Connections |-> NoEntry]
  /\ holder = NoClient /\ at = [p \in Clients |-> Rest] /\ wire = {}
  /\ sends = [a \in Attempts |-> 0] /\ served = [a \in Attempts |-> {}] /\ settled = {}

Goes(p, pc) == at' = [at EXCEPT ![p].pc = pc]
Leaves(p) == at' = [at EXCEPT ![p] = Rest]
Keeps == UNCHANGED <<stage, saved, live>>

-----------------------------------------------------------------------------
(* initialize and save: the directory comes first, its databases later, and *)
(* a directory without them is never completed.                            *)

Initialize(p) ==
  /\ at[p] = Rest /\ stage = "none" /\ stage' = "directory" /\ at' = [at EXCEPT ![p] = [pc |-> "initialize"]]
  /\ UNCHANGED <<saved, live, rows, conns, holder, wire, sends, served, settled>>
Initialized(p) ==
  /\ at[p].pc = "initialize" /\ stage' = "ready" /\ Leaves(p)
  /\ UNCHANGED <<saved, live, rows, conns, holder, wire, sends, served, settled>>

save(t) ==
  /\ stage = "ready" /\ saved[t] = NoPrint /\ saved' = [saved EXCEPT ![t] = live[t]]
  /\ UNCHANGED <<stage, live, rows, conns, holder, at, wire, sends, served, settled>>

(* Somebody edits the configuration, or replaces the identity file. *)
Rewrites(t) ==
  /\ \E f \in Prints \ {live[t]} : live' = [live EXCEPT ![t] = f]
  /\ UNCHANGED <<stage, saved, rows, conns, holder, at, wire, sends, served, settled>>

(* entry *)
Usable(t) == stage = "ready" /\ saved[t] # NoPrint /\ live[t] = saved[t]

-----------------------------------------------------------------------------
(* Changes. *)

Change(a, t, body, again) ==
  [pc |-> "gate", id |-> a, target |-> t, print |-> saved[t], body |-> body, again |-> again, reply |-> "none"]

request(p, a, t, body) ==
  /\ at[p] = Rest /\ Usable(t) /\ at' = [at EXCEPT ![p] = Change(a, t, body, FALSE)]
  /\ Keeps /\ UNCHANGED <<rows, conns, holder, wire, sends, served, settled>>
retry(p, a) ==
  /\ at[p] = Rest /\ rows[a] # NoEntry /\ Usable(rows[a].target)
  /\ at' = [at EXCEPT ![p] = Change(a, rows[a].target, rows[a].body, TRUE)]
  /\ Keeps /\ UNCHANGED <<rows, conns, holder, wire, sends, served, settled>>

Same(row, d) == row.target = d.target /\ row.body = d.body
SendableTwice(row, d) == IF row = NoEntry THEN ~d.again ELSE Same(row, d)
Sendable(row, d) == IF row = NoEntry THEN ~d.again ELSE Same(row, d) /\ row.phase # "returned" /\ d.again

(* The gate does not wait; what has returned is answered from its row. *)
Declares(p) ==
  LET d == at[p]
      row == rows[d.id]
  IN /\ d.pc = "gate"
     /\ IF holder = NoClient /\ Sendable(row, d)
        THEN /\ row # NoEntry => row.tries < MaxTurns
             /\ rows' = [rows EXCEPT ![d.id] = [phase |-> "attempting", target |-> d.target, body |-> d.body,
                                                tries |-> IF row = NoEntry THEN 1 ELSE row.tries + 1]]
             /\ holder' = p /\ Goes(p, "send")
        ELSE Leaves(p) /\ UNCHANGED <<rows, holder>>
     /\ Keeps /\ UNCHANGED <<conns, wire, sends, served, settled>>

(* dispatch: the files are read again, a session is opened, and after the   *)
(* handshake the change is written to it.                                  *)
Sends(p) ==
  /\ at[p].pc = "send" /\ live[at[p].target] = at[p].print
  /\ wire' = wire \cup {[id |-> at[p].id, to |-> at[p].print, by |-> p, n |-> sends[at[p].id] + 1, answer |-> "none"]}
  /\ sends' = [sends EXCEPT ![at[p].id] = @ + 1] /\ Goes(p, "wait")
  /\ Keeps /\ UNCHANGED <<rows, conns, holder, served, settled>>

(* No session, another identity, a timeout, a lost channel: it is not known what became of the change. *)
Fails(p) ==
  /\ at[p].pc \in {"send", "wait"} /\ at' = [at EXCEPT ![p].pc = "record", ![p].reply = "error"]
  /\ Keeps /\ UNCHANGED <<rows, conns, holder, wire, sends, served, settled>>

(* The server takes a change once for each idempotency key, or refuses it. *)
Serves(m) ==
  /\ m.answer = "none"
  /\ \E answer \in {"done", "refused"} :
       /\ wire' = (wire \ {m}) \cup {[m EXCEPT !.answer = answer]}
       /\ served' = IF answer = "done" THEN [served EXCEPT ![m.id] = @ \cup {m.to}] ELSE served
  /\ Keeps /\ UNCHANGED <<rows, conns, holder, at, sends, settled>>

(* An answer is taken only from the session that it was asked in. *)
Hears(p) ==
  /\ at[p].pc = "wait"
  /\ \E m \in wire :
       /\ m.by = p /\ m.id = at[p].id /\ m.n = sends[m.id] /\ m.answer # "none" /\ wire' = wire \ {m}
       /\ at' = [at EXCEPT ![p].pc = "record", ![p].reply = m.answer]
  /\ Keeps /\ UNCHANGED <<rows, conns, holder, sends, served, settled>>

Phase(d) == IF d.reply = "done" /\ live[d.target] = d.print THEN "returned" ELSE "unknown"

Records(p) ==
  /\ at[p].pc = "record" /\ holder' = NoClient /\ Leaves(p)
  /\ \/ /\ rows' = [rows EXCEPT ![at[p].id].phase = Phase(at[p])]
        /\ settled' = IF Phase(at[p]) = "returned" THEN settled \cup {at[p].id} ELSE settled
     \/ UNCHANGED <<rows, settled>>          \* the ledger cannot be written
  /\ Keeps /\ UNCHANGED <<conns, wire, sends, served>>

Dies(p) ==
  /\ at[p] # Rest /\ Leaves(p) /\ holder' = (IF holder = p THEN NoClient ELSE holder)
  /\ Keeps /\ UNCHANGED <<rows, conns, wire, sends, served, settled>>

-----------------------------------------------------------------------------
(* Connections: each is made once, and may be cancelled before, while and   *)
(* after it is made.                                                       *)

connect(p, c, t) ==
  /\ at[p] = Rest /\ Usable(t) /\ conns[c] = NoEntry
  /\ conns' = [conns EXCEPT ![c] = [phase |-> "connecting", target |-> t, cancel |-> FALSE, told |-> "none"]]
  /\ at' = [at EXCEPT ![p] = [pc |-> "connect", id |-> c, target |-> t, print |-> saved[t]]]
  /\ Keeps /\ UNCHANGED <<rows, holder, wire, sends, served, settled>>

cancel(c, t) ==
  /\ stage = "ready" /\ saved[t] # NoPrint
  /\ \/ conns[c] = NoEntry /\ conns' = [conns EXCEPT ![c] = [phase |-> "cancelled", target |-> t, cancel |-> TRUE, told |-> "none"]]
     \/ /\ conns[c] # NoEntry /\ conns[c].target = t /\ conns[c].phase \in {"connecting", "unknown"}
        /\ conns' = [conns EXCEPT ![c].phase = "cancelled", ![c].cancel = TRUE]
  /\ Keeps /\ UNCHANGED <<rows, holder, at, wire, sends, served, settled>>

Outcome(d, reply) ==
  IF conns[d.id].cancel THEN "cancelled" ELSE IF reply = "done" /\ live[d.target] = d.print THEN "returned" ELSE "unknown"

Connected(p) ==
  /\ at[p].pc = "connect" /\ Leaves(p)
  /\ \E reply \in {"done", "error"} :
       LET phase == Outcome(at[p], reply) IN
       conns' = [conns EXCEPT ![at[p].id].phase = phase, ![at[p].id].told = phase]
  /\ Keeps /\ UNCHANGED <<rows, holder, wire, sends, served, settled>>

ClientNext ==
  \/ \E p \in Clients :
       \/ Initialize(p) \/ Initialized(p) \/ Declares(p) \/ Sends(p) \/ Fails(p) \/ Hears(p) \/ Records(p) \/ Dies(p) \/ Connected(p)
       \/ \E a \in Attempts : retry(p, a) \/ \E t \in Targets, body \in Bodies : request(p, a, t, body)
       \/ \E c \in Connections, t \in Targets : connect(p, c, t)
  \/ \E t \in Targets : save(t) \/ Rewrites(t) \/ \E c \in Connections : cancel(c, t)
  \/ \E m \in wire : Serves(m)

ClientSpec == ClientInit /\ [][ClientNext]_clientVars

-----------------------------------------------------------------------------
InFlight == {p \in Clients : at[p].pc \in {"send", "wait", "record"}}

(* Whatever was killed, answered late or not at all: no change reaches a    *)
(* server that is not on record with it, or more often than somebody asked *)
(* for it; one is on its way at a time; one that returned was carried out  *)
(* where it was to be and is never on its way again (先持久意图、显式重试，      *)
(* 不自动恢复发送, ctflab_client_store.py:1).  A connection that was         *)
(* cancelled is never told to have been made.                              *)
NothingIsSentUnasked ==
  /\ \A p \in InFlight : holder = p
  /\ \A a \in Attempts :
       /\ sends[a] > 0 => rows[a] # NoEntry /\ sends[a] <= rows[a].tries
       /\ served[a] # {} => served[a] = {saved[rows[a].target]}
       /\ rows[a].phase = "returned" => served[a] # {} /\ \A p \in InFlight : at[p].id # a
       /\ a \in settled => rows[a].phase = "returned"
  /\ \A c \in Connections : conns[c] # NoEntry =>
       (conns[c].cancel = (conns[c].phase = "cancelled")) /\ (conns[c].told = "returned" => ~conns[c].cancel)

=============================================================================
