----------------------------- MODULE FileProofs -----------------------------
(* Proofs about the stores that are kept in files: the private ledger of a
   client, the installed versions, the collection and the promises of the
   content cache, the audit, and the remote page that reads the ledger, each
   for any number of changes, versions, launches, objects, uploads, chains,
   sessions and calls. *)
EXTENDS ClientLedger, ReleaseStore, CacheStore, AuditTrail, GuiRemote, FiniteSetTheorems, SequenceTheorems, TLAPS

-----------------------------------------------------------------------------
(***************************************************************************)
(* The ledger of a client.  A process that is on its way with a change has *)
(* the gate, and the row it wrote is still "attempting"; what was ever     *)
(* sent, is on the wire or was served is on record with the row's server,  *)
(* and an answer comes from a server that has carried the change out.      *)
(***************************************************************************)
ChangeLocal == [pc : {"gate", "send", "wait", "record"}, id : Attempts, target : Targets, print : Prints, body : Bodies,
                again : BOOLEAN, reply : {"none", "error", "done", "refused"}]
ConnectLocal == [pc : {"connect"}, id : Connections, target : Targets, print : Prints]
ShortLocal == [pc : {"idle", "initialize"}]
AttemptRow == [phase : {"attempting", "returned", "unknown"}, target : Targets, body : Bodies, tries : Nat]
ConnectionRow == [phase : {"connecting", "unknown", "returned", "cancelled"}, target : Targets, cancel : BOOLEAN,
                  told : {"none", "unknown", "returned", "cancelled"}]
Message == [id : Attempts, to : Prints, by : Clients, n : Nat, answer : {"none", "done", "refused"}]

ClientTypes ==
  /\ saved \in [Targets -> Prints \cup {NoPrint}] /\ live \in [Targets -> Prints]
  /\ rows \in [Attempts -> AttemptRow \cup {NoEntry}] /\ conns \in [Connections -> ConnectionRow \cup {NoEntry}]
  /\ at \in [Clients -> ChangeLocal \cup ConnectLocal \cup ShortLocal]
  /\ wire \subseteq Message
  /\ sends \in [Attempts -> Nat] /\ served \in [Attempts -> SUBSET Prints]

Flying(p) == at[p].pc \in {"send", "wait", "record"}
IsChanging(p) == at[p].pc = "gate" \/ Flying(p)

CarriersHoldTheGate ==
  \A p \in Clients :
    /\ IsChanging(p) => at[p].print = saved[at[p].target]
    /\ Flying(p) => /\ holder = p /\ rows[at[p].id] # NoEntry /\ rows[at[p].id].phase = "attempting"
                    /\ rows[at[p].id].target = at[p].target
    /\ at[p].pc = "send" => sends[at[p].id] < rows[at[p].id].tries
    /\ at[p].pc = "record" /\ at[p].reply = "done" => served[at[p].id] # {}
    /\ at[p].pc = "connect" => conns[at[p].id] # NoEntry

RowsRemember ==
  \A a \in Attempts :
    /\ rows[a] = NoEntry => sends[a] = 0 /\ served[a] = {} /\ a \notin settled
    /\ rows[a] # NoEntry => /\ sends[a] <= rows[a].tries /\ saved[rows[a].target] # NoPrint
                            /\ served[a] \subseteq {saved[rows[a].target]}
                            /\ rows[a].phase = "returned" => served[a] # {}
                            /\ a \in settled => rows[a].phase = "returned"

WireIsOnRecord ==
  \A m \in wire : /\ rows[m.id] # NoEntry /\ m.to = saved[rows[m.id].target]
                  /\ m.answer = "done" => served[m.id] # {}

ConnectionsTell ==
  \A c \in Connections : conns[c] # NoEntry =>
    /\ conns[c].cancel = (conns[c].phase = "cancelled")
    /\ conns[c].told = "returned" => conns[c].phase = "returned"

ClientIInv == ClientTypes /\ CarriersHoldTheGate /\ RowsRemember /\ WireIsOnRecord /\ ConnectionsTell

LEMMA EntriesDiffer == NoEntry \notin AttemptRow /\ NoEntry \notin ConnectionRow /\ Rest \in ShortLocal /\ Rest.pc = "idle"
BY DEF NoEntry, AttemptRow, ConnectionRow, Rest, ShortLocal

LEMMA ClientStarting == ClientInit => ClientIInv
BY EntriesDiffer DEF ClientInit, ClientIInv, ClientTypes, CarriersHoldTheGate, RowsRemember, WireIsOnRecord, ConnectionsTell, Flying, IsChanging

(* What the place of a process says of its record. *)
LEMMA LocalShapes ==
  ASSUME ClientTypes, NEW p \in Clients
  PROVE  /\ IsChanging(p) => at[p] \in ChangeLocal
         /\ at[p].pc = "connect" => at[p] \in ConnectLocal
         /\ at[p].pc \in {"idle", "initialize"} => at[p] \in ShortLocal
BY DEF ClientTypes, ChangeLocal, ConnectLocal, ShortLocal, IsChanging, Flying

(* One process moves and the tables stay as they are. *)
LEMMA LeavesOnly ==
  ASSUME ClientIInv, NEW p \in Clients, at' = [at EXCEPT ![p] = Rest], holder' \in {holder, IF holder = p THEN NoClient ELSE holder},
         UNCHANGED <<saved, live, rows, conns, wire, sends, served, settled>>
  PROVE  ClientIInv'
<1>1. ClientTypes /\ CarriersHoldTheGate /\ RowsRemember /\ WireIsOnRecord /\ ConnectionsTell
  BY DEF ClientIInv
<1>2. at'[p] = Rest /\ at'[p] \in ShortLocal /\ at'[p].pc = "idle" /\ \A q \in Clients \ {p} : at'[q] = at[q]
  BY <1>1, EntriesDiffer DEF ClientTypes
<1>3. ClientTypes'
  BY <1>1, <1>2 DEF ClientTypes
<1>4. \A q \in Clients \ {p} : Flying(q) => holder' = q
  BY <1>1 DEF CarriersHoldTheGate
<1>5. CarriersHoldTheGate'
  BY <1>1, <1>2, <1>4 DEF CarriersHoldTheGate, Flying, IsChanging
<1>. QED  BY <1>1, <1>3, <1>5 DEF ClientIInv, RowsRemember, WireIsOnRecord, ConnectionsTell

(* Opening the store, writing down a target, rewriting its files. *)
LEMMA StoreSteps ==
  ASSUME ClientIInv,
         \/ \E p \in Clients : Initialize(p) \/ Initialized(p)
         \/ \E t \in Targets : save(t) \/ Rewrites(t)
  PROVE  ClientIInv'
<1>0. ClientTypes /\ CarriersHoldTheGate /\ RowsRemember /\ WireIsOnRecord /\ ConnectionsTell
  BY DEF ClientIInv
<1>1. ASSUME NEW p \in Clients, Initialize(p)
      PROVE  ClientIInv'
  <2>1. /\ at' = [at EXCEPT ![p] = [pc |-> "initialize"]]
        /\ UNCHANGED <<saved, live, rows, conns, holder, wire, sends, served, settled>>
    BY <1>1 DEF Initialize
  <2>2. at'[p] \in ShortLocal /\ at'[p].pc = "initialize" /\ \A q \in Clients \ {p} : at'[q] = at[q]
    BY <1>0, <2>1 DEF ClientTypes, ShortLocal
  <2>3. ClientTypes'
    BY <1>0, <2>1, <2>2 DEF ClientTypes
  <2>4. CarriersHoldTheGate'
    BY <1>0, <2>1, <2>2 DEF CarriersHoldTheGate, Flying, IsChanging
  <2>. QED  BY <1>0, <2>1, <2>3, <2>4 DEF ClientIInv, RowsRemember, WireIsOnRecord, ConnectionsTell
<1>2. ASSUME NEW p \in Clients, Initialized(p)
      PROVE  ClientIInv'
  BY <1>2, LeavesOnly DEF Initialized, Leaves
<1>3. ASSUME NEW t \in Targets, save(t)
      PROVE  ClientIInv'
  <2>1. /\ saved[t] = NoPrint /\ saved' = [saved EXCEPT ![t] = live[t]]
        /\ UNCHANGED <<live, rows, conns, holder, at, wire, sends, served, settled>>
    BY <1>3 DEF save
  <2>2. saved' \in [Targets -> Prints \cup {NoPrint}] /\ saved'[t] # NoPrint /\ \A u \in Targets \ {t} : saved'[u] = saved[u]
    BY <1>0, <2>1, ClientAssumption DEF ClientTypes
  <2>3. ClientTypes'
    BY <1>0, <2>1, <2>2 DEF ClientTypes
  <2>4. \A p \in Clients : IsChanging(p) => at[p].target \in Targets /\ at[p].print \in Prints /\ at[p].target # t
    BY <1>0, <2>1, LocalShapes, ClientAssumption DEF ChangeLocal, CarriersHoldTheGate
  <2>5. CarriersHoldTheGate'
    BY <1>0, <2>1, <2>2, <2>4 DEF CarriersHoldTheGate, Flying, IsChanging
  <2>6. \A a \in Attempts : rows[a] # NoEntry => rows[a].target \in Targets /\ rows[a].target # t
    BY <1>0, <2>1 DEF ClientTypes, AttemptRow, RowsRemember
  <2>7. RowsRemember' /\ WireIsOnRecord'
    BY <1>0, <2>1, <2>2, <2>6 DEF RowsRemember, WireIsOnRecord, ClientTypes, Message
  <2>. QED  BY <1>0, <2>1, <2>3, <2>5, <2>7 DEF ClientIInv, ConnectionsTell
<1>4. ASSUME NEW t \in Targets, Rewrites(t)
      PROVE  ClientIInv'
  <2>1. UNCHANGED <<saved, rows, conns, holder, at, wire, sends, served, settled>> /\ live' \in [Targets -> Prints]
    BY <1>0, <1>4 DEF Rewrites, ClientTypes
  <2>. QED  BY <1>0, <2>1 DEF ClientIInv, ClientTypes, CarriersHoldTheGate, Flying, IsChanging, RowsRemember, WireIsOnRecord, ConnectionsTell
<1>. QED  BY <1>1, <1>2, <1>3, <1>4

(* A change that is asked for, the first time or again. *)
LEMMA AskingStep ==
  ASSUME ClientIInv, NEW p \in Clients,
         (\E a \in Attempts : retry(p, a)) \/ \E a \in Attempts, t \in Targets, body \in Bodies : request(p, a, t, body)
  PROVE  ClientIInv'
<1>0. ClientTypes /\ CarriersHoldTheGate /\ RowsRemember /\ WireIsOnRecord /\ ConnectionsTell
  BY DEF ClientIInv
<1>1. PICK a \in Attempts, t \in Targets, body \in Bodies, again \in BOOLEAN :
        Usable(t) /\ at' = [at EXCEPT ![p] = Change(a, t, body, again)]
  <2>1. \A a \in Attempts : rows[a] # NoEntry => rows[a].target \in Targets /\ rows[a].body \in Bodies
    BY <1>0 DEF ClientTypes, AttemptRow
  <2>. QED  BY <2>1 DEF retry, request
<1>2. UNCHANGED <<saved, live, rows, conns, holder, wire, sends, served, settled>>
  BY DEF retry, request, Keeps
<1>3. saved[t] \in Prints
  BY <1>0, <1>1 DEF Usable, ClientTypes
<1>4. /\ at'[p] \in ChangeLocal /\ at'[p].pc = "gate" /\ at'[p].print = saved[t] /\ at'[p].target = t
      /\ \A q \in Clients \ {p} : at'[q] = at[q]
  BY <1>0, <1>1, <1>3 DEF Change, ChangeLocal, ClientTypes
<1>5. ClientTypes'
  BY <1>0, <1>1, <1>2, <1>4 DEF ClientTypes
<1>6. CarriersHoldTheGate'
  BY <1>0, <1>2, <1>4 DEF CarriersHoldTheGate, Flying, IsChanging
<1>. QED  BY <1>0, <1>2, <1>5, <1>6 DEF ClientIInv, RowsRemember, WireIsOnRecord, ConnectionsTell

(* The gate is taken and the attempt written down. *)
LEMMA DeclaresStep ==
  ASSUME ClientIInv, NEW p \in Clients, Declares(p)
  PROVE  ClientIInv'
<1>0. ClientTypes /\ CarriersHoldTheGate /\ RowsRemember /\ WireIsOnRecord /\ ConnectionsTell
  BY DEF ClientIInv
<1>. DEFINE d == at[p]
            row == rows[d.id]
            new == [phase |-> "attempting", target |-> d.target, body |-> d.body, tries |-> IF row = NoEntry THEN 1 ELSE row.tries + 1]
<1>1. d \in ChangeLocal /\ d.pc = "gate" /\ d.print = saved[d.target] /\ d.id \in Attempts
  BY <1>0, LocalShapes DEF Declares, IsChanging, CarriersHoldTheGate, ChangeLocal
<1>2. CASE ~(holder = NoClient /\ Sendable(row, d))
  BY <1>2, LeavesOnly DEF Declares, Leaves, Keeps
<1>3. CASE holder = NoClient /\ Sendable(row, d)
  <2>1. /\ rows' = [rows EXCEPT ![d.id] = new] /\ holder' = p /\ at' = [at EXCEPT ![p].pc = "send"]
        /\ UNCHANGED <<saved, live, conns, wire, sends, served, settled>>
    BY <1>3 DEF Declares, Goes, Keeps
  <2>2. row = NoEntry \/ (row \in AttemptRow /\ row.target = d.target /\ row.phase # "returned")
    <3>1. row \in AttemptRow \cup {NoEntry}
      BY <1>0, <1>1 DEF ClientTypes
    <3>2. row # NoEntry => row.target = d.target /\ row.phase # "returned"
      BY <1>3 DEF Sendable, Same
    <3>. HIDE DEF row, d
    <3>. QED  BY <3>1, <3>2
  <2>3. /\ new \in AttemptRow /\ new.phase = "attempting" /\ new.target = d.target /\ sends[d.id] < new.tries
    <3>1. row \in AttemptRow => row.tries \in Nat
      BY DEF AttemptRow
    <3>2. sends[d.id] \in Nat /\ (row = NoEntry => sends[d.id] = 0) /\ (row # NoEntry => sends[d.id] <= row.tries)
      BY <1>0, <1>1 DEF ClientTypes, RowsRemember
    <3>3. d.target \in Targets /\ d.body \in Bodies
      BY <1>1 DEF ChangeLocal
    <3>. HIDE DEF row, d
    <3>. QED  BY <2>2, <3>1, <3>2, <3>3 DEF AttemptRow
  <2>4. /\ rows' \in [Attempts -> AttemptRow \cup {NoEntry}] /\ rows'[d.id] = new
        /\ \A a \in Attempts \ {d.id} : rows'[a] = rows[a]
    BY <1>0, <1>1, <2>1, <2>3 DEF ClientTypes
  <2>5. /\ at'[p] = [d EXCEPT !.pc = "send"] /\ \A q \in Clients \ {p} : at'[q] = at[q]
    BY <1>0, <2>1 DEF ClientTypes
  <2>6. /\ at'[p] \in ChangeLocal /\ at'[p].pc = "send" /\ at'[p].id = d.id /\ at'[p].target = d.target /\ at'[p].print = d.print
    BY <1>1, <2>5 DEF ChangeLocal
  <2>. HIDE DEF d, row, new
  <2>7. ClientTypes'
    BY <1>0, <2>1, <2>4, <2>5, <2>6 DEF ClientTypes
  <2>8. \A q \in Clients : ~Flying(q)
    BY <1>0, <1>3, ClientAssumption DEF CarriersHoldTheGate
  <2>9. new # NoEntry /\ saved[d.target] # NoPrint
    <3>1. d.print \in Prints
      BY <1>1 DEF ChangeLocal
    <3>. QED  BY <1>1, <2>3, <3>1, EntriesDiffer, ClientAssumption
  <2>10. CarriersHoldTheGate'
    BY <1>0, <1>1, <2>1, <2>3, <2>4, <2>5, <2>6, <2>8, <2>9 DEF CarriersHoldTheGate, Flying, IsChanging
  <2>11. /\ sends[d.id] \in Nat /\ new.tries \in Nat /\ sends[d.id] <= new.tries /\ d.id \notin settled
         /\ served[d.id] \subseteq {saved[d.target]}
    <3>1. sends[d.id] \in Nat /\ new.tries \in Nat
      BY <1>0, <1>1, <2>3 DEF ClientTypes, AttemptRow
    <3>2. row = rows[d.id]
      BY DEF row
    <3>. QED  BY <1>0, <1>1, <2>2, <2>3, <3>1, <3>2, EntriesDiffer DEF RowsRemember
  <2>12. RowsRemember'
    BY <1>0, <1>1, <2>1, <2>3, <2>4, <2>9, <2>11 DEF RowsRemember
  <2>13. \A m \in wire : m.id \in Attempts /\ (m.id = d.id => m.to = saved[d.target])
    <3>1. row = rows[d.id] /\ \A m \in wire : m.id \in Attempts
      BY <1>0 DEF row, ClientTypes, Message
    <3>. QED  BY <1>0, <1>1, <2>2, <3>1, EntriesDiffer DEF WireIsOnRecord
  <2>14. WireIsOnRecord'
    BY <1>0, <2>1, <2>3, <2>4, <2>9, <2>13 DEF WireIsOnRecord
  <2>. QED  BY <1>0, <2>1, <2>7, <2>10, <2>12, <2>14 DEF ClientIInv, ConnectionsTell
<1>. QED  BY <1>2, <1>3

(* The session and its end. *)
LEMMA SessionStep ==
  ASSUME ClientIInv, NEW p \in Clients, Sends(p) \/ Fails(p) \/ Hears(p)
  PROVE  ClientIInv'
<1>0. ClientTypes /\ CarriersHoldTheGate /\ RowsRemember /\ WireIsOnRecord /\ ConnectionsTell
  BY DEF ClientIInv
<1>. DEFINE d == at[p]
<1>1. d \in ChangeLocal /\ Flying(p) /\ d.print = saved[d.target] /\ d.id \in Attempts
  BY <1>0, LocalShapes DEF Sends, Fails, Hears, IsChanging, Flying, CarriersHoldTheGate, ChangeLocal
<1>2. /\ holder = p /\ rows[d.id] # NoEntry /\ rows[d.id].phase = "attempting" /\ rows[d.id].target = d.target
      /\ rows[d.id] \in AttemptRow
  BY <1>0, <1>1 DEF CarriersHoldTheGate, ClientTypes
<1>3. CASE Sends(p)
  <2>. DEFINE m == [id |-> d.id, to |-> d.print, by |-> p, n |-> sends[d.id] + 1, answer |-> "none"]
  <2>1. /\ wire' = wire \cup {m} /\ sends' = [sends EXCEPT ![d.id] = @ + 1] /\ at' = [at EXCEPT ![p].pc = "wait"]
        /\ d.pc = "send" /\ UNCHANGED <<saved, live, rows, conns, holder, served, settled>>
    BY <1>3 DEF Sends, Goes, Keeps
  <2>2. /\ sends' \in [Attempts -> Nat] /\ sends'[d.id] = sends[d.id] + 1 /\ sends[d.id] \in Nat
        /\ \A a \in Attempts \ {d.id} : sends'[a] = sends[a]
    BY <1>0, <1>1, <2>1 DEF ClientTypes
  <2>3. m \in Message /\ m.id = d.id /\ m.to = d.print /\ m.answer = "none"
    BY <1>1, <2>2 DEF Message, ChangeLocal
  <2>4. /\ at'[p] = [d EXCEPT !.pc = "wait"] /\ \A q \in Clients \ {p} : at'[q] = at[q]
    BY <1>0, <2>1 DEF ClientTypes
  <2>5. /\ at'[p] \in ChangeLocal /\ at'[p].pc = "wait" /\ at'[p].id = d.id /\ at'[p].target = d.target /\ at'[p].print = d.print
    BY <1>1, <2>4 DEF ChangeLocal
  <2>6. sends[d.id] < rows[d.id].tries /\ rows[d.id].tries \in Nat
    BY <1>0, <1>2, <2>1 DEF CarriersHoldTheGate, AttemptRow
  <2>. HIDE DEF d, m
  <2>7. ClientTypes'
    BY <1>0, <2>1, <2>2, <2>3, <2>4, <2>5 DEF ClientTypes
  <2>8. \A q \in Clients \ {p} : ~Flying(q)
    BY <1>0, <1>2 DEF CarriersHoldTheGate
  <2>9. CarriersHoldTheGate'
    BY <1>0, <1>1, <1>2, <2>1, <2>4, <2>5, <2>8 DEF CarriersHoldTheGate, Flying, IsChanging
  <2>10. RowsRemember'
    BY <1>0, <1>1, <1>2, <2>1, <2>2, <2>6 DEF RowsRemember
  <2>11. WireIsOnRecord'
    BY <1>0, <1>1, <1>2, <2>1, <2>3 DEF WireIsOnRecord
  <2>. QED  BY <1>0, <2>1, <2>7, <2>9, <2>10, <2>11 DEF ClientIInv, ConnectionsTell
<1>4. ASSUME NEW reply \in {"error", "done", "refused"}, at' = [at EXCEPT ![p].pc = "record", ![p].reply = reply],
             reply = "done" => served[d.id] # {}, wire' \subseteq wire,
             UNCHANGED <<saved, live, rows, conns, holder, sends, served, settled>>
      PROVE  ClientIInv'
  <2>1. /\ at'[p] = [d EXCEPT !.pc = "record", !.reply = reply] /\ \A q \in Clients \ {p} : at'[q] = at[q]
    BY <1>0, <1>4 DEF ClientTypes
  <2>2. /\ at'[p] \in ChangeLocal /\ at'[p].pc = "record" /\ at'[p].id = d.id /\ at'[p].target = d.target /\ at'[p].print = d.print
        /\ at'[p].reply = reply
    BY <1>1, <2>1 DEF ChangeLocal
  <2>. HIDE DEF d
  <2>3. ClientTypes'
    BY <1>0, <1>4, <2>1, <2>2 DEF ClientTypes
  <2>a. \A q \in Clients \ {p} : ~Flying(q)
    BY <1>0, <1>2 DEF CarriersHoldTheGate
  <2>4. CarriersHoldTheGate'
    <3>1. /\ at'[p].print = saved'[at'[p].target] /\ holder' = p /\ rows'[at'[p].id] # NoEntry
          /\ rows'[at'[p].id].phase = "attempting" /\ rows'[at'[p].id].target = at'[p].target
          /\ at'[p].reply = "done" => served'[at'[p].id] # {}
      BY <1>1, <1>2, <1>4, <2>2
    <3>2. \A q \in Clients \ {p} : at'[q] = at[q] /\ ~Flying(q)
      BY <2>1, <2>a
    <3>3. \A q \in Clients \ {p} :
            /\ (at[q].pc = "gate" => at[q].print = saved[at[q].target]) /\ at[q].pc \notin {"send", "wait", "record"}
            /\ at[q].pc = "connect" => conns[at[q].id] # NoEntry
      BY <1>0, <3>2 DEF CarriersHoldTheGate, Flying, IsChanging
    <3>4. \A q \in Clients \ {p} :
            /\ (at'[q].pc = "gate" => at'[q].print = saved'[at'[q].target]) /\ at'[q].pc \notin {"send", "wait", "record"}
            /\ at'[q].pc = "connect" => conns'[at'[q].id] # NoEntry
      BY <1>4, <3>2, <3>3
    <3>. QED  BY <2>2, <3>1, <3>4 DEF CarriersHoldTheGate, Flying, IsChanging
  <2>. QED  BY <1>0, <1>4, <2>3, <2>4 DEF ClientIInv, RowsRemember, WireIsOnRecord, ConnectionsTell
<1>5. CASE Fails(p)
  BY <1>4, <1>5 DEF Fails, Keeps
<1>6. CASE Hears(p)
  <2>1. PICK m \in wire : /\ m.id = d.id /\ m.answer # "none" /\ wire' = wire \ {m}
                          /\ at' = [at EXCEPT ![p].pc = "record", ![p].reply = m.answer]
    BY <1>6 DEF Hears
  <2>2. m.answer \in {"done", "refused"} /\ (m.answer = "done" => served[d.id] # {})
    BY <1>0, <2>1 DEF ClientTypes, Message, WireIsOnRecord
  <2>3. UNCHANGED <<saved, live, rows, conns, holder, sends, served, settled>>
    BY <1>6 DEF Hears, Keeps
  <2>. QED  BY <1>4, <2>1, <2>2, <2>3
<1>. QED  BY <1>3, <1>5, <1>6

(* A server answers; it may have carried the change out. *)
LEMMA ServesStep ==
  ASSUME ClientIInv, NEW m \in wire, Serves(m)
  PROVE  ClientIInv'
<1>0. ClientTypes /\ CarriersHoldTheGate /\ RowsRemember /\ WireIsOnRecord /\ ConnectionsTell
  BY DEF ClientIInv
<1>1. PICK answer \in {"done", "refused"} :
        /\ wire' = (wire \ {m}) \cup {[m EXCEPT !.answer = answer]}
        /\ served' = (IF answer = "done" THEN [served EXCEPT ![m.id] = @ \cup {m.to}] ELSE served)
  BY DEF Serves
<1>2. UNCHANGED <<saved, live, rows, conns, holder, at, sends, settled>>
  BY DEF Serves, Keeps
<1>3. m \in Message /\ m.id \in Attempts /\ rows[m.id] # NoEntry /\ m.to = saved[rows[m.id].target]
  BY <1>0 DEF ClientTypes, Message, WireIsOnRecord
<1>. DEFINE told == [m EXCEPT !.answer = answer]
<1>4. told \in Message /\ told.id = m.id /\ told.to = m.to /\ told.answer = answer
  BY <1>3 DEF Message
<1>5. /\ served' \in [Attempts -> SUBSET Prints] /\ \A a \in Attempts : served[a] \subseteq served'[a]
      /\ \A a \in Attempts \ {m.id} : served'[a] = served[a]
      /\ served'[m.id] \subseteq served[m.id] \cup {m.to} /\ (answer = "done" => served'[m.id] # {})
  <2>1. m.to \in Prints
    BY <1>3 DEF Message
  <2>. QED  BY <1>0, <1>1, <1>3, <2>1 DEF ClientTypes
<1>. HIDE DEF told
<1>6. wire' = (wire \ {m}) \cup {told}
  BY <1>1 DEF told
<1>7. ClientTypes'
  BY <1>0, <1>2, <1>4, <1>5, <1>6 DEF ClientTypes
<1>8. CarriersHoldTheGate'
  <2>1. \A p \in Clients : Flying(p) => at[p].id \in Attempts
    BY <1>0, LocalShapes DEF IsChanging, ChangeLocal
  <2>. QED  BY <1>0, <1>2, <1>5, <2>1 DEF CarriersHoldTheGate, Flying, IsChanging
<1>9. RowsRemember'
  BY <1>0, <1>2, <1>3, <1>5 DEF RowsRemember
<1>10. WireIsOnRecord'
  <2>1. \A n \in wire : n.id \in Attempts
    BY <1>0 DEF ClientTypes, Message
  <2>. QED  BY <1>0, <1>2, <1>3, <1>4, <1>5, <1>6, <2>1 DEF WireIsOnRecord
<1>. QED  BY <1>0, <1>2, <1>7, <1>8, <1>9, <1>10 DEF ClientIInv, ConnectionsTell

(* What became of the change is written down, if it can be. *)
LEMMA RecordsStep ==
  ASSUME ClientIInv, NEW p \in Clients, Records(p)
  PROVE  ClientIInv'
<1>0. ClientTypes /\ CarriersHoldTheGate /\ RowsRemember /\ WireIsOnRecord /\ ConnectionsTell
  BY DEF ClientIInv
<1>. DEFINE d == at[p]
            phase == Phase(d)
<1>1. d \in ChangeLocal /\ Flying(p) /\ d.pc = "record" /\ d.id \in Attempts
  BY <1>0, LocalShapes DEF Records, IsChanging, Flying, ChangeLocal
<1>2. /\ holder = p /\ rows[d.id] # NoEntry /\ rows[d.id].phase = "attempting" /\ rows[d.id] \in AttemptRow
      /\ d.reply = "done" => served[d.id] # {}
  BY <1>0, <1>1 DEF CarriersHoldTheGate, ClientTypes
<1>3. holder' = NoClient /\ at' = [at EXCEPT ![p] = Rest] /\ UNCHANGED <<saved, live, conns, wire, sends, served>>
  BY DEF Records, Leaves, Keeps
<1>4. CASE UNCHANGED <<rows, settled>>
  BY <1>2, <1>3, <1>4, LeavesOnly
<1>5. CASE /\ rows' = [rows EXCEPT ![d.id].phase = phase]
           /\ settled' = IF phase = "returned" THEN settled \cup {d.id} ELSE settled
  <2>1. phase \in {"returned", "unknown"} /\ (phase = "returned" => served[d.id] # {})
    BY <1>2 DEF Phase
  <2>. HIDE DEF phase
  <2>2. /\ rows'[d.id] = [rows[d.id] EXCEPT !.phase = phase] /\ \A a \in Attempts \ {d.id} : rows'[a] = rows[a]
    BY <1>0, <1>1, <1>5 DEF ClientTypes
  <2>3. /\ rows'[d.id] \in AttemptRow /\ rows'[d.id].phase = phase /\ rows'[d.id].target = rows[d.id].target
        /\ rows'[d.id].tries = rows[d.id].tries
    BY <1>2, <2>1, <2>2 DEF AttemptRow
  <2>4. rows' \in [Attempts -> AttemptRow \cup {NoEntry}] /\ rows'[d.id] # NoEntry
    BY <1>0, <1>5, <2>2, <2>3, EntriesDiffer DEF ClientTypes
  <2>5. at'[p] = Rest /\ at'[p] \in ShortLocal /\ at'[p].pc = "idle" /\ \A q \in Clients \ {p} : at'[q] = at[q]
    BY <1>0, <1>3, EntriesDiffer DEF ClientTypes
  <2>6. \A q \in Clients \ {p} : ~Flying(q)
    BY <1>0, <1>2 DEF CarriersHoldTheGate
  <2>. HIDE DEF d
  <2>7. ClientTypes'
    BY <1>0, <1>3, <2>4, <2>5 DEF ClientTypes
  <2>8. CarriersHoldTheGate'
    BY <1>0, <1>3, <2>5, <2>6 DEF CarriersHoldTheGate, Flying, IsChanging
  <2>9. RowsRemember'
    BY <1>0, <1>1, <1>2, <1>3, <1>5, <2>1, <2>2, <2>3, <2>4 DEF RowsRemember
  <2>10. WireIsOnRecord'
    <3>1. \A m \in wire : m.id \in Attempts
      BY <1>0 DEF ClientTypes, Message
    <3>2. \A a \in Attempts : rows[a] # NoEntry => rows'[a] # NoEntry /\ rows'[a].target = rows[a].target
      BY <2>2, <2>3, <2>4
    <3>. QED  BY <1>0, <1>3, <3>1, <3>2 DEF WireIsOnRecord
  <2>. QED  BY <1>0, <1>3, <2>7, <2>8, <2>9, <2>10 DEF ClientIInv, ConnectionsTell
<1>6. \/ UNCHANGED <<rows, settled>>
      \/ /\ rows' = [rows EXCEPT ![d.id].phase = phase]
         /\ settled' = IF phase = "returned" THEN settled \cup {d.id} ELSE settled
  BY DEF Records
<1>. QED  BY <1>4, <1>5, <1>6

(* Connections, and a process that is killed. *)
LEMMA ConnectionStep ==
  ASSUME ClientIInv,
         \/ \E p \in Clients : Connected(p) \/ Dies(p) \/ \E c \in Connections, t \in Targets : connect(p, c, t)
         \/ \E c \in Connections, t \in Targets : cancel(c, t)
  PROVE  ClientIInv'
<1>0. ClientTypes /\ CarriersHoldTheGate /\ RowsRemember /\ WireIsOnRecord /\ ConnectionsTell
  BY DEF ClientIInv
<1>1. ASSUME NEW p \in Clients, Dies(p)
      PROVE  ClientIInv'
  BY <1>1, LeavesOnly DEF Dies, Leaves, Keeps
<1>2. ASSUME NEW p \in Clients, NEW c \in Connections, NEW t \in Targets, connect(p, c, t)
      PROVE  ClientIInv'
  <2>. DEFINE new == [phase |-> "connecting", target |-> t, cancel |-> FALSE, told |-> "none"]
              d == [pc |-> "connect", id |-> c, target |-> t, print |-> saved[t]]
  <2>1. /\ conns' = [conns EXCEPT ![c] = new] /\ at' = [at EXCEPT ![p] = d] /\ saved[t] \in Prints
        /\ UNCHANGED <<saved, live, rows, holder, wire, sends, served, settled>>
    BY <1>0, <1>2 DEF connect, Usable, Keeps, ClientTypes
  <2>2. /\ new \in ConnectionRow /\ new.phase = "connecting" /\ new.cancel = FALSE /\ new.told = "none"
        /\ d \in ConnectLocal /\ d.pc = "connect" /\ d.id = c
    BY <2>1 DEF ConnectionRow, ConnectLocal
  <2>. HIDE DEF new, d
  <2>3. /\ at'[p] = d /\ \A q \in Clients \ {p} : at'[q] = at[q]
        /\ conns'[c] = new /\ \A e \in Connections \ {c} : conns'[e] = conns[e]
    BY <1>0, <2>1 DEF ClientTypes
  <2>4. ClientTypes'
    BY <1>0, <2>1, <2>2, <2>3 DEF ClientTypes
  <2>5. new # NoEntry
    BY <2>2, EntriesDiffer
  <2>6. \A q \in Clients : at[q].pc = "connect" => at[q].id \in Connections
    BY <1>0, LocalShapes DEF ConnectLocal
  <2>7. CarriersHoldTheGate'
    BY <1>0, <2>1, <2>2, <2>3, <2>5, <2>6 DEF CarriersHoldTheGate, Flying, IsChanging
  <2>8. ConnectionsTell'
    <3>1. (new.cancel = (new.phase = "cancelled")) /\ (new.told = "returned" => new.phase = "returned")
      BY <2>2
    <3>. QED  BY <1>0, <2>3, <3>1 DEF ConnectionsTell
  <2>. QED  BY <1>0, <2>1, <2>4, <2>7, <2>8 DEF ClientIInv, RowsRemember, WireIsOnRecord
<1>3. ASSUME NEW c \in Connections, NEW new \in ConnectionRow, conns' = [conns EXCEPT ![c] = new],
             new.cancel = (new.phase = "cancelled"), new.told = "returned" => new.phase = "returned",
             UNCHANGED <<saved, live, rows, wire, sends, served, settled>>
      PROVE  /\ conns' \in [Connections -> ConnectionRow \cup {NoEntry}] /\ ConnectionsTell'
             /\ \A e \in Connections : conns[e] # NoEntry => conns'[e] # NoEntry
  <2>1. conns'[c] = new /\ \A e \in Connections \ {c} : conns'[e] = conns[e]
    BY <1>0, <1>3 DEF ClientTypes
  <2>. QED  BY <1>0, <1>3, <2>1, EntriesDiffer DEF ConnectionsTell, ClientTypes
<1>4. ASSUME NEW p \in Clients, Connected(p)
      PROVE  ClientIInv'
  <2>. DEFINE c == at[p].id
  <2>1. c \in Connections /\ conns[c] \in ConnectionRow /\ at[p].pc = "connect"
    BY <1>0, <1>4, LocalShapes DEF Connected, ConnectLocal, CarriersHoldTheGate, ClientTypes
  <2>2. PICK reply \in {"done", "error"} : LET phase == Outcome(at[p], reply) IN
          conns' = [conns EXCEPT ![c].phase = phase, ![c].told = phase]
    BY <1>4 DEF Connected
  <2>. DEFINE phase == Outcome(at[p], reply)
              new == [conns[c] EXCEPT !.phase = phase, !.told = phase]
  <2>3. /\ conns' = [conns EXCEPT ![c] = new]
    BY <1>0, <2>1, <2>2 DEF ClientTypes
  <2>4. phase \in {"cancelled", "returned", "unknown"} /\ conns[c].cancel = (phase = "cancelled") /\ conns[c].cancel \in BOOLEAN
    <3>1. conns[c].cancel \in BOOLEAN
      BY <2>1 DEF ConnectionRow
    <3>2. phase = IF conns[c].cancel THEN "cancelled" ELSE IF reply = "done" /\ live[at[p].target] = at[p].print THEN "returned" ELSE "unknown"
      BY DEF Outcome
    <3>. HIDE DEF phase, c
    <3>. QED  BY <3>1, <3>2
  <2>. HIDE DEF phase
  <2>5. new \in ConnectionRow /\ new.phase = phase /\ new.told = phase /\ new.cancel = conns[c].cancel
    BY <2>1, <2>4 DEF ConnectionRow
  <2>. HIDE DEF new, c
  <2>6. /\ at' = [at EXCEPT ![p] = Rest] /\ UNCHANGED <<saved, live, rows, holder, wire, sends, served, settled>>
    BY <1>4 DEF Connected, Leaves, Keeps
  <2>7. /\ conns' \in [Connections -> ConnectionRow \cup {NoEntry}] /\ ConnectionsTell'
        /\ \A e \in Connections : conns[e] # NoEntry => conns'[e] # NoEntry
    BY <1>3, <2>1, <2>3, <2>4, <2>5, <2>6
  <2>8. at'[p] = Rest /\ at'[p] \in ShortLocal /\ at'[p].pc = "idle" /\ \A q \in Clients \ {p} : at'[q] = at[q]
    BY <1>0, <2>6, EntriesDiffer DEF ClientTypes
  <2>9. ClientTypes'
    BY <1>0, <2>6, <2>7, <2>8 DEF ClientTypes
  <2>10. \A q \in Clients : at[q].pc = "connect" => at[q].id \in Connections
    BY <1>0, LocalShapes DEF ConnectLocal
  <2>11. CarriersHoldTheGate'
    BY <1>0, <2>6, <2>7, <2>8, <2>10 DEF CarriersHoldTheGate, Flying, IsChanging
  <2>. QED  BY <1>0, <2>6, <2>7, <2>9, <2>11 DEF ClientIInv, RowsRemember, WireIsOnRecord
<1>5. ASSUME NEW c \in Connections, NEW t \in Targets, cancel(c, t)
      PROVE  ClientIInv'
  <2>1. UNCHANGED <<saved, live, rows, holder, at, wire, sends, served, settled>>
    BY <1>5 DEF cancel, Keeps
  <2>2. \E new \in ConnectionRow : /\ conns' = [conns EXCEPT ![c] = new] /\ new.cancel = (new.phase = "cancelled")
                                   /\ new.told = "returned" => new.phase = "returned"
    <3>1. CASE conns[c] = NoEntry /\ conns' = [conns EXCEPT ![c] = [phase |-> "cancelled", target |-> t, cancel |-> TRUE, told |-> "none"]]
      <4>. DEFINE new == [phase |-> "cancelled", target |-> t, cancel |-> TRUE, told |-> "none"]
      <4>1. new \in ConnectionRow /\ new.phase = "cancelled" /\ new.cancel = TRUE /\ new.told = "none"
        BY DEF ConnectionRow
      <4>2. conns' = [conns EXCEPT ![c] = new]
        BY <3>1
      <4>. HIDE DEF new
      <4>. QED  BY <4>1, <4>2
    <3>2. CASE /\ conns[c] # NoEntry /\ conns[c].phase \in {"connecting", "unknown"}
               /\ conns' = [conns EXCEPT ![c].phase = "cancelled", ![c].cancel = TRUE]
      <4>. DEFINE new == [conns[c] EXCEPT !.phase = "cancelled", !.cancel = TRUE]
      <4>1. conns[c] \in ConnectionRow /\ conns' = [conns EXCEPT ![c] = new] /\ conns[c].told # "returned"
        BY <1>0, <3>2 DEF ClientTypes, ConnectionsTell
      <4>2. new \in ConnectionRow /\ new.phase = "cancelled" /\ new.cancel = TRUE /\ new.told = conns[c].told
        BY <4>1 DEF ConnectionRow
      <4>. HIDE DEF new
      <4>. QED  BY <4>1, <4>2
    <3>. QED  BY <1>5, <3>1, <3>2 DEF cancel
  <2>3. /\ conns' \in [Connections -> ConnectionRow \cup {NoEntry}] /\ ConnectionsTell'
        /\ \A e \in Connections : conns[e] # NoEntry => conns'[e] # NoEntry
    BY <1>3, <2>1, <2>2
  <2>4. \A q \in Clients : at[q].pc = "connect" => at[q].id \in Connections
    BY <1>0, LocalShapes DEF ConnectLocal
  <2>. QED  BY <1>0, <2>1, <2>3, <2>4 DEF ClientIInv, ClientTypes, CarriersHoldTheGate, Flying, IsChanging, RowsRemember, WireIsOnRecord
<1>. QED  BY <1>1, <1>2, <1>4, <1>5

LEMMA ClientStep == ClientIInv /\ [ClientNext]_clientVars => ClientIInv'
<1>. SUFFICES ASSUME ClientIInv, [ClientNext]_clientVars
              PROVE  ClientIInv'
  OBVIOUS
<1>1. CASE UNCHANGED clientVars
  BY <1>1 DEF clientVars, ClientIInv, ClientTypes, CarriersHoldTheGate, Flying, IsChanging, RowsRemember, WireIsOnRecord, ConnectionsTell
<1>. QED
  BY <1>1, StoreSteps, AskingStep, DeclaresStep, SessionStep, ServesStep, RecordsStep, ConnectionStep DEF ClientNext

(* No change reaches a server that is not on record with it or more often than somebody asked, one that returned was *)
(* carried out and stays returned, and a cancelled connection is never told as made, whoever is killed and whatever  *)
(* arrives late (request, retry, connect and cancel of ctflab_client_store).                                         *)
THEOREM NothingIsEverSentUnasked == ClientSpec => []NothingIsSentUnasked
<1>1. ClientIInv => NothingIsSentUnasked
  <2>. SUFFICES ASSUME ClientIInv
                PROVE  NothingIsSentUnasked
    OBVIOUS
  <2>1. ClientTypes /\ CarriersHoldTheGate /\ RowsRemember /\ ConnectionsTell
    BY DEF ClientIInv
  <2>2. \A p \in InFlight : holder = p /\ rows[at[p].id].phase = "attempting"
    BY <2>1 DEF InFlight, CarriersHoldTheGate, Flying
  <2>3. \A a \in Attempts : rows[a] \in AttemptRow \cup {NoEntry} /\ NoEntry.phase = "none" /\ sends[a] \in Nat
    BY <2>1 DEF ClientTypes, NoEntry
  <2>4. ASSUME NEW a \in Attempts
        PROVE  /\ sends[a] > 0 => rows[a] # NoEntry /\ sends[a] <= rows[a].tries
               /\ served[a] # {} => served[a] = {saved[rows[a].target]}
               /\ rows[a].phase = "returned" => served[a] # {} /\ \A p \in InFlight : at[p].id # a
               /\ a \in settled => rows[a].phase = "returned"
    <3>1. CASE rows[a] = NoEntry
      BY <2>1, <2>3, <3>1 DEF RowsRemember
    <3>2. CASE rows[a] # NoEntry
      BY <2>1, <2>2, <2>3, <3>2 DEF RowsRemember
    <3>. QED  BY <3>1, <3>2
  <2>5. \A c \in Connections : conns[c] # NoEntry =>
          (conns[c].cancel = (conns[c].phase = "cancelled")) /\ (conns[c].told = "returned" => ~conns[c].cancel)
    <3>1. \A c \in Connections : conns[c] # NoEntry => conns[c].cancel \in BOOLEAN
      BY <2>1 DEF ClientTypes, ConnectionRow
    <3>. QED  BY <2>1, <3>1 DEF ConnectionsTell
  <2>. QED  BY <2>2, <2>4, <2>5 DEF NothingIsSentUnasked
<1>. QED  BY <1>1, ClientStarting, ClientStep, PTL DEF ClientSpec

-----------------------------------------------------------------------------
(***************************************************************************)
(* Installed versions.  A running application keeps its launch unsettled,  *)
(* and an update in progress keeps what it checked: the gate and the       *)
(* database are its own until it commits or dies.                          *)
(***************************************************************************)
LaunchRow ==
  [version : Versions \cup {Nobody}, files : SUBSET {"dir", "intent", "spawned", "identity", "exit", "settled"}, app : {"none", "running", "gone"}]
UpdateRow ==
  [files : SUBSET {"dir", "intent", "backup", "resolution"}, row : {"none", "committed", "abandoned"},
   target : Versions \cup {Nobody}, previous : Versions \cup {Nobody}]

ReleaseTypes ==
  /\ listed \subseteq placed /\ listed \subseteq Versions
  /\ pointers \in [active : Versions \cup {Nobody}, previous : Versions \cup {Nobody}]
  /\ launches \in [Launches -> LaunchRow] /\ journal \in [Updates -> UpdateRow]
  /\ spaces \in [Workspaces -> [registered : BOOLEAN, busy : BOOLEAN]]

RunningIsUnsettled ==
  \A l \in Launches : launches[l].app = "running" => launches[l].files # {} /\ {"exit", "settled"} \cap launches[l].files = {}

Others(u) == \A v \in Updates \ {u} : journal[v].files = {} \/ journal[v].row \in {"committed", "abandoned"}
UpdateIsAlone ==
  applying # Nobody =>
    /\ applying \in Updates /\ gate = [kind |-> "apply", id |-> applying]
    /\ journal[applying].target \in listed /\ journal[applying].row = "none"
    /\ Others(applying) /\ AtRest
    /\ \A l \in Launches : launches[l].app # "running"

ReleaseIInv == ReleaseTypes /\ RunningIsUnsettled /\ UpdateIsAlone

LEMMA ReleaseStarting == ReleaseInit => ReleaseIInv
<1>. SUFFICES ASSUME ReleaseInit
              PROVE  ReleaseIInv
  OBVIOUS
<1>1. NoLaunch \in LaunchRow /\ NoUpdate \in UpdateRow /\ NoLaunch.app = "none"
  BY DEF NoLaunch, NoUpdate, LaunchRow, UpdateRow
<1>. QED  BY <1>1 DEF ReleaseInit, ReleaseIInv, ReleaseTypes, RunningIsUnsettled, UpdateIsAlone

(* No application runs when every launch is settled. *)
LEMMA CheckedIsQuiet ==
  ASSUME RunningIsUnsettled, LaunchesChecked, NEW l \in Launches
  PROVE  launches[l].app # "running"
BY DEF RunningIsUnsettled, LaunchesChecked, ExitKnown

(* Nothing is written into the version database while an update is applied. *)
LEMMA DatabaseIsTheUpdates == ReleaseIInv /\ DatabaseFree => applying = Nobody
<1>. SUFFICES ASSUME ReleaseIInv, DatabaseFree, applying # Nobody
              PROVE  FALSE
  OBVIOUS
<1>1. applying \in Updates /\ gate = [kind |-> "apply", id |-> applying]
  BY DEF ReleaseIInv, UpdateIsAlone
<1>2. gate # Nobody /\ gate.kind = "apply"
  BY <1>1, ReleaseAssumption
<1>. QED  BY <1>2 DEF DatabaseFree

(* The gate is free, or it is no update's: no update is applied. *)
LEMMA GateIsTheUpdates ==
  ASSUME ReleaseIInv, gate = Nobody \/ \E l \in Launches : Launching(l) \/ gate = [kind |-> "settle", id |-> l]
  PROVE  applying = Nobody
<1>. SUFFICES ASSUME applying # Nobody
              PROVE  FALSE
  OBVIOUS
<1>1. applying \in Updates /\ gate = [kind |-> "apply", id |-> applying]
  BY DEF ReleaseIInv, UpdateIsAlone
<1>2. gate # Nobody /\ gate.kind = "apply"
  BY <1>1, ReleaseAssumption
<1>. QED  BY <1>2 DEF Launching

(* A launch writes a file or its application begins or ends. *)
LEMMA LaunchMoves ==
  ASSUME ReleaseTypes, RunningIsUnsettled, NEW l \in Launches, NEW row \in LaunchRow, launches' = [launches EXCEPT ![l] = row],
         row.app = "running" => row.files # {} /\ {"exit", "settled"} \cap row.files = {}
  PROVE  launches' \in [Launches -> LaunchRow] /\ RunningIsUnsettled'
BY DEF ReleaseTypes, RunningIsUnsettled

LEMMA Noting ==
  ASSUME ReleaseTypes, RunningIsUnsettled, NEW l \in Launches, NEW name \in {"intent", "spawned", "identity", "exit", "settled"},
         Note(l, name), name \in {"exit", "settled"} => launches[l].app # "running"
  PROVE  /\ launches' \in [Launches -> LaunchRow] /\ RunningIsUnsettled'
         /\ \A k \in Launches : launches'[k].app = launches[k].app
<1>. DEFINE row == [launches[l] EXCEPT !.files = launches[l].files \cup {name}]
<1>1. launches[l] \in LaunchRow /\ launches' = [launches EXCEPT ![l] = row]
  BY DEF ReleaseTypes, Note
<1>2. row \in LaunchRow /\ row.app = launches[l].app /\ row.files = launches[l].files \cup {name}
  BY <1>1 DEF LaunchRow
<1>. HIDE DEF row
<1>3. row.app = "running" => row.files # {} /\ {"exit", "settled"} \cap row.files = {}
  BY <1>2 DEF RunningIsUnsettled
<1>4. \A k \in Launches : launches'[k].app = launches[k].app
  BY <1>1, <1>2 DEF ReleaseTypes
<1>. QED  BY <1>1, <1>2, <1>3, <1>4, LaunchMoves

LEMMA ShelfSteps ==
  ASSUME ReleaseIInv,
         \/ \E v \in Versions : Activate(v) \/ \E commits \in BOOLEAN : Stage(v, commits)
         \/ \E w \in Workspaces : Register(w) \/ Workspace(w)
         \/ Rollback
  PROVE  ReleaseIInv'
<1>1. ReleaseTypes /\ RunningIsUnsettled /\ UpdateIsAlone
  BY DEF ReleaseIInv
<1>2. ASSUME NEW v \in Versions, NEW commits \in BOOLEAN, Stage(v, commits)
      PROVE  ReleaseIInv'
  <2>1. applying = Nobody /\ applying' = applying
    BY <1>2, DatabaseIsTheUpdates DEF Stage
  <2>2. ReleaseTypes' /\ RunningIsUnsettled'
    BY <1>1, <1>2 DEF Stage, ReleaseTypes, RunningIsUnsettled
  <2>. QED  BY <2>1, <2>2 DEF ReleaseIInv, UpdateIsAlone
<1>3. ASSUME NEW v \in Versions, Activate(v)
      PROVE  ReleaseIInv'
  <2>1. applying = Nobody /\ applying' = applying
    BY <1>3, GateIsTheUpdates DEF Activate, SwitchGuard
  <2>2. pointers' \in [active : Versions \cup {Nobody}, previous : Versions \cup {Nobody}]
    BY <1>1, <1>3 DEF Activate, ReleaseTypes
  <2>3. ReleaseTypes' /\ RunningIsUnsettled'
    BY <1>1, <1>3, <2>2 DEF Activate, ReleaseTypes, RunningIsUnsettled
  <2>. QED  BY <2>1, <2>3 DEF ReleaseIInv, UpdateIsAlone
<1>4. CASE Rollback
  <2>1. applying = Nobody /\ applying' = applying
    BY <1>4, GateIsTheUpdates DEF Rollback, SwitchGuard
  <2>2. pointers' \in [active : Versions \cup {Nobody}, previous : Versions \cup {Nobody}]
    BY <1>1, <1>4 DEF Rollback, ReleaseTypes
  <2>3. ReleaseTypes' /\ RunningIsUnsettled'
    BY <1>1, <1>4, <2>2 DEF Rollback, ReleaseTypes, RunningIsUnsettled
  <2>. QED  BY <2>1, <2>3 DEF ReleaseIInv, UpdateIsAlone
<1>5. ASSUME NEW w \in Workspaces, Register(w)
      PROVE  ReleaseIInv'
  <2>1. applying = Nobody /\ applying' = applying
    BY <1>5, DatabaseIsTheUpdates DEF Register
  <2>2. spaces' \in [Workspaces -> [registered : BOOLEAN, busy : BOOLEAN]]
    BY <1>1, <1>5 DEF Register, ReleaseTypes
  <2>3. ReleaseTypes' /\ RunningIsUnsettled'
    BY <1>1, <1>5, <2>2 DEF Register, ReleaseTypes, RunningIsUnsettled
  <2>. QED  BY <2>1, <2>3 DEF ReleaseIInv, UpdateIsAlone
<1>6. ASSUME NEW w \in Workspaces, Workspace(w)
      PROVE  ReleaseIInv'
  <2>1. PICK turned \in BOOLEAN : spaces' = [spaces EXCEPT ![w].busy = turned]
    <3>1. spaces' = [spaces EXCEPT ![w].busy = ~spaces[w].busy]
      BY <1>6 DEF Workspace
    <3>2. (~spaces[w].busy) \in BOOLEAN
      OBVIOUS
    <3>. QED  BY <3>1, <3>2
  <2>. DEFINE row == [spaces[w] EXCEPT !.busy = turned]
  <2>2. spaces[w] \in [registered : BOOLEAN, busy : BOOLEAN] /\ spaces' = [spaces EXCEPT ![w] = row]
    BY <1>1, <2>1 DEF ReleaseTypes
  <2>3. row \in [registered : BOOLEAN, busy : BOOLEAN] /\ row.registered = spaces[w].registered
    BY <2>2
  <2>. HIDE DEF row
  <2>4. spaces' \in [Workspaces -> [registered : BOOLEAN, busy : BOOLEAN]]
    BY <1>1, <2>2, <2>3 DEF ReleaseTypes
  <2>5. ReleaseTypes' /\ RunningIsUnsettled'
    BY <1>1, <1>6, <2>4 DEF Workspace, ReleaseTypes, RunningIsUnsettled
  <2>6. applying # Nobody => AtRest'
    <3>1. SUFFICES ASSUME applying # Nobody, NEW x \in Workspaces, spaces'[x].registered
                   PROVE  ~spaces'[x].busy
      BY DEF AtRest, Registered
    <3>2. ~spaces[w].registered /\ AtRest
      BY <1>1, <1>6, <3>1 DEF Workspace, UpdateIsAlone
    <3>3. x # w /\ spaces'[x] = spaces[x]
      BY <1>1, <2>2, <2>3, <3>1, <3>2 DEF ReleaseTypes
    <3>. QED  BY <3>1, <3>2, <3>3 DEF AtRest, Registered
  <2>7. UpdateIsAlone'
    BY <1>1, <1>6, <2>6 DEF Workspace, UpdateIsAlone, Others
  <2>. QED  BY <2>5, <2>7 DEF ReleaseIInv
<1>. QED  BY <1>2, <1>3, <1>4, <1>5, <1>6

LEMMA LaunchSteps ==
  ASSUME ReleaseIInv, NEW l \in Launches,
         \/ LaunchBegin(l) \/ LaunchIntent(l) \/ Spawn(l) \/ LaunchRecords(l) \/ LaunchWaited(l)
         \/ AppExits(l) \/ SettleBegin(l) \/ SettleEnds(l)
  PROVE  ReleaseIInv'
<1>1. ReleaseTypes /\ RunningIsUnsettled /\ UpdateIsAlone /\ launches[l] \in LaunchRow
  BY DEF ReleaseIInv, ReleaseTypes
<1>2. UNCHANGED <<placed, listed, pointers, journal, spaces, applying>>
  BY DEF LaunchBegin, LaunchIntent, Spawn, LaunchRecords, LaunchWaited, AppExits, SettleBegin, SettleEnds
<1>3. ASSUME launches' \in [Launches -> LaunchRow] /\ RunningIsUnsettled', applying = Nobody
      PROVE  ReleaseIInv'
  BY <1>1, <1>2, <1>3 DEF ReleaseIInv, ReleaseTypes, UpdateIsAlone
<1>4. CASE LaunchBegin(l)
  <2>1. applying = Nobody
    BY <1>4, GateIsTheUpdates DEF LaunchBegin
  <2>. DEFINE row == [version |-> pointers.active, files |-> {"dir"}, app |-> "none"]
  <2>2. launches' = [launches EXCEPT ![l] = row] /\ row \in LaunchRow /\ row.app # "running"
    BY <1>1, <1>4 DEF LaunchBegin, LaunchRow, ReleaseTypes
  <2>. HIDE DEF row
  <2>. QED  BY <1>1, <1>3, <2>1, <2>2, LaunchMoves
<1>5. CASE LaunchIntent(l)
  BY <1>1, <1>3, <1>5, GateIsTheUpdates, Noting DEF LaunchIntent
<1>6. CASE Spawn(l)
  <2>. DEFINE row == [launches[l] EXCEPT !.app = "running"]
  <2>1. applying = Nobody /\ launches' = [launches EXCEPT ![l] = row] /\ launches[l].files = {"dir", "intent"}
    BY <1>1, <1>6, GateIsTheUpdates DEF Spawn, ReleaseTypes
  <2>2. row \in LaunchRow /\ row.files = {"dir", "intent"}
    BY <1>1, <2>1 DEF LaunchRow
  <2>. HIDE DEF row
  <2>. QED  BY <1>1, <1>3, <2>1, <2>2, LaunchMoves
<1>7. CASE LaunchRecords(l)
  BY <1>1, <1>3, <1>7, GateIsTheUpdates, Noting DEF LaunchRecords
<1>8. CASE LaunchWaited(l)
  BY <1>1, <1>3, <1>8, GateIsTheUpdates, Noting DEF LaunchWaited
<1>9. CASE AppExits(l)
  <2>. DEFINE row == [launches[l] EXCEPT !.app = "gone"]
  <2>1. launches' = [launches EXCEPT ![l] = row] /\ launches[l].app = "running" /\ gate' = gate
    BY <1>1, <1>9 DEF AppExits, ReleaseTypes
  <2>2. row \in LaunchRow /\ row.app = "gone"
    BY <1>1 DEF LaunchRow
  <2>. HIDE DEF row
  <2>3. launches' \in [Launches -> LaunchRow] /\ RunningIsUnsettled'
    BY <1>1, <2>1, <2>2, LaunchMoves
  <2>4. applying = Nobody
    BY <1>1, <2>1 DEF UpdateIsAlone
  <2>. QED  BY <1>3, <2>3, <2>4
<1>10. CASE SettleBegin(l)
  <2>1. applying = Nobody /\ launches' = launches
    BY <1>10, GateIsTheUpdates DEF SettleBegin
  <2>. QED  BY <1>1, <1>3, <2>1 DEF ReleaseTypes, RunningIsUnsettled
<1>11. CASE SettleEnds(l)
  <2>1. applying = Nobody /\ (launches' = launches \/ (launches[l].app = "gone" /\ Note(l, "settled")))
    BY <1>11, GateIsTheUpdates DEF SettleEnds
  <2>2. CASE launches' = launches
    BY <1>1, <1>3, <2>1, <2>2 DEF ReleaseTypes, RunningIsUnsettled
  <2>3. CASE launches[l].app = "gone" /\ Note(l, "settled")
    BY <1>1, <1>3, <2>1, <2>3, Noting
  <2>. QED  BY <2>1, <2>2, <2>3
<1>. QED  BY <1>4, <1>5, <1>6, <1>7, <1>8, <1>9, <1>10, <1>11

LEMMA UpdateSteps ==
  ASSUME ReleaseIInv,
         \/ \E u \in Updates : ApplyRecords(u) \/ ApplyCommits(u) \/ Abandon(u) \/ \E v \in Versions : ApplyBegin(u, v)
         \/ LauncherDies
  PROVE  ReleaseIInv'
<1>1. ReleaseTypes /\ RunningIsUnsettled /\ UpdateIsAlone /\ \A u \in Updates : journal[u] \in UpdateRow
  BY DEF ReleaseIInv, ReleaseTypes
<1>2. ASSUME NEW u \in Updates, NEW row \in UpdateRow, journal' = [journal EXCEPT ![u] = row]
      PROVE  /\ journal' \in [Updates -> UpdateRow] /\ journal'[u] = row
             /\ \A v \in Updates \ {u} : journal'[v] = journal[v]
  BY <1>1, <1>2 DEF ReleaseTypes
<1>3. ASSUME NEW u \in Updates, NEW v \in Versions, ApplyBegin(u, v)
      PROVE  ReleaseIInv'
  <2>. DEFINE row == [files |-> {"dir"}, row |-> "none", target |-> v, previous |-> pointers.active]
  <2>1. /\ journal' = [journal EXCEPT ![u] = row] /\ gate' = [kind |-> "apply", id |-> u] /\ applying' = u
        /\ v \in listed /\ LaunchesChecked /\ JournalChecked /\ AtRest
        /\ UNCHANGED <<placed, listed, pointers, launches, spaces>>
    BY <1>3 DEF ApplyBegin
  <2>2. row \in UpdateRow /\ row.target = v /\ row.row = "none"
    BY <1>1 DEF UpdateRow, ReleaseTypes
  <2>. HIDE DEF row
  <2>3. journal' \in [Updates -> UpdateRow] /\ journal'[u] = row /\ \A w \in Updates \ {u} : journal'[w] = journal[w]
    BY <1>2, <2>1, <2>2
  <2>4. ReleaseTypes' /\ RunningIsUnsettled'
    BY <1>1, <2>1, <2>3 DEF ReleaseTypes, RunningIsUnsettled
  <2>5. \A l \in Launches : launches[l].app # "running"
    BY <1>1, <2>1, CheckedIsQuiet
  <2>6. UpdateIsAlone'
    BY <2>1, <2>2, <2>3, <2>5 DEF UpdateIsAlone, Others, JournalChecked, AtRest, Registered
  <2>. QED  BY <2>4, <2>6 DEF ReleaseIInv
<1>4. ASSUME NEW u \in Updates, ApplyRecords(u)
      PROVE  ReleaseIInv'
  <2>1. PICK name \in {"intent", "backup"} : journal' = [journal EXCEPT ![u].files = @ \cup {name}]
    BY <1>4 DEF ApplyRecords
  <2>. DEFINE row == [journal[u] EXCEPT !.files = journal[u].files \cup {name}]
  <2>2. journal' = [journal EXCEPT ![u] = row] /\ applying = u /\ UNCHANGED <<placed, listed, pointers, launches, gate, spaces, applying>>
    BY <1>1, <1>4, <2>1 DEF ApplyRecords, ReleaseTypes
  <2>3. row \in UpdateRow /\ row.target = journal[u].target /\ row.row = journal[u].row
    BY <1>1 DEF UpdateRow
  <2>. HIDE DEF row
  <2>4. journal' \in [Updates -> UpdateRow] /\ journal'[u] = row /\ \A w \in Updates \ {u} : journal'[w] = journal[w]
    BY <1>2, <2>2, <2>3
  <2>5. ReleaseTypes' /\ RunningIsUnsettled'
    BY <1>1, <2>2, <2>4 DEF ReleaseTypes, RunningIsUnsettled
  <2>6. UpdateIsAlone'
    BY <1>1, <2>2, <2>3, <2>4 DEF UpdateIsAlone, Others, AtRest, Registered
  <2>. QED  BY <2>5, <2>6 DEF ReleaseIInv
<1>5. ASSUME NEW u \in Updates, ApplyCommits(u)
      PROVE  ReleaseIInv'
  <2>. DEFINE row == [journal[u] EXCEPT !.row = "committed"]
  <2>1. journal' = [journal EXCEPT ![u] = row] /\ applying' = Nobody /\ UNCHANGED <<placed, listed, launches, spaces>>
    BY <1>1, <1>5 DEF ApplyCommits, ReleaseTypes
  <2>2. row \in UpdateRow
    BY <1>1 DEF UpdateRow
  <2>. HIDE DEF row
  <2>3. journal' \in [Updates -> UpdateRow]
    BY <1>2, <2>1, <2>2
  <2>4. pointers' \in [active : Versions \cup {Nobody}, previous : Versions \cup {Nobody}]
    BY <1>1, <1>5 DEF ApplyCommits, ReleaseTypes, UpdateRow
  <2>. QED  BY <1>1, <2>1, <2>3, <2>4 DEF ReleaseIInv, ReleaseTypes, RunningIsUnsettled, UpdateIsAlone
<1>6. ASSUME NEW u \in Updates, Abandon(u)
      PROVE  ReleaseIInv'
  <2>1. applying = Nobody /\ UNCHANGED <<placed, listed, pointers, launches, gate, spaces, applying>>
    BY <1>6, DatabaseIsTheUpdates DEF Abandon
  <2>2. PICK r \in {"none", "abandoned"} : journal' = [journal EXCEPT ![u].files = @ \cup {"resolution"}, ![u].row = r]
    BY <1>6 DEF Abandon
  <2>3. PICK one : one = [journal[u] EXCEPT !.files = journal[u].files \cup {"resolution"}]
    OBVIOUS
  <2>4. one \in UpdateRow
    BY <1>1, <2>3 DEF UpdateRow
  <2>5. PICK row : row = [one EXCEPT !.row = r]
    OBVIOUS
  <2>6. row \in UpdateRow
    BY <2>4, <2>5 DEF UpdateRow
  <2>7. journal' = [journal EXCEPT ![u] = row]
    <3>1. journal' = [[journal EXCEPT ![u] = one] EXCEPT ![u].row = r]
      BY <1>1, <2>2, <2>3 DEF ReleaseTypes
    <3>2. [journal EXCEPT ![u] = one][u] = one
      BY <1>1 DEF ReleaseTypes
    <3>. QED  BY <1>1, <2>5, <3>1, <3>2 DEF ReleaseTypes
  <2>8. journal' \in [Updates -> UpdateRow]
    BY <1>2, <2>6, <2>7
  <2>. QED  BY <1>1, <2>1, <2>8 DEF ReleaseIInv, ReleaseTypes, RunningIsUnsettled, UpdateIsAlone
<1>7. CASE LauncherDies
  BY <1>1, <1>7 DEF LauncherDies, ReleaseIInv, ReleaseTypes, RunningIsUnsettled, UpdateIsAlone
<1>. QED  BY <1>3, <1>4, <1>5, <1>6, <1>7

LEMMA ReleaseStep == ReleaseIInv /\ [ReleaseNext]_releaseVars => ReleaseIInv'
<1>. SUFFICES ASSUME ReleaseIInv, [ReleaseNext]_releaseVars
              PROVE  ReleaseIInv'
  OBVIOUS
<1>1. CASE UNCHANGED releaseVars
  BY <1>1 DEF releaseVars, ReleaseIInv, ReleaseTypes, RunningIsUnsettled, UpdateIsAlone, Others, AtRest, Registered
<1>2. CASE ReleaseNext
  BY <1>2, ShelfSteps, LaunchSteps, UpdateSteps DEF ReleaseNext
<1>. QED  BY <1>1, <1>2

(* One switch of the active version. *)
Switch ==
  /\ pointers'.active \in listed \cap placed
  /\ \A l \in Launches : launches[l].app # "running"
  /\ \A u \in Updates : journal[u].files # {} => journal'[u].row # "none"
  /\ Registered # {} => AtRest /\ \E u \in Updates : journal'[u] # journal[u] /\ "backup" \in journal[u].files

LEMMA SwitchingSteps == ReleaseIInv /\ ReleaseNext /\ pointers' # pointers => Switch
<1>. SUFFICES ASSUME ReleaseIInv, ReleaseNext, pointers' # pointers
              PROVE  Switch
  OBVIOUS
<1>1. ReleaseTypes /\ RunningIsUnsettled /\ UpdateIsAlone
  BY DEF ReleaseIInv
<1>2. ASSUME SwitchGuard, journal' = journal, pointers'.active \in listed
      PROVE  Switch
  <2>1. LaunchesChecked /\ JournalChecked /\ Registered = {}
    BY <1>2 DEF SwitchGuard
  <2>2. \A l \in Launches : launches[l].app # "running"
    BY <1>1, <2>1, CheckedIsQuiet
  <2>3. \A u \in Updates : journal[u].files # {} => journal'[u].row # "none"
    BY <1>2, <2>1 DEF JournalChecked
  <2>. QED  BY <1>1, <1>2, <2>1, <2>2, <2>3 DEF Switch, ReleaseTypes
<1>3. ASSUME NEW v \in Versions, Activate(v)
      PROVE  Switch
  BY <1>2, <1>3 DEF Activate
<1>4. CASE Rollback
  BY <1>2, <1>4 DEF Rollback
<1>5. ASSUME NEW u \in Updates, ApplyCommits(u)
      PROVE  Switch
  <2>1. /\ applying = u /\ "backup" \in journal[u].files /\ journal' = [journal EXCEPT ![u].row = "committed"]
        /\ pointers'.active = journal[u].target
    BY <1>5 DEF ApplyCommits
  <2>2. /\ applying # Nobody /\ journal[u].target \in listed /\ journal[u].row = "none" /\ Others(u) /\ AtRest
        /\ \A l \in Launches : launches[l].app # "running"
    BY <1>1, <2>1, ReleaseAssumption DEF UpdateIsAlone
  <2>3. journal'[u].row = "committed" /\ \A v \in Updates \ {u} : journal'[v] = journal[v]
    BY <1>1, <2>1 DEF ReleaseTypes, UpdateRow
  <2>4. \A v \in Updates : journal[v].files # {} => journal'[v].row # "none"
    BY <2>2, <2>3 DEF Others
  <2>. QED  BY <1>1, <2>1, <2>2, <2>3, <2>4 DEF Switch, ReleaseTypes
<1>. QED
  BY <1>3, <1>4, <1>5 DEF ReleaseNext, Stage, Register, Workspace, LaunchBegin, LaunchIntent, Spawn, LaunchRecords, LaunchWaited,
     AppExits, SettleBegin, SettleEnds, ApplyBegin, ApplyRecords, Abandon, LauncherDies

(* The active version changes only while nothing of the store runs, no other update is open, and every registered  *)
(* workspace is at rest and backed up; a process that died anywhere before does not change that                    *)
(* (check_launches, switch_guard, apply).                                                                          *)
THEOREM SwitchesAreAlwaysSafe == ReleaseSpec => SwitchesAreSafe
<1>1. ReleaseIInv /\ [ReleaseNext]_releaseVars => [pointers' # pointers => Switch]_releaseVars
  BY SwitchingSteps
<1>2. ReleaseSpec => [][pointers' # pointers => Switch]_releaseVars
  BY <1>1, ReleaseStarting, ReleaseStep, PTL DEF ReleaseSpec
<1>. QED  BY <1>2 DEF SwitchesAreSafe, Switch

-----------------------------------------------------------------------------
(***************************************************************************)
(* Collection.  The lock of the cache is held from the attempt record to   *)
(* the result record, so what was looked at before the unlink is so still; *)
(* and an attempt that a dead run left open is never made again, because   *)
(* it is on record as tried.                                               *)
(***************************************************************************)
JobRow == [items : SUBSET (Assets \X Nat), tried : SUBSET Assets, done : SUBSET Assets]

CollectorTypes ==
  /\ serial \in Nat /\ objects = [a \in Assets |-> objects[a]] /\ \A a \in Assets : objects[a] # NoFile => objects[a].ino \in Nat
  /\ jobs \in [Collections -> JobRow \cup {NoRow}]

DoneWasTried == \A j \in Collections : jobs[j] # NoRow => jobs[j].done \subseteq jobs[j].tried

Approved(j, a) ==
  /\ objects[a] # NoFile /\ Names(a) = {} /\ <<a, objects[a].ino>> \in jobs[j].items /\ a \notin jobs[j].done

CollectorIsSure ==
  collector # NoRow =>
    /\ collector = [job |-> collector.job, at |-> collector.at, asset |-> collector.asset]
    /\ collector.job \in Collections /\ jobs[collector.job] # NoRow
    /\ collector.at \in {"tried", "unlinked"} => collector.asset \in jobs[collector.job].tried
    /\ collector.at = "tried" => Approved(collector.job, collector.asset)

CollectorIInv == CollectorTypes /\ DoneWasTried /\ CollectorIsSure

LEMMA CollectorStarting == CacheInit => CollectorIInv
BY DEF CacheInit, CollectorIInv, CollectorTypes, DoneWasTried, CollectorIsSure

(* What a step does to the objects, outside the collector. *)
Spares == UNCHANGED <<objects, serial, jobs, collector>> /\ (Unlocked \/ UNCHANGED refs)
Publishes ==
  /\ Unlocked /\ UNCHANGED <<jobs, collector>> /\ serial' = serial + 1
  /\ \E a, new : objects[a] = NoFile /\ new.ino = serial + 1 /\ objects' = [objects EXCEPT ![a] = new]

LEMMA ClientsDoNotCollect ==
  ASSUME \/ \E o \in HeldUnder, a \in Assets : Pin(o, a) \/ Unpin(o, a)
         \/ \E m \in Budgets : BudgetApply(m)
         \/ \E a \in Assets : FetchEnds(a) \/ \E bits \in Block : Fetch(a, bits)
         \/ \E u \in Uploads : \/ ClientRun(u) \/ ClientCancel(u) \/ ClientEnds(u) \/ ClientChunk(u)
                               \/ ClientRefers(u) \/ \E a \in Assets : ClientBegin(u, a)
                               \/ \E block \in Block : Intruder(u, block)
         \/ GcPreview
  PROVE  Spares \/ Publishes
<1>1. ASSUME NEW a \in Assets, FetchEnds(a)
      PROVE  Spares \/ Publishes
  <2>1. CASE objects' = [objects EXCEPT ![a] = [ino |-> serial + 1, bits |-> partials[a]]] /\ serial' = serial + 1
    <3>1. PICK new : new = [ino |-> serial + 1, bits |-> partials[a]]
      OBVIOUS
    <3>. QED  BY <1>1, <2>1, <3>1 DEF FetchEnds, Publishes
  <2>2. CASE UNCHANGED <<objects, serial>>
    BY <1>1, <2>2 DEF FetchEnds, Spares
  <2>. QED  BY <1>1, <2>1, <2>2 DEF FetchEnds
<1>2. ASSUME NEW u \in Uploads, ClientChunk(u) \/ ClientRefers(u) \/ (\E a \in Assets : ClientBegin(u, a)) \/ \E block \in Block : Intruder(u, block)
      PROVE  Spares
  BY <1>2 DEF ClientChunk, ClientRefers, ClientBegin, Intruder, Written, Referred, Begun, Spares
<1>. QED
  BY <1>1, <1>2 DEF Spares, Pin, Unpin, BudgetApply, Fetch, ClientRun, ClientCancel, ClientEnds, GcPreview

LEMMA UploadPublishes ==
  ASSUME NEW u \in Uploads, ClientFinish(u)
  PROVE  Spares \/ Publishes
<1>1. PICK commits \in BOOLEAN : Published(u, commits)
  BY DEF ClientFinish
<1>. DEFINE a == uploads[u].asset
<1>2. CASE objects[a] # NoFile
  BY <1>1, <1>2 DEF Published, Spares
<1>3. CASE objects[a] = NoFile
  <2>1. PICK new : new = [ino |-> serial + 1, bits |-> upfiles[u]]
    OBVIOUS
  <2>2. new.ino = serial + 1 /\ objects' = [objects EXCEPT ![a] = new] /\ serial' = serial + 1 /\ Unlocked /\ UNCHANGED <<jobs, collector>>
    BY <1>1, <1>3, <2>1 DEF Published
  <2>. HIDE DEF a
  <2>. QED  BY <1>3, <2>2 DEF Publishes
<1>. QED  BY <1>2, <1>3

(* What may happen to an object in one step. *)
Collected(a) ==
  objects[a] # NoFile /\ objects'[a] # objects[a] =>
    /\ objects'[a] = NoFile /\ Names(a) = {}
    /\ \E j \in Collections : jobs[j] # NoRow /\ <<a, objects[a].ino>> \in jobs[j].items /\ a \notin jobs[j].done

LEMMA OutsideSteps ==
  ASSUME CollectorIInv, Spares \/ Publishes
  PROVE  CollectorIInv' /\ \A a \in Assets : Collected(a)
<1>1. CollectorTypes /\ DoneWasTried /\ CollectorIsSure
  BY DEF CollectorIInv
<1>2. CASE Spares
  <2>1. CollectorTypes' /\ DoneWasTried'
    BY <1>1, <1>2 DEF Spares, CollectorTypes, DoneWasTried
  <2>2. CollectorIsSure'
    BY <1>1, <1>2 DEF Spares, Unlocked, CollectorIsSure, Approved, Names
  <2>. QED  BY <1>2, <2>1, <2>2 DEF Spares, Collected, CollectorIInv
<1>3. CASE Publishes
  <2>1. PICK a, new : objects[a] = NoFile /\ new.ino = serial + 1 /\ objects' = [objects EXCEPT ![a] = new]
    BY <1>3 DEF Publishes
  <2>2. objects' = [b \in Assets |-> IF b = a THEN new ELSE objects[b]]
    BY <1>1, <2>1 DEF CollectorTypes
  <2>3. serial' \in Nat /\ serial + 1 \in Nat /\ jobs' \in [Collections -> JobRow \cup {NoRow}]
    BY <1>1, <1>3 DEF CollectorTypes, Publishes
  <2>4. objects' = [b \in Assets |-> objects'[b]] /\ \A b \in Assets : objects'[b] # NoFile => objects'[b].ino \in Nat
    BY <1>1, <2>1, <2>2, <2>3 DEF CollectorTypes
  <2>5. CollectorTypes'
    BY <2>3, <2>4 DEF CollectorTypes
  <2>6. DoneWasTried' /\ CollectorIsSure'
    BY <1>1, <1>3 DEF Publishes, Unlocked, DoneWasTried, CollectorIsSure
  <2>. QED  BY <2>1, <2>2, <2>5, <2>6 DEF CollectorIInv, Collected
<1>. QED  BY <1>2, <1>3

LEMMA CollectorSteps ==
  ASSUME CollectorIInv,
         \/ \E j \in Collections : GcStart(j) \/ GcResume(j)
         \/ \E a \in Assets, i \in 1..MaxSerial : GcAttempt(<<a, i>>)
         \/ GcUnlink \/ GcResult \/ GcEnds
  PROVE  CollectorIInv' /\ \A a \in Assets : Collected(a)
<1>1. CollectorTypes /\ DoneWasTried /\ CollectorIsSure
  BY DEF CollectorIInv
<1>2. ASSUME UNCHANGED <<objects, serial>>, jobs' \in [Collections -> JobRow \cup {NoRow}], DoneWasTried', CollectorIsSure'
      PROVE  CollectorIInv' /\ \A a \in Assets : Collected(a)
  BY <1>1, <1>2 DEF CollectorIInv, CollectorTypes, Collected
<1>3. ASSUME NEW j \in Collections, GcStart(j)
      PROVE  CollectorIInv' /\ \A a \in Assets : Collected(a)
  <2>. DEFINE row == [items |-> Plan, tried |-> {}, done |-> {}]
  <2>1. /\ jobs' = [jobs EXCEPT ![j] = row] /\ UNCHANGED <<objects, serial, refs>>
        /\ collector' = [job |-> j, at |-> "next", asset |-> NoFile]
    BY <1>3 DEF GcStart
  <2>2. Plan \subseteq Assets \X Nat
    BY <1>1 DEF Plan, CollectorTypes
  <2>3. row \in JobRow /\ row # NoRow /\ row.done = {}
    BY <2>2, CacheAssumption DEF JobRow
  <2>. HIDE DEF row
  <2>4. jobs' \in [Collections -> JobRow \cup {NoRow}] /\ jobs'[j] = row /\ \A k \in Collections \ {j} : jobs'[k] = jobs[k]
    BY <1>1, <2>1, <2>3 DEF CollectorTypes
  <2>5. DoneWasTried'
    BY <1>1, <2>3, <2>4 DEF DoneWasTried
  <2>6. CollectorIsSure'
    BY <2>1, <2>3, <2>4 DEF CollectorIsSure
  <2>. QED  BY <1>2, <2>1, <2>4, <2>5, <2>6
<1>4. ASSUME NEW j \in Collections, GcResume(j)
      PROVE  CollectorIInv' /\ \A a \in Assets : Collected(a)
  <2>1. /\ collector' = [job |-> j, at |-> "next", asset |-> NoFile] /\ jobs[j] # NoRow /\ UNCHANGED <<objects, serial, refs, jobs>>
    BY <1>4 DEF GcResume
  <2>2. CollectorIsSure' /\ DoneWasTried'
    BY <1>1, <2>1 DEF CollectorIsSure, DoneWasTried
  <2>. QED  BY <1>1, <1>2, <2>1, <2>2 DEF CollectorTypes
<1>5. ASSUME NEW a \in Assets, NEW i \in 1..MaxSerial, GcAttempt(<<a, i>>)
      PROVE  CollectorIInv' /\ \A b \in Assets : Collected(b)
  <2>. DEFINE j == collector.job
              row == [jobs[j] EXCEPT !.tried = jobs[j].tried \cup {a}]
  <2>1. /\ collector # NoRow /\ a \notin jobs[j].tried /\ <<a, i>> \in jobs[j].items
        /\ objects[a] # NoFile /\ objects[a].ino = i /\ Names(a) = {} /\ UNCHANGED <<objects, serial, refs>>
    BY <1>5 DEF GcAttempt, Unlocked, Pending, Intact, Free
  <2>2. /\ j \in Collections /\ jobs[j] \in JobRow /\ jobs[j] # NoRow
        /\ collector = [job |-> j, at |-> collector.at, asset |-> collector.asset]
    BY <1>1, <2>1 DEF CollectorIsSure, CollectorTypes
  <2>3. jobs' = [jobs EXCEPT ![j] = row]
    BY <1>1, <1>5 DEF GcAttempt, CollectorTypes
  <2>4. row \in JobRow /\ row.items = jobs[j].items /\ row.done = jobs[j].done /\ row.tried = jobs[j].tried \cup {a} /\ row # NoRow
    BY <2>2, CacheAssumption DEF JobRow
  <2>5. collector' = [job |-> j, at |-> "tried", asset |-> a]
    <3>1. collector' = [[collector EXCEPT !.at = "tried"] EXCEPT !.asset = a]
      BY <1>5 DEF GcAttempt
    <3>2. [collector EXCEPT !.at = "tried"] = [job |-> j, at |-> "tried", asset |-> collector.asset]
      BY <2>2
    <3>. QED  BY <3>1, <3>2
  <2>. HIDE DEF row, j
  <2>6. jobs' \in [Collections -> JobRow \cup {NoRow}] /\ jobs'[j] = row /\ \A k \in Collections \ {j} : jobs'[k] = jobs[k]
    BY <1>1, <2>2, <2>3, <2>4 DEF CollectorTypes
  <2>7. DoneWasTried'
    BY <1>1, <2>2, <2>4, <2>6 DEF DoneWasTried
  <2>8. a \notin jobs[j].done
    BY <1>1, <2>1, <2>2 DEF DoneWasTried
  <2>9. CollectorIsSure'
    BY <2>1, <2>2, <2>4, <2>5, <2>6, <2>8 DEF CollectorIsSure, Approved, Names
  <2>. QED  BY <1>2, <2>1, <2>6, <2>7, <2>9
<1>6. CASE GcUnlink
  <2>. DEFINE j == collector.job
              a == collector.asset
  <2>1. /\ collector # NoRow /\ collector.at = "tried" /\ UNCHANGED <<jobs, refs, serial>>
        /\ objects' \in {objects, [objects EXCEPT ![a] = NoFile]}
        /\ collector' = [collector EXCEPT !.at = "unlinked"]
    BY <1>6 DEF GcUnlink, Unlocked
  <2>2. /\ j \in Collections /\ jobs[j] # NoRow /\ Approved(j, a) /\ a \in jobs[j].tried
        /\ collector = [job |-> j, at |-> collector.at, asset |-> a]
    BY <1>1, <2>1 DEF CollectorIsSure
  <2>3. collector' = [job |-> j, at |-> "unlinked", asset |-> a]
    BY <2>1, <2>2
  <2>. HIDE DEF j, a
  <2>4. objects' = [b \in Assets |-> objects'[b]] /\ \A b \in Assets : objects'[b] = objects[b] \/ (b = a /\ objects'[b] = NoFile)
    BY <1>1, <2>1 DEF CollectorTypes
  <2>5. CollectorTypes' /\ DoneWasTried'
    BY <1>1, <2>1, <2>4 DEF CollectorTypes, DoneWasTried
  <2>6. CollectorIsSure'
    BY <2>1, <2>2, <2>3 DEF CollectorIsSure
  <2>. QED  BY <2>2, <2>4, <2>5, <2>6 DEF CollectorIInv, Collected, Approved
<1>7. CASE GcResult
  <2>. DEFINE j == collector.job
              row == [jobs[j] EXCEPT !.done = jobs[j].done \cup {collector.asset}]
  <2>1. /\ collector # NoRow /\ collector.at = "unlinked" /\ UNCHANGED <<objects, serial, refs>>
    BY <1>7 DEF GcResult, Unlocked
  <2>2. /\ j \in Collections /\ jobs[j] \in JobRow /\ jobs[j] # NoRow /\ collector.asset \in jobs[j].tried
        /\ collector = [job |-> j, at |-> collector.at, asset |-> collector.asset]
    BY <1>1, <2>1 DEF CollectorIsSure, CollectorTypes
  <2>3. jobs' = [jobs EXCEPT ![j] = row]
    BY <1>1, <1>7 DEF GcResult, CollectorTypes
  <2>4. row \in JobRow /\ row.done \subseteq row.tried /\ row # NoRow
    BY <1>1, <2>2, CacheAssumption DEF JobRow, DoneWasTried
  <2>5. collector' = [job |-> j, at |-> "next", asset |-> NoFile]
    <3>1. collector' = [[collector EXCEPT !.at = "next"] EXCEPT !.asset = NoFile]
      BY <1>7 DEF GcResult
    <3>2. [collector EXCEPT !.at = "next"] = [job |-> j, at |-> "next", asset |-> collector.asset]
      BY <2>2
    <3>. QED  BY <3>1, <3>2
  <2>. HIDE DEF row, j
  <2>6. jobs' \in [Collections -> JobRow \cup {NoRow}] /\ jobs'[j] = row /\ \A k \in Collections \ {j} : jobs'[k] = jobs[k]
    BY <1>1, <2>2, <2>3, <2>4 DEF CollectorTypes
  <2>7. DoneWasTried'
    BY <1>1, <2>2, <2>4, <2>6 DEF DoneWasTried
  <2>8. CollectorIsSure'
    BY <2>2, <2>4, <2>5, <2>6 DEF CollectorIsSure
  <2>. QED  BY <1>2, <2>1, <2>6, <2>7, <2>8
<1>8. CASE GcEnds
  <2>1. collector' = NoRow /\ UNCHANGED <<objects, serial, jobs>>
    BY <1>8 DEF GcEnds
  <2>. QED  BY <1>1, <1>2, <2>1 DEF CollectorTypes, DoneWasTried, CollectorIsSure
<1>. QED  BY <1>3, <1>4, <1>5, <1>6, <1>7, <1>8

LEMMA CollectorStep == CollectorIInv /\ [CacheNext]_cacheVars => CollectorIInv' /\ (CacheNext => \A a \in Assets : Collected(a))
<1>. SUFFICES ASSUME CollectorIInv, [CacheNext]_cacheVars
              PROVE  CollectorIInv' /\ \A a \in Assets : Collected(a)
  OBVIOUS
<1>1. CASE UNCHANGED cacheVars
  <2>1. Spares
    BY <1>1 DEF cacheVars, Spares
  <2>. QED  BY <2>1, OutsideSteps
<1>2. CASE CacheNext
  <2>1. ASSUME \/ \E j \in Collections : GcStart(j) \/ GcResume(j)
               \/ \E a \in Assets, i \in 1..MaxSerial : GcAttempt(<<a, i>>)
               \/ GcUnlink \/ GcResult \/ GcEnds
        PROVE  CollectorIInv' /\ \A a \in Assets : Collected(a)
    BY <2>1, CollectorSteps
  <2>2. ASSUME \/ \E o \in HeldUnder, a \in Assets : Pin(o, a) \/ Unpin(o, a)
               \/ \E m \in Budgets : BudgetApply(m)
               \/ \E a \in Assets : FetchEnds(a) \/ \E bits \in Block : Fetch(a, bits)
               \/ \E u \in Uploads : \/ ClientRun(u) \/ ClientCancel(u) \/ ClientEnds(u) \/ ClientChunk(u)
                                     \/ ClientRefers(u) \/ \E a \in Assets : ClientBegin(u, a)
                                     \/ \E block \in Block : Intruder(u, block)
               \/ GcPreview
        PROVE  CollectorIInv' /\ \A a \in Assets : Collected(a)
    BY <2>2, ClientsDoNotCollect, OutsideSteps
  <2>3. ASSUME NEW u \in Uploads, ClientFinish(u)
        PROVE  CollectorIInv' /\ \A a \in Assets : Collected(a)
    BY <2>3, UploadPublishes, OutsideSteps
  <2>. QED  BY <1>2, <2>1, <2>2, <2>3 DEF CacheNext
<1>. QED  BY <1>1, <1>2

(* An object disappears only by the collector, while nobody refers to it, as the very file the job recorded, and never *)
(* for an attempt that an earlier run left open, wherever runs of the collector are cut (Collector.apply).             *)
THEOREM CollectedIsAlwaysApproved == CacheSpec => CollectedWasApproved
<1>1. CollectorIInv /\ [CacheNext]_cacheVars => [\A a \in Assets : Collected(a)]_cacheVars
  BY CollectorStep
<1>2. CollectorIInv /\ [CacheNext]_cacheVars => CollectorIInv'
  BY CollectorStep
<1>3. CacheSpec => [][\A a \in Assets : Collected(a)]_cacheVars
  BY <1>1, <1>2, CollectorStarting, PTL DEF CacheSpec
<1>. QED  BY <1>3 DEF CollectedWasApproved, Collected

-----------------------------------------------------------------------------
(***************************************************************************)
(* What the cache has promised.  Blocks are counted as a set, each in its  *)
(* place: a written block leaves those awaited and joins those stored, a   *)
(* renamed file moves its blocks, and only what was admitted adds to the   *)
(* sum.  A row that says verified has its object and its reference, and    *)
(* no step of the server takes that back: the collector unlinks only what  *)
(* nobody refers to (CollectorIInv), and the clients read it from rows.    *)
(***************************************************************************)
(* How many blocks there are from one to another in a place. *)
LEMMA BlocksOf ==
  ASSUME NEW x, NEW l \in Nat \ {0}, NEW n \in Nat, l <= n + 1
  PROVE  IsFiniteSet({x} \X (l..n)) /\ Cardinality({x} \X (l..n)) = n - l + 1
<1> DEFINE A == {x}
           B == l..n
<1>1. IsFiniteSet(A) /\ Cardinality(A) = 1
  BY FS_Singleton
<1>2. IsFiniteSet(B) /\ Cardinality(B) = n - l + 1
  <2>1. l \in Int /\ n \in Int
    OBVIOUS
  <2>2. IsFiniteSet(B) /\ Cardinality(B) = IF l > n THEN 0 ELSE n - l + 1
    BY <2>1, FS_Interval
  <2>3. l > n => n - l + 1 = 0
    OBVIOUS
  <2> HIDE DEF B
  <2>. QED  BY <2>2, <2>3
<1>3. n - l + 1 \in Nat
  OBVIOUS
<1> HIDE DEF A, B
<1>4. IsFiniteSet(A \X B) /\ Cardinality(A \X B) = Cardinality(A) * Cardinality(B)
  BY <1>1, <1>2, FS_Product
<1>5. 1 * (n - l + 1) = n - l + 1
  BY <1>3
<1>6. IsFiniteSet(A \X B) /\ Cardinality(A \X B) = n - l + 1
  BY <1>1, <1>2, <1>4, <1>5, Zenon
<1>. QED  BY <1>6 DEF A, B

LEMMA NoMoreBlocks ==
  ASSUME NEW S, NEW T, IsFiniteSet(S), T \subseteq S
  PROVE  IsFiniteSet(T) /\ Cardinality(T) <= Cardinality(S) /\ Cardinality(T) \in Nat /\ Cardinality(S) \in Nat
BY FS_Subset, FS_CardinalityType

LEMMA MoreBlocks ==
  ASSUME NEW S, NEW T, IsFiniteSet(S), NEW x, NEW l \in Nat \ {0}, NEW n \in Nat, l <= n + 1, T \subseteq S \cup ({x} \X (l..n))
  PROVE  IsFiniteSet(T) /\ Cardinality(T) <= Cardinality(S) + (n - l + 1) /\ Cardinality(T) \in Nat /\ Cardinality(S) \in Nat
<1> DEFINE U == {x} \X (l..n)
<1>1. IsFiniteSet(U) /\ Cardinality(U) = n - l + 1
  BY BlocksOf
<1> HIDE DEF U
<1>2. IsFiniteSet(S \cup U) /\ Cardinality(S \cup U) = Cardinality(S) + (n - l + 1) - Cardinality(S \cap U)
  BY <1>1, FS_Union
<1>3. IsFiniteSet(S \cap U)
  BY FS_Intersection
<1>4. Cardinality(S) \in Nat /\ Cardinality(S \cap U) \in Nat
  BY <1>3, FS_CardinalityType
<1>5. T \in SUBSET (S \cup U)
  BY DEF U
<1>6. IsFiniteSet(T) /\ Cardinality(T) <= Cardinality(S \cup U)
  BY <1>2, <1>5, FS_Subset
<1>7. Cardinality(T) \in Nat
  BY <1>6, FS_CardinalityType
<1>. QED  BY <1>2, <1>4, <1>6, <1>7

LEMMA FewerBlocks ==
  ASSUME NEW S, NEW T, IsFiniteSet(S), NEW x, NEW l \in Nat \ {0}, NEW n \in Nat, l <= n + 1,
         {x} \X (l..n) \subseteq S, T \subseteq S \ ({x} \X (l..n))
  PROVE  IsFiniteSet(T) /\ Cardinality(T) + (n - l + 1) <= Cardinality(S) /\ Cardinality(T) \in Nat /\ Cardinality(S) \in Nat
<1> DEFINE U == {x} \X (l..n)
<1>1. IsFiniteSet(U) /\ Cardinality(U) = n - l + 1
  BY BlocksOf
<1>2. S \cap U = U
  OBVIOUS
<1> HIDE DEF U
<1>3. IsFiniteSet(S \ U) /\ Cardinality(S \ U) = Cardinality(S) - (n - l + 1)
  <2>1. IsFiniteSet(S \ U) /\ Cardinality(S \ U) = Cardinality(S) - Cardinality(S \cap U)
    BY FS_Difference
  <2>. QED  BY <1>1, <1>2, <2>1
<1>4. T \subseteq S \ U
  BY DEF U
<1>5. IsFiniteSet(T) /\ Cardinality(T) <= Cardinality(S \ U) /\ Cardinality(T) \in Nat
  BY <1>3, <1>4, NoMoreBlocks
<1>6. Cardinality(S) \in Nat
  BY FS_CardinalityType
<1>. QED  BY <1>3, <1>5, <1>6

(* A file moves to another place. *)
LEMMA MovedBlocks ==
  ASSUME NEW S, NEW T, IsFiniteSet(S), NEW x, NEW y, NEW n \in Nat,
         {x} \X (1..n) \subseteq S, T \subseteq (S \ ({x} \X (1..n))) \cup ({y} \X (1..n))
  PROVE  IsFiniteSet(T) /\ Cardinality(T) <= Cardinality(S)
<1>0. PICK l \in Nat \ {0} : l = 1 /\ l <= n + 1
  OBVIOUS
<1> DEFINE R == S \ ({x} \X (l..n))
<1>1. {x} \X (l..n) \subseteq S /\ R \subseteq S \ ({x} \X (l..n))
  BY <1>0
<1> HIDE DEF R
<1>2. IsFiniteSet(R) /\ Cardinality(R) + (n - l + 1) <= Cardinality(S) /\ Cardinality(R) \in Nat /\ Cardinality(S) \in Nat
  BY <1>0, <1>1, FewerBlocks
<1>3. T \subseteq R \cup ({y} \X (l..n))
  BY <1>0 DEF R
<1>4. IsFiniteSet(T) /\ Cardinality(T) <= Cardinality(R) + (n - l + 1) /\ Cardinality(T) \in Nat
  BY <1>0, <1>2, <1>3, MoreBlocks
<1>. QED  BY <1>0, <1>2, <1>4

(* A file is a sequence of at most Size blocks. *)
LEMMA FileIs == \A f : f \in File <=> f \in Seq(BOOLEAN) /\ Len(f) <= Size
<1>1. ASSUME NEW f \in File PROVE f \in Seq(BOOLEAN) /\ Len(f) <= Size
  <2>1. PICK n \in 0..Size : f \in [1..n -> BOOLEAN]
    BY DEF File
  <2>2. n \in Nat /\ n <= Size
    BY <2>1, CacheAssumption
  <2>3. f \in Seq(BOOLEAN) /\ Len(f) = n
    BY <2>1, <2>2
  <2>. QED  BY <2>2, <2>3
<1>2. ASSUME NEW f \in Seq(BOOLEAN), Len(f) <= Size PROVE f \in File
  <2>1. Len(f) \in 0..Size /\ f \in [1..Len(f) -> BOOLEAN]
    BY <1>2, CacheAssumption, LenProperties
  <2>. QED  BY <2>1 DEF File
<1>. QED  BY <1>1, <1>2

LEMMA EmptyFile == <<>> \in File /\ Len(<<>>) = 0 /\ Right(<<>>) = FALSE
<1>1. <<>> \in [1..0 -> BOOLEAN] /\ Len(<<>>) = 0
  OBVIOUS
<1>2. 0 \in 0..Size /\ Size # 0
  BY CacheAssumption
<1>. QED  BY <1>1, <1>2 DEF File, Right

ServerTypes ==
  /\ partials \in [Assets -> File] /\ upfiles \in [Uploads -> File \cup {NoFile}]
  /\ uploads \in [Uploads -> Upload \cup {NoRow}] /\ objects \in [Assets -> Object \cup {NoFile}]
  /\ budget \in Nat /\ serial \in Nat

(* What a row that says verified stands for. *)
RowsAreHeld ==
  \A u \in Uploads : uploads[u] # NoRow /\ uploads[u].state = "verified" => ((Whole(uploads[u].asset) /\ <<u, uploads[u].asset>> \in refs) \/ u \in withdrawn)

Filed == {u \in Uploading : upfiles[u] # NoFile}
BudgetHolds == IsFiniteSet(Stored) /\ IsFiniteSet(Awaited(Uploading)) /\ WithinBudget

ServerInv == ServerTypes /\ UploadsAreRecoverable /\ RowsAreHeld /\ BudgetHolds

LEMMA FilesHaveLengths ==
  ASSUME ServerTypes
  PROVE  /\ \A a \in Assets : partials[a] \in Seq(BOOLEAN) /\ Len(partials[a]) \in 0..Size
         /\ \A u \in Uploads : FileLen(upfiles[u]) \in 0..Size /\ (upfiles[u] # NoFile => upfiles[u] \in Seq(BOOLEAN) /\ FileLen(upfiles[u]) = Len(upfiles[u]))
         /\ \A a \in Assets : ObjectLen(a) \in 0..Size /\ (objects[a] # NoFile => ObjectLen(a) = Len(objects[a].bits))
         /\ \A a \in Assets : objects[a] # NoFile => objects[a].bits \in File /\ objects[a].ino \in Nat
<1>1. \A f \in File : f \in Seq(BOOLEAN) /\ Len(f) \in 0..Size
  BY FileIs, CacheAssumption, LenProperties
<1>2. \A a \in Assets : objects[a] # NoFile => objects[a].bits \in File /\ objects[a].ino \in Nat
  BY DEF ServerTypes, Object
<1>3. 0 \in 0..Size
  BY CacheAssumption
<1>. QED  BY <1>1, <1>2, <1>3 DEF ServerTypes, FileLen, ObjectLen

LEMMA AwaitedFinite ==
  ASSUME BudgetHolds
  PROVE  /\ Awaited(Filed) \subseteq Awaited(Uploading) /\ IsFiniteSet(Awaited(Filed))
         /\ Cardinality(Awaited(Filed)) <= Reserved /\ Cardinality(Awaited(Filed)) \in Nat /\ Reserved \in Nat /\ Payload \in Nat
<1>1. Awaited(Filed) \subseteq Awaited(Uploading)
  BY DEF Awaited, Filed
<1>. QED  BY <1>1, NoMoreBlocks, FS_CardinalityType DEF BudgetHolds, Reserved, Payload

(* A step keeps the budget when the blocks there are and those to come are not more, or were admitted. *)
LEMMA BudgetStays ==
  ASSUME BudgetHolds, budget \in Nat, budget' = budget, IsFiniteSet(Stored'), IsFiniteSet(Awaited(Uploading)'),
         NEW more \in Nat, more = 0 \/ Admits(more),
         Cardinality(Stored') + Cardinality(Awaited(Filed)') <= Cardinality(Stored) + Cardinality(Awaited(Filed)) + more
  PROVE  BudgetHolds'
<1>1. Cardinality(Awaited(Filed)) <= Reserved /\ Cardinality(Awaited(Filed)) \in Nat /\ Reserved \in Nat /\ Payload \in Nat
  BY AwaitedFinite
<1>2. Awaited(Filed)' \subseteq Awaited(Uploading)'
  BY DEF Awaited, Filed
<1>3. Cardinality(Stored') \in Nat /\ Cardinality(Awaited(Filed)') \in Nat
  BY <1>2, NoMoreBlocks, FS_CardinalityType
<1>4. budget = 0 \/ Payload + Cardinality(Awaited(Filed)) <= budget
  BY DEF BudgetHolds, WithinBudget, Filed
<1>5. budget = 0 \/ Payload + Cardinality(Awaited(Filed)) + more <= budget
  BY <1>1, <1>4 DEF Admits
<1>6. budget' = 0 \/ Payload' + Cardinality(Awaited(Filed)') <= budget'
  BY <1>1, <1>3, <1>5 DEF Payload
<1>7. WithinBudget'
  BY <1>6 DEF WithinBudget, Filed
<1>. QED  BY <1>7 DEF BudgetHolds

LEMMA SameBudget ==
  ASSUME ServerTypes, BudgetHolds, budget' = budget, Stored' = Stored, Awaited(Uploading)' = Awaited(Uploading), Awaited(Filed)' = Awaited(Filed)
  PROVE  BudgetHolds'
<1>1. IsFiniteSet(Stored) /\ IsFiniteSet(Awaited(Uploading)) /\ IsFiniteSet(Awaited(Filed)) /\ budget \in Nat
  BY AwaitedFinite DEF BudgetHolds, ServerTypes
<1>2. Cardinality(Stored) \in Nat /\ Cardinality(Awaited(Filed)) \in Nat
  BY <1>1, FS_CardinalityType
<1>3. Cardinality(Stored') + Cardinality(Awaited(Filed)') <= Cardinality(Stored) + Cardinality(Awaited(Filed)) + 0
  BY <1>2
<1>. QED  BY <1>1, <1>3, BudgetStays

LEMMA StoredHas ==
  /\ \A a \in Assets : {<<"partial", a>>} \X (1..Len(partials[a])) \subseteq Stored
  /\ \A a \in Assets : {<<"object", a>>} \X (1..ObjectLen(a)) \subseteq Stored
  /\ \A q \in quarantined : {<<"quarantine", q>>} \X (1..Size) \subseteq Stored
  /\ \A u \in Uploads : {<<"upload", u>>} \X (1..FileLen(upfiles[u])) \subseteq Stored
BY DEF Stored

LEMMA StoredNext ==
  ASSUME NEW P,
         \A a \in Assets : {<<"partial", a>>} \X (1..Len(partials'[a])) \subseteq P,
         \A a \in Assets : {<<"object", a>>} \X (1..ObjectLen(a)') \subseteq P,
         \A q \in quarantined' : {<<"quarantine", q>>} \X (1..Size) \subseteq P,
         \A u \in Uploads : {<<"upload", u>>} \X (1..FileLen(upfiles'[u])) \subseteq P
  PROVE  Stored' \subseteq P
BY DEF Stored

(* What the server does leaves verified rows verified. *)
RowsStay == \A u \in Uploads : uploads[u] # NoRow /\ uploads[u].state = "verified" => uploads'[u] # NoRow /\ uploads'[u].state = "verified"

(* Steps that leave files and rows alone, and take no reference of an upload but by hand. *)
FilesStand ==
  /\ UNCHANGED <<objects, partials, quarantined, uploads, upfiles, budget, serial>>
  /\ \A u \in Uploads : \A a : <<u, a>> \in refs => <<u, a>> \in refs' \/ u \in withdrawn'
  /\ withdrawn \subseteq withdrawn'

LEMMA StandingKeeps == ASSUME ServerInv, FilesStand PROVE ServerInv' /\ RowsStay
<1>0. ServerTypes /\ UploadsAreRecoverable /\ RowsAreHeld /\ BudgetHolds
  BY DEF ServerInv
<1>1. ServerTypes'
  BY <1>0 DEF FilesStand, ServerTypes
<1>2. Uploading' = Uploading /\ \A a : Whole(a)' <=> Whole(a)
  BY DEF FilesStand, Uploading, Whole
<1>3. UploadsAreRecoverable'
  BY <1>0, <1>2 DEF FilesStand, UploadsAreRecoverable, Uploading
<1>4. RowsAreHeld'
  BY <1>0, <1>2 DEF FilesStand, RowsAreHeld
<1>5. Stored' = Stored
  BY DEF FilesStand, Stored, ObjectLen
<1>6. Awaited(Uploading)' = Awaited(Uploading) /\ Awaited(Filed)' = Awaited(Filed)
  BY <1>2 DEF FilesStand, Awaited, Filed
<1>7. BudgetHolds'
  BY <1>0, <1>5, <1>6, SameBudget DEF FilesStand
<1>8. RowsStay
  BY DEF FilesStand, RowsStay
<1>. QED  BY <1>1, <1>3, <1>4, <1>7, <1>8 DEF ServerInv

(* Blocks that arrive, of a download. *)
LEMMA FetchKeeps == ASSUME ServerInv, NEW a \in Assets, NEW bits \in Block, Fetch(a, bits) PROVE ServerInv' /\ RowsStay
<1>0. ServerTypes /\ UploadsAreRecoverable /\ RowsAreHeld /\ BudgetHolds
  BY DEF ServerInv
<1>1. /\ Len(partials[a]) + Len(bits) <= Size /\ Admits(Size - Len(partials[a]))
      /\ partials' = [partials EXCEPT ![a] = @ \o bits]
      /\ UNCHANGED <<objects, quarantined, refs, uploads, upfiles, budget, serial, withdrawn>>
  BY DEF Fetch
<1>2. bits \in Seq(BOOLEAN) /\ Len(bits) \in Nat /\ partials[a] \in Seq(BOOLEAN) /\ Len(partials[a]) \in 0..Size
  BY <1>0, FileIs, FilesHaveLengths, LenProperties DEF Block
<1>3. partials[a] \o bits \in Seq(BOOLEAN) /\ Len(partials[a] \o bits) = Len(partials[a]) + Len(bits)
  BY <1>2, ConcatProperties
<1>4. partials[a] \o bits \in File
  BY <1>1, <1>3, FileIs
<1>5. partials' = [b \in Assets |-> IF b = a THEN partials[a] \o bits ELSE partials[b]]
  BY <1>0, <1>1 DEF ServerTypes
<1>6. ServerTypes'
  BY <1>0, <1>1, <1>4, <1>5 DEF ServerTypes
<1>7. Uploading' = Uploading /\ \A b : Whole(b)' <=> Whole(b)
  BY <1>1 DEF Uploading, Whole
<1>8. UploadsAreRecoverable' /\ RowsAreHeld' /\ RowsStay
  BY <1>0, <1>1, <1>7 DEF UploadsAreRecoverable, RowsAreHeld, RowsStay
<1>9. BudgetHolds'
  <2> DEFINE l == Len(partials[a]) + 1
             n == Len(partials[a]) + Len(bits)
             more == Size - Len(partials[a])
  <2>0. l \in Nat \ {0} /\ n \in Nat /\ l <= n + 1 /\ n - l + 1 <= more /\ more \in Nat /\ n - l + 1 \in Nat
    BY <1>1, <1>2, CacheAssumption
  <2>1. Stored' \subseteq Stored \cup ({<<"partial", a>>} \X (l..n))
    <3>1. \A b \in Assets : {<<"partial", b>>} \X (1..Len(partials'[b])) \subseteq Stored \cup ({<<"partial", a>>} \X (l..n))
      <4>1. ASSUME NEW b \in Assets, b # a PROVE {<<"partial", b>>} \X (1..Len(partials'[b])) \subseteq Stored
        BY <1>5, <4>1, StoredHas
      <4>2. 1..n \subseteq (1..Len(partials[a])) \cup (l..n)
        BY <1>2
      <4>3. Len(partials'[a]) = n
        BY <1>3, <1>5
      <4>4. {<<"partial", a>>} \X (1..Len(partials'[a])) \subseteq Stored \cup ({<<"partial", a>>} \X (l..n))
        BY <4>2, <4>3, StoredHas
      <4>. QED  BY <4>1, <4>4
    <3>2. \A b \in Assets : {<<"object", b>>} \X (1..ObjectLen(b)') \subseteq Stored
      BY <1>1, StoredHas DEF ObjectLen
    <3>3. \A q \in quarantined' : {<<"quarantine", q>>} \X (1..Size) \subseteq Stored
      BY <1>1, StoredHas
    <3>4. \A u \in Uploads : {<<"upload", u>>} \X (1..FileLen(upfiles'[u])) \subseteq Stored
      BY <1>1, StoredHas
    <3> HIDE DEF l, n
    <3>. QED  BY <3>1, <3>2, <3>3, <3>4, StoredNext
  <2>2. Awaited(Uploading)' = Awaited(Uploading) /\ Awaited(Filed)' = Awaited(Filed)
    BY <1>1, <1>7 DEF Awaited, Filed
  <2>3. Admits(more)
    BY <1>1
  <2> HIDE DEF l, n, more
  <2>4. IsFiniteSet(Stored) /\ IsFiniteSet(Awaited(Uploading)) /\ IsFiniteSet(Awaited(Filed)) /\ budget \in Nat
    BY <1>0, AwaitedFinite DEF BudgetHolds, ServerTypes
  <2>5. IsFiniteSet(Stored') /\ Cardinality(Stored') <= Cardinality(Stored) + (n - l + 1) /\ Cardinality(Stored') \in Nat /\ Cardinality(Stored) \in Nat
    BY <2>0, <2>1, <2>4, MoreBlocks
  <2>6. Cardinality(Awaited(Filed)) \in Nat
    BY <2>4, FS_CardinalityType
  <2>7. Cardinality(Stored') + Cardinality(Awaited(Filed)') <= Cardinality(Stored) + Cardinality(Awaited(Filed)) + more
    BY <2>0, <2>2, <2>5, <2>6
  <2>. QED  BY <1>0, <1>1, <2>0, <2>2, <2>3, <2>4, <2>5, <2>7, BudgetStays
<1>. QED  BY <1>6, <1>8, <1>9 DEF ServerInv

(* A budget is registered that all there is and is to come fits in. *)
LEMMA BudgetApplyKeeps == ASSUME ServerInv, NEW m \in Budgets, BudgetApply(m) PROVE ServerInv' /\ RowsStay
<1>0. ServerTypes /\ UploadsAreRecoverable /\ RowsAreHeld /\ BudgetHolds
  BY DEF ServerInv
<1>1. /\ Payload + Reserved <= m /\ budget' = m /\ m \in Nat
      /\ UNCHANGED <<objects, partials, quarantined, refs, uploads, upfiles, serial, withdrawn>>
  BY CacheAssumption DEF BudgetApply
<1>2. ServerTypes'
  BY <1>0, <1>1 DEF ServerTypes
<1>3. Uploading' = Uploading /\ \A b : Whole(b)' <=> Whole(b)
  BY <1>1 DEF Uploading, Whole
<1>4. UploadsAreRecoverable' /\ RowsAreHeld' /\ RowsStay
  BY <1>0, <1>1, <1>3 DEF UploadsAreRecoverable, RowsAreHeld, RowsStay
<1>5. Stored' = Stored /\ Awaited(Uploading)' = Awaited(Uploading) /\ Awaited(Filed)' = Awaited(Filed)
  BY <1>1, <1>3 DEF Stored, ObjectLen, Awaited, Filed
<1>6. BudgetHolds'
  <2>1. Cardinality(Awaited(Filed)) <= Reserved /\ Cardinality(Awaited(Filed)) \in Nat /\ Reserved \in Nat /\ Payload \in Nat
    BY <1>0, AwaitedFinite
  <2>2. Payload' + Cardinality(Awaited(Filed)') <= budget'
    BY <1>1, <1>5, <2>1 DEF Payload
  <2>. QED  BY <1>0, <1>5, <2>2 DEF BudgetHolds, WithinBudget, Filed
<1>. QED  BY <1>2, <1>4, <1>6 DEF ServerInv

(* The objects that are there stay, and what is new is right. *)
ObjectsGrow ==
  /\ objects' \in [Assets -> Object \cup {NoFile}]
  /\ \A a \in Assets : objects[a] # NoFile => objects'[a] = objects[a]
  /\ \A a \in Assets : objects'[a] # NoFile => objects'[a] = objects[a] \/ Right(objects'[a].bits)

LEMMA GrownObjects ==
  ASSUME ServerTypes, UploadsAreRecoverable, ObjectsGrow
  PROVE  /\ \A a \in Assets : objects'[a] # NoFile => Right(objects'[a].bits)
         /\ \A a \in Assets : Whole(a) => Whole(a)'
BY DEF ObjectsGrow, UploadsAreRecoverable, Whole

LEMMA NewObject ==
  ASSUME ServerTypes, NEW a \in Assets, objects[a] = NoFile, NEW bits \in File, Right(bits), NEW n \in Nat,
         objects' = [objects EXCEPT ![a] = [ino |-> n, bits |-> bits]]
  PROVE  ObjectsGrow /\ ObjectLen(a)' = Size /\ Whole(a)' /\ \A b \in Assets \ {a} : objects'[b] = objects[b]
<1>1. PICK new : new = [ino |-> n, bits |-> bits]
  OBVIOUS
<1>2. new \in Object /\ new # NoFile /\ new.bits = bits
  BY <1>1, CacheAssumption DEF Object
<1>3. objects' = [b \in Assets |-> IF b = a THEN new ELSE objects[b]]
  BY <1>1 DEF ServerTypes
<1>4. objects'[a] = new /\ \A b \in Assets \ {a} : objects'[b] = objects[b]
  BY <1>3
<1>5. ObjectsGrow
  BY <1>2, <1>3, <1>4 DEF ObjectsGrow, ServerTypes
<1>6. ObjectLen(a)' = Size /\ Whole(a)'
  BY <1>2, <1>4 DEF ObjectLen, Whole, Right
<1>. QED  BY <1>4, <1>5, <1>6

(* A file that is whole takes its place, or the place of wrong files. *)
LEMMA FetchEndsKeeps == ASSUME ServerInv, NEW a \in Assets, FetchEnds(a) PROVE ServerInv' /\ RowsStay
<1>0. ServerTypes /\ UploadsAreRecoverable /\ RowsAreHeld /\ BudgetHolds
  BY DEF ServerInv
<1>1. /\ objects[a] = NoFile /\ Len(partials[a]) = Size /\ partials' = [partials EXCEPT ![a] = <<>>]
      /\ UNCHANGED <<refs, uploads, upfiles, budget, withdrawn>>
  BY DEF FetchEnds
<1>2. \/ /\ Right(partials[a]) /\ objects' = [objects EXCEPT ![a] = [ino |-> serial + 1, bits |-> partials[a]]]
         /\ serial' = serial + 1 /\ UNCHANGED quarantined
      \/ quarantined' = quarantined \cup {<<a, partials[a]>>} /\ UNCHANGED <<objects, serial>>
  BY DEF FetchEnds
<1>3. partials[a] \in File /\ serial \in Nat /\ serial + 1 \in Nat /\ Size \in Nat
  BY <1>0, CacheAssumption DEF ServerTypes
<1>4. <<>> \in File /\ Len(<<>>) = 0
  BY EmptyFile
<1>5. partials' = [b \in Assets |-> IF b = a THEN <<>> ELSE partials[b]]
  BY <1>0, <1>1 DEF ServerTypes
<1>6. ObjectsGrow /\ serial' \in Nat
  BY <1>0, <1>1, <1>2, <1>3, NewObject DEF ObjectsGrow, ServerTypes
<1>7. ServerTypes'
  BY <1>0, <1>1, <1>4, <1>5, <1>6 DEF ServerTypes, ObjectsGrow
<1>8. Uploading' = Uploading
  BY <1>1 DEF Uploading
<1>9. \A u \in Uploads : uploads[u] # NoRow => uploads[u].asset \in Assets
  BY <1>0 DEF ServerTypes, Upload
<1>10. UploadsAreRecoverable' /\ RowsAreHeld' /\ RowsStay
  BY <1>0, <1>1, <1>6, <1>8, <1>9, GrownObjects DEF UploadsAreRecoverable, RowsAreHeld, RowsStay, Uploading
<1> DEFINE P == {<<"partial", a>>} \X (1..Size)
           Spot(y) == (Stored \ P) \cup ({y} \X (1..Size))
<1>11. PICK y : /\ \A b \in Assets : {<<"object", b>>} \X (1..ObjectLen(b)') \subseteq Spot(y)
                /\ \A q \in quarantined' : {<<"quarantine", q>>} \X (1..Size) \subseteq Spot(y)
  <2>1. \A b \in Assets : {<<"object", b>>} \X (1..ObjectLen(b)) \subseteq Stored \ P
    BY StoredHas
  <2>2. \A q \in quarantined : {<<"quarantine", q>>} \X (1..Size) \subseteq Stored \ P
    BY StoredHas
  <2> HIDE DEF P
  <2>3. CASE Right(partials[a]) /\ objects' = [objects EXCEPT ![a] = [ino |-> serial + 1, bits |-> partials[a]]] /\ UNCHANGED quarantined
    <3>1. ObjectLen(a)' = Size /\ \A b \in Assets \ {a} : objects'[b] = objects[b]
      BY <1>0, <1>1, <1>3, <2>3, NewObject
    <3>2. \A b \in Assets \ {a} : ObjectLen(b)' = ObjectLen(b)
      BY <3>1 DEF ObjectLen
    <3>3. \A b \in Assets : {<<"object", b>>} \X (1..ObjectLen(b)') \subseteq Spot(<<"object", a>>)
      BY <2>1, <3>1, <3>2
    <3>4. \A q \in quarantined' : {<<"quarantine", q>>} \X (1..Size) \subseteq Spot(<<"object", a>>)
      BY <2>2, <2>3
    <3>. QED  BY <3>3, <3>4
  <2>4. CASE quarantined' = quarantined \cup {<<a, partials[a]>>} /\ UNCHANGED objects
    <3>1. \A b \in Assets : ObjectLen(b)' = ObjectLen(b)
      BY <2>4 DEF ObjectLen
    <3>2. PICK x : x = <<a, partials[a]>>
      OBVIOUS
    <3>3. ASSUME NEW q \in quarantined' PROVE {<<"quarantine", q>>} \X (1..Size) \subseteq Spot(<<"quarantine", x>>)
      <4>1. q \in quarantined \/ q = x
        BY <2>4, <3>2
      <4>. QED  BY <2>2, <4>1
    <3>4. \A b \in Assets : {<<"object", b>>} \X (1..ObjectLen(b)') \subseteq Spot(<<"quarantine", x>>)
      BY <2>1, <3>1
    <3>. QED  BY <3>3, <3>4
  <2>. QED  BY <1>2, <2>3, <2>4
<1>12. BudgetHolds'
  <2>1. P \subseteq Stored
    BY <1>1, StoredHas
  <2>2. \A b \in Assets : {<<"partial", b>>} \X (1..Len(partials'[b])) \subseteq Stored \ P
    <3>1. ASSUME NEW b \in Assets, b # a PROVE {<<"partial", b>>} \X (1..Len(partials'[b])) \subseteq Stored \ P
      BY <1>5, <3>1, StoredHas
    <3>2. 1..Len(partials'[a]) = {}
      BY <1>4, <1>5
    <3>. QED  BY <3>1, <3>2
  <2>3. \A u \in Uploads : {<<"upload", u>>} \X (1..FileLen(upfiles'[u])) \subseteq Stored \ P
    BY <1>1, StoredHas
  <2>4. Stored' \subseteq Spot(y)
    <3>1. /\ \A b \in Assets : {<<"partial", b>>} \X (1..Len(partials'[b])) \subseteq Spot(y)
          /\ \A u \in Uploads : {<<"upload", u>>} \X (1..FileLen(upfiles'[u])) \subseteq Spot(y)
      BY <2>2, <2>3
    <3>2. /\ \A b \in Assets : {<<"object", b>>} \X (1..ObjectLen(b)') \subseteq Spot(y)
          /\ \A q \in quarantined' : {<<"quarantine", q>>} \X (1..Size) \subseteq Spot(y)
      BY <1>11
    <3> HIDE DEF Spot
    <3>. QED  BY <3>1, <3>2, StoredNext
  <2>5. IsFiniteSet(Stored) /\ IsFiniteSet(Awaited(Uploading)) /\ IsFiniteSet(Awaited(Filed)) /\ budget \in Nat
    BY <1>0, AwaitedFinite DEF BudgetHolds, ServerTypes
  <2>6. IsFiniteSet(Stored') /\ Cardinality(Stored') <= Cardinality(Stored) /\ Cardinality(Stored') \in Nat /\ Cardinality(Stored) \in Nat
    <3>1. PICK x : x = <<"partial", a>>
      OBVIOUS
    <3>2. PICK n \in Nat : n = Size
      BY <1>3
    <3>3. PICK S : S = Stored
      OBVIOUS
    <3>4. PICK T : T = Stored'
      OBVIOUS
    <3>5. IsFiniteSet(S) /\ {x} \X (1..n) \subseteq S /\ T \subseteq (S \ ({x} \X (1..n))) \cup ({y} \X (1..n))
      BY <2>1, <2>4, <2>5, <3>1, <3>2, <3>3, <3>4
    <3> HIDE DEF P, Spot
    <3>6. IsFiniteSet(T) /\ Cardinality(T) <= Cardinality(S)
      BY <3>5, MovedBlocks
    <3>. QED  BY <2>5, <3>3, <3>4, <3>6, FS_CardinalityType
  <2>7. Awaited(Uploading)' = Awaited(Uploading) /\ Awaited(Filed)' = Awaited(Filed)
    BY <1>1, <1>8 DEF Awaited, Filed
  <2>8. Cardinality(Awaited(Filed)) \in Nat
    BY <2>5, FS_CardinalityType
  <2>9. Cardinality(Stored') + Cardinality(Awaited(Filed)') <= Cardinality(Stored) + Cardinality(Awaited(Filed)) + 0
    BY <2>6, <2>7, <2>8
  <2>. QED  BY <1>0, <1>1, <2>5, <2>6, <2>7, <2>9, BudgetStays
<1>. QED  BY <1>7, <1>10, <1>12 DEF ServerInv

(* An object that nobody refers to goes. *)
LEMMA UnlinkKeeps ==
  ASSUME ServerInv, NEW a, Names(a) = {}, objects' \in {objects, [objects EXCEPT ![a] = NoFile]},
         UNCHANGED <<partials, quarantined, refs, uploads, upfiles, budget, serial, withdrawn>>
  PROVE  ServerInv' /\ RowsStay
<1>0. ServerTypes /\ UploadsAreRecoverable /\ RowsAreHeld /\ BudgetHolds
  BY DEF ServerInv
<1>1. /\ objects' \in [Assets -> Object \cup {NoFile}]
      /\ \A b \in Assets : objects'[b] = objects[b] \/ (b = a /\ objects'[b] = NoFile)
  BY <1>0 DEF ServerTypes
<1>2. ServerTypes'
  BY <1>0, <1>1 DEF ServerTypes
<1>3. Uploading' = Uploading
  BY DEF Uploading
<1>4. \A u \in Uploads : <<u, a>> \notin refs
  BY DEF Names, HeldUnder
<1>5. ASSUME NEW u \in Uploads, uploads[u] # NoRow, <<u, uploads[u].asset>> \in refs, Whole(uploads[u].asset)
      PROVE  Whole(uploads[u].asset)'
  <2>1. uploads[u].asset \in Assets /\ uploads[u].asset # a
    BY <1>0, <1>4, <1>5 DEF ServerTypes, Upload
  <2>. QED  BY <1>1, <1>5, <2>1 DEF Whole
<1>6. UploadsAreRecoverable'
  <2>1. \A b \in Assets : objects'[b] # NoFile => Right(objects'[b].bits)
    BY <1>0, <1>1 DEF UploadsAreRecoverable
  <2>2. ASSUME NEW u \in Uploading
        PROVE  IF upfiles[u] # NoFile THEN uploads[u].received <= Len(upfiles[u])
               ELSE uploads[u].received = Size /\ ((<<u, uploads[u].asset>> \in refs /\ Whole(uploads[u].asset)') \/ u \in withdrawn')
    BY <1>0, <1>5 DEF UploadsAreRecoverable, Uploading
  <2>. QED  BY <1>3, <2>1, <2>2 DEF UploadsAreRecoverable
<1>7. RowsAreHeld' /\ RowsStay
  BY <1>0, <1>5 DEF RowsAreHeld, RowsStay
<1>8. BudgetHolds'
  <2>1. \A b \in Assets : {<<"object", b>>} \X (1..ObjectLen(b)') \subseteq Stored
    <3>1. ASSUME NEW b \in Assets PROVE ObjectLen(b)' = ObjectLen(b) \/ ObjectLen(b)' = 0
      BY <1>1 DEF ObjectLen
    <3>2. 1..0 = {}
      OBVIOUS
    <3>. QED  BY <3>1, <3>2, StoredHas
  <2>2. Stored' \subseteq Stored
    BY <2>1, StoredHas, StoredNext
  <2>3. IsFiniteSet(Stored) /\ IsFiniteSet(Awaited(Uploading)) /\ IsFiniteSet(Awaited(Filed)) /\ budget \in Nat
    BY <1>0, AwaitedFinite DEF BudgetHolds, ServerTypes
  <2>4. IsFiniteSet(Stored') /\ Cardinality(Stored') <= Cardinality(Stored) /\ Cardinality(Stored') \in Nat /\ Cardinality(Stored) \in Nat
    BY <2>2, <2>3, NoMoreBlocks
  <2>5. Awaited(Uploading)' = Awaited(Uploading) /\ Awaited(Filed)' = Awaited(Filed)
    BY <1>3 DEF Awaited, Filed
  <2>6. Cardinality(Awaited(Filed)) \in Nat
    BY <2>3, FS_CardinalityType
  <2>7. Cardinality(Stored') + Cardinality(Awaited(Filed)') <= Cardinality(Stored) + Cardinality(Awaited(Filed)) + 0
    BY <2>4, <2>5, <2>6
  <2>. QED  BY <1>0, <2>3, <2>4, <2>5, <2>7, BudgetStays
<1>. QED  BY <1>2, <1>6, <1>7, <1>8 DEF ServerInv

LEMMA AwaitedHas ==
  /\ \A v \in Uploading : {<<"upload", v>>} \X ((FileLen(upfiles[v]) + 1)..Size) \subseteq Awaited(Uploading)
  /\ \A v \in Filed : {<<"upload", v>>} \X ((FileLen(upfiles[v]) + 1)..Size) \subseteq Awaited(Filed)
BY DEF Awaited

LEMMA AwaitedNext ==
  ASSUME NEW P, \A v \in Uploading' : {<<"upload", v>>} \X ((FileLen(upfiles'[v]) + 1)..Size) \subseteq P
  PROVE  Awaited(Uploading)' \subseteq P
BY DEF Awaited

LEMMA FiledNext ==
  ASSUME NEW P, \A v \in Filed' : {<<"upload", v>>} \X ((FileLen(upfiles'[v]) + 1)..Size) \subseteq P
  PROVE  Awaited(Filed)' \subseteq P
BY DEF Awaited

(* A new upload: the object that is there is referred to, or an empty file is opened and its blocks are awaited. *)
LEMMA BegunKeeps == ASSUME ServerInv, NEW u \in Uploads, NEW a \in Assets, NEW commits \in BOOLEAN, Begun(u, a, commits) PROVE ServerInv' /\ RowsStay
<1>0. ServerTypes /\ UploadsAreRecoverable /\ RowsAreHeld /\ BudgetHolds
  BY DEF ServerInv
<1>1. uploads[u] = NoRow /\ UNCHANGED <<objects, partials, quarantined, budget, serial, withdrawn>>
  BY DEF Begun
<1>2. CASE /\ Whole(a) /\ refs' = refs \cup {<<u, a>>} /\ UNCHANGED upfiles
           /\ uploads' = [uploads EXCEPT ![u] = [asset |-> a, state |-> "verified", received |-> Size]]
  <2>1. PICK row : row = [asset |-> a, state |-> "verified", received |-> Size]
    OBVIOUS
  <2>2. row \in Upload /\ row # NoRow /\ row.state = "verified" /\ row.asset = a
    BY <2>1, CacheAssumption DEF Upload
  <2>3. uploads' = [v \in Uploads |-> IF v = u THEN row ELSE uploads[v]]
    BY <1>0, <1>2, <2>1 DEF ServerTypes
  <2>4. ServerTypes'
    BY <1>0, <1>1, <1>2, <2>2, <2>3 DEF ServerTypes
  <2>5. /\ Uploading' = Uploading /\ u \notin Uploading /\ \A b : Whole(b)' <=> Whole(b)
        /\ \A v \in Uploads \ {u} : uploads'[v] = uploads[v]
    BY <1>1, <2>2, <2>3 DEF Uploading, Whole
  <2>6. UploadsAreRecoverable'
    <3>1. \A v \in Uploading : uploads'[v] = uploads[v] /\ v \in Uploads
      BY <2>5 DEF Uploading
    <3>. QED  BY <1>0, <1>1, <1>2, <2>5, <3>1 DEF UploadsAreRecoverable
  <2>7. RowsAreHeld' /\ RowsStay
    BY <1>0, <1>1, <1>2, <2>2, <2>3, <2>5 DEF RowsAreHeld, RowsStay
  <2>8. BudgetHolds'
    <3>1. Stored' = Stored /\ Awaited(Uploading)' = Awaited(Uploading) /\ Awaited(Filed)' = Awaited(Filed)
      BY <1>1, <1>2, <2>5 DEF Stored, ObjectLen, Awaited, Filed
    <3>. QED  BY <1>0, <1>1, <3>1, SameBudget
  <2>. QED  BY <2>4, <2>6, <2>7, <2>8 DEF ServerInv
<1>3. CASE /\ upfiles[u] = NoFile /\ Admits(Size) /\ upfiles' = [upfiles EXCEPT ![u] = <<>>] /\ UNCHANGED <<refs, withdrawn>>
           /\ uploads' = IF commits THEN [uploads EXCEPT ![u] = [asset |-> a, state |-> "uploading", received |-> 0]] ELSE uploads
  <2>1. PICK row : row = [asset |-> a, state |-> "uploading", received |-> 0]
    OBVIOUS
  <2>2. row \in Upload /\ row # NoRow /\ row.state = "uploading" /\ row.received = 0
    BY <2>1, CacheAssumption DEF Upload
  <2>3. uploads' = [v \in Uploads |-> IF v = u THEN uploads'[u] ELSE uploads[v]] /\ uploads'[u] \in {row, NoRow}
    BY <1>0, <1>1, <1>3, <2>1 DEF ServerTypes
  <2>4. upfiles' = [v \in Uploads |-> IF v = u THEN <<>> ELSE upfiles[v]]
    BY <1>0, <1>3 DEF ServerTypes
  <2>5. ServerTypes'
    BY <1>0, <1>1, <2>2, <2>3, <2>4, EmptyFile DEF ServerTypes
  <2>6. /\ \A b : Whole(b)' <=> Whole(b)
        /\ \A v \in Uploads \ {u} : uploads'[v] = uploads[v] /\ upfiles'[v] = upfiles[v]
        /\ u \notin Uploading /\ \A v \in Uploading' \ {u} : v \in Uploads /\ v \in Uploading
    BY <1>1, <2>3, <2>4 DEF Uploading, Whole
  <2>7. UploadsAreRecoverable'
    <3>1. u \in Uploading' => upfiles'[u] # NoFile /\ uploads'[u].received <= Len(upfiles'[u])
      BY <2>2, <2>3, <2>4, EmptyFile, CacheAssumption DEF Uploading
    <3>2. ASSUME NEW v \in Uploading', v # u
          PROVE  IF upfiles'[v] # NoFile THEN uploads'[v].received <= Len(upfiles'[v])
                 ELSE uploads'[v].received = Size /\ ((<<v, uploads'[v].asset>> \in refs' /\ Whole(uploads[v].asset)') \/ v \in withdrawn')
      <4>1. v \in Uploading /\ v \in Uploads /\ uploads'[v] = uploads[v] /\ upfiles'[v] = upfiles[v]
        BY <2>6, <3>2
      <4>2. Whole(uploads[v].asset)' <=> Whole(uploads[v].asset)
        BY <1>1, <4>1 DEF Whole
      <4>. QED  BY <1>0, <1>3, <4>1, <4>2 DEF UploadsAreRecoverable
    <3>. QED  BY <1>0, <1>1, <3>1, <3>2 DEF UploadsAreRecoverable
  <2>8. RowsAreHeld' /\ RowsStay
    BY <1>0, <1>1, <1>3, <2>2, <2>3, <2>6 DEF RowsAreHeld, RowsStay
  <2>9. BudgetHolds'
    <3>1. Stored' \subseteq Stored
      <4>1. FileLen(upfiles'[u]) = 0 /\ 1..0 = {}
        BY <2>4, EmptyFile DEF FileLen
      <4>2. \A v \in Uploads : {<<"upload", v>>} \X (1..FileLen(upfiles'[v])) \subseteq Stored
        BY <2>6, <4>1, StoredHas
      <4>3. \A b \in Assets : {<<"object", b>>} \X (1..ObjectLen(b)') \subseteq Stored
        BY <1>1, StoredHas DEF ObjectLen
      <4>. QED  BY <1>1, <4>2, <4>3, StoredHas, StoredNext
    <3>0. PICK x : x = <<"upload", u>>
      OBVIOUS
    <3>2. PICK l \in Nat \ {0} : l = 1 /\ l <= Size + 1 /\ Size - l + 1 = Size /\ Size \in Nat
      BY CacheAssumption
    <3> DEFINE Add(S) == S \cup ({x} \X (l..Size))
    <3>3. FileLen(upfiles'[u]) + 1 = l
      BY <2>4, <3>2, EmptyFile DEF FileLen
    <3>4. Awaited(Uploading)' \subseteq Add(Awaited(Uploading))
      <4>1. \A v \in Uploading' : {<<"upload", v>>} \X ((FileLen(upfiles'[v]) + 1)..Size) \subseteq Add(Awaited(Uploading))
        BY <2>6, <3>0, <3>3, AwaitedHas
      <4> HIDE DEF Add
      <4>. QED  BY <4>1, AwaitedNext
    <3>5. Awaited(Filed)' \subseteq Add(Awaited(Filed))
      <4>1. \A v \in Filed' : v = u \/ (v \in Filed /\ upfiles'[v] = upfiles[v])
        BY <2>6 DEF Filed
      <4>2. \A v \in Filed' : {<<"upload", v>>} \X ((FileLen(upfiles'[v]) + 1)..Size) \subseteq Add(Awaited(Filed))
        BY <3>0, <3>3, <4>1, AwaitedHas
      <4> HIDE DEF Add
      <4>. QED  BY <4>2, FiledNext
    <3>6. IsFiniteSet(Stored) /\ IsFiniteSet(Awaited(Uploading)) /\ IsFiniteSet(Awaited(Filed)) /\ budget \in Nat
      BY <1>0, AwaitedFinite DEF BudgetHolds, ServerTypes
    <3>7. IsFiniteSet(Awaited(Uploading)')
      BY <3>2, <3>4, <3>6, MoreBlocks
    <3>8. Cardinality(Awaited(Filed)') <= Cardinality(Awaited(Filed)) + Size /\ Cardinality(Awaited(Filed)') \in Nat /\ Cardinality(Awaited(Filed)) \in Nat
      BY <3>2, <3>5, <3>6, MoreBlocks
    <3>9. IsFiniteSet(Stored') /\ Cardinality(Stored') <= Cardinality(Stored) /\ Cardinality(Stored') \in Nat /\ Cardinality(Stored) \in Nat
      BY <3>1, <3>6, NoMoreBlocks
    <3>10. Cardinality(Stored') + Cardinality(Awaited(Filed)') <= Cardinality(Stored) + Cardinality(Awaited(Filed)) + Size
      BY <3>2, <3>8, <3>9
    <3>. QED  BY <1>0, <1>1, <1>3, <3>2, <3>6, <3>7, <3>9, <3>10, BudgetStays
  <2>. QED  BY <2>5, <2>7, <2>8, <2>9 DEF ServerInv
<1>. QED  BY <1>2, <1>3 DEF Begun

(* A block is written: it leaves the blocks awaited and joins those stored; the row follows at commit. *)
LEMMA WrittenKeeps ==
  ASSUME ServerInv, NEW u \in Uploads, NEW offset, NEW block \in Seq(BOOLEAN), NEW length, NEW commits \in BOOLEAN, Written(u, offset, block, length, commits)
  PROVE  ServerInv' /\ RowsStay
<1>0. ServerTypes /\ UploadsAreRecoverable /\ RowsAreHeld /\ BudgetHolds
  BY DEF ServerInv
<1> DEFINE file == upfiles[u]
           end == offset + Len(block)
           new == SubSeq(file, 1, offset) \o SubSeq(block, 1, length - offset)
<1>1. /\ uploads[u] # NoRow /\ uploads[u].state = "uploading" /\ file # NoFile
      /\ offset = uploads[u].received /\ end <= Size /\ offset <= Len(file) /\ Len(file) <= end
      /\ length \in Len(file)..end /\ (commits => length = end)
      /\ upfiles' = [upfiles EXCEPT ![u] = new]
      /\ uploads' = IF commits THEN [uploads EXCEPT ![u].received = end] ELSE uploads
      /\ UNCHANGED <<objects, partials, quarantined, refs, budget, serial, withdrawn>>
  BY DEF Written
<1>2. /\ file \in Seq(BOOLEAN) /\ Len(file) \in 0..Size /\ FileLen(file) = Len(file)
      /\ Len(block) \in Nat /\ offset \in Nat /\ end \in 0..Size /\ length \in 0..Size /\ offset <= length /\ Size \in Nat
  <2>1. uploads[u] \in Upload /\ uploads[u].received \in 0..Size /\ Size \in Nat
    BY <1>0, <1>1, CacheAssumption DEF ServerTypes, Upload
  <2>2. file \in Seq(BOOLEAN) /\ FileLen(file) = Len(file) /\ Len(file) \in 0..Size
    BY <1>0, <1>1, FilesHaveLengths
  <2>3. Len(block) \in Nat
    BY LenProperties
  <2>4. offset \in Nat /\ end \in 0..Size
    BY <1>1, <2>1, <2>3
  <2>5. length \in 0..Size /\ offset <= length
    BY <1>1, <2>1, <2>2, <2>4
  <2>. QED  BY <2>1, <2>2, <2>3, <2>4, <2>5
<1>3. new \in File /\ Len(new) = length
  <2>1. SubSeq(file, 1, offset) \in Seq(BOOLEAN) /\ Len(SubSeq(file, 1, offset)) = offset
    <3>1. \A i \in 1..offset : file[i] \in BOOLEAN
      BY <1>1, <1>2, ElementOfSeq
    <3>. QED  BY <1>2, <3>1, SubSeqProperties
  <2>2. SubSeq(block, 1, length - offset) \in Seq(BOOLEAN) /\ Len(SubSeq(block, 1, length - offset)) = length - offset
    <3>1. length - offset \in Int /\ length - offset <= Len(block) /\ length - offset >= 0
      BY <1>1, <1>2
    <3>2. \A i \in 1..(length - offset) : block[i] \in BOOLEAN
      BY <1>2, <3>1, ElementOfSeq
    <3>. QED  BY <3>1, <3>2, SubSeqProperties
  <2>3. new \in Seq(BOOLEAN) /\ Len(new) = offset + (length - offset)
    BY <2>1, <2>2, ConcatProperties
  <2>4. offset + (length - offset) = length /\ length <= Size
    BY <1>2
  <2> HIDE DEF new
  <2>. QED  BY <2>3, <2>4, FileIs
<1>4. /\ new # NoFile /\ FileLen(new) = length
      /\ upfiles' = [v \in Uploads |-> IF v = u THEN new ELSE upfiles[v]]
  BY <1>0, <1>1, <1>3, CacheAssumption DEF ServerTypes, FileLen
<1> HIDE DEF new
<1>5. PICK row : row = [uploads[u] EXCEPT !.received = end]
  OBVIOUS
<1>6. row \in Upload /\ row # NoRow /\ row.state = "uploading" /\ row.received = end /\ row.asset = uploads[u].asset
  BY <1>0, <1>1, <1>2, <1>5, CacheAssumption DEF ServerTypes, Upload
<1>7. uploads' = [v \in Uploads |-> IF v = u THEN uploads'[u] ELSE uploads[v]] /\ uploads'[u] = IF commits THEN row ELSE uploads[u]
  BY <1>0, <1>1, <1>5 DEF ServerTypes
<1>8. uploads'[u] \in Upload
  BY <1>0, <1>1, <1>6, <1>7 DEF ServerTypes
<1>9. ServerTypes'
  BY <1>0, <1>1, <1>3, <1>4, <1>7, <1>8 DEF ServerTypes
<1>10. /\ \A b : Whole(b)' <=> Whole(b)
       /\ \A v \in Uploads \ {u} : uploads'[v] = uploads[v] /\ upfiles'[v] = upfiles[v]
       /\ u \in Uploading /\ Uploading' = Uploading
  BY <1>1, <1>4, <1>6, <1>7 DEF Uploading, Whole
<1>11. UploadsAreRecoverable'
  <2>1. uploads'[u].received <= length
    BY <1>1, <1>2, <1>6, <1>7
  <2>2. upfiles'[u] # NoFile /\ uploads'[u].received <= Len(upfiles'[u])
    BY <1>3, <1>4, <2>1
  <2>3. ASSUME NEW v \in Uploading, v # u
        PROVE  IF upfiles'[v] # NoFile THEN uploads'[v].received <= Len(upfiles'[v])
               ELSE uploads'[v].received = Size /\ ((<<v, uploads'[v].asset>> \in refs' /\ Whole(uploads[v].asset)') \/ v \in withdrawn')
    <3>1. v \in Uploads /\ uploads'[v] = uploads[v] /\ upfiles'[v] = upfiles[v]
      BY <1>10, <2>3 DEF Uploading
    <3>2. Whole(uploads[v].asset)' <=> Whole(uploads[v].asset)
      BY <1>1, <3>1 DEF Whole
    <3>3. IF upfiles[v] # NoFile THEN uploads[v].received <= Len(upfiles[v])
          ELSE uploads[v].received = Size /\ ((<<v, uploads[v].asset>> \in refs /\ Whole(uploads[v].asset)) \/ v \in withdrawn)
      BY <1>0, <2>3 DEF UploadsAreRecoverable
    <3>4. refs' = refs /\ withdrawn' = withdrawn
      BY <1>1
    <3>. QED  BY <3>1, <3>2, <3>3, <3>4
  <2>4. \A v \in Uploading \ {u} : uploads'[v] = uploads[v]
    BY <1>10 DEF Uploading
  <2>. QED  BY <1>0, <1>1, <1>10, <2>2, <2>3, <2>4 DEF UploadsAreRecoverable
<1>12. RowsAreHeld' /\ RowsStay
  BY <1>0, <1>1, <1>6, <1>7, <1>10 DEF RowsAreHeld, RowsStay
<1>13. BudgetHolds'
  <2>1. PICK x : x = <<"upload", u>>
    OBVIOUS
  <2>2. PICK l \in Nat \ {0} : l = Len(file) + 1 /\ l <= length + 1 /\ length \in Nat
    BY <1>1, <1>2
  <2> DEFINE U == {x} \X (l..length)
             Add == Stored \cup U
             Less == Awaited(Filed) \ U
  <2>3. Stored' \subseteq Add
    <3>1. 1..FileLen(upfiles'[u]) \subseteq (1..FileLen(upfiles[u])) \cup (l..length)
      BY <1>2, <1>4, <2>2
    <3>2. {<<"upload", u>>} \X (1..FileLen(upfiles'[u])) \subseteq Add
      BY <2>1, <3>1, StoredHas
    <3>3. \A v \in Uploads : {<<"upload", v>>} \X (1..FileLen(upfiles'[v])) \subseteq Add
      BY <1>10, <3>2, StoredHas
    <3>4. \A b \in Assets : {<<"object", b>>} \X (1..ObjectLen(b)') \subseteq Add
      BY <1>1, StoredHas DEF ObjectLen
    <3>5. /\ \A b \in Assets : {<<"partial", b>>} \X (1..Len(partials'[b])) \subseteq Add
          /\ \A q \in quarantined' : {<<"quarantine", q>>} \X (1..Size) \subseteq Add
      BY <1>1, StoredHas
    <3> HIDE DEF Add
    <3>. QED  BY <3>3, <3>4, <3>5, StoredNext
  <2>4. u \in Filed /\ Filed' = Filed
    BY <1>1, <1>4, <1>10 DEF Filed, Uploading
  <2>5. U \subseteq Awaited(Filed)
    <3>1. l..length \subseteq (FileLen(upfiles[u]) + 1)..Size
      BY <1>2, <2>2
    <3>. QED  BY <2>1, <2>4, <3>1, AwaitedHas
  <2>6. (FileLen(upfiles'[u]) + 1)..Size \subseteq (FileLen(upfiles[u]) + 1)..Size /\ ((FileLen(upfiles'[u]) + 1)..Size) \cap (l..length) = {}
    BY <1>1, <1>2, <1>4, <2>2
  <2>7. Awaited(Filed)' \subseteq Less
    <3>1. {<<"upload", u>>} \X ((FileLen(upfiles'[u]) + 1)..Size) \subseteq Less
      BY <2>1, <2>4, <2>6, AwaitedHas
    <3>2. \A v \in Filed' : {<<"upload", v>>} \X ((FileLen(upfiles'[v]) + 1)..Size) \subseteq Less
      <4>1. ASSUME NEW v \in Filed, v # u PROVE {<<"upload", v>>} \X ((FileLen(upfiles'[v]) + 1)..Size) \subseteq Less
        <5>1. upfiles'[v] = upfiles[v]
          BY <1>10, <4>1 DEF Filed, Uploading
        <5>2. <<"upload", v>> # x
          BY <2>1, <4>1
        <5>. QED  BY <5>1, <5>2, AwaitedHas
      <4>. QED  BY <2>4, <3>1, <4>1
    <3> HIDE DEF Less
    <3>. QED  BY <3>2, FiledNext
  <2>8. Awaited(Uploading)' \subseteq Awaited(Uploading)
    <3>1. \A v \in Uploading' : {<<"upload", v>>} \X ((FileLen(upfiles'[v]) + 1)..Size) \subseteq Awaited(Uploading)
      <4>1. ASSUME NEW v \in Uploading, v # u PROVE {<<"upload", v>>} \X ((FileLen(upfiles'[v]) + 1)..Size) \subseteq Awaited(Uploading)
        <5>1. upfiles'[v] = upfiles[v]
          BY <1>10, <4>1 DEF Uploading
        <5>. QED  BY <5>1, AwaitedHas
      <4>2. {<<"upload", u>>} \X ((FileLen(upfiles'[u]) + 1)..Size) \subseteq Awaited(Uploading)
        BY <1>10, <2>6, AwaitedHas
      <4>. QED  BY <1>10, <4>1, <4>2
    <3>. QED  BY <3>1, AwaitedNext
  <2>9. IsFiniteSet(Stored) /\ IsFiniteSet(Awaited(Uploading)) /\ IsFiniteSet(Awaited(Filed)) /\ budget \in Nat
    BY <1>0, AwaitedFinite DEF BudgetHolds, ServerTypes
  <2>10. IsFiniteSet(Stored') /\ Cardinality(Stored') <= Cardinality(Stored) + (length - l + 1) /\ Cardinality(Stored') \in Nat /\ Cardinality(Stored) \in Nat
    BY <2>2, <2>3, <2>9, MoreBlocks
  <2>11. Cardinality(Awaited(Filed)') + (length - l + 1) <= Cardinality(Awaited(Filed)) /\ Cardinality(Awaited(Filed)') \in Nat /\ Cardinality(Awaited(Filed)) \in Nat
    BY <2>2, <2>5, <2>7, <2>9, FewerBlocks
  <2>12. IsFiniteSet(Awaited(Uploading)')
    BY <2>8, <2>9, NoMoreBlocks
  <2>13. Cardinality(Stored') + Cardinality(Awaited(Filed)') <= Cardinality(Stored) + Cardinality(Awaited(Filed)) + 0
    <3>1. PICK k : k = length - l + 1
      OBVIOUS
    <3>2. k \in Int
      BY <2>2, <3>1
    <3>3. Cardinality(Stored') <= Cardinality(Stored) + k /\ Cardinality(Awaited(Filed)') + k <= Cardinality(Awaited(Filed))
      BY <2>10, <2>11, <3>1
    <3> HIDE DEF U, Add, Less
    <3>. QED  BY <2>10, <2>11, <3>2, <3>3
  <2>14. BudgetHolds /\ budget' = budget /\ budget \in Nat
    BY <1>0, <1>1, <2>9
  <2>15. IsFiniteSet(Stored') /\ IsFiniteSet(Awaited(Uploading)')
    BY <2>10, <2>12
  <2> HIDE DEF U, Add, Less
  <2>. QED  BY <2>13, <2>14, <2>15, BudgetStays
<1>. QED  BY <1>9, <1>11, <1>12, <1>13 DEF ServerInv

(* Rows that stop uploading take their blocks out of those awaited. *)
LEMMA FewerRows ==
  ASSUME ServerTypes, BudgetHolds, UNCHANGED <<objects, partials, quarantined, upfiles, budget>>, \A v \in Uploading' : v \in Uploading
  PROVE  BudgetHolds'
<1>1. Stored' = Stored
  BY DEF Stored, ObjectLen
<1>2. Awaited(Uploading)' \subseteq Awaited(Uploading)
  BY DEF Awaited
<1>3. Awaited(Filed)' \subseteq Awaited(Filed)
  BY DEF Awaited, Filed
<1>4. IsFiniteSet(Stored) /\ IsFiniteSet(Awaited(Uploading)) /\ IsFiniteSet(Awaited(Filed)) /\ budget \in Nat
  BY AwaitedFinite DEF BudgetHolds, ServerTypes
<1>5. IsFiniteSet(Awaited(Uploading)')
  BY <1>2, <1>4, NoMoreBlocks
<1>6. Cardinality(Awaited(Filed)') <= Cardinality(Awaited(Filed)) /\ Cardinality(Awaited(Filed)') \in Nat /\ Cardinality(Awaited(Filed)) \in Nat
  BY <1>3, <1>4, NoMoreBlocks
<1>7. Cardinality(Stored) \in Nat
  BY <1>4, FS_CardinalityType
<1>8. Cardinality(Stored') + Cardinality(Awaited(Filed)') <= Cardinality(Stored) + Cardinality(Awaited(Filed)) + 0
  BY <1>1, <1>6, <1>7
<1>. QED  BY <1>1, <1>4, <1>5, <1>8, BudgetStays

(* The object is referred to, or the file is wrong. *)
LEMMA ReferredKeeps == ASSUME ServerInv, NEW u \in Uploads, Referred(u) PROVE ServerInv' /\ RowsStay
<1>0. ServerTypes /\ UploadsAreRecoverable /\ RowsAreHeld /\ BudgetHolds
  BY DEF ServerInv
<1>1. Wants(u) /\ UNCHANGED <<objects, partials, quarantined, upfiles, budget, serial, withdrawn>>
  BY DEF Referred
<1>2. CASE refs' = refs \cup {<<u, uploads[u].asset>>} /\ UNCHANGED uploads
  BY <1>1, <1>2, StandingKeeps DEF FilesStand
<1>3. CASE uploads' = [uploads EXCEPT ![u].state = "corrupt"] /\ UNCHANGED <<refs, withdrawn>>
  <2>1. PICK row : row = [uploads[u] EXCEPT !.state = "corrupt"]
    OBVIOUS
  <2>2. row \in Upload /\ row # NoRow /\ row.state = "corrupt"
    BY <1>0, <1>1, <2>1, CacheAssumption DEF ServerTypes, Upload, Wants
  <2>3. uploads' = [v \in Uploads |-> IF v = u THEN row ELSE uploads[v]]
    BY <1>0, <1>3, <2>1 DEF ServerTypes
  <2>4. ServerTypes'
    BY <1>0, <1>1, <2>2, <2>3 DEF ServerTypes
  <2>5. /\ \A b : Whole(b)' <=> Whole(b)
        /\ \A v \in Uploading' : v \in Uploading /\ v \in Uploads /\ uploads'[v] = uploads[v]
        /\ \A v \in Uploads \ {u} : uploads'[v] = uploads[v]
    BY <1>1, <2>2, <2>3 DEF Uploading, Whole
  <2>6. UploadsAreRecoverable'
    BY <1>0, <1>1, <1>3, <2>5 DEF UploadsAreRecoverable
  <2>7. RowsAreHeld' /\ RowsStay
    BY <1>0, <1>1, <1>3, <2>2, <2>3, <2>5 DEF RowsAreHeld, RowsStay, Wants
  <2>8. BudgetHolds'
    BY <1>0, <1>1, <2>5, FewerRows DEF ObjectLen
  <2>. QED  BY <2>4, <2>6, <2>7, <2>8 DEF ServerInv
<1>. QED  BY <1>2, <1>3 DEF Referred

(* The file of an upload becomes the object, if there is none yet; the row follows at commit. *)
LEMMA PublishedKeeps == ASSUME ServerInv, NEW u \in Uploads, NEW commits \in BOOLEAN, Published(u, commits) PROVE ServerInv' /\ RowsStay
<1>0. ServerTypes /\ UploadsAreRecoverable /\ RowsAreHeld /\ BudgetHolds
  BY DEF ServerInv
<1>a. PICK a : a = uploads[u].asset
  OBVIOUS
<1>1. /\ Wants(u) /\ <<u, a>> \in refs
      /\ uploads' = IF commits THEN [uploads EXCEPT ![u].state = "verified"] ELSE uploads
      /\ UNCHANGED <<partials, quarantined, refs, budget, withdrawn>>
  BY <1>a DEF Published
<1>2. PICK row : row = [uploads[u] EXCEPT !.state = "verified"]
  OBVIOUS
<1>3. /\ row \in Upload /\ row # NoRow /\ row.state = "verified" /\ row.asset = a /\ a \in Assets
      /\ uploads[u] \in Upload /\ uploads[u] # NoRow /\ uploads[u].state = "uploading" /\ uploads[u].received = Size /\ Size \in Nat
  BY <1>a, <1>0, <1>1, <1>2, CacheAssumption DEF ServerTypes, Upload, Wants
<1>4. uploads' = [v \in Uploads |-> IF v = u THEN uploads'[u] ELSE uploads[v]] /\ uploads'[u] \in {row, uploads[u]}
  BY <1>0, <1>1, <1>2 DEF ServerTypes
<1>5. /\ \A v \in Uploading' : v \in Uploading /\ v \in Uploads /\ uploads'[v] = uploads[v]
      /\ \A v \in Uploads \ {u} : uploads'[v] = uploads[v]
      /\ \A v \in Uploads : uploads'[v] # NoRow => uploads[v] # NoRow /\ uploads'[v].asset = uploads[v].asset /\ uploads[v].asset \in Assets
  <2>1. \A v \in Uploading' : uploads'[v] = uploads[v]
    BY <1>3, <1>4 DEF Uploading
  <2>2. \A v \in Uploads \ {u} : uploads'[v] = uploads[v]
    BY <1>4
  <2>3. \A v \in Uploads : uploads[v] # NoRow => uploads[v].asset \in Assets
    BY <1>0 DEF ServerTypes, Upload
  <2>. QED  BY <1>a, <1>3, <1>4, <2>1, <2>2, <2>3 DEF Uploading
<1>6. CASE Whole(a) /\ UNCHANGED <<objects, upfiles, serial>>
  <2>1. ServerTypes'
    BY <1>0, <1>1, <1>3, <1>4, <1>6 DEF ServerTypes
  <2>2. \A b : Whole(b)' <=> Whole(b)
    BY <1>6 DEF Whole
  <2>3. UploadsAreRecoverable'
    BY <1>0, <1>1, <1>5, <1>6, <2>2 DEF UploadsAreRecoverable
  <2>4. RowsAreHeld'
    <3>1. ASSUME NEW v \in Uploads, v # u, uploads[v] # NoRow, uploads[v].state = "verified"
          PROVE  ((Whole(uploads[v].asset)' /\ <<v, uploads[v].asset>> \in refs') \/ v \in withdrawn')
      <4>1. Whole(uploads[v].asset)' <=> Whole(uploads[v].asset)
        BY <1>5, <1>6, <3>1 DEF Whole
      <4>. QED  BY <1>0, <1>1, <3>1, <4>1 DEF RowsAreHeld
    <3>2. ((Whole(uploads[u].asset)' /\ <<u, uploads[u].asset>> \in refs') \/ u \in withdrawn')
      BY <1>a, <1>1, <1>3, <1>4, <1>6 DEF Whole
    <3>. QED  BY <1>5, <3>1, <3>2 DEF RowsAreHeld
  <2>5. RowsStay
    BY <1>3, <1>4, <1>5 DEF RowsStay
  <2>6. BudgetHolds'
    BY <1>0, <1>1, <1>5, <1>6, FewerRows DEF ObjectLen
  <2>. QED  BY <2>1, <2>3, <2>4, <2>5, <2>6 DEF ServerInv
<1>7. CASE /\ objects[a] = NoFile /\ upfiles[u] # NoFile /\ Right(upfiles[u])
           /\ objects' = [objects EXCEPT ![a] = [ino |-> serial + 1, bits |-> upfiles[u]]]
           /\ upfiles' = [upfiles EXCEPT ![u] = NoFile] /\ serial' = serial + 1
  <2>1. upfiles[u] \in File /\ serial + 1 \in Nat /\ Len(upfiles[u]) = Size /\ FileLen(upfiles[u]) = Size
    BY <1>0, <1>7 DEF ServerTypes, Right, FileLen
  <2>2. ObjectsGrow /\ ObjectLen(a)' = Size /\ Whole(a)' /\ \A b \in Assets \ {a} : objects'[b] = objects[b]
    <3>1. PICK n \in Nat, bits \in File : n = serial + 1 /\ bits = upfiles[u]
      BY <2>1
    <3>2. objects' = [objects EXCEPT ![a] = [ino |-> n, bits |-> bits]] /\ Right(bits)
      BY <1>7, <3>1
    <3>3. ServerTypes /\ a \in Assets /\ objects[a] = NoFile
      BY <1>0, <1>3, <1>7
    <3>4. ObjectsGrow
      BY <3>2, <3>3, NewObject
    <3>5. ObjectLen(a)' = Size /\ Whole(a)'
      BY <3>2, <3>3, NewObject
    <3>6. \A b \in Assets \ {a} : objects'[b] = objects[b]
      BY <3>2, <3>3, NewObject
    <3>. QED  BY <3>4, <3>5, <3>6
  <2>3. upfiles' = [v \in Uploads |-> IF v = u THEN NoFile ELSE upfiles[v]]
    BY <1>0, <1>7 DEF ServerTypes
  <2>4. ServerTypes'
    BY <1>0, <1>1, <1>3, <1>4, <1>7, <2>1, <2>2, <2>3 DEF ServerTypes, ObjectsGrow
  <2>5. /\ \A b \in Assets : objects'[b] # NoFile => Right(objects'[b].bits)
        /\ \A b \in Assets : Whole(b) => Whole(b)'
    BY <1>0, <2>2, GrownObjects
  <2>6. UploadsAreRecoverable'
    <3>1. ASSUME NEW v \in Uploading', v # u
          PROVE  IF upfiles'[v] # NoFile THEN uploads'[v].received <= Len(upfiles'[v])
                 ELSE uploads'[v].received = Size /\ ((<<v, uploads'[v].asset>> \in refs' /\ Whole(uploads[v].asset)') \/ v \in withdrawn')
      <4>1. v \in Uploads /\ v \in Uploading /\ uploads'[v] = uploads[v] /\ upfiles'[v] = upfiles[v] /\ uploads[v].asset \in Assets
        BY <1>0, <1>5, <2>3, <3>1 DEF ServerTypes, Upload, Uploading
      <4>. QED  BY <1>0, <1>1, <2>5, <4>1 DEF UploadsAreRecoverable
    <3>2. u \in Uploading' => upfiles'[u] = NoFile /\ uploads'[u].received = Size /\ ((<<u, uploads'[u].asset>> \in refs' /\ Whole(uploads[u].asset)') \/ u \in withdrawn')
      BY <1>a, <1>1, <1>3, <1>5, <1>4, <2>2, <2>3
    <3>. QED  BY <1>5, <2>5, <3>1, <3>2 DEF UploadsAreRecoverable
  <2>7. RowsAreHeld'
    <3>1. ASSUME NEW v \in Uploads, v # u, uploads[v] # NoRow, uploads[v].state = "verified"
          PROVE  ((Whole(uploads[v].asset)' /\ <<v, uploads[v].asset>> \in refs') \/ v \in withdrawn')
      BY <1>0, <1>1, <1>5, <2>5, <3>1 DEF RowsAreHeld
    <3>2. uploads'[u].state = "verified" => ((Whole(uploads[u].asset)' /\ <<u, uploads[u].asset>> \in refs') \/ u \in withdrawn')
      BY <1>a, <1>1, <1>3, <1>4, <2>2
    <3>. QED  BY <1>5, <3>1, <3>2 DEF RowsAreHeld
  <2>8. RowsStay
    BY <1>3, <1>4, <1>5 DEF RowsStay
  <2>9. BudgetHolds'
    <3>1. PICK x : x = <<"upload", u>>
      OBVIOUS
    <3>2. PICK y : y = <<"object", a>>
      OBVIOUS
    <3> DEFINE P == {x} \X (1..Size)
               Put == (Stored \ P) \cup ({y} \X (1..Size))
    <3>3. FileLen(upfiles'[u]) = 0 /\ 1..0 = {}
      BY <2>3 DEF FileLen
    <3>4. \A v \in Uploads : {<<"upload", v>>} \X (1..FileLen(upfiles'[v])) \subseteq Put
      <4>1. ASSUME NEW v \in Uploads, v # u PROVE {<<"upload", v>>} \X (1..FileLen(upfiles'[v])) \subseteq Put
        <5>1. upfiles'[v] = upfiles[v] /\ <<"upload", v>> # x
          BY <2>3, <3>1, <4>1
        <5>. QED  BY <5>1, StoredHas
      <4>. QED  BY <3>3, <4>1
    <3>5. \A b \in Assets : {<<"object", b>>} \X (1..ObjectLen(b)') \subseteq Put
      <4>1. ASSUME NEW b \in Assets, b # a PROVE {<<"object", b>>} \X (1..ObjectLen(b)') \subseteq Put
        <5>1. ObjectLen(b)' = ObjectLen(b) /\ <<"object", b>> # x
          BY <2>2, <3>1, <4>1 DEF ObjectLen
        <5>. QED  BY <5>1, StoredHas
      <4>2. {<<"object", a>>} \X (1..ObjectLen(a)') = {y} \X (1..Size)
        BY <2>2, <3>2
      <4>. QED  BY <4>1, <4>2
    <3>6. /\ \A b \in Assets : {<<"partial", b>>} \X (1..Len(partials'[b])) \subseteq Put
          /\ \A q \in quarantined' : {<<"quarantine", q>>} \X (1..Size) \subseteq Put
      BY <1>1, <3>1, StoredHas
    <3>7. P \subseteq Stored
      BY <2>1, <3>1, StoredHas
    <3>8. Stored' \subseteq Put
      <4> HIDE DEF Put
      <4>. QED  BY <3>4, <3>5, <3>6, StoredNext
    <3>9. Awaited(Filed)' \subseteq Awaited(Filed)
      <4>1. \A v \in Filed' : v \in Filed /\ upfiles'[v] = upfiles[v]
        BY <1>5, <2>3 DEF Filed
      <4>2. \A v \in Filed' : {<<"upload", v>>} \X ((FileLen(upfiles'[v]) + 1)..Size) \subseteq Awaited(Filed)
        BY <4>1, AwaitedHas
      <4>. QED  BY <4>2, FiledNext
    <3>10. PICK l \in Nat \ {0} : l = 1 /\ l <= Size + 1
      BY <1>3
    <3> DEFINE Add == Awaited(Uploading) \cup ({x} \X (l..Size))
    <3>11. Awaited(Uploading)' \subseteq Add
      <4>1. ASSUME NEW v \in Uploading', v # u PROVE {<<"upload", v>>} \X ((FileLen(upfiles'[v]) + 1)..Size) \subseteq Add
        <5>1. v \in Uploading /\ upfiles'[v] = upfiles[v]
          BY <1>5, <2>3, <4>1
        <5>. QED  BY <5>1, AwaitedHas
      <4>2. {<<"upload", u>>} \X ((FileLen(upfiles'[u]) + 1)..Size) \subseteq Add
        BY <3>1, <3>3, <3>10
      <4>3. \A v \in Uploading' : {<<"upload", v>>} \X ((FileLen(upfiles'[v]) + 1)..Size) \subseteq Add
        BY <4>1, <4>2
      <4> HIDE DEF Add
      <4>. QED  BY <4>3, AwaitedNext
    <3>12. IsFiniteSet(Stored) /\ IsFiniteSet(Awaited(Uploading)) /\ IsFiniteSet(Awaited(Filed)) /\ budget \in Nat
      BY <1>0, AwaitedFinite DEF BudgetHolds, ServerTypes
    <3>13. IsFiniteSet(Awaited(Uploading)')
      BY <1>3, <3>10, <3>11, <3>12, MoreBlocks
    <3>14. IsFiniteSet(Stored') /\ Cardinality(Stored') <= Cardinality(Stored)
      <4>1. PICK n \in Nat : n = Size
        BY <1>3
      <4>2. PICK S : S = Stored
        OBVIOUS
      <4>3. PICK T : T = Stored'
        OBVIOUS
      <4>4. IsFiniteSet(S) /\ {x} \X (1..n) \subseteq S /\ T \subseteq (S \ ({x} \X (1..n))) \cup ({y} \X (1..n))
        BY <3>7, <3>8, <3>12, <4>1, <4>2, <4>3
      <4>5. IsFiniteSet(T) /\ Cardinality(T) <= Cardinality(S)
        BY <4>4, MovedBlocks
      <4>. QED  BY <4>2, <4>3, <4>5
    <3>15. Cardinality(Awaited(Filed)') <= Cardinality(Awaited(Filed)) /\ Cardinality(Awaited(Filed)') \in Nat /\ Cardinality(Awaited(Filed)) \in Nat
      BY <3>9, <3>12, NoMoreBlocks
    <3>16. Cardinality(Stored') + Cardinality(Awaited(Filed)') <= Cardinality(Stored) + Cardinality(Awaited(Filed)) + 0
      BY <3>12, <3>14, <3>15, FS_CardinalityType
    <3>. QED  BY <1>0, <1>1, <3>12, <3>13, <3>14, <3>16, BudgetStays
  <2>. QED  BY <2>4, <2>6, <2>7, <2>8, <2>9 DEF ServerInv
<1>. QED  BY <1>a, <1>6, <1>7 DEF Published

(* The clients.  Only a client's own calls move its ledger, and it says verified on such an answer only. *)
Phases == {"none", "hashing", "uploading", "verified", "corrupt", "paused", "unknown"}
Transfer == [phase : Phases, live : BOOLEAN, offset : Nat, cancel : BOOLEAN, tries : Nat]
TransfersTyped == transfers \in [Uploads -> Transfer]
RowIsVerified(u) == uploads[u] # NoRow /\ uploads[u].state = "verified"
ClientsAreRight == \A u \in Uploads : transfers[u].phase = "verified" => RowIsVerified(u)
ClientInv == TransfersTyped /\ ClientsAreRight

LedgerMoves(u) == \E t \in Transfer : transfers' = [transfers EXCEPT ![u] = t] /\ (t.phase = "verified" => RowIsVerified(u)')

LEMMA LedgerMovesKeep ==
  ASSUME ClientInv, RowsStay, (\E u \in Uploads : LedgerMoves(u)) \/ UNCHANGED transfers
  PROVE  ClientInv'
<1>1. CASE UNCHANGED transfers
  BY <1>1 DEF ClientInv, TransfersTyped, ClientsAreRight, RowsStay, RowIsVerified
<1>2. ASSUME NEW u \in Uploads, LedgerMoves(u) PROVE ClientInv'
  <2>1. PICK t \in Transfer : transfers' = [transfers EXCEPT ![u] = t] /\ (t.phase = "verified" => RowIsVerified(u)')
    BY <1>2 DEF LedgerMoves
  <2>2. transfers' = [v \in Uploads |-> IF v = u THEN t ELSE transfers[v]]
    BY <2>1 DEF ClientInv, TransfersTyped
  <2>3. TransfersTyped'
    BY <2>1, <2>2 DEF ClientInv, TransfersTyped
  <2>4. ASSUME NEW v \in Uploads, transfers'[v].phase = "verified" PROVE RowIsVerified(v)'
    BY <2>1, <2>2, <2>4 DEF ClientInv, ClientsAreRight, RowsStay, RowIsVerified
  <2>. QED  BY <2>3, <2>4 DEF ClientInv, ClientsAreRight
<1>. QED  BY <1>1, <1>2

LEMMA FailedMoves == ASSUME ClientInv, NEW u \in Uploads, Failed(u) PROVE LedgerMoves(u)
<1>1. PICK old \in Transfer : old = transfers[u]
  BY DEF ClientInv, TransfersTyped
<1>2. PICK phase \in {"paused", "unknown"} : transfers' = [transfers EXCEPT ![u] = [old EXCEPT !.phase = phase, !.live = FALSE]]
  BY <1>1 DEF Failed
<1>3. PICK t : t = [old EXCEPT !.phase = phase, !.live = FALSE]
  OBVIOUS
<1>4. t \in Transfer /\ t.phase = phase
  BY <1>1, <1>2, <1>3 DEF Transfer, Phases
<1>. QED  BY <1>2, <1>3, <1>4 DEF LedgerMoves

LEMMA AnsweredMoves ==
  ASSUME ClientInv, ServerTypes', NEW u \in Uploads, NEW phase \in Phases, Answered(u, phase), phase = "verified" => RowIsVerified(u)'
  PROVE  LedgerMoves(u)
<1>1. PICK old \in Transfer : old = transfers[u]
  BY DEF ClientInv, TransfersTyped
<1>2. PICK offset : offset = IF uploads'[u] = NoRow THEN 0 ELSE uploads'[u].received
  OBVIOUS
<1>3. offset \in Nat
  BY <1>2, CacheAssumption DEF ServerTypes, Upload
<1>4. PICK t : t = [old EXCEPT !.phase = phase, !.live = phase = "uploading", !.offset = offset]
  OBVIOUS
<1>5. t \in Transfer /\ t.phase = phase
  BY <1>1, <1>3, <1>4 DEF Transfer, Phases
<1>6. transfers' = [transfers EXCEPT ![u] = t]
  BY <1>1, <1>2, <1>4 DEF Answered
<1>. QED  BY <1>5, <1>6 DEF LedgerMoves

LEMMA ClientAloneMoves ==
  ASSUME ClientInv, NEW u \in Uploads, ClientRun(u) \/ ClientCancel(u) \/ ClientEnds(u)
  PROVE  LedgerMoves(u)
<1>1. PICK old \in Transfer : old = transfers[u]
  BY DEF ClientInv, TransfersTyped
<1>2. CASE ClientRun(u)
  <2>1. PICK t : t = [phase |-> "hashing", live |-> TRUE, offset |-> 0, cancel |-> FALSE, tries |-> old.tries + 1]
    OBVIOUS
  <2>2. t \in Transfer /\ t.phase # "verified"
    BY <1>1, <2>1 DEF Transfer, Phases
  <2>3. transfers' = [transfers EXCEPT ![u] = t]
    BY <1>1, <1>2, <2>1 DEF ClientRun
  <2>. QED  BY <2>2, <2>3 DEF LedgerMoves
<1>3. CASE ClientCancel(u)
  <2>1. PICK t : t = [old EXCEPT !.cancel = TRUE]
    OBVIOUS
  <2>2. t \in Transfer /\ t.phase = old.phase /\ old.phase # "verified"
    BY <1>1, <1>3, <2>1 DEF Transfer, ClientCancel
  <2>3. transfers' = [transfers EXCEPT ![u] = t]
    BY <1>1, <1>3, <2>1 DEF ClientCancel
  <2>. QED  BY <2>2, <2>3 DEF LedgerMoves
<1>4. CASE ClientEnds(u)
  <2>1. CASE Failed(u)
    BY <2>1, FailedMoves
  <2>2. CASE transfers' = [transfers EXCEPT ![u].live = FALSE]
    <3>1. PICK t : t = [old EXCEPT !.live = FALSE]
      OBVIOUS
    <3>2. t \in Transfer /\ t.phase = old.phase
      BY <1>1, <3>1 DEF Transfer
    <3>3. transfers' = [transfers EXCEPT ![u] = t]
      BY <1>1, <2>2, <3>1
    <3>4. old.phase = "verified" => RowIsVerified(u)'
      BY <1>1, <1>4 DEF ClientEnds, ClientInv, ClientsAreRight, RowIsVerified
    <3>. QED  BY <3>2, <3>3, <3>4 DEF LedgerMoves
  <2>. QED  BY <1>4, <2>1, <2>2 DEF ClientEnds
<1>. QED  BY <1>2, <1>3, <1>4

CacheInv == ServerInv /\ ClientInv

LEMMA CacheStarts == CacheInit => CacheInv
<1>. SUFFICES ASSUME CacheInit PROVE CacheInv
  OBVIOUS
<1>1. ServerTypes
  BY EmptyFile DEF CacheInit, ServerTypes
<1>2. Uploading = {} /\ Filed = {} /\ UploadsAreRecoverable /\ RowsAreHeld
  BY DEF CacheInit, Uploading, Filed, UploadsAreRecoverable, RowsAreHeld
<1>3. Stored = {}
  <2>1. \A a \in Assets : Len(partials[a]) = 0 /\ ObjectLen(a) = 0
    BY EmptyFile DEF CacheInit, ObjectLen
  <2>2. \A u \in Uploads : FileLen(upfiles[u]) = 0
    BY DEF CacheInit, FileLen
  <2>3. 1..0 = {} /\ quarantined = {}
    BY DEF CacheInit
  <2>. QED  BY <2>1, <2>2, <2>3 DEF Stored
<1>4. Awaited(Uploading) = {}
  BY <1>2 DEF Awaited
<1>5. BudgetHolds
  BY <1>3, <1>4, FS_EmptySet DEF BudgetHolds, WithinBudget, CacheInit
<1>6. ClientInv
  BY DEF CacheInit, ClientInv, TransfersTyped, Transfer, Phases, ClientsAreRight
<1>. QED  BY <1>1, <1>2, <1>5, <1>6 DEF CacheInv, ServerInv

LEMMA ClientBeginKeeps == ASSUME CacheInv, NEW u \in Uploads, NEW a \in Assets, ClientBegin(u, a) PROVE CacheInv'
<1>0. ServerInv /\ ClientInv /\ ServerTypes
  BY DEF CacheInv, ServerInv
<1>1. ASSUME NEW commits \in BOOLEAN, Begun(u, a, commits), Failed(u) \/ (commits /\ Answered(u, uploads'[u].state))
      PROVE  CacheInv'
  <2>1. ServerInv' /\ RowsStay
    BY <1>0, <1>1, BegunKeeps
  <2>2. CASE Failed(u)
    BY <1>0, <2>1, <2>2, FailedMoves, LedgerMovesKeep DEF CacheInv
  <2>3. CASE commits /\ Answered(u, uploads'[u].state)
    <3>1. PICK phase : phase = uploads'[u].state
      OBVIOUS
    <3>2. uploads[u] = NoRow /\ \E row \in Upload : uploads' = [uploads EXCEPT ![u] = row]
      <4>1. PICK state \in {"uploading", "verified"}, received \in 0..Size : uploads' = [uploads EXCEPT ![u] = [asset |-> a, state |-> state, received |-> received]]
        BY <1>1, <2>3, CacheAssumption DEF Begun
      <4>2. [asset |-> a, state |-> state, received |-> received] \in Upload
        BY <4>1 DEF Upload
      <4>. QED  BY <1>1, <4>1, <4>2 DEF Begun
    <3>3. uploads'[u] \in Upload
      BY <1>0, <3>2 DEF ServerTypes
    <3>4. uploads'[u] # NoRow /\ phase \in Phases
      BY <3>1, <3>3, CacheAssumption DEF Upload, Phases
    <3>5. phase = "verified" => RowIsVerified(u)'
      BY <3>1, <3>4 DEF RowIsVerified
    <3>6. Answered(u, phase) /\ ServerTypes'
      BY <2>1, <2>3, <3>1 DEF ServerInv
    <3>. QED  BY <1>0, <2>1, <3>4, <3>5, <3>6, AnsweredMoves, LedgerMovesKeep DEF CacheInv
  <2>. QED  BY <1>1, <2>2, <2>3
<1>2. ASSUME uploads[u] # NoRow, UNCHANGED <<objects, partials, quarantined, refs, uploads, upfiles, budget, serial, withdrawn>>, Answered(u, uploads[u].state)
      PROVE  CacheInv'
  <2>1. ServerInv' /\ RowsStay
    BY <1>0, <1>2, StandingKeeps DEF FilesStand
  <2>2. PICK phase : phase = uploads[u].state
    OBVIOUS
  <2>3. phase \in Phases /\ (phase = "verified" => RowIsVerified(u)')
    BY <1>0, <1>2, <2>2 DEF ServerTypes, Upload, Phases, RowIsVerified
  <2>4. Answered(u, phase) /\ ServerTypes'
    BY <1>2, <2>1, <2>2 DEF ServerInv
  <2>. QED  BY <1>0, <2>1, <2>3, <2>4, AnsweredMoves, LedgerMovesKeep DEF CacheInv
<1>. QED  BY <1>1, <1>2 DEF ClientBegin

LEMMA ClientChunkKeeps == ASSUME CacheInv, NEW u \in Uploads, ClientChunk(u) PROVE CacheInv'
<1>0. ServerInv /\ ClientInv /\ ServerTypes
  BY DEF CacheInv, ServerInv
<1>1. PICK offset \in Nat : offset = transfers[u].offset
  BY <1>0 DEF ClientInv, TransfersTyped, Transfer
<1>2. PICK n \in 1..(Size - offset), length \in 0..Size, commits \in BOOLEAN :
        Written(u, offset, [i \in 1..n |-> TRUE], length, commits) /\ (Failed(u) \/ (commits /\ Answered(u, "uploading")))
  BY <1>1 DEF ClientChunk
<1>3. PICK block : block = [i \in 1..n |-> TRUE]
  OBVIOUS
<1>4. block \in Seq(BOOLEAN)
  <2>1. n \in Nat
    BY <1>1, CacheAssumption
  <2>. QED  BY <1>3, <2>1
<1>5. ServerInv' /\ RowsStay
  BY <1>0, <1>2, <1>3, <1>4, WrittenKeeps
<1>6. CASE Failed(u)
  BY <1>0, <1>5, <1>6, FailedMoves, LedgerMovesKeep DEF CacheInv
<1>7. CASE Answered(u, "uploading")
  <2>1. LedgerMoves(u)
    <3>1. PICK phase \in Phases : phase = "uploading"
      BY DEF Phases
    <3>. QED  BY <1>0, <1>5, <1>7, <3>1, AnsweredMoves DEF ServerInv
  <2>. QED  BY <1>0, <1>5, <2>1, LedgerMovesKeep DEF CacheInv
<1>. QED  BY <1>2, <1>6, <1>7

LEMMA ClientFinishKeeps == ASSUME CacheInv, NEW u \in Uploads, ClientFinish(u) PROVE CacheInv'
<1>0. ServerInv /\ ClientInv /\ ServerTypes
  BY DEF CacheInv, ServerInv
<1>1. PICK commits \in BOOLEAN : Published(u, commits) /\ (Failed(u) \/ (commits /\ Answered(u, "verified")))
  BY DEF ClientFinish
<1>2. ServerInv' /\ RowsStay
  BY <1>0, <1>1, PublishedKeeps
<1>3. CASE Failed(u)
  BY <1>0, <1>2, <1>3, FailedMoves, LedgerMovesKeep DEF CacheInv
<1>4. CASE commits /\ Answered(u, "verified")
  <2>1. PICK row : row = [uploads[u] EXCEPT !.state = "verified"]
    OBVIOUS
  <2>2. row \in Upload /\ row # NoRow /\ row.state = "verified"
    BY <1>0, <1>1, <2>1, CacheAssumption DEF ServerTypes, Upload, Published, Wants
  <2>3. uploads' = [uploads EXCEPT ![u] = row]
    BY <1>1, <1>4, <2>1 DEF Published
  <2>4. RowIsVerified(u)'
    BY <1>0, <2>2, <2>3 DEF ServerTypes, RowIsVerified
  <2>5. LedgerMoves(u)
    <3>1. PICK phase \in Phases : phase = "verified"
      BY DEF Phases
    <3>. QED  BY <1>0, <1>2, <1>4, <2>4, <3>1, AnsweredMoves DEF ServerInv
  <2>. QED  BY <1>0, <1>2, <2>5, LedgerMovesKeep DEF CacheInv
<1>. QED  BY <1>1, <1>3, <1>4

(* A step of the whole, when the collector only unlinks what nobody refers to. *)
LEMMA CacheStep ==
  ASSUME CacheInv, collector # NoRow /\ collector.at = "tried" => Names(collector.asset) = {}, [CacheNext]_cacheVars
  PROVE  CacheInv'
<1>0. ServerInv /\ ClientInv
  BY DEF CacheInv
<1>1. ASSUME FilesStand, UNCHANGED transfers PROVE CacheInv'
  BY <1>0, <1>1, StandingKeeps, LedgerMovesKeep DEF CacheInv
<1>2. CASE UNCHANGED cacheVars
  BY <1>1, <1>2 DEF cacheVars, FilesStand
<1>3. ASSUME NEW o \in HeldUnder, NEW a \in Assets, Pin(o, a) \/ Unpin(o, a) PROVE CacheInv'
  <2>1. FilesStand
    BY <1>3 DEF Pin, Unpin, FilesStand
  <2>. QED  BY <1>1, <1>3, <2>1 DEF Pin, Unpin
<1>4. ASSUME NEW m \in Budgets, BudgetApply(m) PROVE CacheInv'
  <2>1. ServerInv' /\ RowsStay
    BY <1>0, <1>4, BudgetApplyKeeps
  <2>. QED  BY <1>0, <1>4, <2>1, LedgerMovesKeep DEF BudgetApply, CacheInv
<1>5. ASSUME NEW a \in Assets, FetchEnds(a) PROVE CacheInv'
  <2>1. ServerInv' /\ RowsStay
    BY <1>0, <1>5, FetchEndsKeeps
  <2>. QED  BY <1>0, <1>5, <2>1, LedgerMovesKeep DEF FetchEnds, CacheInv
<1>6. ASSUME NEW a \in Assets, NEW bits \in Block, Fetch(a, bits) PROVE CacheInv'
  <2>1. ServerInv' /\ RowsStay
    BY <1>0, <1>6, FetchKeeps
  <2>. QED  BY <1>0, <1>6, <2>1, LedgerMovesKeep DEF Fetch, CacheInv
<1>7. ASSUME NEW u \in Uploads, ClientRun(u) \/ ClientCancel(u) \/ ClientEnds(u) PROVE CacheInv'
  <2>1. ServerInv' /\ RowsStay
    BY <1>0, <1>7, StandingKeeps DEF FilesStand, ClientRun, ClientCancel, ClientEnds
  <2>. QED  BY <1>0, <1>7, <2>1, ClientAloneMoves, LedgerMovesKeep DEF CacheInv
<1>8. ASSUME NEW u \in Uploads, ClientRefers(u) PROVE CacheInv'
  <2>1. ServerInv' /\ RowsStay
    BY <1>0, <1>8, ReferredKeeps DEF ClientRefers
  <2>. QED  BY <1>0, <1>8, <2>1, LedgerMovesKeep DEF ClientRefers, CacheInv
<1>9. ASSUME NEW u \in Uploads, NEW block \in Block, Intruder(u, block) PROVE CacheInv'
  <2>1. block \in Seq(BOOLEAN)
    BY FileIs DEF Block
  <2>2. PICK offset, length : Written(u, offset, block, length, TRUE)
    BY <1>9 DEF Intruder
  <2>3. ServerInv' /\ RowsStay
    BY <1>0, <2>1, <2>2, WrittenKeeps
  <2>. QED  BY <1>0, <1>9, <2>3, LedgerMovesKeep DEF Intruder, CacheInv
<1>10. CASE GcUnlink
  <2>1. PICK a : a = collector.asset
    OBVIOUS
  <2>2. Names(a) = {} /\ objects' \in {objects, [objects EXCEPT ![a] = NoFile]}
    BY <1>10, <2>1 DEF GcUnlink, Unlocked
  <2>3. ServerInv' /\ RowsStay
    BY <1>0, <1>10, <2>2, UnlinkKeeps DEF GcUnlink
  <2>. QED  BY <1>0, <1>10, <2>3, LedgerMovesKeep DEF GcUnlink, CacheInv
<1>11. CASE \/ \E j \in Collections : GcStart(j) \/ GcResume(j)
            \/ \E a \in Assets, i \in 1..MaxSerial : GcAttempt(<<a, i>>)
            \/ GcPreview \/ GcResult \/ GcEnds
  BY <1>1, <1>11 DEF GcStart, GcResume, GcAttempt, GcPreview, GcResult, GcEnds, FilesStand
<1>12. CASE CacheNext
  BY <1>3, <1>4, <1>5, <1>6, <1>7, <1>8, <1>9, <1>10, <1>11, <1>12, ClientBeginKeeps, ClientChunkKeeps, ClientFinishKeeps DEF CacheNext
<1>. QED  BY <1>2, <1>12

LEMMA CacheHolds == CacheInv => PromisesAreKept
<1>. SUFFICES ASSUME CacheInv PROVE PromisesAreKept
  OBVIOUS
<1>1. VerifiedIsHeld
  BY DEF CacheInv, ServerInv, ClientInv, ClientsAreRight, RowIsVerified, RowsAreHeld, VerifiedIsHeld
<1>. QED  BY <1>1 DEF CacheInv, ServerInv, BudgetHolds, PromisesAreKept

(* What is published is right, an upload that has not ended can be asked about and finished, what a client calls       *)
(* verified is there and protected, and the budget suffices for all that was accepted, wherever clients, calls and     *)
(* collections are cut (RemoteUploads, ContentCache.admit, ClientAssets.run).                                          *)
THEOREM PromisesAreAlwaysKept == CacheSpec => []PromisesAreKept
<1> DEFINE Inv == CacheInv /\ CollectorIInv
<1>1. CacheInit => Inv
  BY CacheStarts, CollectorStarting
<1>2. Inv /\ [CacheNext]_cacheVars => Inv'
  <2>. SUFFICES ASSUME Inv, [CacheNext]_cacheVars PROVE Inv'
    OBVIOUS
  <2>1. collector # NoRow /\ collector.at = "tried" => Names(collector.asset) = {}
    BY DEF CollectorIInv, CollectorIsSure, Approved
  <2>2. CacheInv'
    BY <2>1, CacheStep
  <2>. QED  BY <2>2, CollectorStep
<1>3. Inv => PromisesAreKept
  BY CacheHolds
<1>. QED  BY <1>1, <1>2, <1>3, PTL DEF CacheSpec

-----------------------------------------------------------------------------
(* The audit.  What is written is a sequence of entries; a chain that no    *)
(* rotation has reached is untouched, and so is the one that would replace  *)
(* the chain of now; whoever is at work in a rotation knows the chain it    *)
(* closes; and what is open has an intent and no result.                    *)
Entry == Nat \X {"intent", "result"}
ChainType == [made : BOOLEAN, sealed : BOOLEAN, events : Seq(Entry), open : SUBSET Nat]

AuditTypes ==
  /\ policy \in Roots /\ attempts \in Nat
  /\ chains \in [Roots -> ChainType] /\ seals \in [Roots -> Roots \cup {NoRoot}]
  /\ DOMAIN material = Roots /\ DOMAIN procs = Sessions
  /\ \A n \in Roots : LET m == material[n] IN m = [old |-> m.old, files |-> m.files, head |-> m.head]
  /\ \A s \in Sessions : LET p == procs[s] IN
       /\ p = [root |-> p.root, attempt |-> p.attempt, op |-> p.op, at |-> p.at]
       /\ p.at # "none" => p.root \in Roots
  /\ DOMAIN contract = Operations /\ linked \in Seq(Operations \cup {NoRoot}) /\ Len(linked) = attempts
  /\ rotator # NoRoot => rotator \in [new : Roots, at : {"writing", "sealed", "checked", "switched"}]

Untouched(n) ==
  /\ chains[n].events = <<>> /\ chains[n].open = {} /\ ~chains[n].sealed
  /\ policy # n /\ \A s \in Sessions : procs[s].root # n

UnmadeIsUntouched == \A n \in Roots : ~chains[n].made => Untouched(n) /\ material[n].old \notin Roots
OldsAreUsed == \A n \in Roots : material[n].old \in Roots => material[n].old = policy \/ chains[material[n].old].sealed
Successors == \A n \in Roots : material[n].old = policy => Untouched(n)
Rotating ==
  rotator # NoRoot =>
    LET n == rotator.new  old == material[n].old IN
    /\ n \in Roots /\ chains[n].made /\ old \in Roots
    /\ rotator.at = "writing" =>
         /\ old = policy /\ ~chains[old].sealed /\ chains[old].open = {}
         /\ "archive" \in material[n].files => material[n].head = Len(chains[old].events)
    /\ rotator.at = "sealed" => chains[old].sealed
    /\ rotator.at = "checked" => chains[old].sealed /\ old = policy

RotationHolds == UnmadeIsUntouched /\ OldsAreUsed /\ Successors /\ Rotating /\ SealsAreFinal

EventsAreKnown ==
  \A r \in Roots : \A i \in DOMAIN chains[r].events : \E a \in 1..attempts : chains[r].events[i] \in {<<a, "intent">>, <<a, "result">>}
OpenAreIntents ==
  \A r \in Roots : \A a \in chains[r].open :
    /\ a \in 1..attempts
    /\ \E i \in DOMAIN chains[r].events : chains[r].events[i] = <<a, "intent">>
    /\ \A q \in Roots : \A j \in DOMAIN chains[q].events : chains[q].events[j] # <<a, "result">>
EventsDiffer ==
  \A r, q \in Roots : \A i \in DOMAIN chains[r].events, j \in DOMAIN chains[q].events :
    chains[r].events[i] = chains[q].events[j] => r = q /\ i = j
ResultsFollow ==
  \A r \in Roots : \A i \in DOMAIN chains[r].events : \A a \in 1..attempts :
    chains[r].events[i] = <<a, "result">> => \E k \in 1..(i - 1) : chains[r].events[k] = <<a, "intent">>
EventsHold == EventsAreKnown /\ OpenAreIntents /\ EventsDiffer /\ ResultsFollow

WorkersAreLinked ==
  /\ \A s \in Sessions : procs[s].at = "execute" =>
       /\ procs[s].attempt \in 1..attempts /\ procs[s].op \in Operations /\ linked[procs[s].attempt] = procs[s].op
  /\ \A o \in Operations : contract[o] = "executing" => \E a \in 1..attempts : linked[a] = o

AuditIInv == AuditTypes /\ RotationHolds /\ EventsHold /\ WorkersAreLinked

LEMMA LoggedChain ==
  ASSUME NEW c \in ChainType, NEW e, NEW o
  PROVE  [c EXCEPT !.events = e, !.open = o] = [made |-> c.made, sealed |-> c.sealed, events |-> e, open |-> o]
<1>1. PICK m, s, v, w : c = [made |-> m, sealed |-> s, events |-> v, open |-> w]
  BY DEF ChainType
<1>. DEFINE f == [c EXCEPT !.events = e]
<1>2. f = [made |-> m, sealed |-> s, events |-> e, open |-> w]
  BY <1>1
<1>3. [c EXCEPT !.events = e, !.open = o] = [f EXCEPT !.open = o]
  BY Zenon
<1>. HIDE DEF f
<1>4. [f EXCEPT !.open = o] = [made |-> m, sealed |-> s, events |-> e, open |-> o]
  BY <1>2
<1>. QED  BY <1>1, <1>3, <1>4

(* What a record says of an entry that is written to a chain. *)
LEMMA LoggedIs ==
  ASSUME AuditTypes, NEW r \in Roots, NEW a \in Nat, NEW phase \in {"intent", "result"}, Logged1(r, a, phase)
  PROVE  /\ chains' \in [Roots -> ChainType]
         /\ chains'[r].events = Append(chains[r].events, <<a, phase>>)
         /\ chains'[r].open = IF phase = "intent" THEN chains[r].open \cup {a} ELSE chains[r].open \ {a}
         /\ \A q \in Roots : chains'[q].made = chains[q].made /\ chains'[q].sealed = chains[q].sealed
         /\ \A q \in Roots \ {r} : chains'[q] = chains[q]
<1>. DEFINE c == chains[r]
            e == Append(c.events, <<a, phase>>)
            o == IF phase = "intent" THEN c.open \cup {a} ELSE c.open \ {a}
<1>1. c \in ChainType /\ chains \in [Roots -> ChainType]
  BY DEF AuditTypes
<1>2. e \in Seq(Entry) /\ o \in SUBSET Nat
  BY <1>1 DEF ChainType, Entry
<1>3. chains' = [chains EXCEPT ![r] = [c EXCEPT !.events = e, !.open = o]]
  BY <1>1 DEF Logged1
<1>4. [c EXCEPT !.events = e, !.open = o] = [made |-> c.made, sealed |-> c.sealed, events |-> e, open |-> o]
  BY <1>1, LoggedChain
<1>5. [made |-> c.made, sealed |-> c.sealed, events |-> e, open |-> o] \in ChainType
  BY <1>1, <1>2 DEF ChainType
<1>. HIDE DEF c, e, o
<1>6. chains'[r] = [made |-> c.made, sealed |-> c.sealed, events |-> e, open |-> o]
  BY <1>1, <1>3, <1>4
<1>7. chains' \in [Roots -> ChainType] /\ \A q \in Roots \ {r} : chains'[q] = chains[q]
  BY <1>1, <1>3, <1>4, <1>5
<1>8. chains'[r].events = e /\ chains'[r].open = o /\ chains'[r].made = c.made /\ chains'[r].sealed = c.sealed
  BY <1>6
<1>. QED  BY <1>7, <1>8 DEF c, e, o

LEMMA AuditStarting == AuditInit => AuditIInv
<1>. SUFFICES ASSUME AuditInit
              PROVE  AuditIInv
  OBVIOUS
<1>1. \A r \in Roots : chains[r] = [made |-> (r = FirstRoot), sealed |-> FALSE, events |-> <<>>, open |-> {}]
  BY DEF AuditInit, Fresh
<1>2. ASSUME NEW r \in Roots
      PROVE  chains[r].events = <<>> /\ chains[r].open = {} /\ chains[r].sealed = FALSE /\ (chains[r].made <=> r = FirstRoot)
  <2>. DEFINE first == r = FirstRoot
  <2>1. chains[r] = [made |-> first, sealed |-> FALSE, events |-> <<>>, open |-> {}]
    BY <1>1
  <2>2. first \in BOOLEAN /\ (first <=> r = FirstRoot)
    OBVIOUS
  <2>. HIDE DEF first
  <2>. QED  BY <2>1, <2>2
<1>3. \A r \in Roots : [made |-> (r = FirstRoot), sealed |-> FALSE, events |-> <<>>, open |-> {}] \in ChainType
  BY DEF ChainType
<1>4. chains \in [Roots -> ChainType]
  BY <1>1, <1>3 DEF AuditInit
<1>5. \A n \in Roots : material[n] = [old |-> NoRoot, files |-> {}, head |-> 0]
  BY DEF AuditInit
<1>6. \A s \in Sessions : procs[s] = [root |-> NoRoot, attempt |-> 0, op |-> NoRoot, at |-> "none"]
  BY DEF AuditInit, Idle
<1>7. AuditTypes
  <2>1. policy \in Roots /\ attempts \in Nat /\ DOMAIN material = Roots /\ DOMAIN procs = Sessions /\ DOMAIN contract = Operations
    BY AuditAssumption DEF AuditInit
  <2>2. \A n \in Roots : LET m == material[n] IN m = [old |-> m.old, files |-> m.files, head |-> m.head]
    BY <1>5
  <2>3. \A s \in Sessions : LET p == procs[s] IN p = [root |-> p.root, attempt |-> p.attempt, op |-> p.op, at |-> p.at] /\ p.at = "none"
    BY <1>6
  <2>4. linked \in Seq(Operations \cup {NoRoot}) /\ Len(linked) = attempts /\ rotator = NoRoot
    BY DEF AuditInit
  <2>5. seals \in [Roots -> Roots \cup {NoRoot}]
    BY DEF AuditInit
  <2>. QED  BY <1>4, <2>1, <2>2, <2>3, <2>4, <2>5 DEF AuditTypes
<1>8. RotationHolds
  <2>1. policy = FirstRoot /\ rotator = NoRoot /\ \A n \in Roots : material[n].old = NoRoot
    BY <1>5 DEF AuditInit
  <2>2. \A s \in Sessions : procs[s].root = NoRoot
    BY <1>6
  <2>3. UnmadeIsUntouched
    BY <1>2, <2>1, <2>2, AuditAssumption DEF UnmadeIsUntouched, Untouched
  <2>4. OldsAreUsed /\ Successors /\ Rotating
    BY <2>1, AuditAssumption DEF OldsAreUsed, Successors, Rotating
  <2>5. SealsAreFinal
    BY <1>2, <2>1, AuditAssumption DEF SealsAreFinal
  <2>. QED  BY <2>3, <2>4, <2>5 DEF RotationHolds
<1>9. EventsHold
  <2>1. \A r \in Roots : DOMAIN chains[r].events = {} /\ chains[r].open = {}
    <3>1. \A r \in Roots : chains[r].events = <<>> /\ chains[r].open = {}
      BY <1>2
    <3>2. DOMAIN <<>> = {}
      OBVIOUS
    <3>. QED  BY <3>1, <3>2
  <2>. QED  BY <2>1 DEF EventsHold, EventsAreKnown, OpenAreIntents, EventsDiffer, ResultsFollow
<1>10. WorkersAreLinked
  BY <1>6 DEF WorkersAreLinked, AuditInit
<1>. QED  BY <1>7, <1>8, <1>9, <1>10 DEF AuditIInv

(* Whoever writes to a chain has it from the policy, and it is not sealed. *)
RootsKept == \A s \in Sessions : procs'[s].root \in {procs[s].root, policy, NoRoot}
Used(r) == r = policy \/ \E s \in Sessions : procs[s].root = r

(* A chain that is untouched stays so, and a sealed one as it is, when a    *)
(* session, a worker or a settlement moves.                                *)
ChainsGoOn ==
  /\ \A q \in Roots : chains'[q].made = chains[q].made /\ chains'[q].sealed = chains[q].sealed
  /\ \A q \in Roots : ~Used(q) \/ ~Writable(q) => chains'[q] = chains[q]

LEMMA LoggingGoesOn ==
  ASSUME AuditTypes, NEW r \in Roots, NEW a \in Nat, NEW phase \in {"intent", "result"}, Logged1(r, a, phase),
         Used(r), Writable(r)
  PROVE  ChainsGoOn
<1>1. /\ \A q \in Roots : chains'[q].made = chains[q].made /\ chains'[q].sealed = chains[q].sealed
      /\ \A q \in Roots \ {r} : chains'[q] = chains[q]
  BY LoggedIs
<1>. QED  BY <1>1 DEF ChainsGoOn

LEMMA RotationGoesOn ==
  ASSUME AuditTypes, RotationHolds, ChainsGoOn, RootsKept, UNCHANGED <<policy, seals, material, rotator>>
  PROVE  RotationHolds'
<1>1. \A n \in Roots : Untouched(n) => Untouched(n)'
  <2>. SUFFICES ASSUME NEW n \in Roots, Untouched(n)
                PROVE  Untouched(n)'
    OBVIOUS
  <2>1. ~Used(n) /\ policy # n /\ n # NoRoot
    BY AuditAssumption DEF Untouched, Used
  <2>2. chains'[n] = chains[n] /\ chains'[n].sealed = chains[n].sealed
    BY <2>1 DEF ChainsGoOn
  <2>3. \A s \in Sessions : procs'[s].root # n
    BY <2>1 DEF RootsKept, Used
  <2>. QED  BY <2>1, <2>2, <2>3 DEF Untouched
<1>2. \A q \in Roots : chains[q].sealed => chains'[q] = chains[q]
  BY DEF ChainsGoOn, Writable
<1>3. \A q \in Roots : chains'[q].made = chains[q].made /\ chains'[q].sealed = chains[q].sealed
  BY DEF ChainsGoOn
<1>4. UnmadeIsUntouched'
  BY <1>1, <1>3 DEF RotationHolds, UnmadeIsUntouched
<1>5. OldsAreUsed' /\ Successors'
  BY <1>1, <1>3 DEF RotationHolds, OldsAreUsed, Successors
<1>6. Rotating'
  <2>. SUFFICES ASSUME rotator' # NoRoot
                PROVE  Rotating'
    BY DEF Rotating
  <2>. DEFINE n == rotator.new
              old == material[n].old
  <2>1. /\ n \in Roots /\ chains[n].made /\ old \in Roots /\ rotator # NoRoot
        /\ rotator.at = "writing" =>
             /\ old = policy /\ ~chains[old].sealed /\ chains[old].open = {}
             /\ "archive" \in material[n].files => material[n].head = Len(chains[old].events)
        /\ rotator.at = "sealed" => chains[old].sealed
        /\ rotator.at = "checked" => chains[old].sealed /\ old = policy
    BY DEF RotationHolds, Rotating
  <2>2. rotator.at = "writing" => Locked(old) /\ chains'[old] = chains[old]
    BY <2>1 DEF Locked, ChainsGoOn, Writable
  <2>3. rotator' = rotator /\ material' = material /\ policy' = policy
    OBVIOUS
  <2>4. chains'[n].made /\ (rotator.at \in {"sealed", "checked"} => chains'[old].sealed)
    BY <2>1, <1>3
  <2>. QED  BY <2>1, <2>2, <2>3, <2>4 DEF Rotating
<1>7. SealsAreFinal'
  <2>1. \A r \in Roots : chains'[r].sealed =>
          /\ chains'[r].open = {}
          /\ \E n \in Roots : seals'[r] = n /\ material'[n].old = r /\ material'[n].head = Len(chains'[r].events) /\ Range(Steps) \subseteq material'[n].files
    BY <1>2, <1>3 DEF RotationHolds, SealsAreFinal
  <2>2. ASSUME chains'[policy].sealed
        PROVE  \E n \in Roots : RotationIntact(n)' /\ policy = material[n].old
    <3>1. chains[policy].sealed /\ policy \in Roots
      BY <2>2, <1>3 DEF AuditTypes
    <3>2. PICK n \in Roots : RotationIntact(n) /\ policy = material[n].old
      BY <3>1 DEF RotationHolds, SealsAreFinal
    <3>3. Untouched(n)'
      BY <3>2, <1>1 DEF RotationHolds, Successors
    <3>4. chains'[n].events = <<>>
      BY <3>3 DEF Untouched
    <3>5. chains'[policy] = chains[policy]
      BY <3>1, <1>2
    <3>. QED  BY <3>1, <3>2, <3>4, <3>5 DEF RotationIntact
  <2>. QED  BY <2>1, <2>2 DEF SealsAreFinal
<1>. QED  BY <1>4, <1>5, <1>6, <1>7 DEF RotationHolds

LEMMA StartsRotation == ASSUME AuditTypes, RotationHolds, NEW n \in Roots, RotateStart(n)  PROVE AuditTypes' /\ RotationHolds'
<1>1. /\ rotator = NoRoot /\ ~chains[n].made /\ ~chains[policy].sealed /\ chains[policy].open = {}
      /\ chains' = [chains EXCEPT ![n].made = TRUE]
      /\ material[n].files = {} /\ material' = [material EXCEPT ![n].old = policy]
      /\ rotator' = [new |-> n, at |-> "writing"]
      /\ UNCHANGED <<policy, seals, procs, contract, linked, attempts>>
  BY DEF RotateStart
<1>2. policy \in Roots /\ chains[n] \in ChainType /\ chains \in [Roots -> ChainType] /\ DOMAIN material = Roots
  BY DEF AuditTypes
<1>3. Untouched(n) /\ material[n].old \notin Roots
  BY <1>1 DEF RotationHolds, UnmadeIsUntouched
<1>4. n # policy
  BY <1>3 DEF Untouched
<1>5. /\ chains'[n] = [chains[n] EXCEPT !.made = TRUE]
      /\ \A r \in Roots \ {n} : chains'[r] = chains[r]
  BY <1>1, <1>2
<1>6. /\ chains'[n] \in ChainType
      /\ chains'[n].made = TRUE /\ chains'[n].events = chains[n].events /\ chains'[n].open = chains[n].open /\ chains'[n].sealed = chains[n].sealed
  BY <1>5, <1>2 DEF ChainType
<1>7. \A r \in Roots : chains'[r].events = chains[r].events /\ chains'[r].open = chains[r].open /\ chains'[r].sealed = chains[r].sealed
  BY <1>5, <1>6
<1>8. material'[n] = [old |-> policy, files |-> {}, head |-> material[n].head] /\ DOMAIN material' = Roots
  <2>1. PICK o, f, h : material[n] = [old |-> o, files |-> f, head |-> h]
    BY DEF AuditTypes
  <2>2. material'[n] = [material[n] EXCEPT !.old = policy] /\ DOMAIN material' = Roots
    BY <1>1, <1>2
  <2>. QED  BY <2>1, <2>2, <1>1
<1>9. \A r \in Roots \ {n} : material'[r] = material[r]
  BY <1>1, <1>2
<1>10. \A r \in Roots : Untouched(r) => Untouched(r)'
  BY <1>1, <1>7 DEF Untouched
<1>11. AuditTypes'
  <2>1. chains' \in [Roots -> ChainType]
    BY <1>1, <1>2, <1>5, <1>6
  <2>2. \A r \in Roots : LET m == material'[r] IN m = [old |-> m.old, files |-> m.files, head |-> m.head]
    BY <1>8, <1>9 DEF AuditTypes
  <2>3. rotator' \in [new : Roots, at : {"writing", "sealed", "checked", "switched"}]
    BY <1>1
  <2>. QED  BY <2>1, <2>2, <2>3, <1>1, <1>8 DEF AuditTypes
<1>12. UnmadeIsUntouched'
  BY <1>5, <1>6, <1>9, <1>10 DEF RotationHolds, UnmadeIsUntouched
<1>13. OldsAreUsed'
  BY <1>1, <1>7, <1>8, <1>9 DEF RotationHolds, OldsAreUsed
<1>14. Successors'
  BY <1>1, <1>3, <1>9, <1>10 DEF RotationHolds, Successors
<1>15. Rotating'
  <2>1. rotator'.new = n /\ rotator'.at = "writing" /\ material'[n].old = policy /\ material'[n].files = {} /\ policy' = policy
    BY <1>1, <1>8
  <2>2. chains'[n].made /\ ~chains'[policy].sealed /\ chains'[policy].open = {}
    BY <1>1, <1>2, <1>6, <1>7
  <2>. QED  BY <2>1, <2>2, <1>2 DEF Rotating
<1>16. SealsAreFinal'
  <2>1. ASSUME NEW r \in Roots, chains'[r].sealed
        PROVE  /\ chains'[r].open = {}
               /\ \E m \in Roots : seals'[r] = m /\ material'[m].old = r /\ material'[m].head = Len(chains'[r].events) /\ Range(Steps) \subseteq material'[m].files
    <3>1. chains[r].sealed
      BY <2>1, <1>7
    <3>2. chains[r].open = {}
      BY <3>1 DEF RotationHolds, SealsAreFinal
    <3>3. PICK m \in Roots : seals[r] = m /\ material[m].old = r /\ material[m].head = Len(chains[r].events) /\ Range(Steps) \subseteq material[m].files
      BY <3>1 DEF RotationHolds, SealsAreFinal
    <3>4. material'[m] = material[m]
      BY <1>3, <1>9, <3>3
    <3>. QED  BY <3>2, <3>3, <3>4, <1>1, <1>7
  <2>2. ~chains'[policy'].sealed
    BY <1>1, <1>2, <1>7
  <2>. QED  BY <2>1, <2>2 DEF SealsAreFinal
<1>. QED  BY <1>11, <1>12, <1>13, <1>14, <1>15, <1>16 DEF RotationHolds

(* What is written beside a new chain changes nothing that another one rests on. *)
LEMMA WritesRotation == ASSUME AuditTypes, RotationHolds, RotateWrite  PROVE AuditTypes' /\ RotationHolds'
<1>. DEFINE n == rotator.new
            next == Steps[Cardinality(material[n].files) + 1]
            head == IF next = "archive" THEN Len(chains[material[n].old].events) ELSE material[n].head
<1>1. /\ rotator # NoRoot /\ rotator.at = "writing"
      /\ material' = [material EXCEPT ![n].files = @ \cup {next}, ![n].head = IF next = "archive" THEN Len(chains[material[n].old].events) ELSE @]
      /\ UNCHANGED <<policy, seals, chains, procs, contract, linked, rotator, attempts>>
  BY DEF RotateWrite
<1>2. /\ n \in Roots /\ chains[n].made /\ material[n].old \in Roots
      /\ material[n].old = policy /\ ~chains[policy].sealed /\ chains[policy].open = {}
      /\ "archive" \in material[n].files => material[n].head = Len(chains[material[n].old].events)
  BY <1>1 DEF RotationHolds, Rotating
<1>3. material[n] = [old |-> material[n].old, files |-> material[n].files, head |-> material[n].head] /\ DOMAIN material = Roots
  BY <1>2 DEF AuditTypes
<1>. HIDE DEF n, next
<1>4. PICK o, f, h : material[n] = [old |-> o, files |-> f, head |-> h]
  BY <1>3
<1>5. o = material[n].old /\ f = material[n].files /\ h = material[n].head
  BY <1>4
<1>6. material'[n] = [old |-> o, files |-> f \cup {next}, head |-> head]
  <2>1. PICK g : g = [material[n] EXCEPT !.files = f \cup {next}]
    OBVIOUS
  <2>2. g = [old |-> o, files |-> f \cup {next}, head |-> h]
    BY <2>1, <1>4
  <2>3. material' = [[material EXCEPT ![n] = g] EXCEPT ![n].head = head]
    BY <1>1, <1>3, <1>2, <1>5, <2>1
  <2>4. material'[n] = [g EXCEPT !.head = head]
    BY <2>3, <1>2, <1>3
  <2>. HIDE DEF head
  <2>. QED  BY <2>2, <2>4
<1>7. \A r \in Roots \ {n} : material'[r] = material[r]
  BY <1>1, <1>3, <1>2
<1>8. DOMAIN material' = Roots
  BY <1>1, <1>3, <1>2
<1>9. /\ material'[n].old = material[n].old
      /\ "archive" \in material'[n].files => material'[n].head = Len(chains[material[n].old].events)
  BY <1>2, <1>5, <1>6
<1>10. AuditTypes'
  <2>1. \A r \in Roots : LET m == material'[r] IN m = [old |-> m.old, files |-> m.files, head |-> m.head]
    BY <1>6, <1>7 DEF AuditTypes
  <2>. QED  BY <2>1, <1>1, <1>8 DEF AuditTypes
<1>11. \A r \in Roots : material'[r].old = material[r].old
  BY <1>7, <1>9
<1>12. UnmadeIsUntouched' /\ OldsAreUsed' /\ Successors'
  BY <1>1, <1>11 DEF RotationHolds, UnmadeIsUntouched, OldsAreUsed, Successors, Untouched
<1>13. Rotating'
  BY <1>1, <1>2, <1>9 DEF Rotating, n
<1>14. SealsAreFinal'
  <2>1. ASSUME NEW r \in Roots, chains[r].sealed
        PROVE  \E m \in Roots : seals'[r] = m /\ material'[m].old = r /\ material'[m].head = Len(chains[r].events) /\ Range(Steps) \subseteq material'[m].files
    <3>1. PICK m \in Roots : seals[r] = m /\ material[m].old = r /\ material[m].head = Len(chains[r].events) /\ Range(Steps) \subseteq material[m].files
      BY <2>1 DEF RotationHolds, SealsAreFinal
    <3>2. m # n
      BY <2>1, <3>1, <1>2
    <3>. QED  BY <3>1, <3>2, <1>1, <1>7
  <2>2. chains' = chains /\ policy' = policy /\ ~chains[policy].sealed /\ \A r \in Roots : chains[r].sealed => chains[r].open = {}
    BY <1>1, <1>2 DEF RotationHolds, SealsAreFinal
  <2>. QED  BY <2>1, <2>2 DEF SealsAreFinal
<1>. QED  BY <1>10, <1>12, <1>13, <1>14 DEF RotationHolds

(* The old chain is closed while its rotation holds it. *)
LEMMA SealsRotation == ASSUME AuditTypes, RotationHolds, RotateSeal  PROVE AuditTypes' /\ RotationHolds'
<1>1. /\ rotator # NoRoot /\ rotator.at = "writing" /\ material[rotator.new].files = Range(Steps)
      /\ chains' = [chains EXCEPT ![material[rotator.new].old].sealed = TRUE]
      /\ seals' = [seals EXCEPT ![material[rotator.new].old] = rotator.new]
      /\ rotator' = [rotator EXCEPT !.at = "sealed"]
      /\ UNCHANGED <<policy, material, procs, contract, linked, attempts>>
  BY DEF RotateSeal, Archived
<1>2. PICK n \in Roots, old \in Roots :
      /\ n = rotator.new /\ old = material[n].old /\ chains[n].made
      /\ old = policy /\ ~chains[old].sealed /\ chains[old].open = {}
      /\ "archive" \in material[n].files => material[n].head = Len(chains[old].events)
  BY <1>1 DEF RotationHolds, Rotating
<1>3. "archive" \in material[n].files
  <2>1. "archive" = Steps[4] /\ 4 \in DOMAIN Steps
    BY DEF Steps
  <2>. QED  BY <2>1, <1>1, <1>2 DEF Range
<1>4. rotator' = [new |-> n, at |-> "sealed"] /\ rotator \in [new : Roots, at : {"writing", "sealed", "checked", "switched"}]
  <2>1. PICK m \in Roots, pos \in {"writing", "sealed", "checked", "switched"} : rotator = [new |-> m, at |-> pos]
    BY <1>1 DEF AuditTypes
  <2>. QED  BY <2>1, <1>1, <1>2
<1>5. chains \in [Roots -> ChainType]
  BY DEF AuditTypes
<1>6. chains'[old] = [chains[old] EXCEPT !.sealed = TRUE] /\ \A r \in Roots \ {old} : chains'[r] = chains[r]
  BY <1>1, <1>2, <1>5
<1>7. /\ chains'[old] \in ChainType
      /\ chains'[old].sealed = TRUE /\ chains'[old].events = chains[old].events /\ chains'[old].open = chains[old].open /\ chains'[old].made = chains[old].made
  <2>1. chains[old] \in ChainType
    BY <1>5
  <2>. QED  BY <2>1, <1>6 DEF ChainType
<1>8. \A r \in Roots : chains'[r].events = chains[r].events /\ chains'[r].open = chains[r].open /\ chains'[r].made = chains[r].made
  BY <1>6, <1>7
<1>9. \A r \in Roots \ {old} : chains'[r].sealed = chains[r].sealed
  BY <1>6
<1>a. seals' \in [Roots -> Roots \cup {NoRoot}] /\ seals'[old] = n /\ \A r \in Roots \ {old} : seals'[r] = seals[r]
  BY <1>1, <1>2 DEF AuditTypes
<1>10. AuditTypes'
  <2>1. chains' \in [Roots -> ChainType]
    BY <1>1, <1>2, <1>5, <1>6, <1>7
  <2>2. rotator' \in [new : Roots, at : {"writing", "sealed", "checked", "switched"}]
    BY <1>2, <1>4
  <2>. QED  BY <2>1, <2>2, <1>1, <1>a DEF AuditTypes
<1>11. \A r \in Roots : Untouched(r) => Untouched(r)'
  <2>1. \A r \in Roots : Untouched(r) => r # old
    BY <1>2 DEF Untouched
  <2>. QED  BY <2>1, <1>1, <1>8, <1>9 DEF Untouched
<1>12. UnmadeIsUntouched' /\ Successors'
  BY <1>1, <1>8, <1>11 DEF RotationHolds, UnmadeIsUntouched, Successors
<1>13. OldsAreUsed'
  BY <1>1, <1>7, <1>9 DEF RotationHolds, OldsAreUsed
<1>14. rotator'.new = n /\ rotator'.at = "sealed" /\ material'[n].old = old
  BY <1>1, <1>2, <1>4
<1>15. Rotating'
  BY <1>2, <1>7, <1>8, <1>14 DEF Rotating
<1>16. material[n].old = old /\ material[n].head = Len(chains[old].events) /\ Range(Steps) \subseteq material[n].files
  BY <1>1, <1>2, <1>3
<1>17. SealsAreFinal'
  <2>1. ASSUME NEW r \in Roots, chains'[r].sealed
        PROVE  /\ chains'[r].open = {}
               /\ \E m \in Roots : seals'[r] = m /\ material[m].old = r /\ material[m].head = Len(chains'[r].events) /\ Range(Steps) \subseteq material[m].files
    <3>1. CASE r = old
      BY <3>1, <1>2, <1>8, <1>16, <1>a
    <3>2. CASE r # old
      <4>1. chains[r].sealed
        BY <2>1, <3>2, <1>9
      <4>. QED  BY <4>1, <3>2, <1>8, <1>a DEF RotationHolds, SealsAreFinal
    <3>. QED  BY <3>1, <3>2
  <2>2. Untouched(n)
    BY <1>2, <1>16 DEF RotationHolds, Successors
  <2>3. chains'[n].events = <<>>
    BY <2>2, <1>2, <1>8 DEF Untouched
  <2>4. chains'[old].sealed /\ Len(chains'[old].events) = material'[n].head /\ policy' = old /\ material' = material
    BY <1>1, <1>2, <1>7, <1>16
  <2>5. RotationIntact(n)' /\ policy' = material'[n].old
    BY <2>3, <2>4, <1>16, <1>a DEF RotationIntact
  <2>. QED  BY <2>1, <2>5, <1>1, <1>2 DEF SealsAreFinal
<1>. QED  BY <1>10, <1>12, <1>13, <1>15, <1>17 DEF RotationHolds

(* A chain whose successor is chosen is closed, and nothing is in the new one. *)
LEMMA TurnsTo ==
  ASSUME AuditTypes, RotationHolds, NEW n \in Roots, chains[policy].sealed, material[n].old = policy, policy' = n,
         UNCHANGED <<chains, seals, material, procs>>, rotator' \in [new : {rotator.new}, at : {"switched"}], rotator # NoRoot
  PROVE  RotationHolds'
<1>1. Untouched(n) /\ policy \in Roots /\ ~chains[n].sealed /\ n # policy
  BY DEF RotationHolds, Successors, Untouched, AuditTypes
<1>2. \A r \in Roots : material[r].old # n
  BY <1>1 DEF RotationHolds, OldsAreUsed
<1>3. \A r \in Roots : chains[r].made \/ r # n => (Untouched(r) => r = n \/ Untouched(r)')
  BY DEF Untouched
<1>4. chains[n].made
  BY <1>1 DEF RotationHolds, UnmadeIsUntouched
<1>5. UnmadeIsUntouched'
  BY <1>3, <1>4 DEF RotationHolds, UnmadeIsUntouched
<1>6. OldsAreUsed' /\ Successors'
  BY <1>2 DEF RotationHolds, OldsAreUsed, Successors
<1>7. Rotating'
  <2>1. PICK m : m = rotator.new
    OBVIOUS
  <2>2. m \in Roots /\ chains[m].made /\ material[m].old \in Roots
    BY <2>1 DEF RotationHolds, Rotating
  <2>3. rotator'.new = m /\ rotator'.at = "switched"
    BY <2>1
  <2>. QED  BY <2>2, <2>3 DEF Rotating
<1>8. SealsAreFinal'
  <2>1. ASSUME NEW r \in Roots, chains[r].sealed
        PROVE  \E m \in Roots : seals'[r] = m /\ material'[m].old = r /\ material'[m].head = Len(chains[r].events) /\ Range(Steps) \subseteq material'[m].files
    <3>1. PICK m \in Roots : seals[r] = m /\ material[m].old = r /\ material[m].head = Len(chains[r].events) /\ Range(Steps) \subseteq material[m].files
      BY <2>1 DEF RotationHolds, SealsAreFinal
    <3>. QED  BY <3>1
  <2>2. chains' = chains /\ policy' = n /\ ~chains[n].sealed /\ \A r \in Roots : chains[r].sealed => chains[r].open = {}
    BY <1>1 DEF RotationHolds, SealsAreFinal
  <2>. QED  BY <2>1, <2>2 DEF SealsAreFinal
<1>. QED  BY <1>5, <1>6, <1>7, <1>8 DEF RotationHolds

MaterialTyped(m) == DOMAIN m = Roots /\ \A n \in Roots : m[n] = [old |-> m[n].old, files |-> m[n].files, head |-> m[n].head]
MaterialGrows ==
  \A r \in Roots : material'[r].old = material[r].old /\ material'[r].head = material[r].head /\ material[r].files \subseteq material'[r].files

LEMMA CompletedGrows ==
  ASSUME AuditTypes, NEW n \in Roots, material' \in {material, [material EXCEPT ![n].files = @ \cup {"completed"}]}
  PROVE  MaterialTyped(material') /\ MaterialGrows
<1>1. MaterialTyped(material)
  BY DEF AuditTypes, MaterialTyped
<1>2. CASE material' = material
  BY <1>1, <1>2 DEF MaterialGrows
<1>3. CASE material' = [material EXCEPT ![n].files = @ \cup {"completed"}]
  <2>1. PICK o, f, h : material[n] = [old |-> o, files |-> f, head |-> h]
    BY <1>1 DEF MaterialTyped
  <2>2. material'[n] = [material[n] EXCEPT !.files = f \cup {"completed"}] /\ DOMAIN material' = Roots
    BY <1>1, <1>3, <2>1 DEF MaterialTyped
  <2>3. material'[n] = [old |-> o, files |-> f \cup {"completed"}, head |-> h]
    BY <2>1, <2>2
  <2>4. \A r \in Roots \ {n} : material'[r] = material[r]
    BY <1>1, <1>3 DEF MaterialTyped
  <2>5. MaterialGrows
    BY <2>1, <2>3, <2>4 DEF MaterialGrows
  <2>. QED  BY <1>1, <2>2, <2>3, <2>4, <2>5 DEF MaterialTyped
<1>. QED  BY <1>2, <1>3

LEMMA RotationEnds ==
  ASSUME AuditTypes, RotationHolds, MaterialGrows, rotator' = NoRoot, UNCHANGED <<policy, seals, chains, procs>>
  PROVE  RotationHolds'
<1>1. UnmadeIsUntouched' /\ OldsAreUsed' /\ Successors'
  BY DEF MaterialGrows, RotationHolds, UnmadeIsUntouched, OldsAreUsed, Successors, Untouched
<1>2. Rotating'
  BY DEF Rotating
<1>3. SealsAreFinal'
  <2>1. ASSUME NEW r \in Roots, chains[r].sealed
        PROVE  /\ chains[r].open = {}
               /\ \E m \in Roots : seals'[r] = m /\ material'[m].old = r /\ material'[m].head = Len(chains[r].events) /\ Range(Steps) \subseteq material'[m].files
    <3>1. PICK m \in Roots : seals[r] = m /\ material[m].old = r /\ material[m].head = Len(chains[r].events) /\ Range(Steps) \subseteq material[m].files
      BY <2>1 DEF RotationHolds, SealsAreFinal
    <3>2. material'[m].old = r /\ material'[m].head = Len(chains[r].events) /\ Range(Steps) \subseteq material'[m].files
      BY <3>1 DEF MaterialGrows
    <3>3. seals'[r] = m
      BY <3>1
    <3>. QED  BY <2>1, <3>2, <3>3 DEF RotationHolds, SealsAreFinal
  <2>2. ASSUME chains[policy].sealed
        PROVE  \E n \in Roots : RotationIntact(n)' /\ policy = material'[n].old
    <3>1. PICK n \in Roots : RotationIntact(n) /\ policy = material[n].old
      BY <2>2 DEF RotationHolds, SealsAreFinal
    <3>2. material'[n].old = material[n].old /\ material'[n].head = material[n].head /\ material[n].files \subseteq material'[n].files
      BY DEF MaterialGrows
    <3>. QED  BY <3>1, <3>2 DEF RotationIntact
  <2>3. chains' = chains /\ policy' = policy /\ seals' = seals
    OBVIOUS
  <2>. QED  BY <2>1, <2>2, <2>3 DEF SealsAreFinal
<1>. QED  BY <1>1, <1>2, <1>3 DEF RotationHolds

(* The last look at the policy, and what takes up a rotation that was cut. *)
LEMMA TakesUp ==
  ASSUME AuditTypes, RotationHolds, NEW n \in Roots, NEW pos \in {"checked", "switched"}, rotator' = [new |-> n, at |-> pos],
         material[n].old \in Roots, chains[material[n].old].sealed, pos = "checked" => material[n].old = policy,
         UNCHANGED <<policy, seals, chains, material, procs, contract, linked, attempts>>
  PROVE  AuditTypes' /\ RotationHolds'
<1>1. rotator'.new = n /\ rotator'.at = pos /\ rotator' \in [new : Roots, at : {"writing", "sealed", "checked", "switched"}]
  OBVIOUS
<1>2. AuditTypes'
  BY <1>1 DEF AuditTypes
<1>3. UnmadeIsUntouched' /\ OldsAreUsed' /\ Successors'
  BY DEF RotationHolds, UnmadeIsUntouched, OldsAreUsed, Successors, Untouched
<1>4. chains[n].made
  BY DEF RotationHolds, UnmadeIsUntouched
<1>5. Rotating'
  BY <1>1, <1>4 DEF Rotating
<1>6. SealsAreFinal'
  BY DEF RotationHolds, SealsAreFinal, RotationIntact
<1>. QED  BY <1>2, <1>3, <1>5, <1>6 DEF RotationHolds

LEMMA ChecksRotation == ASSUME AuditTypes, RotationHolds, RotateChecks  PROVE AuditTypes' /\ RotationHolds'
<1>1. PICK n \in Roots : n = rotator.new /\ material[n].old \in Roots /\ chains[material[n].old].sealed
  BY DEF RotateChecks, RotationHolds, Rotating
<1>2. rotator' = [new |-> n, at |-> "checked"]
  <2>1. PICK m \in Roots, pos \in {"writing", "sealed", "checked", "switched"} : rotator = [new |-> m, at |-> pos]
    BY DEF AuditTypes, RotateChecks
  <2>. QED  BY <2>1, <1>1 DEF RotateChecks
<1>. QED  BY <1>1, <1>2, TakesUp DEF RotateChecks

LEMMA ReplacesPolicy == ASSUME AuditTypes, RotationHolds, RotateReplaces  PROVE AuditTypes' /\ RotationHolds'
<1>1. PICK n \in Roots : n = rotator.new /\ material[n].old = policy /\ chains[material[n].old].sealed
  BY DEF RotateReplaces, RotationHolds, Rotating
<1>2. rotator # NoRoot /\ policy' = n /\ UNCHANGED <<seals, chains, material, procs, contract, linked, attempts>>
  BY <1>1 DEF RotateReplaces
<1>3. rotator' = [new |-> n, at |-> "switched"]
  <2>1. PICK m \in Roots, pos \in {"writing", "sealed", "checked", "switched"} : rotator = [new |-> m, at |-> pos]
    BY <1>2 DEF AuditTypes
  <2>. QED  BY <2>1, <1>1 DEF RotateReplaces
<1>4. rotator' \in [new : {rotator.new}, at : {"switched"}]
  BY <1>1, <1>3
<1>5. RotationHolds'
  BY <1>1, <1>2, <1>4, TurnsTo
<1>6. AuditTypes'
  BY <1>1, <1>2, <1>3 DEF AuditTypes
<1>. QED  BY <1>5, <1>6

LEMMA EndsRotation == ASSUME AuditTypes, RotationHolds, RotateEnds \/ RotateDies  PROVE AuditTypes' /\ RotationHolds'
<1>1. rotator # NoRoot /\ rotator' = NoRoot /\ UNCHANGED <<policy, seals, chains, procs, contract, linked, attempts>>
  BY DEF RotateEnds, RotateDies
<1>2. PICK n \in Roots : material' \in {material, [material EXCEPT ![n].files = @ \cup {"completed"}]}
  BY <1>1 DEF RotateEnds, RotateDies, RotationHolds, Rotating
<1>3. MaterialTyped(material') /\ MaterialGrows
  BY <1>2, CompletedGrows
<1>4. RotationHolds'
  BY <1>1, <1>3, RotationEnds
<1>5. AuditTypes'
  BY <1>1, <1>3 DEF AuditTypes, MaterialTyped
<1>. QED  BY <1>4, <1>5

LEMMA ResumesRotation == ASSUME AuditTypes, RotationHolds, NEW n \in Roots, RotateResume(n)  PROVE AuditTypes' /\ RotationHolds'
<1>1. PICK pos \in {"checked", "switched"} :
        rotator' = [new |-> n, at |-> pos] /\ pos = IF policy = n THEN "switched" ELSE "checked"
  BY DEF RotateResume
<1>2. /\ policy \in {material[n].old, n} /\ chains[material[n].old].sealed
      /\ UNCHANGED <<policy, seals, chains, material, procs, contract, linked, attempts>>
  BY DEF RotateResume, RotationIntact
<1>3. material[n].old \in Roots
  BY DEF RotateResume, RotationIntact
<1>. QED  BY <1>1, <1>2, <1>3, TakesUp

(* An intent has a number of its own. *)
LEMMA IntentsHold ==
  ASSUME AuditTypes, EventsHold, NEW r \in Roots, Logged1(r, attempts + 1, "intent"), attempts' = attempts + 1
  PROVE  EventsHold'
<1>. DEFINE a == attempts + 1
            new == Len(chains[r].events) + 1
<1>1. attempts \in Nat /\ chains \in [Roots -> ChainType] /\ \A q \in Roots : chains[q].events \in Seq(Entry)
  BY DEF AuditTypes, ChainType
<1>2. /\ chains'[r].events = Append(chains[r].events, <<a, "intent">>) /\ chains'[r].open = chains[r].open \cup {a}
      /\ \A q \in Roots \ {r} : chains'[q] = chains[q]
  BY <1>1, LoggedIs
<1>3. /\ DOMAIN chains'[r].events = DOMAIN chains[r].events \cup {new} /\ chains'[r].events[new] = <<a, "intent">>
      /\ \A i \in DOMAIN chains[r].events : i # new /\ i \in Nat /\ chains'[r].events[i] = chains[r].events[i]
      /\ \A i \in DOMAIN chains[r].events : i \in 1..(new - 1)
  BY <1>1, <1>2
<1>4. /\ \A q \in Roots : \A i \in DOMAIN chains[q].events : chains'[q].events[i] = chains[q].events[i] /\ i \in DOMAIN chains'[q].events
      /\ \A q \in Roots : \A i \in DOMAIN chains'[q].events : i \in DOMAIN chains[q].events \/ (q = r /\ i = new)
      /\ \A q \in Roots : chains'[q].open \subseteq chains[q].open \cup {a} /\ (q # r => chains'[q].open = chains[q].open)
  <2>. SUFFICES ASSUME NEW q \in Roots
                PROVE  /\ \A i \in DOMAIN chains[q].events : chains'[q].events[i] = chains[q].events[i] /\ i \in DOMAIN chains'[q].events
                       /\ \A i \in DOMAIN chains'[q].events : i \in DOMAIN chains[q].events \/ (q = r /\ i = new)
                       /\ chains'[q].open \subseteq chains[q].open \cup {a} /\ (q # r => chains'[q].open = chains[q].open)
    OBVIOUS
  <2>. HIDE DEF new, a
  <2>1. CASE q = r
    BY <2>1, <1>2, <1>3
  <2>2. CASE q # r
    BY <2>2, <1>2
  <2>. QED  BY <2>1, <2>2
<1>5. \A q \in Roots : \A i \in DOMAIN chains[q].events :
        /\ chains[q].events[i] # <<a, "intent">> /\ chains[q].events[i] # <<a, "result">>
        /\ \A b : chains[q].events[i] = <<b, "result">> => b \in 1..attempts
  <2>. SUFFICES ASSUME NEW q \in Roots, NEW i \in DOMAIN chains[q].events
                PROVE  /\ chains[q].events[i] # <<a, "intent">> /\ chains[q].events[i] # <<a, "result">>
                       /\ \A b : chains[q].events[i] = <<b, "result">> => b \in 1..attempts
    OBVIOUS
  <2>1. PICK d \in 1..attempts : chains[q].events[i] = <<d, "intent">> \/ chains[q].events[i] = <<d, "result">>
    BY DEF EventsHold, EventsAreKnown
  <2>2. d # a
    BY <1>1
  <2>. HIDE DEF a
  <2>3. chains[q].events[i] # <<a, "intent">> /\ chains[q].events[i] # <<a, "result">>
    BY <2>1, <2>2
  <2>4. \A b : chains[q].events[i] = <<b, "result">> => b = d
    BY <2>1
  <2>. QED  BY <2>1, <2>3, <2>4
<1>6. 1..attempts \subseteq 1..attempts' /\ a \in 1..attempts'
  BY <1>1
<1>. HIDE DEF new, a
<1>7. EventsAreKnown'
  <2>. SUFFICES ASSUME NEW q \in Roots, NEW i \in DOMAIN chains'[q].events
                PROVE  \E b \in 1..attempts' : chains'[q].events[i] \in {<<b, "intent">>, <<b, "result">>}
    BY DEF EventsAreKnown
  <2>1. CASE i \in DOMAIN chains[q].events
    BY <2>1, <1>4, <1>6 DEF EventsHold, EventsAreKnown
  <2>2. CASE q = r /\ i = new
    BY <2>2, <1>3, <1>6
  <2>. QED  BY <2>1, <2>2, <1>4
<1>8. OpenAreIntents'
  <2>. SUFFICES ASSUME NEW q \in Roots, NEW b \in chains'[q].open
                PROVE  /\ b \in 1..attempts'
                       /\ \E i \in DOMAIN chains'[q].events : chains'[q].events[i] = <<b, "intent">>
                       /\ \A p \in Roots : \A j \in DOMAIN chains'[p].events : chains'[p].events[j] # <<b, "result">>
    BY DEF OpenAreIntents
  <2>1. CASE b = a
    <3>1. \E i \in DOMAIN chains'[q].events : chains'[q].events[i] = <<b, "intent">>
      <4>1. q = r \/ a \in chains[q].open
        BY <2>1, <1>4
      <4>2. a \notin chains[q].open
        <5>1. a \in chains[q].open => \E i \in DOMAIN chains[q].events : chains[q].events[i] = <<a, "intent">>
          BY DEF EventsHold, OpenAreIntents
        <5>. QED  BY <5>1, <1>5
      <4>. QED  BY <4>1, <4>2, <2>1, <1>3
    <3>2. ASSUME NEW p \in Roots, NEW j \in DOMAIN chains'[p].events
          PROVE  chains'[p].events[j] # <<b, "result">>
      <4>1. CASE j \in DOMAIN chains[p].events
        BY <4>1, <2>1, <1>4, <1>5
      <4>2. CASE p = r /\ j = new
        <5>1. <<a, "intent">> # <<b, "result">>
          OBVIOUS
        <5>. QED  BY <4>2, <5>1, <1>3
      <4>. QED  BY <4>1, <4>2, <1>4
    <3>. QED  BY <3>1, <3>2, <2>1, <1>6
  <2>2. CASE b # a
    <3>1. b \in chains[q].open
      BY <2>2, <1>4
    <3>2. /\ b \in 1..attempts
          /\ \E i \in DOMAIN chains[q].events : chains[q].events[i] = <<b, "intent">>
          /\ \A p \in Roots : \A j \in DOMAIN chains[p].events : chains[p].events[j] # <<b, "result">>
      BY <3>1 DEF EventsHold, OpenAreIntents
    <3>3. ASSUME NEW p \in Roots, NEW j \in DOMAIN chains'[p].events
          PROVE  chains'[p].events[j] # <<b, "result">>
      <4>1. CASE j \in DOMAIN chains[p].events
        BY <4>1, <3>2, <1>4
      <4>2. CASE p = r /\ j = new
        <5>1. <<a, "intent">> # <<b, "result">>
          OBVIOUS
        <5>. QED  BY <4>2, <5>1, <1>3
      <4>. QED  BY <4>1, <4>2, <1>4
    <3>. QED  BY <3>2, <3>3, <1>4, <1>6
  <2>. QED  BY <2>1, <2>2
<1>9. EventsDiffer'
  <2>. SUFFICES ASSUME NEW p \in Roots, NEW q \in Roots, NEW i \in DOMAIN chains'[p].events, NEW j \in DOMAIN chains'[q].events,
                       chains'[p].events[i] = chains'[q].events[j]
                PROVE  p = q /\ i = j
    BY DEF EventsDiffer
  <2>1. CASE i \in DOMAIN chains[p].events /\ j \in DOMAIN chains[q].events
    BY <2>1, <1>4 DEF EventsHold, EventsDiffer
  <2>2. CASE p = r /\ i = new
    <3>1. j \in DOMAIN chains[q].events => chains[q].events[j] # <<a, "intent">>
      BY <1>5
    <3>. QED  BY <2>2, <3>1, <1>3, <1>4
  <2>3. CASE q = r /\ j = new
    <3>1. i \in DOMAIN chains[p].events => chains[p].events[i] # <<a, "intent">>
      BY <1>5
    <3>. QED  BY <2>3, <3>1, <1>3, <1>4
  <2>. QED  BY <2>1, <2>2, <2>3, <1>4
<1>10. ResultsFollow'
  <2>. SUFFICES ASSUME NEW q \in Roots, NEW i \in DOMAIN chains'[q].events, NEW b \in 1..attempts', chains'[q].events[i] = <<b, "result">>
                PROVE  \E k \in 1..(i - 1) : chains'[q].events[k] = <<b, "intent">>
    BY DEF ResultsFollow
  <2>1. i \in DOMAIN chains[q].events
    <3>1. <<a, "intent">> # <<b, "result">>
      OBVIOUS
    <3>. QED  BY <3>1, <1>3, <1>4
  <2>2. chains[q].events[i] = <<b, "result">> /\ b \in 1..attempts
    BY <2>1, <1>4, <1>5
  <2>3. PICK k \in 1..(i - 1) : chains[q].events[k] = <<b, "intent">>
    BY <2>1, <2>2 DEF EventsHold, ResultsFollow
  <2>4. k \in DOMAIN chains[q].events
    BY <2>1, <2>3, <1>1
  <2>. QED  BY <2>3, <2>4, <1>4
<1>. QED  BY <1>7, <1>8, <1>9, <1>10 DEF EventsHold

(* A result follows the intent that is open, and nothing else does. *)
LEMMA ResultsHold ==
  ASSUME AuditTypes, EventsHold, NEW r \in Roots, NEW a \in chains[r].open, Logged1(r, a, "result"), attempts' = attempts
  PROVE  EventsHold'
<1>. DEFINE new == Len(chains[r].events) + 1
<1>1. attempts \in Nat /\ chains \in [Roots -> ChainType] /\ \A q \in Roots : chains[q].events \in Seq(Entry)
  BY DEF AuditTypes, ChainType
<1>2. /\ a \in 1..attempts
      /\ \A q \in Roots : \A j \in DOMAIN chains[q].events : chains[q].events[j] # <<a, "result">>
  BY DEF EventsHold, OpenAreIntents
<1>3. PICK old \in DOMAIN chains[r].events : chains[r].events[old] = <<a, "intent">>
  BY DEF EventsHold, OpenAreIntents
<1>4. /\ chains'[r].events = Append(chains[r].events, <<a, "result">>) /\ chains'[r].open = chains[r].open \ {a}
      /\ \A q \in Roots \ {r} : chains'[q] = chains[q]
  BY <1>1, <1>2, LoggedIs
<1>5. /\ DOMAIN chains'[r].events = DOMAIN chains[r].events \cup {new} /\ chains'[r].events[new] = <<a, "result">>
      /\ \A i \in DOMAIN chains[r].events : i # new /\ i \in Nat /\ chains'[r].events[i] = chains[r].events[i]
      /\ \A i \in DOMAIN chains[r].events : i \in 1..(new - 1)
  BY <1>1, <1>4
<1>6. /\ \A q \in Roots : \A i \in DOMAIN chains[q].events : chains'[q].events[i] = chains[q].events[i] /\ i \in DOMAIN chains'[q].events
      /\ \A q \in Roots : \A i \in DOMAIN chains'[q].events : i \in DOMAIN chains[q].events \/ (q = r /\ i = new)
      /\ \A q \in Roots : chains'[q].open \subseteq chains[q].open /\ (q = r => a \notin chains'[q].open)
  <2>. SUFFICES ASSUME NEW q \in Roots
                PROVE  /\ \A i \in DOMAIN chains[q].events : chains'[q].events[i] = chains[q].events[i] /\ i \in DOMAIN chains'[q].events
                       /\ \A i \in DOMAIN chains'[q].events : i \in DOMAIN chains[q].events \/ (q = r /\ i = new)
                       /\ chains'[q].open \subseteq chains[q].open /\ (q = r => a \notin chains'[q].open)
    OBVIOUS
  <2>. HIDE DEF new
  <2>1. CASE q = r
    BY <2>1, <1>4, <1>5
  <2>2. CASE q # r
    BY <2>2, <1>4
  <2>. QED  BY <2>1, <2>2
<1>. HIDE DEF new
<1>7. EventsAreKnown'
  <2>. SUFFICES ASSUME NEW q \in Roots, NEW i \in DOMAIN chains'[q].events
                PROVE  \E b \in 1..attempts : chains'[q].events[i] \in {<<b, "intent">>, <<b, "result">>}
    BY DEF EventsAreKnown
  <2>1. CASE i \in DOMAIN chains[q].events
    BY <2>1, <1>6 DEF EventsHold, EventsAreKnown
  <2>2. CASE q = r /\ i = new
    BY <2>2, <1>5, <1>2
  <2>. QED  BY <2>1, <2>2, <1>6
<1>8. OpenAreIntents'
  <2>. SUFFICES ASSUME NEW q \in Roots, NEW b \in chains'[q].open
                PROVE  /\ b \in 1..attempts
                       /\ \E i \in DOMAIN chains'[q].events : chains'[q].events[i] = <<b, "intent">>
                       /\ \A p \in Roots : \A j \in DOMAIN chains'[p].events : chains'[p].events[j] # <<b, "result">>
    BY DEF OpenAreIntents
  <2>1. b \in chains[q].open
    BY <1>6
  <2>2. /\ b \in 1..attempts
        /\ \A p \in Roots : \A j \in DOMAIN chains[p].events : chains[p].events[j] # <<b, "result">>
    BY <2>1 DEF EventsHold, OpenAreIntents
  <2>3. PICK i \in DOMAIN chains[q].events : chains[q].events[i] = <<b, "intent">>
    BY <2>1 DEF EventsHold, OpenAreIntents
  <2>4. b # a
    <3>. SUFFICES ASSUME b = a
                  PROVE  FALSE
      OBVIOUS
    <3>1. q = r
      BY <2>3, <1>3 DEF EventsHold, EventsDiffer
    <3>. QED  BY <3>1, <1>6
  <2>5. ASSUME NEW p \in Roots, NEW j \in DOMAIN chains'[p].events
        PROVE  chains'[p].events[j] # <<b, "result">>
    <3>1. CASE j \in DOMAIN chains[p].events
      BY <3>1, <2>2, <1>6
    <3>2. CASE p = r /\ j = new
      <4>1. <<a, "result">> # <<b, "result">>
        BY <2>4
      <4>. QED  BY <3>2, <4>1, <1>5
    <3>. QED  BY <3>1, <3>2, <1>6
  <2>. QED  BY <2>2, <2>3, <2>5, <1>6
<1>9. EventsDiffer'
  <2>. SUFFICES ASSUME NEW p \in Roots, NEW q \in Roots, NEW i \in DOMAIN chains'[p].events, NEW j \in DOMAIN chains'[q].events,
                       chains'[p].events[i] = chains'[q].events[j]
                PROVE  p = q /\ i = j
    BY DEF EventsDiffer
  <2>1. CASE i \in DOMAIN chains[p].events /\ j \in DOMAIN chains[q].events
    BY <2>1, <1>6 DEF EventsHold, EventsDiffer
  <2>2. CASE p = r /\ i = new
    BY <2>2, <1>2, <1>5, <1>6
  <2>3. CASE q = r /\ j = new
    BY <2>3, <1>2, <1>5, <1>6
  <2>. QED  BY <2>1, <2>2, <2>3, <1>6
<1>10. ResultsFollow'
  <2>. SUFFICES ASSUME NEW q \in Roots, NEW i \in DOMAIN chains'[q].events, NEW b \in 1..attempts, chains'[q].events[i] = <<b, "result">>
                PROVE  \E k \in 1..(i - 1) : chains'[q].events[k] = <<b, "intent">>
    BY DEF ResultsFollow
  <2>1. CASE i \in DOMAIN chains[q].events
    <3>3. chains[q].events[i] = <<b, "result">>
      BY <2>1, <1>6
    <3>1. PICK k \in 1..(i - 1) : chains[q].events[k] = <<b, "intent">>
      BY <2>1, <3>3 DEF EventsHold, ResultsFollow
    <3>2. k \in DOMAIN chains[q].events
      BY <2>1, <3>1, <1>1
    <3>. QED  BY <3>1, <3>2, <1>6
  <2>2. CASE q = r /\ i = new
    <3>1. <<a, "result">> = <<b, "result">>
      BY <2>2, <1>5
    <3>2. b = a
      BY <3>1
    <3>. QED  BY <2>2, <3>2, <1>3, <1>5
  <2>. QED  BY <2>1, <2>2, <1>6
<1>. QED  BY <1>7, <1>8, <1>9, <1>10 DEF EventsHold

LEMMA EventsStay ==
  ASSUME EventsHold, attempts' = attempts, \A r \in Roots : chains'[r].events = chains[r].events /\ chains'[r].open = chains[r].open
  PROVE  EventsHold'
<1>1. EventsAreKnown'
  BY DEF EventsHold, EventsAreKnown
<1>4. ResultsFollow'
  BY DEF EventsHold, ResultsFollow
<1>2. OpenAreIntents'
  BY DEF EventsHold, OpenAreIntents
<1>3. EventsDiffer'
  BY DEF EventsHold, EventsDiffer
<1>. QED  BY <1>1, <1>2, <1>3, <1>4 DEF EventsHold

(* A session or a worker moves from one step to the next. *)
LEMMA ProcMoves ==
  ASSUME AuditTypes, NEW s \in Sessions, NEW root, NEW a, NEW op, NEW pos,
         procs' = [procs EXCEPT ![s] = [root |-> root, attempt |-> a, op |-> op, at |-> pos]],
         pos # "none" => root \in Roots, root \in {procs[s].root, policy, NoRoot}
  PROVE  /\ DOMAIN procs' = Sessions /\ RootsKept
         /\ \A x \in Sessions : LET p == procs'[x] IN
              p = [root |-> p.root, attempt |-> p.attempt, op |-> p.op, at |-> p.at] /\ (p.at # "none" => p.root \in Roots)
         /\ procs'[s].at = pos /\ procs'[s].attempt = a /\ procs'[s].op = op
         /\ \A x \in Sessions \ {s} : procs'[x] = procs[x]
<1>1. DOMAIN procs' = Sessions /\ procs'[s] = [root |-> root, attempt |-> a, op |-> op, at |-> pos] /\ \A x \in Sessions \ {s} : procs'[x] = procs[x]
  BY DEF AuditTypes
<1>2. procs'[s].root = root /\ procs'[s].at = pos /\ procs'[s].attempt = a /\ procs'[s].op = op
  BY <1>1
<1>3. RootsKept
  BY <1>1, <1>2 DEF RootsKept
<1>4. ASSUME NEW x \in Sessions
      PROVE  procs'[x] = [root |-> procs'[x].root, attempt |-> procs'[x].attempt, op |-> procs'[x].op, at |-> procs'[x].at] /\ (procs'[x].at # "none" => procs'[x].root \in Roots)
  <2>1. CASE x = s
    BY <2>1, <1>1, <1>2
  <2>2. CASE x # s
    BY <2>2, <1>1 DEF AuditTypes
  <2>. QED  BY <2>1, <2>2
<1>. QED  BY <1>1, <1>2, <1>3, <1>4

LEMMA ProcSteps ==
  ASSUME AuditTypes, NEW s \in Sessions, NEW pos, procs' = [procs EXCEPT ![s].at = pos]
  PROVE  procs' = [procs EXCEPT ![s] = [root |-> procs[s].root, attempt |-> procs[s].attempt, op |-> procs[s].op, at |-> pos]]
<1>1. PICK r, a, o, w : procs[s] = [root |-> r, attempt |-> a, op |-> o, at |-> w]
  BY DEF AuditTypes
<1>2. [procs[s] EXCEPT !.at = pos] = [root |-> r, attempt |-> a, op |-> o, at |-> pos]
  BY <1>1
<1>3. r = procs[s].root /\ a = procs[s].attempt /\ o = procs[s].op
  BY <1>1
<1>. QED  BY <1>2, <1>3 DEF AuditTypes

LEMMA LinksGoOn ==
  ASSUME WorkersAreLinked, linked' = linked, attempts' = attempts,
         \A x \in Sessions : procs'[x].at = "execute" =>
           procs[x].at = "execute" /\ procs'[x].attempt = procs[x].attempt /\ procs'[x].op = procs[x].op,
         \A o \in Operations : contract'[o] = "executing" =>
           contract[o] = "executing" \/ \E x \in Sessions : procs[x].at = "execute" /\ procs[x].op = o
  PROVE  WorkersAreLinked'
BY DEF WorkersAreLinked

(* Nothing is written to a chain: the step is one of a session or worker. *)
LEMMA SessionGoesOn ==
  ASSUME AuditIInv, RootsKept, UNCHANGED <<policy, seals, chains, material, linked, rotator, attempts>>,
         DOMAIN procs' = Sessions, DOMAIN contract' = Operations, WorkersAreLinked',
         \A x \in Sessions : LET p == procs'[x] IN
           p = [root |-> p.root, attempt |-> p.attempt, op |-> p.op, at |-> p.at] /\ (p.at # "none" => p.root \in Roots)
  PROVE  AuditIInv'
<1>1. AuditTypes'
  BY DEF AuditIInv, AuditTypes
<1>2. RotationHolds'
  BY RotationGoesOn DEF AuditIInv, ChainsGoOn
<1>3. EventsHold'
  BY EventsStay DEF AuditIInv
<1>. QED  BY <1>1, <1>2, <1>3 DEF AuditIInv

LEMMA IdleAt ==
  ASSUME NEW r, NEW w
  PROVE  [Idle EXCEPT !.root = r, !.at = w] = [root |-> r, attempt |-> 0, op |-> NoRoot, at |-> w]
<1>. DEFINE f == [Idle EXCEPT !.root = r]
<1>1. f = [root |-> r, attempt |-> 0, op |-> NoRoot, at |-> "none"]
  BY DEF Idle
<1>2. [Idle EXCEPT !.root = r, !.at = w] = [f EXCEPT !.at = w]
  BY Zenon
<1>. HIDE DEF f
<1>3. [f EXCEPT !.at = w] = [root |-> r, attempt |-> 0, op |-> NoRoot, at |-> w]
  BY <1>1
<1>. QED  BY <1>2, <1>3

LEMMA ConnectKeeps == ASSUME AuditIInv, NEW s \in Sessions, Connect(s)  PROVE AuditIInv'
<1>1. [Idle EXCEPT !.root = policy, !.at = "ready"] = [root |-> policy, attempt |-> 0, op |-> NoRoot, at |-> "ready"]
  BY IdleAt
<1>2. /\ procs' = [procs EXCEPT ![s] = [root |-> policy, attempt |-> 0, op |-> NoRoot, at |-> "ready"]]
      /\ UNCHANGED <<policy, seals, chains, material, contract, linked, rotator, attempts>>
  BY <1>1 DEF Connect
<1>3. AuditTypes /\ policy \in Roots /\ WorkersAreLinked
  BY DEF AuditIInv, AuditTypes
<1>4. /\ DOMAIN procs' = Sessions /\ RootsKept
      /\ \A x \in Sessions : LET p == procs'[x] IN
           p = [root |-> p.root, attempt |-> p.attempt, op |-> p.op, at |-> p.at] /\ (p.at # "none" => p.root \in Roots)
      /\ procs'[s].at = "ready" /\ \A x \in Sessions \ {s} : procs'[x] = procs[x]
  BY <1>2, <1>3, ProcMoves
<1>5. WorkersAreLinked'
  BY <1>2, <1>3, <1>4, LinksGoOn
<1>. QED  BY <1>2, <1>3, <1>4, <1>5, SessionGoesOn DEF AuditTypes

LEMMA AuditLostKeeps == ASSUME AuditIInv, NEW s \in Sessions, AuditLost(s)  PROVE AuditIInv'
<1>1. /\ procs' = [procs EXCEPT ![s] = [root |-> NoRoot, attempt |-> 0, op |-> NoRoot, at |-> "none"]]
      /\ UNCHANGED <<policy, seals, chains, material, contract, linked, rotator, attempts>>
  BY DEF AuditLost, Idle
<1>2. AuditTypes /\ WorkersAreLinked
  BY DEF AuditIInv
<1>3. /\ DOMAIN procs' = Sessions /\ RootsKept
      /\ \A x \in Sessions : LET p == procs'[x] IN
           p = [root |-> p.root, attempt |-> p.attempt, op |-> p.op, at |-> p.at] /\ (p.at # "none" => p.root \in Roots)
      /\ procs'[s].at = "none" /\ \A x \in Sessions \ {s} : procs'[x] = procs[x]
  BY <1>1, <1>2, ProcMoves
<1>4. WorkersAreLinked'
  BY <1>1, <1>2, <1>3, LinksGoOn
<1>. QED  BY <1>1, <1>2, <1>3, <1>4, SessionGoesOn DEF AuditTypes

LEMMA SubmitKeeps == ASSUME AuditIInv, NEW s \in Sessions, Submit(s)  PROVE AuditIInv'
<1>1. /\ procs[s].at = "submit" /\ procs' = [procs EXCEPT ![s].at = "returned"]
      /\ contract' = IF contract[procs[s].op] = "none" THEN [contract EXCEPT ![procs[s].op] = "pending"] ELSE contract
      /\ UNCHANGED <<policy, seals, chains, material, linked, rotator, attempts>>
  BY DEF Submit
<1>2. AuditTypes /\ WorkersAreLinked /\ procs[s].root \in Roots /\ DOMAIN contract = Operations
  BY <1>1 DEF AuditIInv, AuditTypes
<1>3. procs' = [procs EXCEPT ![s] = [root |-> procs[s].root, attempt |-> procs[s].attempt, op |-> procs[s].op, at |-> "returned"]]
  BY <1>1, <1>2, ProcSteps
<1>4. /\ DOMAIN procs' = Sessions /\ RootsKept
      /\ \A x \in Sessions : LET p == procs'[x] IN
           p = [root |-> p.root, attempt |-> p.attempt, op |-> p.op, at |-> p.at] /\ (p.at # "none" => p.root \in Roots)
      /\ procs'[s].at = "returned" /\ \A x \in Sessions \ {s} : procs'[x] = procs[x]
  BY <1>2, <1>3, ProcMoves
<1>5. DOMAIN contract' = Operations /\ \A o \in Operations : contract'[o] = "executing" => contract[o] = "executing"
  BY <1>1, <1>2
<1>6. WorkersAreLinked'
  BY <1>1, <1>2, <1>4, <1>5, LinksGoOn
<1>. QED  BY <1>1, <1>2, <1>4, <1>5, <1>6, SessionGoesOn

LEMMA ExecuteKeeps == ASSUME AuditIInv, NEW s \in Sessions, Execute(s)  PROVE AuditIInv'
<1>1. /\ procs[s].at = "execute" /\ UNCHANGED <<policy, seals, chains, material, linked, rotator, attempts>>
      /\ contract' \in {contract, [contract EXCEPT ![procs[s].op] = "executing"], [contract EXCEPT ![procs[s].op] = "recorded"]}
      /\ procs' \in {procs, [procs EXCEPT ![s].at = "returned"]}
  BY DEF Execute
<1>2. AuditTypes /\ WorkersAreLinked /\ procs[s].root \in Roots /\ DOMAIN contract = Operations
  BY <1>1 DEF AuditIInv, AuditTypes
<1>3. /\ DOMAIN procs' = Sessions /\ RootsKept
      /\ \A x \in Sessions : LET p == procs'[x] IN
           p = [root |-> p.root, attempt |-> p.attempt, op |-> p.op, at |-> p.at] /\ (p.at # "none" => p.root \in Roots)
      /\ \A x \in Sessions : procs'[x] = procs[x] \/ procs'[x].at = "returned"
  <2>1. CASE procs' = procs
    BY <2>1, <1>2 DEF AuditTypes, RootsKept
  <2>2. CASE procs' = [procs EXCEPT ![s].at = "returned"]
    <3>1. procs' = [procs EXCEPT ![s] = [root |-> procs[s].root, attempt |-> procs[s].attempt, op |-> procs[s].op, at |-> "returned"]]
      BY <2>2, <1>2, ProcSteps
    <3>2. /\ DOMAIN procs' = Sessions /\ RootsKept
          /\ \A x \in Sessions : LET p == procs'[x] IN
               p = [root |-> p.root, attempt |-> p.attempt, op |-> p.op, at |-> p.at] /\ (p.at # "none" => p.root \in Roots)
          /\ procs'[s].at = "returned" /\ \A x \in Sessions \ {s} : procs'[x] = procs[x]
      BY <1>2, <3>1, ProcMoves
    <3>. QED  BY <3>2
  <2>. QED  BY <1>1, <2>1, <2>2
<1>4. DOMAIN contract' = Operations /\ \A o \in Operations : contract'[o] = "executing" => contract[o] = "executing" \/ o = procs[s].op
  BY <1>1, <1>2
<1>5. WorkersAreLinked'
  BY <1>1, <1>2, <1>3, <1>4, LinksGoOn
<1>. QED  BY <1>1, <1>2, <1>3, <1>4, <1>5, SessionGoesOn

LEMMA ResolveExternallyKeeps == ASSUME AuditIInv, NEW o \in Operations, ResolveExternally(o)  PROVE AuditIInv'
<1>1. contract' = [contract EXCEPT ![o] = "recorded"] /\ UNCHANGED <<policy, seals, chains, material, procs, linked, rotator, attempts>>
  BY DEF ResolveExternally
<1>2. AuditTypes /\ WorkersAreLinked
  BY DEF AuditIInv
<1>3. DOMAIN contract' = Operations /\ \A q \in Operations : contract'[q] = "executing" => contract[q] = "executing"
  BY <1>1, <1>2 DEF AuditTypes
<1>4. WorkersAreLinked' /\ RootsKept
  BY <1>1, <1>2, <1>3, LinksGoOn DEF RootsKept
<1>. QED  BY <1>1, <1>2, <1>3, <1>4, SessionGoesOn DEF AuditTypes

LEMMA AuditBeginKeeps == ASSUME AuditIInv, NEW s \in Sessions, NEW o \in Operations, NEW worker \in BOOLEAN, AuditBegin(s, o, worker)  PROVE AuditIInv'
<1>. DEFINE a == attempts + 1
            pos == IF worker THEN "execute" ELSE "submit"
            l == IF worker THEN o ELSE NoRoot
<1>1. /\ procs[s].at = "ready" /\ Writable(procs[s].root)
      /\ attempts' = a /\ Logged1(procs[s].root, a, "intent") /\ linked' = Append(linked, l)
      /\ procs' = [procs EXCEPT ![s] = [procs[s] EXCEPT !.attempt = a, !.op = o, !.at = pos]]
      /\ UNCHANGED <<policy, seals, material, contract, rotator>>
  BY DEF AuditBegin
<1>2. /\ AuditTypes /\ WorkersAreLinked /\ RotationHolds /\ EventsHold
      /\ procs[s].root \in Roots /\ attempts \in Nat /\ a \in Nat /\ linked \in Seq(Operations \cup {NoRoot}) /\ Len(linked) = attempts
  BY <1>1 DEF AuditIInv, AuditTypes
<1>3. procs' = [procs EXCEPT ![s] = [root |-> procs[s].root, attempt |-> a, op |-> o, at |-> pos]]
  <2>1. PICK r, a1, o1, w1 : procs[s] = [root |-> r, attempt |-> a1, op |-> o1, at |-> w1]
    BY <1>2 DEF AuditTypes
  <2>. DEFINE f == [procs[s] EXCEPT !.attempt = a]
              g == [f EXCEPT !.op = o]
              h == [g EXCEPT !.at = pos]
  <2>. HIDE DEF a, pos
  <2>2. f = [root |-> r, attempt |-> a, op |-> o1, at |-> w1]
    BY <2>1
  <2>3. [procs[s] EXCEPT !.attempt = a, !.op = o, !.at = pos] = [g EXCEPT !.at = pos]
    BY Zenon
  <2>. HIDE DEF f
  <2>4. g = [root |-> r, attempt |-> a, op |-> o, at |-> w1]
    BY <2>2
  <2>. HIDE DEF g
  <2>5. h = [root |-> r, attempt |-> a, op |-> o, at |-> pos]
    BY <2>4
  <2>6. procs' = [procs EXCEPT ![s] = h]
    BY <1>1, <2>3, Zenon
  <2>. HIDE DEF h
  <2>. QED  BY <2>1, <2>5, <2>6
<1>4. /\ DOMAIN procs' = Sessions /\ RootsKept
      /\ \A x \in Sessions : LET p == procs'[x] IN
           p = [root |-> p.root, attempt |-> p.attempt, op |-> p.op, at |-> p.at] /\ (p.at # "none" => p.root \in Roots)
      /\ procs'[s].at = pos /\ procs'[s].attempt = a /\ procs'[s].op = o
      /\ \A x \in Sessions \ {s} : procs'[x] = procs[x]
  <2>. HIDE DEF a, pos
  <2>. QED  BY <1>2, <1>3, ProcMoves
<1>5. chains' \in [Roots -> ChainType]
  <2>. HIDE DEF a
  <2>. QED  BY <1>1, <1>2, LoggedIs
<1>6. /\ linked' \in Seq(Operations \cup {NoRoot}) /\ Len(linked') = a /\ linked'[a] = l
      /\ \A k \in 1..attempts : linked'[k] = linked[k] /\ k \in 1..a
  BY <1>1, <1>2
<1>7. AuditTypes'
  BY <1>1, <1>2, <1>4, <1>5, <1>6 DEF AuditTypes
<1>8. RotationHolds'
  <2>1. Used(procs[s].root)
    BY DEF Used
  <2>2. ChainsGoOn
    BY <1>1, <1>2, <2>1, LoggingGoesOn
  <2>. QED  BY <1>1, <1>2, <1>4, <2>2, RotationGoesOn
<1>9. EventsHold'
  BY <1>1, <1>2, IntentsHold
<1>10. WorkersAreLinked'
  <2>1. ASSUME NEW x \in Sessions, procs'[x].at = "execute"
        PROVE  procs'[x].attempt \in 1..attempts' /\ procs'[x].op \in Operations /\ linked'[procs'[x].attempt] = procs'[x].op
    <3>1. CASE x = s
      <4>1. worker = TRUE /\ l = o
        BY <2>1, <3>1, <1>4
      <4>2. a \in 1..a
        BY <1>2
      <4>. QED  BY <3>1, <4>1, <4>2, <1>1, <1>4, <1>6
    <3>2. CASE x # s
      <4>1. procs[x].attempt \in 1..attempts /\ procs[x].op \in Operations /\ linked[procs[x].attempt] = procs[x].op
        BY <2>1, <3>2, <1>2, <1>4 DEF WorkersAreLinked
      <4>. QED  BY <3>2, <4>1, <1>1, <1>4, <1>6
    <3>. QED  BY <3>1, <3>2
  <2>2. ASSUME NEW q \in Operations, contract'[q] = "executing"
        PROVE  \E k \in 1..attempts' : linked'[k] = q
    <3>1. PICK k \in 1..attempts : linked[k] = q
      BY <2>2, <1>1, <1>2 DEF WorkersAreLinked
    <3>. QED  BY <3>1, <1>1, <1>6
  <2>. QED  BY <2>1, <2>2 DEF WorkersAreLinked
<1>. QED  BY <1>7, <1>8, <1>9, <1>10 DEF AuditIInv

LEMMA AuditFinishKeeps == ASSUME AuditIInv, NEW s \in Sessions, AuditFinish(s)  PROVE AuditIInv'
<1>1. /\ procs[s].at = "returned" /\ Writable(procs[s].root)
      /\ IF procs[s].attempt \in chains[procs[s].root].open
           THEN Logged1(procs[s].root, procs[s].attempt, "result") ELSE UNCHANGED chains
      /\ procs' = [procs EXCEPT ![s] = [Idle EXCEPT !.root = procs[s].root, !.at = "ready"]]
      /\ UNCHANGED <<policy, seals, material, contract, linked, rotator, attempts>>
  BY DEF AuditFinish
<1>2. AuditTypes /\ WorkersAreLinked /\ RotationHolds /\ EventsHold /\ procs[s].root \in Roots
  BY <1>1 DEF AuditIInv, AuditTypes
<1>3. procs' = [procs EXCEPT ![s] = [root |-> procs[s].root, attempt |-> 0, op |-> NoRoot, at |-> "ready"]]
  BY <1>1, IdleAt
<1>4. /\ DOMAIN procs' = Sessions /\ RootsKept
      /\ \A x \in Sessions : LET p == procs'[x] IN
           p = [root |-> p.root, attempt |-> p.attempt, op |-> p.op, at |-> p.at] /\ (p.at # "none" => p.root \in Roots)
      /\ procs'[s].at = "ready" /\ \A x \in Sessions \ {s} : procs'[x] = procs[x]
  BY <1>2, <1>3, ProcMoves
<1>5. CASE procs[s].attempt \notin chains[procs[s].root].open
  <2>1. UNCHANGED chains
    BY <1>1, <1>5
  <2>2. WorkersAreLinked'
    BY <1>1, <1>2, <1>4, LinksGoOn
  <2>. QED  BY <1>1, <1>2, <1>4, <2>1, <2>2, SessionGoesOn DEF AuditTypes
<1>6. CASE procs[s].attempt \in chains[procs[s].root].open
  <2>1. Logged1(procs[s].root, procs[s].attempt, "result")
    BY <1>1, <1>6
  <2>2. procs[s].attempt \in Nat
    BY <1>2, <1>6 DEF AuditTypes, ChainType
  <2>3. chains' \in [Roots -> ChainType] /\ ChainsGoOn
    <3>1. Used(procs[s].root)
      BY DEF Used
    <3>. QED  BY <1>1, <1>2, <2>1, <2>2, <3>1, LoggedIs, LoggingGoesOn
  <2>4. AuditTypes'
    BY <1>1, <1>2, <1>4, <2>3 DEF AuditTypes
  <2>5. RotationHolds'
    BY <1>1, <1>2, <1>4, <2>3, RotationGoesOn
  <2>6. EventsHold'
    BY <1>1, <1>2, <1>6, <2>1, ResultsHold
  <2>7. WorkersAreLinked'
    BY <1>1, <1>2, <1>4, LinksGoOn
  <2>. QED  BY <2>4, <2>5, <2>6, <2>7 DEF AuditIInv
<1>. QED  BY <1>5, <1>6

LEMMA AuditSettleKeeps == ASSUME AuditIInv, NEW a \in 1..attempts, AuditSettle(a)  PROVE AuditIInv'
<1>1. /\ a \in chains[policy].open /\ Writable(policy) /\ Logged1(policy, a, "result")
      /\ UNCHANGED <<policy, seals, material, procs, contract, linked, rotator, attempts>>
  BY DEF AuditSettle
<1>2. AuditTypes /\ WorkersAreLinked /\ RotationHolds /\ EventsHold /\ policy \in Roots /\ attempts \in Nat
  BY DEF AuditIInv, AuditTypes
<1>3. chains' \in [Roots -> ChainType] /\ ChainsGoOn
  <2>1. Used(policy) /\ a \in Nat
    BY <1>2 DEF Used
  <2>. QED  BY <1>1, <1>2, <2>1, LoggedIs, LoggingGoesOn
<1>4. AuditTypes'
  BY <1>1, <1>2, <1>3 DEF AuditTypes
<1>5. RotationHolds'
  <2>1. RootsKept
    BY <1>1 DEF RootsKept
  <2>. QED  BY <1>1, <1>2, <1>3, <2>1, RotationGoesOn
<1>6. EventsHold'
  BY <1>1, <1>2, ResultsHold
<1>7. WorkersAreLinked'
  BY <1>1, <1>2, LinksGoOn
<1>. QED  BY <1>4, <1>5, <1>6, <1>7 DEF AuditIInv

LEMMA RotationKeeps ==
  ASSUME AuditIInv,
         \/ RotateWrite \/ RotateSeal \/ RotateChecks \/ RotateReplaces \/ RotateEnds \/ RotateDies
         \/ \E n \in Roots : RotateStart(n) \/ RotateResume(n)
  PROVE  AuditIInv'
<1>1. AuditTypes' /\ RotationHolds'
  BY WritesRotation, SealsRotation, ChecksRotation, ReplacesPolicy, EndsRotation, StartsRotation, ResumesRotation DEF AuditIInv
<1>2. UNCHANGED <<procs, contract, linked, attempts>>
  BY DEF RotateWrite, RotateSeal, RotateChecks, RotateReplaces, RotateEnds, RotateDies, RotateStart, RotateResume
<1>3. \A r \in Roots : chains'[r].events = chains[r].events /\ chains'[r].open = chains[r].open
  <2>1. ASSUME NEW n \in Roots, RotateStart(n)
        PROVE  \A r \in Roots : chains'[r].events = chains[r].events /\ chains'[r].open = chains[r].open
    <3>1. chains' = [chains EXCEPT ![n].made = TRUE] /\ chains \in [Roots -> ChainType]
      BY <2>1 DEF RotateStart, AuditIInv, AuditTypes
    <3>. QED  BY <3>1 DEF ChainType
  <2>2. ASSUME RotateSeal
        PROVE  \A r \in Roots : chains'[r].events = chains[r].events /\ chains'[r].open = chains[r].open
    <3>1. PICK n \in Roots : n = material[rotator.new].old
      BY <2>2 DEF RotateSeal, AuditIInv, RotationHolds, Rotating
    <3>2. chains' = [chains EXCEPT ![n].sealed = TRUE] /\ chains \in [Roots -> ChainType]
      BY <2>2, <3>1 DEF RotateSeal, AuditIInv, AuditTypes
    <3>. QED  BY <3>2 DEF ChainType
  <2>3. ASSUME RotateWrite \/ RotateChecks \/ RotateReplaces \/ RotateEnds \/ RotateDies \/ \E n \in Roots : RotateResume(n)
        PROVE  chains' = chains
    BY <2>3 DEF RotateWrite, RotateChecks, RotateReplaces, RotateEnds, RotateDies, RotateResume
  <2>. QED  BY <2>1, <2>2, <2>3
<1>4. EventsHold'
  BY <1>2, <1>3, EventsStay DEF AuditIInv
<1>5. WorkersAreLinked'
  BY <1>2, LinksGoOn DEF AuditIInv
<1>. QED  BY <1>1, <1>4, <1>5 DEF AuditIInv

(* An edit of the policy's text moves nothing that the chains rest on. *)
LEMMA PolicyEditedKeeps == ASSUME AuditIInv, NEW e \in Editions, PolicyEdited(e)  PROVE AuditIInv'
<1>1. UNCHANGED <<policy, seals, chains, material, procs, contract, linked, rotator, attempts>>
  BY DEF PolicyEdited
<1>2. RootsKept
  BY <1>1 DEF RootsKept
<1>3. WorkersAreLinked'
  BY <1>1, LinksGoOn DEF AuditIInv
<1>. QED  BY <1>1, <1>2, <1>3, SessionGoesOn DEF AuditIInv, AuditTypes

LEMMA AuditStutters == ASSUME AuditIInv, UNCHANGED auditVars  PROVE AuditIInv'
<1>1. RootsKept
  BY DEF RootsKept, auditVars
<1>2. WorkersAreLinked'
  BY LinksGoOn DEF AuditIInv, auditVars
<1>. QED  BY <1>1, <1>2, SessionGoesOn DEF AuditIInv, AuditTypes, auditVars

(* For any chains, sessions, operations and attempts: a chain that a rotation
   has sealed is final and described by its successor; a policy that names it
   can be moved on as soon as its text is the one the rotation was planned
   with, whatever was edited in between; and every effect has one intent in one chain, before its
   one result (AuditStore.begin, finish, settle; rotate, resume). *)
THEOREM TrailIsAlwaysReliable == AuditSpec => []TrailIsReliable
<1>1. AuditInit => AuditIInv
  BY AuditStarting
<1>2. AuditIInv /\ [AuditNext]_auditVars => AuditIInv'
  <2>. SUFFICES ASSUME AuditIInv, [AuditNext]_auditVars
                PROVE  AuditIInv'
    OBVIOUS
  <2>1. ASSUME NEW s \in Sessions, Connect(s) \/ Submit(s) \/ Execute(s) \/ AuditFinish(s) \/ AuditLost(s)
        PROVE  AuditIInv'
    BY <2>1, ConnectKeeps, SubmitKeeps, ExecuteKeeps, AuditFinishKeeps, AuditLostKeeps
  <2>2. ASSUME NEW s \in Sessions, NEW o \in Operations, NEW worker \in BOOLEAN, AuditBegin(s, o, worker)
        PROVE  AuditIInv'
    BY <2>2, AuditBeginKeeps
  <2>3. ASSUME NEW o \in Operations, ResolveExternally(o)
        PROVE  AuditIInv'
    BY <2>3, ResolveExternallyKeeps
  <2>4. ASSUME NEW a \in 1..attempts, AuditSettle(a)
        PROVE  AuditIInv'
    BY <2>4, AuditSettleKeeps
  <2>. QED  BY <2>1, <2>2, <2>3, <2>4, PolicyEditedKeeps, RotationKeeps, AuditStutters DEF AuditNext
<1>3. AuditIInv => TrailIsReliable
  BY DEF AuditIInv, RotationHolds, EventsHold, WorkersAreLinked, TrailIsReliable, EffectsAreAudited, EventsDiffer, ResultsFollow
<1>. QED  BY <1>1, <1>2, <1>3, PTL DEF AuditSpec

-----------------------------------------------------------------------------
(* The remote page.  A call of this epoch is about the instance and, but    *)
(* for those that make a connection, the server of now; one of them at a    *)
(* time is waited for, so that what was read of pending changes is not      *)
(* overtaken by a change; and a change of an earlier epoch was overtaken.   *)
NoPlace == {"targets", "connect", "cancel-connect"}
WaitedNow(c) == Current(c) /\ c.kind \in Waited

IsCall(c) ==
  c = [id |-> c.id, epoch |-> c.epoch, kind |-> c.kind, of |-> c.of, instance |-> c.instance, arg |-> c.arg, served |-> c.served, reply |-> c.reply]
IsView(v) == v = [of |-> v.of, instance |-> v.instance, revision |-> v.revision, read |-> v.read]

Kinds == Waited \cup {"cancel-connect", "pause", "assets", "downloads"}
CallsAreMade == epoch \in Nat /\ \A c \in calls : IsCall(c) /\ c.kind \in Kinds /\ c.epoch \in Nat /\ c.epoch <= epoch
OneIsWaitedFor ==
  /\ busy \in BOOLEAN /\ (busy <=> \E c \in calls : WaitedNow(c))
  /\ \A c, d \in calls : WaitedNow(c) /\ WaitedNow(d) => c = d
CallsAreOfThePage ==
  /\ \A c \in calls : Current(c) => c.instance = instance /\ (c.kind \notin NoPlace => c.of \in context)
  /\ \A t, u \in context : t = u
PageIsEmpty == context = {} /\ view = {} /\ leases = {} /\ pending = {} /\ ~known
ConnectsFromNothing == \A c \in calls : Current(c) /\ c.kind = "connect" => PageIsEmpty
PageIsRead ==
  /\ \A v \in view : IsView(v) /\ v.of \in context /\ v.instance = instance
  /\ \A l \in leases : l.of \in context /\ l.instance = instance
  /\ \A a \in pending : a.of \in context
ChangesTell ==
  \A c \in calls : c.kind \in Changing =>
    /\ ~Current(c) => c.arg.change \in overtaken
    /\ Current(c) /\ c.kind \in {"change", "retry"} => ~known
    /\ Current(c) /\ c.kind \in {"admin-change", "admin-retry"} => c.arg.op = "provision"
ListsAll(those, t) ==
  /\ \A a \in those : a.of = t
  /\ \A a \in Unsettled(t) : a \in those \/ a.op = "provision"
RepliesTell ==
  \A c \in calls : Current(c) /\ c.kind \in {"pending", "admin-pending"} /\ c.served /\ c.reply.ok => ListsAll(c.reply.attempts, c.of)
KnownIsSettled == known /\ pending = {} => \A t \in context : \A a \in Unsettled(t) : a.op = "provision"

RemoteIInv ==
  CallsAreMade /\ OneIsWaitedFor /\ CallsAreOfThePage /\ ConnectsFromNothing /\ PageIsRead /\ ChangesTell /\ RepliesTell /\ KnownIsSettled

NewCall(n) == IsCall(n) /\ n.kind \in Kinds /\ n.epoch = epoch /\ n.instance = instance /\ ~n.served /\ (n.kind \notin NoPlace => n.of \in context)

LEMMA WaitedAre ==
  /\ Changing \subseteq Waited /\ {"pending", "admin-pending", "connect", "overview", "lease-status"} \subseteq Waited
  /\ Changing \cap NoPlace = {} /\ "connect" \notin Changing
BY DEF Changing, Waited, NoPlace

(* A call that nobody waits for comes or goes. *)
LEMMA QuietMove ==
  ASSUME RemoteIInv, NEW gone, NEW new, calls' = (calls \ gone) \cup new, \A c \in calls \cap gone : ~WaitedNow(c),
         \A n \in new : NewCall(n) /\ n.kind \notin Waited, UNCHANGED <<epoch, busy, shownVars, recorded, overtaken>>
  PROVE  RemoteIInv'
<1>. USE DEF shownVars
<1>0. \A c : Current(c)' <=> Current(c)
  BY DEF Current
<1>1. \A c : WaitedNow(c)' <=> WaitedNow(c)
  BY <1>0 DEF WaitedNow
<1>2. \A n \in new : ~WaitedNow(n) /\ Current(n)
  BY DEF WaitedNow, NewCall, Current
<1>3. CallsAreMade'
  BY DEF RemoteIInv, CallsAreMade, NewCall
<1>4. OneIsWaitedFor'
  BY <1>1, <1>2 DEF RemoteIInv, OneIsWaitedFor
<1>5. CallsAreOfThePage'
  BY <1>0 DEF RemoteIInv, CallsAreOfThePage, NewCall
<1>6. ConnectsFromNothing'
  BY <1>0, WaitedAre DEF RemoteIInv, ConnectsFromNothing, PageIsEmpty
<1>7. PageIsRead'
  BY DEF RemoteIInv, PageIsRead
<1>8. ChangesTell'
  BY <1>0, WaitedAre DEF RemoteIInv, ChangesTell
<1>9. \A a, t : ListsAll(a, t)' <=> ListsAll(a, t)
  BY DEF ListsAll, Unsettled
<1>10. RepliesTell'
  BY <1>0, <1>9, WaitedAre DEF RemoteIInv, RepliesTell, NewCall
<1>11. KnownIsSettled'
  BY DEF RemoteIInv, KnownIsSettled, Unsettled
<1>. QED  BY <1>3, <1>4, <1>5, <1>6, <1>7, <1>8, <1>10, <1>11 DEF RemoteIInv

(* The call that is waited for was answered, or there was none: another one *)
(* may take its place, and the page may show something new.                *)
LEMMA WaitedMove ==
  ASSUME RemoteIInv, NEW gone, NEW new, calls' = (calls \ gone) \cup new, \A c \in calls \ gone : ~WaitedNow(c),
         \A n, m \in new : n = m,
         \A n \in new : /\ NewCall(n) /\ n.kind # "connect" /\ (n.kind \in {"change", "retry"} => ~known')
                        /\ (n.kind \in {"admin-change", "admin-retry"} => n.arg.op = "provision"),
         busy' \in BOOLEAN, busy' <=> \E n \in new : n.kind \in Waited,
         UNCHANGED <<epoch, context, instance, recorded, overtaken>>, PageIsRead', KnownIsSettled'
  PROVE  RemoteIInv'
<1>0. \A c : Current(c)' <=> Current(c)
  BY DEF Current
<1>1. \A c : WaitedNow(c)' <=> WaitedNow(c)
  BY <1>0 DEF WaitedNow
<1>2. \A n \in new : (WaitedNow(n) <=> n.kind \in Waited) /\ Current(n)
  BY DEF WaitedNow, NewCall, Current
<1>3. CallsAreMade'
  BY DEF RemoteIInv, CallsAreMade, NewCall
<1>4. OneIsWaitedFor'
  BY <1>1, <1>2 DEF OneIsWaitedFor
<1>5. CallsAreOfThePage'
  BY <1>0 DEF RemoteIInv, CallsAreOfThePage, NewCall
<1>6. \A c \in calls' : Current(c) => c.kind \notin Waited \/ c \in new
  BY DEF WaitedNow
<1>7. ConnectsFromNothing'
  BY <1>0, <1>6, WaitedAre DEF ConnectsFromNothing
<1>8. ChangesTell'
  <2>. SUFFICES ASSUME NEW c \in calls', c.kind \in Changing
                PROVE  /\ ~Current(c) => c.arg.change \in overtaken
                       /\ Current(c) /\ c.kind \in {"change", "retry"} => ~known'
                       /\ Current(c) /\ c.kind \in {"admin-change", "admin-retry"} => c.arg.op = "provision"
    BY <1>0 DEF ChangesTell
  <2>1. CASE c \in new
    BY <2>1, <1>2
  <2>2. CASE c \notin new
    BY <2>2, <1>6, WaitedAre DEF RemoteIInv, ChangesTell
  <2>. QED  BY <2>1, <2>2
<1>9. RepliesTell'
  BY <1>0, <1>6, WaitedAre DEF RepliesTell, NewCall
<1>. QED  BY <1>3, <1>4, <1>5, <1>7, <1>8, <1>9 DEF RemoteIInv

(* The page was closed, or another instance was selected: no call counts. *)
LEMMA EpochMove ==
  ASSUME RemoteIInv, NEW new, epoch' = epoch + 1, calls' = calls \cup new, \A n, m \in new : n = m,
         \A n \in new : IsCall(n) /\ n.epoch = epoch' /\ n.instance = instance' /\ n.kind = "connect" /\ ~n.served,
         busy' \in BOOLEAN, busy' <=> new # {}, view' = {}, leases' = {}, pending' = {}, known' = FALSE,
         context' = {} \/ (new = {} /\ context' = context), recorded' = recorded,
         \A c \in calls : c.kind \in Changing => c.arg.change \in overtaken'
  PROVE  RemoteIInv'
<1>1. \A c \in calls : ~Current(c)' /\ c.epoch \in Nat /\ c.epoch <= epoch' /\ IsCall(c) /\ c.kind \in Kinds
  BY DEF RemoteIInv, CallsAreMade, Current
<1>2. epoch' \in Nat
  BY DEF RemoteIInv, CallsAreMade
<1>3. CallsAreMade'
  BY <1>1, <1>2, WaitedAre DEF CallsAreMade, Kinds
<1>4. \A n \in new : Current(n)' /\ WaitedNow(n)'
  BY WaitedAre DEF Current, WaitedNow
<1>5. OneIsWaitedFor'
  BY <1>1, <1>4 DEF OneIsWaitedFor, WaitedNow
<1>6. CallsAreOfThePage'
  BY <1>1 DEF RemoteIInv, CallsAreOfThePage, NoPlace
<1>7. ConnectsFromNothing'
  BY <1>1 DEF ConnectsFromNothing, PageIsEmpty
<1>8. PageIsRead' /\ KnownIsSettled'
  BY DEF PageIsRead, KnownIsSettled
<1>9. ChangesTell'
  BY <1>1, WaitedAre DEF ChangesTell
<1>10. RepliesTell'
  BY <1>1 DEF RepliesTell
<1>. QED  BY <1>3, <1>5, <1>6, <1>7, <1>8, <1>9, <1>10 DEF RemoteIInv

LEMMA RemoteStarts == RemoteInit => RemoteIInv
<1>. SUFFICES ASSUME RemoteInit PROVE RemoteIInv
  OBVIOUS
<1>. USE DEF RemoteInit
<1>1. CallsAreMade /\ CallsAreOfThePage /\ ConnectsFromNothing
  BY DEF CallsAreMade, CallsAreOfThePage, ConnectsFromNothing
<1>2. OneIsWaitedFor
  BY DEF OneIsWaitedFor
<1>3. PageIsRead /\ ChangesTell /\ RepliesTell /\ KnownIsSettled
  BY DEF PageIsRead, ChangesTell, RepliesTell, KnownIsSettled
<1>. QED  BY <1>1, <1>2, <1>3 DEF RemoteIInv

LEMMA CallIsNew ==
  ASSUME UNCHANGED epoch, NEW kind \in Kinds, NEW t, NEW arg, kind \notin NoPlace => t \in context
  PROVE  /\ NewCall(Call(kind, t, arg)) /\ Call(kind, t, arg).kind = kind /\ Call(kind, t, arg).arg = arg
         /\ Call(kind, t, arg).of = t
BY DEF NewCall, Call, IsCall

(* The user asks for something while the page is not busy. *)
LEMMA AskMove ==
  ASSUME RemoteIInv, NEW kind, NEW t, NEW arg, Asks(kind, t, arg), kind \in Waited, kind # "connect",
         kind \notin NoPlace => t \in context, kind \in {"change", "retry"} => ~known',
         kind \in {"admin-change", "admin-retry"} => arg.op = "provision",
         UNCHANGED <<context, instance, view, leases, pending>>, known' = known \/ known' = FALSE
  PROVE  RemoteIInv'
<1>0. UNCHANGED <<epoch, recorded, overtaken>> /\ ~busy /\ busy' = TRUE /\ calls' = calls \cup {Call(kind, t, arg)}
  BY DEF Asks, Own, serverVars, Made
<1>1. PICK n : n = Call(kind, t, arg)
  OBVIOUS
<1>2. NewCall(n) /\ n.kind = kind /\ n.arg = arg
  BY <1>0, <1>1, CallIsNew DEF Kinds
<1>3. calls' = (calls \ {}) \cup {n}
  BY <1>0, <1>1
<1>4. \A c \in calls \ {} : ~WaitedNow(c)
  BY <1>0 DEF RemoteIInv, OneIsWaitedFor
<1>5. PageIsRead'
  BY DEF RemoteIInv, PageIsRead
<1>6. KnownIsSettled'
  BY <1>0 DEF RemoteIInv, KnownIsSettled, Unsettled
<1>7. /\ busy' \in BOOLEAN /\ (busy' <=> \E m \in {n} : m.kind \in Waited)
      /\ \A m \in {n} : /\ NewCall(m) /\ m.kind # "connect" /\ (m.kind \in {"change", "retry"} => ~known')
                        /\ (m.kind \in {"admin-change", "admin-retry"} => m.arg.op = "provision")
      /\ \A m, o \in {n} : m = o
  BY <1>0, <1>2
<1>. QED  BY <1>0, <1>3, <1>4, <1>5, <1>6, <1>7, WaitedMove

LEMMA KindsWaited ==
  /\ {"targets", "overview", "change", "admin", "admin-change", "admin-pending", "retry", "admin-retry", "transfer"} \subseteq Waited
  /\ {"targets", "overview", "change", "admin", "admin-change", "admin-pending", "retry", "admin-retry", "transfer"} \cap {"connect"} = {}
BY DEF Waited

LEMMA AskingKeeps ==
  ASSUME RemoteIInv,
         \/ loadRemoteTargets \/ refreshRemote \/ (\E op : performRemote(op)) \/ (\E op : changeRemoteLease(op))
         \/ (\E op : remoteAdministration(op)) \/ loadRemoteAdminPending
         \/ (\E a \in pending : retryRemote(a) \/ retryRemoteAdministration(a)) \/ Transfers
  PROVE  RemoteIInv'
<1>. USE DEF shownVars
<1>1. CASE loadRemoteTargets
  <2>. PICK t \in RemoteTargets : Asks("targets", t, 0)
    BY <1>1 DEF loadRemoteTargets
  <2>. UNCHANGED <<context, instance, view, leases, pending, known>>
    BY <1>1 DEF loadRemoteTargets
  <2>. QED  BY AskMove, KindsWaited DEF NoPlace
<1>2. CASE refreshRemote
  <2>. PICK t \in context : Asks("overview", t, 0)
    BY <1>2 DEF refreshRemote
  <2>. UNCHANGED <<context, instance, view, leases, pending>> /\ known' = FALSE
    BY <1>2 DEF refreshRemote
  <2>. QED  BY AskMove, KindsWaited
<1>3. ASSUME NEW t \in context, NEW op, NEW arg, sendRemoteMutation(t, op, arg) PROVE RemoteIInv'
  <2>. Asks("change", t, Request(op, arg)) /\ UNCHANGED <<context, instance, view, leases, pending>> /\ known' = FALSE
    BY <1>3 DEF sendRemoteMutation
  <2>. QED  BY AskMove, KindsWaited
<1>4. CASE \E op : performRemote(op)
  BY <1>4, <1>3 DEF performRemote
<1>5. CASE \E op : changeRemoteLease(op)
  BY <1>5, <1>3 DEF changeRemoteLease
<1>6. CASE \E op : remoteAdministration(op)
  <2>1. PICK op : remoteAdministration(op)
    BY <1>6
  <2>2. UNCHANGED <<context, instance, view, leases, pending, known>>
    BY <2>1 DEF remoteAdministration
  <2>3. CASE op = "provision"
    <3>1. PICK t \in context, p \in plan : Asks("admin-change", t, Request(op, p))
      BY <2>1, <2>3 DEF remoteAdministration
    <3>2. Request(op, p).op = "provision"
      BY <2>3 DEF Request
    <3>. QED  BY <3>1, <3>2, <2>2, AskMove, KindsWaited
  <2>4. CASE op # "provision"
    <3>1. PICK t \in context : Asks("admin", t, op)
      BY <2>1, <2>4 DEF remoteAdministration
    <3>. QED  BY <3>1, <2>2, AskMove, KindsWaited
  <2>. QED  BY <2>3, <2>4
<1>7. CASE loadRemoteAdminPending
  <2>. PICK t \in context : Asks("admin-pending", t, 0)
    BY <1>7 DEF loadRemoteAdminPending
  <2>. UNCHANGED <<context, instance, view, leases, pending, known>>
    BY <1>7 DEF loadRemoteAdminPending
  <2>. QED  BY AskMove, KindsWaited
<1>8. ASSUME NEW a \in pending, retryRemote(a) PROVE RemoteIInv'
  <2>. PICK t \in context : Asks("retry", t, Again(a))
    BY <1>8 DEF retryRemote
  <2>. UNCHANGED <<context, instance, view, leases, pending>> /\ known' = FALSE
    BY <1>8 DEF retryRemote
  <2>. QED  BY AskMove, KindsWaited
<1>9. ASSUME NEW a \in pending, retryRemoteAdministration(a) PROVE RemoteIInv'
  <2>. PICK t \in context : Asks("admin-retry", t, Again(a))
    BY <1>9 DEF retryRemoteAdministration
  <2>. UNCHANGED <<context, instance, view, leases, pending, known>> /\ Again(a).op = "provision"
    BY <1>9 DEF retryRemoteAdministration, Again
  <2>. QED  BY AskMove, KindsWaited
<1>10. CASE Transfers
  <2>. PICK t \in context : Asks("transfer", t, 0)
    BY <1>10 DEF Transfers
  <2>. UNCHANGED <<context, instance, view, leases, pending, known>>
    BY <1>10 DEF Transfers
  <2>. QED  BY AskMove, KindsWaited
<1>. QED  BY <1>1, <1>2, <1>4, <1>5, <1>6, <1>7, <1>8, <1>9, <1>10

(* The user closes the page, connects, selects, pauses and reads history. *)
LEMMA EpochKeeps ==
  ASSUME RemoteIInv, disconnectRemote \/ (\E t : connectRemote(t)) \/ (\E i : selectRemoteInstance(i))
  PROVE  RemoteIInv'
<1>1. ASSUME Overtakes PROVE \A c \in calls : c.kind \in Changing => c.arg.change \in overtaken'
  BY <1>1 DEF Overtakes
<1>2. CASE disconnectRemote
  <2>0. PICK none : none = {}
    OBVIOUS
  <2>1. /\ epoch' = epoch + 1 /\ calls' = calls \cup none /\ busy' = FALSE /\ view' = {} /\ leases' = {} /\ pending' = {} /\ known' = FALSE
        /\ context' = {} /\ recorded' = recorded /\ Overtakes
    BY <1>2, <2>0 DEF disconnectRemote, Closed, serverVars
  <2>2. /\ \A n, m \in none : n = m
        /\ \A n \in none : IsCall(n) /\ n.epoch = epoch' /\ n.instance = instance' /\ n.kind = "connect" /\ ~n.served
        /\ busy' \in BOOLEAN /\ (busy' <=> none # {})
    BY <2>0, <2>1
  <2>. QED  BY <2>1, <2>2, <1>1, EpochMove
<1>3. ASSUME NEW t, connectRemote(t) PROVE RemoteIInv'
  <2>1. PICK n : n = [Call("connect", t, 0) EXCEPT !.instance = NoInstance]
    OBVIOUS
  <2>2. /\ epoch' = epoch + 1 /\ calls' = calls \cup {n} /\ busy' = TRUE /\ view' = {} /\ leases' = {} /\ pending' = {} /\ known' = FALSE
        /\ context' = {} /\ recorded' = recorded /\ Overtakes /\ instance' = NoInstance
    BY <1>3, <2>1 DEF connectRemote, Closed, serverVars, Made
  <2>3. n = [id |-> made + 1, epoch |-> epoch', kind |-> "connect", of |-> t, instance |-> NoInstance, arg |-> 0, served |-> FALSE, reply |-> NoReply]
    BY <2>1 DEF Call
  <2>4. IsCall(n) /\ n.epoch = epoch' /\ n.instance = instance' /\ n.kind = "connect" /\ ~n.served
    BY <2>2, <2>3 DEF IsCall
  <2>5. \A m \in {n} : IsCall(m) /\ m.epoch = epoch' /\ m.instance = instance' /\ m.kind = "connect" /\ ~m.served
    BY <2>4
  <2>6. busy' \in BOOLEAN /\ (busy' <=> {n} # {}) /\ \A m, o \in {n} : m = o
    BY <2>2
  <2>. QED  BY <2>2, <2>5, <2>6, <1>1, EpochMove
<1>4. ASSUME NEW i, selectRemoteInstance(i) PROVE RemoteIInv'
  <2>0. PICK none : none = {}
    OBVIOUS
  <2>1. /\ epoch' = epoch + 1 /\ calls' = calls \cup none /\ busy' = busy /\ ~busy /\ view' = {} /\ leases' = {} /\ pending' = {} /\ known' = FALSE
        /\ context' = context /\ recorded' = recorded /\ overtaken' = overtaken
    BY <1>4, <2>0 DEF selectRemoteInstance, Own, serverVars
  <2>2. \A c \in calls : c.kind \in Changing => c.arg.change \in overtaken'
    BY <2>1, WaitedAre DEF RemoteIInv, OneIsWaitedFor, WaitedNow, ChangesTell
  <2>3. busy' \in BOOLEAN /\ (busy' <=> none # {})
    BY <2>0, <2>1 DEF RemoteIInv, OneIsWaitedFor
  <2>4. /\ \A n, m \in none : n = m
        /\ \A n \in none : IsCall(n) /\ n.epoch = epoch' /\ n.instance = instance' /\ n.kind = "connect" /\ ~n.served
    BY <2>0
  <2>. QED  BY <2>0, <2>1, <2>2, <2>3, <2>4, EpochMove
<1>. QED  BY <1>2, <1>3, <1>4

LEMMA KindsQuiet == {"cancel-connect", "pause", "assets", "downloads"} \cap Waited = {}
BY DEF Waited

LEMMA QuietCall ==
  ASSUME RemoteIInv, NEW gone, NEW kind, NEW t, NEW arg, calls' = (calls \ gone) \cup {Call(kind, t, arg)}, \A c \in calls \cap gone : ~WaitedNow(c),
         kind \in Kinds, kind \notin Waited, kind \notin NoPlace => t \in context, UNCHANGED <<epoch, busy, shownVars, recorded, overtaken>>
  PROVE  RemoteIInv'
<1>1. PICK n : n = Call(kind, t, arg)
  OBVIOUS
<1>2. NewCall(n) /\ n.kind = kind
  BY <1>1, CallIsNew
<1>3. calls' = (calls \ gone) \cup {n} /\ \A m \in {n} : NewCall(m) /\ m.kind \notin Waited
  BY <1>1, <1>2
<1>. QED  BY <1>3, QuietMove

LEMMA QuietGone ==
  ASSUME RemoteIInv, NEW c, Done(c), ~WaitedNow(c), UNCHANGED <<epoch, busy, shownVars, recorded, overtaken>>
  PROVE  RemoteIInv'
<1>0. PICK none : none = {}
  OBVIOUS
<1>1. calls' = (calls \ {c}) \cup none /\ (\A d \in calls \cap {c} : ~WaitedNow(d)) /\ \A n \in none : NewCall(n) /\ n.kind \notin Waited
  BY <1>0 DEF Done
<1>. QED  BY <1>1, QuietMove

LEMMA QuietKeeps ==
  ASSUME RemoteIInv, cancelRemoteConnection \/ Pauses \/ refreshRemoteTransferHistory \/ (\E c \in calls : Dropped(c))
  PROVE  RemoteIInv'
<1>. USE KindsQuiet DEF pageVars, serverVars, Own, Made
<1>1. CASE cancelRemoteConnection
  <2>1. PICK c \in calls : Made(Call("cancel-connect", c.of, connection))
    BY <1>1 DEF cancelRemoteConnection
  <2>2. calls' = (calls \ {}) \cup {Call("cancel-connect", c.of, connection)}
    BY <2>1
  <2>3. UNCHANGED <<epoch, busy, shownVars, recorded, overtaken>>
    BY <1>1 DEF cancelRemoteConnection, shownVars
  <2>. QED  BY <2>2, <2>3, QuietCall DEF NoPlace, Kinds
<1>2. CASE Pauses
  <2>1. PICK t \in context : Made(Call("pause", t, transfer))
    BY <1>2 DEF Pauses
  <2>2. calls' = (calls \ {}) \cup {Call("pause", t, transfer)}
    BY <2>1
  <2>3. UNCHANGED <<epoch, busy, shownVars, recorded, overtaken>>
    BY <1>2 DEF Pauses, shownVars
  <2>. QED  BY <2>2, <2>3, QuietCall DEF Kinds
<1>3. CASE refreshRemoteTransferHistory
  <2>1. PICK t \in context : Made(Call("assets", t, 0))
    BY <1>3 DEF refreshRemoteTransferHistory
  <2>2. calls' = (calls \ {}) \cup {Call("assets", t, 0)}
    BY <2>1
  <2>3. UNCHANGED <<epoch, busy, shownVars, recorded, overtaken>>
    BY <1>3 DEF refreshRemoteTransferHistory, shownVars
  <2>. QED  BY <2>2, <2>3, QuietCall DEF Kinds
<1>4. ASSUME NEW c \in calls, Dropped(c) PROVE RemoteIInv'
  <2>1. Done(c) /\ ~WaitedNow(c) /\ UNCHANGED <<epoch, busy, shownVars, recorded, overtaken>>
    BY <1>4 DEF Dropped, WaitedNow, shownVars
  <2>. QED  BY <2>1, QuietGone
<1>. QED  BY <1>1, <1>2, <1>3, <1>4

-----------------------------------------------------------------------------
(* Answers that somebody waited for. *)
LEMMA AnswerAlone ==
  ASSUME RemoteIInv, NEW c \in calls, WaitedNow(c), Frees(c), UNCHANGED <<epoch, context, instance, recorded, overtaken>>,
         PageIsRead', KnownIsSettled'
  PROVE  RemoteIInv'
<1>0. PICK none : none = {}
  OBVIOUS
<1>1. calls' = (calls \ {c}) \cup none /\ busy' = FALSE
  BY <1>0 DEF Frees, Done
<1>2. \A d \in calls \ {c} : ~WaitedNow(d)
  BY DEF RemoteIInv, OneIsWaitedFor
<1>3. /\ \A n, m \in none : n = m
      /\ \A n \in none : /\ NewCall(n) /\ n.kind # "connect" /\ (n.kind \in {"change", "retry"} => ~known')
                       /\ (n.kind \in {"admin-change", "admin-retry"} => n.arg.op = "provision")
      /\ busy' <=> \E n \in none : n.kind \in Waited
  BY <1>0, <1>1
<1>. QED  BY <1>1, <1>2, <1>3, WaitedMove

LEMMA AnswerThen ==
  ASSUME RemoteIInv, NEW c \in calls, WaitedNow(c), NEW kind, NEW t, calls' = (calls \ {c}) \cup {Call(kind, t, 0)},
         t \in context, kind \in {"overview", "lease-status", "pending", "admin-pending", "assets"},
         busy' \in BOOLEAN, busy' <=> kind \in Waited,
         UNCHANGED <<epoch, context, instance, recorded, overtaken>>, PageIsRead', KnownIsSettled'
  PROVE  RemoteIInv'
<1>1. PICK n : n = Call(kind, t, 0)
  OBVIOUS
<1>2. NewCall(n) /\ n.kind = kind
  BY <1>1, CallIsNew, WaitedAre DEF Kinds
<1>3. calls' = (calls \ {c}) \cup {n}
  BY <1>1
<1>4. \A d \in calls \ {c} : ~WaitedNow(d)
  BY DEF RemoteIInv, OneIsWaitedFor
<1>5. /\ \A m, o \in {n} : m = o
      /\ \A m \in {n} : /\ NewCall(m) /\ m.kind # "connect" /\ (m.kind \in {"change", "retry"} => ~known')
                        /\ (m.kind \in {"admin-change", "admin-retry"} => m.arg.op = "provision")
      /\ busy' <=> \E m \in {n} : m.kind \in Waited
  BY <1>2
<1>. QED  BY <1>3, <1>4, <1>5, WaitedMove

(* The calls that are not waited for, and those that tell of the history. *)
LEMMA HistoryKeeps ==
  ASSUME RemoteIInv, NEW c \in calls, Current(c), c.kind \in {"cancel-connect", "pause", "assets", "downloads", "transfer"},
         CallAnswered(c)
  PROVE  RemoteIInv'
<1>0. c.kind # "cancel-connect" => c.of \in context
  BY DEF RemoteIInv, CallsAreOfThePage, NoPlace
<1>1. UNCHANGED <<epoch, shownVars, recorded, overtaken>>
  BY DEF CallAnswered, Own, serverVars, pageVars, shownVars
<1>2. CASE c.kind \in {"cancel-connect", "pause", "assets", "downloads"}
  <2>0. ~WaitedNow(c)
    BY <1>2, KindsQuiet DEF WaitedNow
  <2>1. busy' = busy
    BY <1>2 DEF CallAnswered, pageVars, GoesOn
  <2>2. \/ Done(c)
        \/ /\ c.kind # "cancel-connect"
           /\ \E kind \in {"assets", "downloads"} : calls' = (calls \ {c}) \cup {Call(kind, c.of, 0)}
    <3>1. CASE c.kind \in {"cancel-connect", "downloads"}
      BY <3>1 DEF CallAnswered
    <3>2. CASE c.kind = "pause"
      BY <3>2 DEF CallAnswered, HistoryAfter, Then
    <3>3. CASE c.kind = "assets"
      BY <3>3 DEF CallAnswered, GoesOn, Then
    <3>. QED  BY <1>2, <3>1, <3>2, <3>3
  <2>3. CASE Done(c)
    BY <2>3, <2>0, <2>1, <1>1, QuietGone
  <2>4. ASSUME NEW kind \in {"assets", "downloads"}, c.kind # "cancel-connect", calls' = (calls \ {c}) \cup {Call(kind, c.of, 0)}
        PROVE  RemoteIInv'
    <3>1. kind \notin Waited /\ c.of \in context /\ \A d \in calls \cap {c} : ~WaitedNow(d)
      BY <2>4, <2>0, <1>0, KindsQuiet
    <3>. QED  BY <3>1, <2>1, <1>1, <2>4, QuietCall DEF Kinds
  <2>. QED  BY <2>2, <2>3, <2>4
<1>3. CASE c.kind = "transfer"
  <2>0. WaitedNow(c)
    BY <1>3, KindsWaited DEF WaitedNow
  <2>1. busy' = FALSE /\ HistoryAfter(c)
    BY <1>3 DEF CallAnswered
  <2>2. UNCHANGED <<context, instance, view, leases, pending, known>>
    BY <1>1 DEF shownVars
  <2>3. PageIsRead' /\ KnownIsSettled'
    BY <1>1, <2>2 DEF RemoteIInv, PageIsRead, KnownIsSettled, Unsettled
  <2>4. CASE Done(c)
    BY <2>0, <2>1, <2>2, <2>3, <2>4, <1>1, AnswerAlone DEF Frees
  <2>5. CASE Then(c, Call("assets", c.of, 0))
    <3>1. calls' = (calls \ {c}) \cup {Call("assets", c.of, 0)} /\ c.of \in context
      BY <2>5, <1>0, <1>3 DEF Then
    <3>2. busy' \in BOOLEAN /\ (busy' <=> "assets" \in Waited)
      BY <2>1, KindsQuiet
    <3>. QED  BY <3>1, <3>2, <2>0, <2>2, <2>3, <1>1, AnswerThen
  <2>. QED  BY <2>1, <2>4, <2>5 DEF HistoryAfter
<1>. QED  BY <1>2, <1>3

(* The three calls of reading an instance, and the pending changes alone. *)
LEMMA ReadingKeeps ==
  ASSUME RemoteIInv, NEW c \in calls, Current(c), c.kind \in {"targets", "overview", "lease-status", "pending", "admin-pending"},
         CallAnswered(c)
  PROVE  RemoteIInv'
<1>0. WaitedNow(c) /\ c.instance = instance /\ (c.kind # "targets" => c.of \in context)
  BY DEF RemoteIInv, CallsAreOfThePage, NoPlace, WaitedNow, Waited
<1>1. UNCHANGED <<epoch, context, instance, recorded, overtaken>>
  BY DEF CallAnswered, Own, serverVars, shownVars
<1>2. CASE c.kind = "targets"
  <2>1. Frees(c) /\ UNCHANGED shownVars
    BY <1>2 DEF CallAnswered
  <2>2. PageIsRead' /\ KnownIsSettled'
    BY <1>1, <2>1 DEF RemoteIInv, PageIsRead, KnownIsSettled, Unsettled, shownVars
  <2>. QED  BY <1>0, <1>1, <2>1, <2>2, AnswerAlone
<1>3. CASE c.kind = "overview"
  <2>1. /\ UNCHANGED <<leases, pending, known>>
        /\ IF c.reply.ok THEN view' = Overview(c) /\ GoesOn(c, "lease-status") ELSE view' = {} /\ Frees(c)
    BY <1>3 DEF CallAnswered
  <2>2. KnownIsSettled'
    BY <1>1, <2>1 DEF RemoteIInv, KnownIsSettled, Unsettled
  <2>3. \A v \in Overview(c) : IsView(v) /\ v.of \in context /\ v.instance = instance
    <3>1. CASE \E v \in view : v.revision > c.reply.revision
      <4>1. PICK w : w = CHOOSE v \in view : TRUE
        OBVIOUS
      <4>2. w \in view
        BY <4>1, <3>1
      <4>3. w = [of |-> w.of, instance |-> w.instance, revision |-> w.revision, read |-> w.read] /\ w.of \in context /\ w.instance = instance
        BY <4>2 DEF RemoteIInv, PageIsRead, IsView
      <4>4. PICK x : x = [w EXCEPT !.read = c.id]
        OBVIOUS
      <4>5. x = [of |-> w.of, instance |-> w.instance, revision |-> w.revision, read |-> c.id]
        BY <4>3, <4>4
      <4>6. IsView(x) /\ x.of \in context /\ x.instance = instance
        BY <4>3, <4>5 DEF IsView
      <4>7. Overview(c) = {x}
        BY <3>1, <4>1, <4>4 DEF Overview
      <4>. QED  BY <4>6, <4>7
    <3>2. CASE ~\E v \in view : v.revision > c.reply.revision
      <4>1. Overview(c) = {[of |-> c.of, instance |-> c.instance, revision |-> c.reply.revision, read |-> c.id]}
        BY <3>2 DEF Overview
      <4>. QED  BY <4>1, <1>0, <1>3 DEF IsView
    <3>. QED  BY <3>1, <3>2
  <2>4. PageIsRead'
    <3>1. \A v \in view' : IsView(v) /\ v.of \in context /\ v.instance = instance
      BY <2>1, <2>3
    <3>. QED  BY <3>1, <2>1, <1>1 DEF RemoteIInv, PageIsRead
  <2>5. CASE c.reply.ok
    <3>1. calls' = (calls \ {c}) \cup {Call("lease-status", c.of, 0)} /\ busy' = busy
      BY <2>1, <2>5 DEF GoesOn, Then
    <3>2. busy' \in BOOLEAN /\ (busy' <=> "lease-status" \in Waited)
      BY <3>1, <1>0, WaitedAre DEF RemoteIInv, OneIsWaitedFor
    <3>. QED  BY <3>1, <3>2, <1>0, <1>1, <1>3, <2>2, <2>4, AnswerThen
  <2>6. CASE ~c.reply.ok
    BY <2>1, <2>2, <2>4, <2>6, <1>0, <1>1, AnswerAlone
  <2>. QED  BY <2>5, <2>6
<1>4. CASE c.kind = "lease-status"
  <2>1. /\ leases' = IF c.reply.ok THEN {[of |-> c.of, instance |-> c.instance, active |-> c.reply.active]} ELSE {}
        /\ GoesOn(c, "pending") /\ UNCHANGED <<view, pending, known>>
    BY <1>4 DEF CallAnswered
  <2>2. KnownIsSettled'
    BY <1>1, <2>1 DEF RemoteIInv, KnownIsSettled, Unsettled
  <2>3. \A l \in leases' : l.of \in context /\ l.instance = instance
    BY <2>1, <1>0, <1>4
  <2>4. PageIsRead'
    BY <2>1, <2>3, <1>1 DEF RemoteIInv, PageIsRead
  <2>5. calls' = (calls \ {c}) \cup {Call("pending", c.of, 0)} /\ busy' = busy
    BY <2>1 DEF GoesOn, Then
  <2>6. busy' \in BOOLEAN /\ (busy' <=> "pending" \in Waited)
    BY <2>5, <1>0, WaitedAre DEF RemoteIInv, OneIsWaitedFor
  <2>. QED  BY <2>2, <2>4, <2>5, <2>6, <1>0, <1>1, <1>4, AnswerThen
<1>5. CASE c.kind \in {"pending", "admin-pending"}
  <2>1. /\ Frees(c) /\ pending' = (IF c.reply.ok THEN c.reply.attempts ELSE pending) /\ UNCHANGED <<view, leases>>
        /\ known' = IF c.kind = "pending" THEN c.reply.ok ELSE known
    <3>1. CASE c.kind = "pending"
      BY <3>1 DEF CallAnswered
    <3>2. CASE c.kind = "admin-pending"
      BY <3>2 DEF CallAnswered
    <3>. QED  BY <1>5, <3>1, <3>2
  <2>2. c.reply.ok => ListsAll(c.reply.attempts, c.of)
    BY <1>5 DEF RemoteIInv, RepliesTell, CallAnswered
  <2>3. PageIsRead'
    BY <2>1, <2>2, <1>0, <1>1, <1>5 DEF RemoteIInv, PageIsRead, ListsAll
  <2>4. \A t : Unsettled(t)' = Unsettled(t)
    BY <1>1 DEF Unsettled
  <2>5. \A t \in context : t = c.of
    BY <1>0, <1>5 DEF RemoteIInv, CallsAreOfThePage
  <2>6. KnownIsSettled'
    <3>1. CASE c.reply.ok
      BY <3>1, <2>1, <2>2, <2>4, <2>5, <1>1 DEF KnownIsSettled, ListsAll
    <3>2. CASE ~c.reply.ok
      BY <3>2, <2>1, <2>4, <1>1 DEF RemoteIInv, KnownIsSettled
    <3>. QED  BY <3>1, <3>2
  <2>. QED  BY <2>1, <2>3, <2>6, <1>0, <1>1, AnswerAlone
<1>. QED  BY <1>2, <1>3, <1>4, <1>5

(* A change was answered, of the instance or of courses and audits. *)
LEMMA ChangeKeeps ==
  ASSUME RemoteIInv, NEW c \in calls, Current(c), c.kind \in {"change", "retry", "admin", "admin-change", "admin-retry"},
         CallAnswered(c)
  PROVE  RemoteIInv'
<1>0. WaitedNow(c) /\ c.of \in context
  BY DEF RemoteIInv, CallsAreOfThePage, NoPlace, WaitedNow, Waited
<1>1. UNCHANGED <<epoch, context, instance, view, leases, pending, recorded, overtaken>> /\ busy' = TRUE
  BY DEF CallAnswered, Own, serverVars, RefreshAfter
<1>2. known' = known \/ known' = FALSE
  BY DEF CallAnswered, RefreshAfter
<1>3. PageIsRead' /\ KnownIsSettled'
  BY <1>1, <1>2 DEF RemoteIInv, PageIsRead, KnownIsSettled, Unsettled
<1>4. CASE c.kind \in {"change", "retry"}
  <2>1. calls' = (calls \ {c}) \cup {Call("overview", c.of, 0)}
    BY <1>4 DEF CallAnswered, RefreshAfter, Then
  <2>2. busy' \in BOOLEAN /\ (busy' <=> "overview" \in Waited)
    BY <1>1, WaitedAre
  <2>. QED  BY <2>1, <2>2, <1>0, <1>1, <1>3, AnswerThen
<1>5. CASE c.kind \in {"admin", "admin-change", "admin-retry"}
  <2>1. calls' = (calls \ {c}) \cup {Call("admin-pending", c.of, 0)}
    BY <1>5 DEF CallAnswered, Then
  <2>2. busy' \in BOOLEAN /\ (busy' <=> "admin-pending" \in Waited)
    BY <1>1, WaitedAre
  <2>. QED  BY <2>1, <2>2, <1>0, <1>1, <1>3, AnswerThen
<1>. QED  BY <1>4, <1>5

(* A connection was made, or not. *)
LEMMA ConnectionKeeps ==
  ASSUME RemoteIInv, NEW c \in calls, Current(c), c.kind = "connect", CallAnswered(c)
  PROVE  RemoteIInv'
<1>0. WaitedNow(c)
  BY WaitedAre DEF WaitedNow
<1>1. /\ calls' = calls \ {c} /\ busy' = FALSE /\ (context' = {c.of} \/ context' = {})
      /\ UNCHANGED <<epoch, instance, view, leases, pending, known, recorded, overtaken>>
  BY DEF CallAnswered, Frees, Done, Own, serverVars
<1>2. PageIsEmpty
  BY DEF RemoteIInv, ConnectsFromNothing
<1>3. \A d \in calls' : ~WaitedNow(d) /\ (Current(d) => d.kind \in NoPlace)
  BY <1>0, <1>1, <1>2 DEF RemoteIInv, OneIsWaitedFor, CallsAreOfThePage, PageIsEmpty
<1>4. \A d : (Current(d)' <=> Current(d)) /\ (WaitedNow(d)' <=> WaitedNow(d))
  BY <1>1 DEF Current, WaitedNow
<1>5. CallsAreMade'
  BY <1>1 DEF RemoteIInv, CallsAreMade
<1>6. OneIsWaitedFor'
  BY <1>1, <1>3, <1>4 DEF OneIsWaitedFor
<1>7. CallsAreOfThePage'
  BY <1>1, <1>3, <1>4 DEF RemoteIInv, CallsAreOfThePage
<1>8. ConnectsFromNothing'
  BY <1>3, <1>4, WaitedAre DEF ConnectsFromNothing, WaitedNow
<1>9. PageIsRead' /\ KnownIsSettled'
  BY <1>1, <1>2 DEF PageIsRead, KnownIsSettled, PageIsEmpty
<1>10. ChangesTell'
  BY <1>1, <1>3, <1>4, WaitedAre DEF RemoteIInv, ChangesTell
<1>11. RepliesTell'
  BY <1>3, <1>4, WaitedAre DEF RepliesTell, WaitedNow
<1>. QED  BY <1>5, <1>6, <1>7, <1>8, <1>9, <1>10, <1>11 DEF RemoteIInv

LEMMA AnsweringKeeps ==
  ASSUME RemoteIInv, NEW c \in calls, CallAnswered(c)
  PROVE  RemoteIInv'
<1>1. Current(c)
  BY DEF CallAnswered
<1>2. CASE c.kind \in {"targets", "overview", "lease-status", "pending", "admin-pending"}
  BY <1>1, <1>2, ReadingKeeps
<1>3. CASE c.kind \in {"cancel-connect", "pause", "assets", "downloads", "transfer"}
  BY <1>1, <1>3, HistoryKeeps
<1>4. CASE c.kind \in {"change", "retry", "admin", "admin-change", "admin-retry"}
  BY <1>1, <1>4, ChangeKeeps
<1>5. CASE c.kind = "connect"
  BY <1>1, <1>5, ConnectionKeeps
<1>6. c.kind \in Kinds
  BY DEF RemoteIInv, CallsAreMade
<1>. QED  BY <1>2, <1>3, <1>4, <1>5, <1>6 DEF Kinds, Waited

-----------------------------------------------------------------------------
(* A call is served. *)
LEMMA ReplyIs ==
  ASSUME NEW c, IsCall(c), NEW reply
  PROVE  [c EXCEPT !.served = TRUE, !.reply = reply] =
           [id |-> c.id, epoch |-> c.epoch, kind |-> c.kind, of |-> c.of, instance |-> c.instance, arg |-> c.arg, served |-> TRUE, reply |-> reply]
<1>0. PICK yes : yes = TRUE
  OBVIOUS
<1>. DEFINE f == [c EXCEPT !.served = yes]
<1>1. [c EXCEPT !.served = TRUE, !.reply = reply] = [f EXCEPT !.reply = reply]
  BY <1>0, Zenon
<1>2. PICK i, e, k, o, s, a, v, r :
        c = [id |-> i, epoch |-> e, kind |-> k, of |-> o, instance |-> s, arg |-> a, served |-> v, reply |-> r]
  BY DEF IsCall
<1>3. f = [id |-> i, epoch |-> e, kind |-> k, of |-> o, instance |-> s, arg |-> a, served |-> yes, reply |-> r]
  BY <1>2
<1>. HIDE DEF f
<1>4. [f EXCEPT !.reply = reply] =
        [id |-> i, epoch |-> e, kind |-> k, of |-> o, instance |-> s, arg |-> a, served |-> yes, reply |-> reply]
  BY <1>3
<1>5. c.id = i /\ c.epoch = e /\ c.kind = k /\ c.of = o /\ c.instance = s /\ c.arg = a
  BY <1>2
<1>. QED  BY <1>0, <1>1, <1>4, <1>5

(* What a change of an earlier epoch, one of the instance and one of courses *)
(* and audits write down, nobody is told of wrongly.                        *)
LEMMA ServedMove ==
  ASSUME RemoteIInv, NEW c \in calls, NEW reply, Replies(c, reply), UNCHANGED <<epoch, pageVars, overtaken>>,
         c.kind \in {"pending", "admin-pending"} /\ reply.ok => ListsAll(reply.attempts, c.of),
         \A a \in recorded' : a \in recorded \/ (c.kind \in Changing /\ a.change = c.arg.change /\ a.op = c.arg.op)
  PROVE  RemoteIInv'
<1>. USE DEF pageVars
<1>0. c.epoch \in Nat /\ c.epoch <= epoch /\ c.kind \in Kinds /\ IsCall(c)
  BY DEF RemoteIInv, CallsAreMade
<1>1. PICK n : n = [c EXCEPT !.served = TRUE, !.reply = reply]
  OBVIOUS
<1>2. n = [id |-> c.id, epoch |-> c.epoch, kind |-> c.kind, of |-> c.of, instance |-> c.instance, arg |-> c.arg, served |-> TRUE, reply |-> reply]
  BY <1>0, <1>1, ReplyIs
<1>3. IsCall(n) /\ n.epoch = c.epoch /\ n.kind = c.kind /\ n.of = c.of /\ n.instance = c.instance /\ n.arg = c.arg /\ n.reply = reply
  BY <1>2 DEF IsCall
<1>4. calls' = (calls \ {c}) \cup {n}
  BY <1>1 DEF Replies
<1>5. \A d : (Current(d)' <=> Current(d)) /\ (WaitedNow(d)' <=> WaitedNow(d))
  BY DEF Current, WaitedNow
<1>6. (Current(n) <=> Current(c)) /\ (WaitedNow(n) <=> WaitedNow(c))
  BY <1>3 DEF Current, WaitedNow
<1>7. CallsAreMade'
  BY <1>0, <1>3, <1>4 DEF RemoteIInv, CallsAreMade
<1>8. OneIsWaitedFor'
  BY <1>4, <1>5, <1>6 DEF RemoteIInv, OneIsWaitedFor
<1>9. CallsAreOfThePage'
  BY <1>3, <1>4, <1>5, <1>6 DEF RemoteIInv, CallsAreOfThePage
<1>10. ConnectsFromNothing'
  BY <1>3, <1>4, <1>5, <1>6 DEF RemoteIInv, ConnectsFromNothing, PageIsEmpty
<1>11. PageIsRead'
  BY DEF RemoteIInv, PageIsRead
<1>12. ChangesTell'
  BY <1>3, <1>4, <1>5, <1>6 DEF RemoteIInv, ChangesTell
<1>13. \A t : \A a \in Unsettled(t)' :
         a \in Unsettled(t) \/ (c.kind \in Changing /\ Current(c) /\ a.op = c.arg.op)
  BY DEF Unsettled, RemoteIInv, ChangesTell
<1>14. CASE c.kind \in Changing => ~Current(c) \/ c.arg.op = "provision"
  <2>1. \A t : \A a \in Unsettled(t)' : a \in Unsettled(t) \/ a.op = "provision"
    BY <1>13, <1>14
  <2>2. \A s, t : ListsAll(s, t) => ListsAll(s, t)'
    BY <2>1 DEF ListsAll
  <2>3. RepliesTell'
    BY <2>2, <1>3, <1>4, <1>5, <1>6 DEF RemoteIInv, RepliesTell
  <2>4. KnownIsSettled'
    BY <2>1 DEF RemoteIInv, KnownIsSettled
  <2>. QED  BY <2>3, <2>4, <1>7, <1>8, <1>9, <1>10, <1>11, <1>12 DEF RemoteIInv
<1>15. CASE c.kind \in Changing /\ Current(c) /\ c.arg.op # "provision"
  <2>1. ~known /\ WaitedNow(c)
    BY <1>15, WaitedAre DEF RemoteIInv, ChangesTell, WaitedNow, Changing
  <2>2. KnownIsSettled'
    BY <2>1 DEF KnownIsSettled
  <2>3. \A d \in calls' : Current(d) => d.kind \notin {"pending", "admin-pending"}
    BY <2>1, <1>15, <1>3, <1>4, WaitedAre DEF RemoteIInv, OneIsWaitedFor, WaitedNow, Changing
  <2>4. RepliesTell'
    BY <2>3, <1>5 DEF RepliesTell
  <2>. QED  BY <2>2, <2>4, <1>7, <1>8, <1>9, <1>10, <1>11, <1>12 DEF RemoteIInv
<1>. QED  BY <1>14, <1>15

LEMMA ServingKeeps ==
  ASSUME RemoteIInv, NEW c \in calls, IsServed(c)
  PROVE  RemoteIInv'
<1>0. UNCHANGED <<epoch, pageVars, overtaken>>
  BY DEF IsServed
<1>. DEFINE Lists(reply) == c.kind \in {"pending", "admin-pending"} /\ reply.ok => ListsAll(reply.attempts, c.of)
            Writes == \A a \in recorded' : a \in recorded \/ (c.kind \in Changing /\ a.change = c.arg.change /\ a.op = c.arg.op)
<1>1. ASSUME NEW phase, PutsDown(c, phase), c.kind \in Changing PROVE Writes
  BY <1>1 DEF PutsDown, Row
<1>2. recorded' = recorded => Writes
  OBVIOUS
<1>3. ~NoReply.ok
  BY DEF NoReply
<1>4. PICK reply : Replies(c, reply) /\ Lists(reply)
  <2>1. CASE c.kind \notin Changing /\ Reads(c)
    <3>1. CASE c.kind \in {"pending", "admin-pending"}
      <4>1. PICK reply : reply = [ok |-> TRUE, attempts |-> {a \in recorded : a.of = c.of /\ a.phase # "returned"}]
        OBVIOUS
      <4>2. Replies(c, reply)
        BY <2>1, <3>1, <4>1 DEF Reads
      <4>3. ListsAll(reply.attempts, c.of)
        BY <4>1 DEF ListsAll, Unsettled
      <4>. QED  BY <4>2, <4>3
    <3>2. CASE c.kind \notin {"pending", "admin-pending"}
      BY <2>1, <3>2 DEF Reads
    <3>. QED  BY <3>1, <3>2
  <2>2. CASE Replies(c, NoReply)
    BY <2>2, <1>3
  <2>3. CASE c.kind \in Changing /\ \E r : Replies(c, [ok |-> TRUE, lease |-> r])
    BY <2>3 DEF Changing
  <2>. QED  BY <2>1, <2>2, <2>3 DEF IsServed
<1>5. Writes
  BY <1>1, <1>2 DEF IsServed, serverVars
<1>. HIDE DEF Writes
<1>6. c.kind \in {"pending", "admin-pending"} /\ reply.ok => ListsAll(reply.attempts, c.of)
  BY <1>4
<1>7. \A a \in recorded' : a \in recorded \/ (c.kind \in Changing /\ a.change = c.arg.change /\ a.op = c.arg.op)
  BY <1>5 DEF Writes
<1>. QED  BY <1>0, <1>4, <1>6, <1>7, ServedMove

-----------------------------------------------------------------------------
LEMMA RemoteStill ==
  ASSUME RemoteIInv, UNCHANGED <<epoch, calls, busy, shownVars, recorded, overtaken>>
  PROVE  RemoteIInv'
<1>1. PICK none : none = {}
  OBVIOUS
<1>2. calls' = (calls \ none) \cup none /\ (\A c \in calls \cap none : ~WaitedNow(c)) /\ \A n \in none : NewCall(n) /\ n.kind \notin Waited
  BY <1>1
<1>. QED  BY <1>2, QuietMove

LEMMA RemoteStep == RemoteIInv /\ [RemoteNext]_remoteVars => RemoteIInv'
<1>. SUFFICES ASSUME RemoteIInv, [RemoteNext]_remoteVars PROVE RemoteIInv'
  OBVIOUS
<1>1. CASE UNCHANGED remoteVars
  BY <1>1, RemoteStill DEF remoteVars, pageVars, shownVars, serverVars
<1>2. ASSUME NEW x, Moves(x) PROVE RemoteIInv'
  BY <1>2, RemoteStill DEF Moves, pageVars, shownVars
<1>. QED  BY <1>1, <1>2, AskingKeeps, EpochKeeps, QuietKeeps, AnsweringKeeps, ServingKeeps DEF RemoteNext

LEMMA RemoteHolds == RemoteIInv => RemotePageIsCurrent
<1>. SUFFICES ASSUME RemoteIInv PROVE RemotePageIsCurrent
  OBVIOUS
<1>1. \A c : WaitedNow(c) <=> Current(c) /\ c.kind \in Waited
  BY DEF WaitedNow
<1>2. busy <=> \E c \in calls : Current(c) /\ c.kind \in Waited
  BY <1>1 DEF RemoteIInv, OneIsWaitedFor
<1>3. \A c, d \in calls : Current(c) /\ Current(d) /\ {c.kind, d.kind} \subseteq Waited => c = d
  BY <1>1 DEF RemoteIInv, OneIsWaitedFor
<1>4. known /\ pending = {} => \A t \in context : \A a \in Unsettled(t) : a.op = "provision"
  BY DEF RemoteIInv, KnownIsSettled
<1>. QED  BY <1>2, <1>3, <1>4 DEF RemoteIInv, PageIsRead, RemotePageIsCurrent

(* What the remote page shows is of the connection and the instance that are *)
(* chosen, a busy page waits for exactly one call, and no change of the     *)
(* instance that is not settled is taken for settled                        *)
(* (ctflab_remote_mac.swift, refreshRemote to retryRemote).                 *)
THEOREM RemotePageIsAlwaysCurrent == RemoteSpec => []RemotePageIsCurrent
<1>. QED  BY RemoteStarts, RemoteStep, RemoteHolds, PTL DEF RemoteSpec
=============================================================================
