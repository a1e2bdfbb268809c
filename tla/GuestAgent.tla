----------------------------- MODULE GuestAgent -----------------------------
(***************************************************************************)
(* The agent inside a managed guest (tools/ctflab_guest_agent.py): it      *)
(* serves requests from the machine's serial port, and an administrator in *)
(* the guest may run it to settle an operation that was interrupted.  An   *)
(* operation is a plan of steps; before a step acts its intent is          *)
(* committed, after it the result, and whatever dies in between leaves an  *)
(* operation that no request repeats: it blocks all others until it has    *)
(* been reconciled (the network) or resumed (the containers).              *)
(*                                                                         *)
(* Docker, nft and systemd are external and may act although the call to   *)
(* them fails; `add rule` appends, so a firewall loaded twice has its      *)
(* rules twice.  The kernel forgets network and processes when the guest   *)
(* boots, docker keeps its volumes and containers.  There is one           *)
(* container with one volume, in the point-to-point mode.                  *)
(***************************************************************************)
EXTENDS Naturals, FiniteSets, SequencesExt

CONSTANTS MaxRequests, \* bound on operations, numbered as they arrive
          Agents,  \* processes that run the agent
          Nobody,
          MaxBoots, \* bound on boots of the guest
          MaxLost  \* bound on resources removed behind the agent's back

Ops == 1..MaxRequests

ASSUME GuestAssumption == MaxRequests \in Nat /\ Nobody \notin Ops \cup Agents /\ MaxBoots \in Nat /\ MaxLost \in Nat

VARIABLES
  row,      \* operations table: action and result
  effects,  \* effects table: for an operation and a step "none", "intent" or "recorded"
  agent,    \* what each process executes
  holder,   \* gate.lock
  net,      \* volatile: copies of the rules, addresses, forwarding
  proof,    \* network-proof.json: the number of rules it speaks of, 0 when there is none
  opProof,  \* the operations with a proof of their own
  maker,    \* docker: who created the image, the volume, the container and the analysis, by its label; 0 for docker itself
  runs,     \* volatile: what is running
  issued,   \* history: how often a step's command was given
  boots, lost

guestVars == <<row, effects, agent, holder, net, proof, opProof, maker, runs, issued, boots, lost>>
ledgerVars == <<row, effects>>
worldVars == <<net, proof, opProof, maker, runs, issued>>
hostVars == <<boots, lost>>

Things == {"image", "volume", "container", "analysis"}

(* The steps of an operation, in order. *)
Plan(action) ==
  CASE action = "network-apply" -> <<"forward-off", "addresses", "firewall", "forward-on", "network-proof">>
    [] action = "services-start" -> <<"start-dns", "start-time">>
    [] action = "services-stop" -> <<"stop-time", "stop-dns">>
    [] action = "containers-prepare" -> <<"image", "volume", "container">>
    [] action = "containers-start" -> <<"start", "routing">>
    [] action = "containers-stop" -> <<"stop">>
    [] action = "analysis-run" -> <<"analysis-input", "analysis", "analysis-start", "analysis-export", "analysis-verify", "analysis-stop">>
    [] OTHER -> <<>>
Actions == {"network-apply", "services-start", "services-stop", "containers-prepare", "containers-start",
            "containers-stop", "analysis-run"}
Steps == UNION {ToSet(Plan(a)) : a \in Actions}
Resources == <<"volume", "container">>

NoNet == [rules |-> 0, addresses |-> FALSE, forward |-> FALSE]
Off == [op |-> Nobody, left |-> <<>>, pc |-> "off", mode |-> "dispatch"]

GuestInit ==
  /\ row = [o \in Ops |-> [action |-> "none", result |-> "none"]]
  /\ effects = [o \in Ops |-> [s \in Steps |-> "none"]]
  /\ agent = [a \in Agents |-> Off] /\ holder = Nobody
  /\ net = NoNet /\ proof = 0 /\ opProof = {} /\ maker = [r \in Things |-> Nobody] /\ runs = {}
  /\ issued = [o \in Ops |-> [s \in Steps |-> 0]] /\ boots = 0 /\ lost = 0

-----------------------------------------------------------------------------
(* What the guest is, as the tools report it. *)

Unsettled == {o \in Ops : row[o].action # "none" /\ row[o].result = "none"}
Completed(o, action) == row[o].action = action /\ row[o].result = "done"

(* network_fingerprint: of the live rules, or nothing when an address, the *)
(* forwarding or the table is missing.                                     *)
Fingerprint == IF net.addresses /\ net.forward THEN net.rules ELSE 0

ReadyByLedger == \E o \in Ops : Completed(o, "network-apply")
NetworkReady == ReadyByLedger /\ proof # 0 /\ Fingerprint = proof

(* prepared_identity: the container and its volume are those of a preparation that was completed. *)
PreparedIdentity ==
  LET o == maker["container"] IN
  /\ o \in Ops /\ Completed(o, "containers-prepare")
  /\ \A r \in ToSet(Resources) : effects[o][r] = "recorded" /\ maker[r] = o

Permitted(action) ==
  CASE action = "network-apply" -> TRUE
    [] action \in {"services-start", "services-stop"} -> NetworkReady
    [] action = "containers-prepare" -> NetworkReady /\ \A r \in ToSet(Resources) : maker[r] = Nobody
    [] action = "containers-start" -> NetworkReady /\ PreparedIdentity /\ "container" \notin runs
    [] action = "containers-stop" -> NetworkReady /\ PreparedIdentity
    [] OTHER -> TRUE

(* A container that is not running needs no stop. *)
Needed(left) == IF Head(left) = "stop" /\ "container" \notin runs THEN Tail(left) ELSE left

-----------------------------------------------------------------------------
(* dispatch: the request is new and nothing is unresolved; once its        *)
(* operation is in the table the conditions of its action are looked at.   *)
(* An operation that fails before any effect is recorded as failed.        *)

NoneUnresolved == Unsettled = {}

Holds(a) == holder = a
Quits(a) == agent' = [agent EXCEPT ![a] = Off] /\ holder' = Nobody

Dispatch(a, o, action) ==
  /\ agent[a].pc = "off" /\ holder = Nobody
  /\ \A p \in Ops : row[p].action = "none" <=> p >= o
  /\ NoneUnresolved
  /\ row' = [row EXCEPT ![o] = [action |-> action, result |-> "none"]]
  /\ holder' = a
  /\ agent' = [agent EXCEPT ![a] = [op |-> o, left |-> Plan(action), pc |-> "check", mode |-> "dispatch"]]
  /\ UNCHANGED <<effects, worldVars, hostVars>>

Check(a) ==
  /\ agent[a].pc = "check"
  /\ \/ /\ Permitted(row[agent[a].op].action)
        /\ agent' = [agent EXCEPT ![a].pc = "step", ![a].left = Needed(@)]
        /\ UNCHANGED <<row, holder>>
     \/ /\ row' = [row EXCEPT ![agent[a].op].result = "failed"] /\ Quits(a)
  /\ UNCHANGED <<effects, worldVars, hostVars>>

(* effect: the intent, the call, the result.  The row of an effect can be  *)
(* inserted once; what has one already is not called again by a resumption.*)
Unrecorded(a, s) == effects[agent[a].op][s] # "recorded"
FirstTime(a, s) == effects[agent[a].op][s] = "none"

Intent(a) ==
  /\ agent[a].pc = "step" /\ agent[a].left # <<>>
  /\ FirstTime(a, Head(agent[a].left))
  /\ effects' = [effects EXCEPT ![agent[a].op][Head(agent[a].left)] = "intent"]
  /\ agent' = [agent EXCEPT ![a].pc = "call"]
  /\ UNCHANGED <<row, holder, worldVars, hostVars>>

Made(r, o) == maker' = [maker EXCEPT ![r] = o] /\ UNCHANGED <<net, proof, opProof, runs>>
Configured(value) == net' = value /\ UNCHANGED <<proof, opProof, maker, runs>>
NowRuns(value) == runs' = value /\ UNCHANGED <<net, proof, opProof, maker>>

NetworkActs(s, o) ==
  CASE s = "forward-off" -> Configured([net EXCEPT !.forward = FALSE])
    [] s = "addresses" -> Configured([net EXCEPT !.addresses = TRUE])
    [] s = "firewall" -> Configured([net EXCEPT !.rules = IF @ < 2 THEN @ + 1 ELSE @])
    [] s = "forward-on" -> Configured([net EXCEPT !.forward = TRUE])
    [] OTHER -> /\ Fingerprint # 0 /\ proof \in {0, Fingerprint}
                /\ proof' = Fingerprint /\ opProof' = opProof \cup {o} /\ UNCHANGED <<net, maker, runs>>

(* A volume that a container names and that does not exist is created by docker. *)
PreparationActs(s, o) ==
  CASE s = "container" ->
         /\ maker["image"] # Nobody /\ maker["container"] = Nobody
         /\ maker' = [maker EXCEPT !["container"] = o, !["volume"] = IF @ = Nobody THEN 0 ELSE @]
         /\ UNCHANGED <<net, proof, opProof, runs>>
    [] s = "image" -> Made("image", o)
    [] OTHER -> maker["volume"] = Nobody /\ Made("volume", o)

RoutingActs == "container" \in runs /\ NowRuns(runs)
ContainerActs(s) ==
  CASE s = "start" -> maker["container"] # Nobody /\ NowRuns(runs \cup {"container"})
    [] s = "stop" -> NowRuns(runs \ {"container"})
    [] OTHER -> RoutingActs

ServiceActs(s) ==
  CASE s = "start-dns" -> NowRuns(runs \cup {"dns"})
    [] s = "start-time" -> NowRuns(runs \cup {"time"})
    [] s = "stop-dns" -> NowRuns(runs \ {"dns"})
    [] OTHER -> NowRuns(runs \ {"time"})

(* The analysis works on a copy, and its archive is read again by a second container. *)
InputCopied == NowRuns(runs)
ExportVerified == "analysis" \in runs /\ NowRuns(runs)
AnalysisActs(s, o) ==
  CASE s = "analysis-input" -> InputCopied
    [] s = "analysis" -> Made("analysis", o)
    [] s = "analysis-start" -> NowRuns(runs \cup {"analysis"})
    [] s = "analysis-stop" -> NowRuns(runs \ {"analysis"})
    [] OTHER -> ExportVerified

Acts(s, o) ==
  \/ s \in ToSet(Plan("network-apply")) /\ NetworkActs(s, o)
  \/ s \in ToSet(Plan("containers-prepare")) /\ PreparationActs(s, o)
  \/ s \in {"start", "stop", "routing"} /\ ContainerActs(s)
  \/ s \in {"start-dns", "start-time", "stop-dns", "stop-time"} /\ ServiceActs(s)
  \/ s \in ToSet(Plan("analysis-run")) /\ AnalysisActs(s, o)

(* The call returns, or raises with or without having acted: a timeout of  *)
(* the tool proves nothing.  An exception after an effect leaves the       *)
(* operation without result.                                               *)
CallStep(a) ==
  LET o == agent[a].op
      s == Head(agent[a].left)
  IN /\ agent[a].pc = "call"
     /\ issued' = [issued EXCEPT ![o][s] = @ + 1]
     /\ \/ Acts(s, o) /\ agent' = [agent EXCEPT ![a].pc = "record"] /\ UNCHANGED holder
        \/ Acts(s, o) /\ Quits(a)
        \/ UNCHANGED <<net, proof, opProof, maker, runs>> /\ Quits(a)
     /\ UNCHANGED <<ledgerVars, hostVars>>

RecordStep(a) ==
  /\ agent[a].pc = "record"
  /\ effects' = [effects EXCEPT ![agent[a].op][Head(agent[a].left)] = "recorded"]
  /\ agent' = [agent EXCEPT ![a].pc = "step", ![a].left = Tail(@)]
  /\ UNCHANGED <<row, holder, worldVars, hostVars>>

(* What the action looks at in the end; waiting for it may time out. *)
AllRecorded(o) == \A r \in ToSet(Resources) : effects[o][r] = "recorded"
AllFound(o) == AllRecorded(o) /\ \A r \in ToSet(Resources) : maker[r] = o
Witnessed(o) ==
  CASE row[o].action = "containers-prepare" -> AllFound(o)
    [] row[o].action = "containers-start" -> "container" \in runs /\ PreparedIdentity
    [] row[o].action = "containers-stop" -> "container" \notin runs /\ PreparedIdentity
    [] row[o].action = "services-start" -> {"dns", "time"} \subseteq runs
    [] row[o].action = "services-stop" -> {"dns", "time"} \cap runs = {}
    [] row[o].action = "analysis-run" -> "analysis" \notin runs
    [] OTHER -> TRUE

Concludes(a) ==
  /\ agent[a].pc = "step" /\ agent[a].left = <<>>
  /\ \/ Witnessed(agent[a].op) /\ row' = [row EXCEPT ![agent[a].op].result = "done"]
     \/ /\ \E s \in Steps : effects[agent[a].op][s] # "none"
        /\ UNCHANGED row
  /\ Quits(a)
  /\ UNCHANGED <<effects, worldVars, hostVars>>

-----------------------------------------------------------------------------
(* reconcile_network: everything was configured and only the record of it  *)
(* is missing; no command is given again.                                  *)
Reconcile(a, o) ==
  /\ agent[a].pc = "off" /\ holder = Nobody
  /\ row[o].action = "network-apply" /\ Unsettled = {o}
  /\ proof # 0 /\ Fingerprint = proof /\ o \in opProof
  /\ \A s \in ToSet(Plan("network-apply")) :
       effects[o][s] = "recorded" \/ (s = "network-proof" /\ effects[o][s] = "intent")
  /\ effects' = [effects EXCEPT ![o]["network-proof"] = "recorded"]
  /\ row' = [row EXCEPT ![o].result = "done"]
  /\ UNCHANGED <<agent, holder, worldVars, hostVars>>

(* preparation_snapshot: nothing has been lost, and what has no intent does not exist. *)
StateOf(o, r) ==
  CASE effects[o][r] = "none" -> IF maker[r] = Nobody THEN "not-started" ELSE "foreign"
    [] maker[r] = Nobody -> IF effects[o][r] = "intent" THEN "unknown-absent" ELSE "recorded-missing"
    [] maker[r] # o -> "foreign"
    [] OTHER -> IF effects[o][r] = "intent" THEN "observed-unrecorded" ELSE "recorded"
CanResume(o) ==
  /\ \A r \in ToSet(Resources) : StateOf(o, r) \in {"not-started", "observed-unrecorded", "recorded"}
  /\ effects[o]["image"] # "none" => maker["image"] # Nobody

(* resume_preparation, of the very state that the administrator has read. *)
Resume(a, o) ==
  /\ agent[a].pc = "off" /\ holder = Nobody
  /\ row[o].action = "containers-prepare" /\ Unsettled = {o}
  /\ NetworkReady /\ CanResume(o)
  /\ holder' = a
  /\ agent' = [agent EXCEPT ![a] = [op |-> o, left |-> Plan("containers-prepare"), pc |-> "step", mode |-> "resume"]]
  /\ UNCHANGED <<ledgerVars, worldVars, hostVars>>

(* A step with an intent is recorded as it is found, or found in the table. *)
ResumeKnown(a) ==
  LET o == agent[a].op
      s == Head(agent[a].left)
  IN /\ agent[a].pc = "step" /\ agent[a].mode = "resume" /\ agent[a].left # <<>> /\ ~FirstTime(a, s)
     /\ \/ /\ s = "image" /\ maker["image"] # Nobody /\ agent' = [agent EXCEPT ![a].left = Tail(@)]
           /\ UNCHANGED <<effects, holder>>
        \/ /\ s # "image" /\ effects[o][s] = "recorded" /\ agent' = [agent EXCEPT ![a].left = Tail(@)]
           /\ UNCHANGED <<effects, holder>>
        \/ /\ s # "image" /\ effects[o][s] = "intent" /\ maker[s] = o
           /\ effects' = [effects EXCEPT ![o][s] = "recorded"]
           /\ agent' = [agent EXCEPT ![a].left = Tail(@)] /\ UNCHANGED holder
        \/ Quits(a) /\ UNCHANGED effects
     /\ UNCHANGED <<row, worldVars, hostVars>>

-----------------------------------------------------------------------------
(* The process ends anywhere; its lock goes with it. *)
Dies(a) ==
  /\ agent[a].pc # "off" /\ Quits(a)
  /\ UNCHANGED <<ledgerVars, worldVars, hostVars>>

GuestBoots ==
  /\ boots < MaxBoots /\ boots' = boots + 1
  /\ agent' = [a \in Agents |-> Off] /\ holder' = Nobody
  /\ net' = NoNet /\ runs' = {}
  /\ UNCHANGED <<ledgerVars, proof, opProof, maker, issued, lost>>

(* Somebody with the right to do so removes a resource in the guest, or a container ends. *)
Loses(r) ==
  /\ lost < MaxLost /\ maker[r] # Nobody /\ lost' = lost + 1
  /\ maker' = [maker EXCEPT ![r] = Nobody] /\ runs' = runs \ {r}
  /\ UNCHANGED <<ledgerVars, agent, holder, net, proof, opProof, issued, boots>>
Ends(r) ==
  /\ lost < MaxLost /\ r \in runs /\ lost' = lost + 1 /\ runs' = runs \ {r}
  /\ UNCHANGED <<ledgerVars, agent, holder, net, proof, opProof, maker, issued, boots>>

GuestNext ==
  \/ \E a \in Agents :
       \/ \E o \in Ops : \/ \E action \in Actions : Dispatch(a, o, action)
                         \/ Reconcile(a, o) \/ Resume(a, o)
       \/ Check(a) \/ Intent(a) \/ CallStep(a) \/ RecordStep(a) \/ ResumeKnown(a) \/ Concludes(a) \/ Dies(a)
  \/ GuestBoots
  \/ \E r \in {"volume", "container"} : Loses(r)
  \/ \E r \in {"container", "dns"} : Ends(r)

GuestSpec == GuestInit /\ [][GuestNext]_guestVars

-----------------------------------------------------------------------------
(* No command of an operation is ever given twice, whoever dies, resumes   *)
(* or reconciles ("中断后只读恢复，不自动重放"), and one operation at a time *)
(* is without a result.                                                    *)
NothingIsRepeated ==
  /\ \A o \in Ops, s \in Steps : issued[o][s] <= 1
  /\ Cardinality(Unsettled) <= 1

(* What runs in the guest runs behind the rules of this boot ("不能沿用重启 *)
(* 前账本"), whatever the ledger says of earlier ones.  And a preparation   *)
(* that is answered as done, at once or after it was resumed, has a        *)
(* recorded identity for everything it was to create, and its container    *)
(* has the volume that it created itself: not one that docker made up      *)
(* because somebody removed it in between.  A network was proven by its    *)
(* operation.                                                              *)
PreparedIsReal ==
  /\ runs \cap {"container", "dns", "time"} # {} => net.rules > 0
  /\ \A o \in Ops :
       /\ Completed(o, "containers-prepare") =>
            /\ \A r \in ToSet(Resources) : effects[o][r] = "recorded"
            /\ maker["container"] = o => maker["volume"] \in {o, Nobody}
       /\ Completed(o, "network-apply") =>
            o \in opProof /\ \A s \in ToSet(Plan("network-apply")) : effects[o][s] = "recorded"
=============================================================================
