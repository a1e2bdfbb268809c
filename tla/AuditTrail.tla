----------------------------- MODULE AuditTrail -----------------------------
(***************************************************************************)
(* The remote server's audit: a chain of intents and results in a SQLite   *)
(* file, written around every request of a session and every operation a   *)
(* worker executes; the settlement of an attempt whose process died; and   *)
(* the rotation to a new file, which archives and seals the old one before *)
(* it replaces the policy, and can be resumed after a crash.               *)
(* A session keeps the policy it loaded, so it may hold a sealed chain.    *)
(* What the policy says besides may be edited by hand at any time (not so  *)
(* the chain it names), which the digests of the rotation notice.          *)
(* Bounds: Roots chains, MaxAttempts attempts (max_attempts in each).      *)
(***************************************************************************)
EXTENDS Naturals, Sequences, FiniteSets, SequencesExt

CONSTANTS Roots, FirstRoot, Sessions, Operations, Editions, MaxAttempts, Capacity, NoRoot

ASSUME AuditAssumption == FirstRoot \in Roots /\ NoRoot \notin Roots

VARIABLES
  policy,    \* the root the policy file names
  edition,   \* what else it says
  editions,  \* new root -> the edition its rotation was planned with (policy.before.json, policy.after.json)
  seals,     \* sealed root -> the new root whose rotation sealed it (audit_seal)
  chains,    \* root -> [made, sealed, events, open]: open = attempts without a result
  material,  \* new root -> [old, files, head]: what a rotation wrote beside it
  procs,     \* session or worker: [root, attempt, op, at]
  contract,  \* operation -> "none", "pending", "executing", "recorded"
  linked,    \* attempts of workers: attempt -> operation
  rotator,   \* the rotating process, first or resumed: [new, at] or NoRoot
  attempts   \* attempts made

auditVars == <<policy, edition, editions, seals, chains, material, procs, contract, linked, rotator, attempts>>

Idle == [root |-> NoRoot, attempt |-> 0, op |-> NoRoot, at |-> "none"]
Steps == <<"before", "after", "intent", "archive", "previous">>
Fresh == [made |-> FALSE, sealed |-> FALSE, events |-> <<>>, open |-> {}]

AuditInit ==
  /\ policy = FirstRoot /\ rotator = NoRoot /\ attempts = 0 /\ linked = <<>>
  /\ edition \in Editions /\ editions = [r \in Roots |-> edition] /\ seals = [r \in Roots |-> NoRoot]
  /\ chains = [r \in Roots |-> [Fresh EXCEPT !.made = r = FirstRoot]]
  /\ material = [r \in Roots |-> [old |-> NoRoot, files |-> {}, head |-> 0]]
  /\ procs = [s \in Sessions |-> Idle]
  /\ contract = [o \in Operations |-> "none"]

(* The rotation holds the write lock of the old chain until it commits the seal. *)
Locked(r) == rotator # NoRoot /\ rotator.at = "writing" /\ material[rotator.new].old = r
(* A store that does not look for the seal. *)
Unlocked1(r) == ~Locked(r)
Writable(r) == ~Locked(r) /\ ~chains[r].sealed

ContractsFree == rotator = NoRoot

Logged1(r, attempt, phase) ==
  chains' = [chains EXCEPT ![r].events = Append(@, <<attempt, phase>>),
                           ![r].open = IF phase = "intent" THEN @ \cup {attempt} ELSE @ \ {attempt}]

(* A session reads the policy once; a worker when it starts. *)
Connect(s) ==
  /\ procs[s].at = "none"
  /\ procs' = [procs EXCEPT ![s] = [Idle EXCEPT !.root = policy, !.at = "ready"]]
  /\ UNCHANGED <<policy, edition, editions, seals, chains, material, contract, linked, rotator, attempts>>

IntentCount(r) == Cardinality({i \in DOMAIN chains[r].events : chains[r].events[i][2] = "intent"})

(* A session begins a request that submits o, or a worker the execution of o. *)
AuditBegin(s, o, worker) ==
  /\ procs[s].at = "ready" /\ Writable(procs[s].root) /\ attempts < MaxAttempts /\ IntentCount(procs[s].root) < Capacity
  /\ contract[o] = (IF worker THEN "pending" ELSE "none")
  /\ attempts' = attempts + 1
  /\ Logged1(procs[s].root, attempts', "intent")
  /\ linked' = IF worker THEN Append(linked, o) ELSE Append(linked, NoRoot)
  /\ procs' = [procs EXCEPT ![s] = [@ EXCEPT !.attempt = attempts', !.op = o, !.at = IF worker THEN "execute" ELSE "submit"]]
  /\ UNCHANGED <<policy, edition, editions, seals, material, contract, rotator>>

Submit(s) ==
  /\ procs[s].at = "submit" /\ ContractsFree
  /\ contract' = IF contract[procs[s].op] = "none" THEN [contract EXCEPT ![procs[s].op] = "pending"] ELSE contract
  /\ procs' = [procs EXCEPT ![s].at = "returned"]
  /\ UNCHANGED <<policy, edition, editions, seals, chains, material, linked, rotator, attempts>>

Execute(s) ==
  /\ procs[s].at = "execute" /\ ContractsFree
  /\ \/ /\ contract[procs[s].op] = "pending"
        /\ contract' = [contract EXCEPT ![procs[s].op] = "executing"] /\ UNCHANGED procs
     \/ /\ contract[procs[s].op] = "executing"
        /\ contract' = [contract EXCEPT ![procs[s].op] = "recorded"]
        /\ procs' = [procs EXCEPT ![s].at = "returned"]
     \/ /\ contract[procs[s].op] = "recorded"
        /\ procs' = [procs EXCEPT ![s].at = "returned"] /\ UNCHANGED contract
  /\ UNCHANGED <<policy, edition, editions, seals, chains, material, linked, rotator, attempts>>

(* finish: refused when the attempt has a result already. *)
AuditFinish(s) ==
  /\ procs[s].at = "returned" /\ Writable(procs[s].root)
  /\ IF procs[s].attempt \in chains[procs[s].root].open
       THEN Logged1(procs[s].root, procs[s].attempt, "result") ELSE UNCHANGED chains
  /\ procs' = [procs EXCEPT ![s] = [Idle EXCEPT !.root = procs[s].root, !.at = "ready"]]
  /\ UNCHANGED <<policy, edition, editions, seals, material, contract, linked, rotator, attempts>>

(* The process dies, or finish meets a locked file: the attempt stays open. *)
AuditLost(s) ==
  /\ procs[s].at # "none"
  /\ procs' = [procs EXCEPT ![s] = Idle]
  /\ UNCHANGED <<policy, edition, editions, seals, chains, material, contract, linked, rotator, attempts>>

(* The coordinator closes what an interrupted worker left (observe or resolve). *)
ResolveExternally(o) ==
  /\ contract[o] \in {"pending", "executing"} /\ ContractsFree
  /\ \A s \in Sessions : procs[s].op = o => procs[s].at \notin {"execute"}
  /\ contract' = [contract EXCEPT ![o] = "recorded"]
  /\ UNCHANGED <<policy, edition, editions, seals, chains, material, procs, linked, rotator, attempts>>

(* Only a worker's attempt is linked to a contract whose record can settle it. *)
AuditSettle(a) ==
  /\ a \in chains[policy].open /\ Writable(policy)
  /\ linked[a] # NoRoot /\ contract[linked[a]] = "recorded"
  /\ Logged1(policy, a, "result")
  /\ UNCHANGED <<policy, edition, editions, seals, material, procs, contract, linked, rotator, attempts>>

----------------------------------------------------------------------------
ContractsIdle == \A o \in Operations : contract[o] \in {"none", "recorded"}

PolicyEdited(e) ==
  /\ edition # e /\ edition' = e
  /\ UNCHANGED <<policy, editions, seals, chains, material, procs, contract, linked, rotator, attempts>>

(* The plan is the one that was approved, digests and all. *)
RotateStart(n) ==
  /\ rotator = NoRoot /\ ~chains[n].made /\ material[n].files = {}
  /\ ~chains[policy].sealed /\ chains[policy].open = {} /\ ContractsIdle
  /\ chains' = [chains EXCEPT ![n].made = TRUE]
  /\ material' = [material EXCEPT ![n].old = policy]
  /\ editions' = [editions EXCEPT ![n] = edition]
  /\ rotator' = [new |-> n, at |-> "writing"]
  /\ UNCHANGED <<policy, edition, seals, procs, contract, linked, attempts>>

(* policy.before, policy.after, rotation.intent, the signed archive, PREVIOUS, in this order. *)
RotateWrite ==
  /\ rotator # NoRoot /\ rotator.at = "writing" /\ Cardinality(material[rotator.new].files) < Len(Steps)
  /\ LET n == rotator.new  next == Steps[Cardinality(material[n].files) + 1] IN
     /\ next = "before" => edition = editions[n]
     /\ material' = [material EXCEPT ![n].files = @ \cup {next},
                                     ![n].head = IF next = "archive" THEN Len(chains[material[n].old].events) ELSE @]
  /\ UNCHANGED <<policy, edition, editions, seals, chains, procs, contract, linked, rotator, attempts>>

(* The archive first, the seal last. *)
Archived(n) == material[n].files = Range(Steps)

RotateSeal ==
  /\ rotator # NoRoot /\ rotator.at = "writing" /\ Archived(rotator.new)
  /\ chains' = [chains EXCEPT ![material[rotator.new].old].sealed = TRUE]
  /\ seals' = [seals EXCEPT ![material[rotator.new].old] = rotator.new]
  /\ rotator' = [rotator EXCEPT !.at = "sealed"]
  /\ UNCHANGED <<policy, edition, editions, material, procs, contract, linked, attempts>>

(* The digest of the policy, compared for the last time; an edit between this and the replacement is lost. *)
RotateChecks ==
  /\ rotator # NoRoot /\ rotator.at = "sealed"
  /\ policy = material[rotator.new].old /\ edition = editions[rotator.new]
  /\ rotator' = [rotator EXCEPT !.at = "checked"]
  /\ UNCHANGED <<policy, edition, editions, seals, chains, material, procs, contract, linked, attempts>>

RotateReplaces ==
  /\ rotator # NoRoot /\ rotator.at = "checked"
  /\ policy' = rotator.new /\ edition' = editions[rotator.new]
  /\ rotator' = [rotator EXCEPT !.at = "switched"]
  /\ UNCHANGED <<editions, seals, chains, material, procs, contract, linked, attempts>>

RotateEnds ==
  /\ rotator # NoRoot /\ rotator.at = "switched"
  /\ rotator' = NoRoot
  /\ material' = [material EXCEPT ![rotator.new].files = @ \cup {"completed"}]
  /\ UNCHANGED <<policy, edition, editions, seals, chains, procs, contract, linked, attempts>>

(* The process dies, or a check refuses to go on. *)
RotateDies ==
  /\ rotator # NoRoot
  /\ rotator' = NoRoot
  /\ UNCHANGED <<policy, edition, editions, seals, chains, material, procs, contract, linked, attempts>>

(* What the files of a rotation, both chains and the seal must show before it can be resumed. *)
RotationIntact(n) ==
  LET old == material[n].old IN
  /\ old \in Roots /\ Range(Steps) \subseteq material[n].files
  /\ policy \in {old, n} /\ chains[old].sealed /\ seals[old] = n
  /\ Len(chains[old].events) = material[n].head /\ chains[n].events = <<>>

RotateResume(n) ==
  /\ rotator = NoRoot /\ ContractsIdle
  /\ RotationIntact(n) /\ edition = editions[n]
  /\ rotator' = [new |-> n, at |-> IF policy = n THEN "switched" ELSE "checked"]
  /\ UNCHANGED <<policy, edition, editions, seals, chains, material, procs, contract, linked, attempts>>

AuditNext ==
  \/ \E s \in Sessions : Connect(s) \/ Submit(s) \/ Execute(s) \/ AuditFinish(s) \/ AuditLost(s)
                         \/ \E o \in Operations, worker \in BOOLEAN : AuditBegin(s, o, worker)
  \/ \E o \in Operations : ResolveExternally(o)
  \/ \E a \in 1..attempts : AuditSettle(a)
  \/ \E n \in Roots : RotateStart(n) \/ RotateResume(n)
  \/ \E e \in Editions : PolicyEdited(e)
  \/ RotateWrite \/ RotateSeal \/ RotateChecks \/ RotateReplaces \/ RotateEnds \/ RotateDies

AuditSpec == AuditInit /\ [][AuditNext]_auditVars

----------------------------------------------------------------------------
(* A sealed chain is the one that the PREVIOUS and the archive of the      *)
(* rotation that sealed it describe, and holds no open attempt; and when   *)
(* the policy names a sealed chain, as after a crash or an edit by hand in *)
(* the middle of a rotation, nothing but the text of the policy can stand  *)
(* in the way of the resume that moves it on (rotate, resume): with the    *)
(* text the rotation was planned with, it goes on.                         *)
SealsAreFinal ==
  /\ \A r \in Roots : chains[r].sealed =>
       /\ chains[r].open = {}
       /\ \E n \in Roots :
            /\ seals[r] = n /\ material[n].old = r
            /\ material[n].head = Len(chains[r].events) /\ Range(Steps) \subseteq material[n].files
  /\ chains[policy].sealed => \E n \in Roots : RotationIntact(n) /\ policy = material[n].old

(* Whatever reached the contract had its intent written first, one result  *)
(* at most follows each intent, and no attempt is in two chains.           *)
EffectsAreAudited ==
  /\ \A o \in Operations : contract[o] = "executing" => \E a \in 1..attempts : linked[a] = o
  /\ \A r, q \in Roots : \A i \in DOMAIN chains[r].events, j \in DOMAIN chains[q].events :
       chains[r].events[i] = chains[q].events[j] => r = q /\ i = j
  /\ \A r \in Roots : \A i \in DOMAIN chains[r].events : \A a \in 1..attempts :
       chains[r].events[i] = <<a, "result">> => \E k \in 1..(i - 1) : chains[r].events[k] = <<a, "intent">>

(* The trail can be relied on: chains that were sealed are final, and every *)
(* effect is in one of them (AuditStore.begin, finish; rotate).            *)
TrailIsReliable == SealsAreFinal /\ EffectsAreAudited
=============================================================================
