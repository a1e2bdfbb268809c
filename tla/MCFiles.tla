------------------------------ MODULE MCFiles ------------------------------
(***************************************************************************)
(* The stores of files side by side, and what a client keeps of its        *)
(* requests and its remote page shows of them, one at a time, as in MCLab: *)
(* the theme chosen at the start names what moves and the part of it.      *)
(***************************************************************************)
EXTENDS CacheStore, AuditTrail, ReleaseStore, GenerationStore, ClientLedger, GuiRemote, TLC

CONSTANTS Themes, f1, f2

VARIABLES theme

CacheThemes == {"collect", "withdraw", "upload", "budget"}

MCInit ==
  /\ CacheInit /\ AuditInit /\ ReleaseInit /\ StoreInit /\ ClientInit /\ RemoteInit /\ theme \in Themes
  /\ edition = 1 /\ \A t \in Targets : live[t] = f1

AllRight(bits) == \A i \in 1..Len(bits) : bits[i]

(* Collections with whole right files and one upload; one upload and one collection, with references taken away; *)
(* one upload with wrong blocks; two uploads and downloads with a budget.                                        *)
Touched == {a \in Assets : objects[a] # NoFile \/ partials[a] # <<>>}
Held == {u \in Uploads : uploads[u] # NoRow \/ upfiles[u] # NoFile \/ transfers[u].tries > 0}

(* An upload's name is pinned for what the upload of a running client refers to. *)
OwnName(r) ==
  r[1] \in Uploads => /\ uploads'[r[1]] # NoRow /\ uploads'[r[1]].asset = r[2] /\ uploads'[r[1]].received = Size
                      /\ transfers[r[1]].live /\ transfers[r[1]].offset \in {0, Size}

CacheMove ==
  /\ theme \in CacheThemes /\ CacheNext
  /\ theme # "withdraw" => withdrawn' = {} /\ \A r \in refs' \ refs : OwnName(r)
  /\ theme = "withdraw" =>
       /\ budget' = 0 /\ serial' <= 2 /\ Cardinality(Held') <= 1 /\ \A r \in refs' : r[1] \in Uploads
       /\ \A u \in Uploads : ~transfers'[u].cancel /\ (upfiles'[u] # NoFile => AllRight(upfiles'[u]))
       /\ Cardinality(Touched') <= 1 /\ (\A a \in Assets : partials'[a] = <<>>)
       /\ Cardinality({j \in Collections : jobs'[j] # NoRow}) <= 1
  /\ theme = "collect" =>
       /\ budget' = 0 /\ serial' <= 2 /\ Cardinality(Held') <= 1 /\ Cardinality({r \in refs' : r[1] \in Owners}) <= 1
       /\ Held' = {} \/ \E j \in Collections : jobs'[j] = NoRow
       /\ \A u \in Uploads : transfers'[u].phase \in {"none", "hashing", "uploading", "verified"} /\ ~transfers'[u].cancel /\ transfers'[u].tries <= 1 /\ (upfiles'[u] # NoFile => Len(upfiles'[u]) \in {0, Size})
       /\ \A a \in Assets : Len(partials'[a]) \in {0, Size} /\ AllRight(partials'[a])
  /\ theme \notin {"collect", "withdraw"} => approved' = NoRow
  /\ theme = "upload" =>
       /\ budget' = 0 /\ Cardinality(Held') <= 1
       /\ \A a \in Assets : Len(partials'[a]) \in {0, Size} /\ AllRight(partials'[a])
  /\ theme = "budget" =>
       /\ \A u \in Uploads : transfers'[u].tries <= 1 /\ ~transfers'[u].cancel /\ (upfiles'[u] # NoFile => AllRight(upfiles'[u]))
       /\ Cardinality(Touched') <= 1 /\ serial' <= 1 /\ Cardinality(quarantined') <= 1

(* Of the audit, the policy edited during a rotation, and nobody else at work until it is edited back. *)
AuditMove ==
  /\ AuditNext
  /\ (edition = 1 /\ edition' # 1) => rotator # NoRoot
  /\ edition # 1 => UNCHANGED <<procs, contract>>

(* Of the client, connections or changes, one of which was sent twice or two once. *)
ClientMove ==
  /\ ClientNext /\ Cardinality(wire') <= IF \A a \in Attempts : rows'[a] # NoEntry THEN 1 ELSE 2
  /\ (\A c \in Connections : conns'[c] = NoEntry) \/ (\A a \in Attempts : rows'[a] = NoEntry)

(* Of the remote page, its calls by what they are for. *)
CallsOf ==
  [changes |-> {"connect", "overview", "lease-status", "pending", "change", "retry"},
   administration |-> {"connect", "admin", "admin-change", "admin-pending", "admin-retry", "overview", "lease-status", "pending"},
   transfers |-> {"targets", "connect", "cancel-connect", "transfer", "pause", "assets", "downloads"}]
RemoteMove ==
  /\ RemoteNext /\ Cardinality(calls') <= 2 /\ epoch' <= 3
  /\ \A c \in calls' : c.kind \in CallsOf[theme]
  /\ IF theme = "changes" THEN Cardinality(recorded') <= 2 ELSE Cardinality(recorded') <= 1 /\ made' <= 6

MCNext ==
  /\ \/ CacheMove /\ UNCHANGED <<auditVars, releaseVars, svars, clientVars, remoteVars>>
     \/ theme = "audit" /\ AuditMove /\ UNCHANGED <<cacheVars, releaseVars, svars, clientVars, remoteVars>>
     \/ theme = "release" /\ ReleaseNext /\ UNCHANGED <<cacheVars, auditVars, svars, clientVars, remoteVars>>
     \/ theme = "generations" /\ StoreNext /\ UNCHANGED <<cacheVars, auditVars, releaseVars, clientVars, remoteVars>>
     \/ theme = "client" /\ ClientMove /\ UNCHANGED <<cacheVars, auditVars, releaseVars, svars, remoteVars>>
     \/ theme \in DOMAIN CallsOf /\ RemoteMove /\ UNCHANGED <<cacheVars, auditVars, releaseVars, svars, clientVars>>
  /\ UNCHANGED theme

MCSpec == MCInit /\ [][MCNext]_<<cacheVars, auditVars, releaseVars, svars, clientVars, remoteVars, theme>>

(* The stores that take turns share the names of their members, so that one permutation serves them all. *)
Symmetry == Permutations(Assets) \cup Permutations(Uploads) \cup Permutations(Collections)
=============================================================================
