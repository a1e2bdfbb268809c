----------------------------- MODULE CacheStore -----------------------------
(***************************************************************************)
(* The content cache: a SQLite file whose exclusive lock serialises every  *)
(* operation, and the payload directories objects, partial, quarantine and *)
(* uploads, whose files change at once while the rows change at commit.    *)
(* Over it: downloads that resume, uploads in blocks by clients whose      *)
(* calls may be lost, a budget, and the collection of objects nobody       *)
(* refers to, one attempt record, unlink and result record at a time.      *)
(* A file is the sequence of its blocks; a block is TRUE when it is right. *)
(* Bounds: MaxSerial files published, MaxTries runs of a client.           *)
(***************************************************************************)
EXTENDS Naturals, Sequences, FiniteSets

CONSTANTS Assets, Owners, Uploads, Collections, Size, Quota, Budgets, MaxSerial, MaxTries, NoFile, NoRow

VARIABLES
  objects,     \* objects/<sha>: [ino, bits] or NoFile
  partials,    \* partial/<sha>: its blocks; empty stands for absent too
  quarantined, \* quarantine/<sha>-<actual>: set of <<asset, bits>>
  refs,        \* rows of refs: <<owner, asset>>
  uploads,     \* rows of remote_uploads: [asset, state, received] or NoRow
  upfiles,     \* uploads/<id>: its blocks, or NoFile
  budget,      \* the registered maximum; 0 before budget_apply
  jobs,        \* collections: [items, tried, done], items = {<<asset, ino>>}
  collector,   \* the process inside apply(): [job, at, asset] or NoRow
  approved,    \* the plan the operator last looked at
  transfers,   \* the client's ledger and process: [phase, live, offset, cancel, tries]
  serial,      \* inode numbers given out
  withdrawn    \* history: the uploads whose reference an operator has removed

cacheVars == <<objects, partials, quarantined, refs, uploads, upfiles, budget, jobs, collector, approved, transfers, serial, withdrawn>>

File == UNION {[1..n -> BOOLEAN] : n \in 0..Size}
Block == File \ {<<>>}
Object == [ino : Nat, bits : File]
Upload == [asset : Assets, state : {"uploading", "verified", "corrupt"}, received : 0..Size]

ASSUME CacheAssumption ==
  /\ Size \in Nat \ {0} /\ Quota \in Nat /\ Budgets \subseteq Nat
  /\ NoFile \notin File \cup Object /\ NoRow \notin Upload
  /\ NoRow \notin [items : SUBSET (Assets \X Nat), tried : SUBSET Assets, done : SUBSET Assets]

(* The names references are held under: those of operators, and for an upload one of its own, remote-upload-<id>, *)
(* which pin and unpin take like any other.  The names of instances, which unpin refuses, are left out.           *)
HeldUnder == Owners \cup Uploads

Right(bits) == Len(bits) = Size /\ \A i \in 1..Size : bits[i]
Whole(a) == objects[a] # NoFile /\ Right(objects[a].bits)
Names(a) == {o \in HeldUnder : <<o, a>> \in refs}
FileLen(f) == IF f = NoFile THEN 0 ELSE Len(f)
ObjectLen(a) == IF objects[a] = NoFile THEN 0 ELSE Len(objects[a].bits)

(* The blocks on the disk, each in its place; and those that accepted uploads may still write. *)
Stored ==
  (UNION {{<<"partial", a>>} \X (1..Len(partials[a])) : a \in Assets})
  \cup (UNION {{<<"object", a>>} \X (1..ObjectLen(a)) : a \in Assets})
  \cup (UNION {{<<"quarantine", q>>} \X (1..Size) : q \in quarantined})
  \cup (UNION {{<<"upload", u>>} \X (1..FileLen(upfiles[u])) : u \in Uploads})
Awaited(S) == UNION {{<<"upload", u>>} \X ((FileLen(upfiles[u]) + 1)..Size) : u \in S}

Uploading == {u \in Uploads : uploads[u] # NoRow /\ uploads[u].state = "uploading"}
Payload == Cardinality(Stored)
Reserved == Cardinality(Awaited(Uploading))
Admits(more) == budget = 0 \/ Payload + Reserved + more <= budget

CacheInit ==
  /\ objects = [a \in Assets |-> NoFile] /\ partials = [a \in Assets |-> <<>>]
  /\ quarantined = {} /\ refs = {} /\ budget = 0 /\ serial = 0 /\ withdrawn = {}
  /\ uploads = [u \in Uploads |-> NoRow] /\ upfiles = [u \in Uploads |-> NoFile]
  /\ jobs = [j \in Collections |-> NoRow] /\ collector = NoRow /\ approved = NoRow
  /\ transfers = [u \in Uploads |-> [phase |-> "none", live |-> FALSE, offset |-> 0, cancel |-> FALSE, tries |-> 0]]

Unlocked == collector = NoRow

----------------------------------------------------------------------------
(* References and budget. *)

Pin(o, a) ==
  /\ Unlocked /\ Whole(a)
  /\ refs' = refs \cup {<<o, a>>}
  /\ UNCHANGED <<objects, partials, quarantined, uploads, upfiles, budget, jobs, collector, approved, transfers, serial, withdrawn>>

Unpin(o, a) ==
  /\ Unlocked /\ <<o, a>> \in refs
  /\ refs' = refs \ {<<o, a>>}
  /\ withdrawn' = withdrawn \cup ({o} \cap Uploads)
  /\ UNCHANGED <<objects, partials, quarantined, uploads, upfiles, budget, jobs, collector, approved, transfers, serial>>

BudgetApply(m) ==
  /\ Unlocked /\ budget # m /\ Payload + Reserved <= m
  /\ budget' = m
  /\ UNCHANGED <<objects, partials, quarantined, refs, uploads, upfiles, jobs, collector, approved, transfers, serial, withdrawn>>

----------------------------------------------------------------------------
(* Download: the answer's blocks go to partial, which is kept when the     *)
(* connection or the process ends; a whole file is renamed to objects or   *)
(* to quarantine, where a second copy of the same wrong file is refused.   *)

Fetch(a, bits) ==
  /\ Unlocked /\ objects[a] = NoFile /\ Len(partials[a]) + Len(bits) <= Size
  /\ Admits(Size - Len(partials[a]))
  /\ partials' = [partials EXCEPT ![a] = @ \o bits]
  /\ UNCHANGED <<objects, quarantined, refs, uploads, upfiles, budget, jobs, collector, approved, transfers, serial, withdrawn>>

FetchEnds(a) ==
  /\ Unlocked /\ objects[a] = NoFile /\ Len(partials[a]) = Size /\ Admits(0)
  /\ \/ /\ Right(partials[a]) /\ serial < MaxSerial
        /\ objects' = [objects EXCEPT ![a] = [ino |-> serial + 1, bits |-> partials[a]]]
        /\ serial' = serial + 1 /\ UNCHANGED quarantined
     \/ /\ ~Right(partials[a]) /\ <<a, partials[a]>> \notin quarantined
        /\ quarantined' = quarantined \cup {<<a, partials[a]>>} /\ UNCHANGED <<objects, serial>>
  /\ partials' = [partials EXCEPT ![a] = <<>>]
  /\ UNCHANGED <<refs, uploads, upfiles, budget, jobs, collector, approved, transfers, withdrawn>>

----------------------------------------------------------------------------
(* The server's side of uploads. *)

Count == Cardinality({u \in Uploads : uploads[u] # NoRow})

(* asset-begin of a new id: a cached object is referred to at once; else an empty file, and the row at commit. *)
Begun(u, a, commits) ==
  /\ Unlocked /\ uploads[u] = NoRow /\ Count < Quota
  /\ \/ /\ Whole(a) /\ commits
        /\ refs' = refs \cup {<<u, a>>}
        /\ uploads' = [uploads EXCEPT ![u] = [asset |-> a, state |-> "verified", received |-> Size]]
        /\ UNCHANGED upfiles
     \/ /\ objects[a] = NoFile /\ upfiles[u] = NoFile /\ Admits(Size)
        /\ upfiles' = [upfiles EXCEPT ![u] = <<>>]
        /\ uploads' = IF commits THEN [uploads EXCEPT ![u] = [asset |-> a, state |-> "uploading", received |-> 0]] ELSE uploads
        /\ UNCHANGED refs
  /\ UNCHANGED <<objects, partials, quarantined, budget, jobs, collector, approved, serial, withdrawn>>

(* The row written before the file. *)
WrittenRowFirst(u, offset, block, length, commits) ==
  LET row == uploads[u]  file == upfiles[u]  end == offset + Len(block) IN
  /\ Unlocked /\ row # NoRow /\ row.state = "uploading" /\ file # NoFile
  /\ offset = row.received /\ end <= Size /\ length \in Len(file)..end
  /\ upfiles' = [upfiles EXCEPT ![u] = SubSeq(file, 1, offset) \o SubSeq(block, 1, length - offset)]
  /\ uploads' = [uploads EXCEPT ![u].received = end]
  /\ UNCHANGED <<objects, partials, quarantined, refs, budget, jobs, collector, approved, serial, withdrawn>>

(* asset-chunk: the file is written before the row; a repeated block must agree with what is there. *)
Written(u, offset, block, length, commits) ==
  LET row == uploads[u]  file == upfiles[u]  end == offset + Len(block) IN
  /\ Unlocked /\ row # NoRow /\ row.state = "uploading" /\ file # NoFile
  /\ offset = row.received /\ end <= Size /\ row.received <= Len(file) /\ Len(file) <= end
  /\ SubSeq(file, offset + 1, Len(file)) = SubSeq(block, 1, Len(file) - offset)
  /\ length \in Len(file)..end /\ (commits => length = end)
  /\ upfiles' = [upfiles EXCEPT ![u] = SubSeq(file, 1, offset) \o SubSeq(block, 1, length - offset)]
  /\ uploads' = IF commits THEN [uploads EXCEPT ![u].received = end] ELSE uploads
  /\ UNCHANGED <<objects, partials, quarantined, refs, budget, jobs, collector, approved, serial, withdrawn>>

Wants(u) == uploads[u] # NoRow /\ uploads[u].state = "uploading" /\ uploads[u].received = Size

(* asset-finish, first transaction: the reference before the object. *)
Referred(u) ==
  LET a == uploads[u].asset IN
  /\ Unlocked /\ Wants(u)
  /\ IF upfiles[u] # NoFile /\ ~Right(upfiles[u])
       THEN uploads' = [uploads EXCEPT ![u].state = "corrupt"] /\ UNCHANGED refs
       ELSE /\ upfiles[u] # NoFile \/ Whole(a)
            /\ refs' = refs \cup {<<u, a>>} /\ UNCHANGED uploads
  /\ UNCHANGED <<objects, partials, quarantined, upfiles, budget, jobs, collector, approved, serial, withdrawn>>

(* Second transaction: the rename, then the row at commit. *)
Published(u, commits) ==
  LET a == uploads[u].asset IN
  /\ Unlocked /\ Wants(u)
  /\ <<u, a>> \in refs
  /\ IF objects[a] # NoFile
       THEN Whole(a) /\ UNCHANGED <<objects, upfiles, serial, withdrawn>>
       ELSE /\ upfiles[u] # NoFile /\ Right(upfiles[u]) /\ serial < MaxSerial
            /\ objects' = [objects EXCEPT ![a] = [ino |-> serial + 1, bits |-> upfiles[u]]]
            /\ upfiles' = [upfiles EXCEPT ![u] = NoFile] /\ serial' = serial + 1
  /\ uploads' = IF commits THEN [uploads EXCEPT ![u].state = "verified"] ELSE uploads
  /\ UNCHANGED <<partials, quarantined, refs, budget, jobs, collector, approved, withdrawn>>

----------------------------------------------------------------------------
(* The client: one process at a time, behind the ledger's gate, sends the  *)
(* calls; an answer may be lost after the server acted, and an operator    *)
(* resumes with the same id.  Only the client's calls move the transfers.  *)

Answered(u, phase) == transfers' = [transfers EXCEPT ![u] =
  [@ EXCEPT !.phase = phase, !.live = phase = "uploading", !.offset = IF uploads'[u] = NoRow THEN 0 ELSE uploads'[u].received]]

Failed(u) == transfers' = [transfers EXCEPT ![u] =
  [@ EXCEPT !.phase = IF transfers[u].cancel THEN "paused" ELSE "unknown", !.live = FALSE]]

ClientRun(u) ==
  /\ ~transfers[u].live /\ transfers[u].phase # "verified" /\ transfers[u].tries < MaxTries
  /\ transfers' = [transfers EXCEPT ![u] =
       [phase |-> "hashing", live |-> TRUE, offset |-> 0, cancel |-> FALSE, tries |-> @.tries + 1]]
  /\ UNCHANGED <<objects, partials, quarantined, refs, uploads, upfiles, budget, jobs, collector, approved, serial, withdrawn>>

ClientCancel(u) ==
  /\ transfers[u].phase \notin {"none", "verified"} /\ ~transfers[u].cancel
  /\ transfers' = [transfers EXCEPT ![u].cancel = TRUE]
  /\ UNCHANGED <<objects, partials, quarantined, refs, uploads, upfiles, budget, jobs, collector, approved, serial, withdrawn>>

(* The process is cancelled, refused or dies; its ledger keeps the phase only when it dies. *)
ClientEnds(u) ==
  /\ transfers[u].live
  /\ Failed(u) \/ transfers' = [transfers EXCEPT ![u].live = FALSE]
  /\ UNCHANGED <<objects, partials, quarantined, refs, uploads, upfiles, budget, jobs, collector, approved, serial, withdrawn>>

Sending(u, phase) == transfers[u].live /\ transfers[u].phase = phase /\ ~transfers[u].cancel

ClientBegin(u, a) ==
  /\ Sending(u, "hashing")
  /\ \/ \E commits \in BOOLEAN : Begun(u, a, commits) /\ (Failed(u) \/ (commits /\ Answered(u, uploads'[u].state)))
     \/ /\ Unlocked /\ uploads[u] # NoRow /\ uploads[u].asset = a /\ uploads[u].state # "corrupt"
        /\ UNCHANGED <<objects, partials, quarantined, refs, uploads, upfiles, budget, jobs, collector, approved, serial, withdrawn>>
        /\ Answered(u, uploads[u].state)

ClientChunk(u) ==
  LET offset == transfers[u].offset IN
  /\ Sending(u, "uploading")
  /\ \E n \in 1..(Size - offset), length \in 0..Size, commits \in BOOLEAN :
       /\ Written(u, offset, [i \in 1..n |-> TRUE], length, commits)
       /\ Failed(u) \/ (commits /\ Answered(u, "uploading"))

ClientRefers(u) == Sending(u, "uploading") /\ transfers[u].offset = Size /\ Referred(u) /\ UNCHANGED transfers

ClientFinish(u) ==
  /\ Sending(u, "uploading") /\ transfers[u].offset = Size
  /\ \E commits \in BOOLEAN : Published(u, commits) /\ (Failed(u) \/ (commits /\ Answered(u, "verified")))

(* Another session of the same user sends its own blocks under the same id. *)
Intruder(u, block) ==
  /\ uploads[u] # NoRow
  /\ Written(u, uploads[u].received, block, uploads[u].received + Len(block), TRUE) /\ UNCHANGED transfers

----------------------------------------------------------------------------
(* Collection. *)

Free(a) == Names(a) = {}
Plan == {<<a, objects[a].ino>> : a \in {b \in Assets : objects[b] # NoFile /\ Free(b)}}
(* The name without the identity. *)
SameName(item) == objects[item[1]] # NoFile /\ Free(item[1])
Intact(item) == objects[item[1]] # NoFile /\ objects[item[1]].ino = item[2] /\ Free(item[1])
Pending(j) == {item \in jobs[j].items : item[1] \notin jobs[j].tried}
Resumable(j) == Pending(j) # {} /\ \A item \in Pending(j) : Intact(item)

GcPreview ==
  /\ Unlocked /\ approved # Plan
  /\ approved' = Plan
  /\ UNCHANGED <<objects, partials, quarantined, refs, uploads, upfiles, budget, jobs, collector, transfers, serial, withdrawn>>

GcStart(j) ==
  /\ Unlocked /\ jobs[j] = NoRow /\ approved = Plan
  /\ jobs' = [jobs EXCEPT ![j] = [items |-> Plan, tried |-> {}, done |-> {}]]
  /\ collector' = [job |-> j, at |-> "next", asset |-> NoFile]
  /\ UNCHANGED <<objects, partials, quarantined, refs, uploads, upfiles, budget, approved, transfers, serial, withdrawn>>

GcResume(j) ==
  /\ Unlocked /\ jobs[j] # NoRow /\ Resumable(j)
  /\ collector' = [job |-> j, at |-> "next", asset |-> NoFile]
  /\ UNCHANGED <<objects, partials, quarantined, refs, uploads, upfiles, budget, jobs, approved, transfers, serial, withdrawn>>

GcAttempt(item) ==
  /\ ~Unlocked /\ collector.at = "next" /\ item \in Pending(collector.job) /\ Intact(item)
  /\ jobs' = [jobs EXCEPT ![collector.job].tried = @ \cup {item[1]}]
  /\ collector' = [collector EXCEPT !.at = "tried", !.asset = item[1]]
  /\ UNCHANGED <<objects, partials, quarantined, refs, uploads, upfiles, budget, approved, transfers, serial, withdrawn>>

(* The unlink may be refused; the object is then preserved. *)
GcUnlink ==
  /\ ~Unlocked /\ collector.at = "tried"
  /\ objects' \in {objects, [objects EXCEPT ![collector.asset] = NoFile]}
  /\ collector' = [collector EXCEPT !.at = "unlinked"]
  /\ UNCHANGED <<partials, quarantined, refs, uploads, upfiles, budget, jobs, approved, transfers, serial, withdrawn>>

GcResult ==
  /\ ~Unlocked /\ collector.at = "unlinked"
  /\ jobs' = [jobs EXCEPT ![collector.job].done = @ \cup {collector.asset}]
  /\ collector' = [collector EXCEPT !.at = "next", !.asset = NoFile]
  /\ UNCHANGED <<objects, partials, quarantined, refs, uploads, upfiles, budget, approved, transfers, serial, withdrawn>>

(* The process finishes its items, or dies anywhere; either way the lock is free. *)
GcEnds ==
  /\ ~Unlocked
  /\ collector' = NoRow
  /\ UNCHANGED <<objects, partials, quarantined, refs, uploads, upfiles, budget, jobs, approved, transfers, serial, withdrawn>>

CacheNext ==
  \/ \E o \in HeldUnder, a \in Assets : Pin(o, a) \/ Unpin(o, a)
  \/ \E m \in Budgets : BudgetApply(m)
  \/ \E a \in Assets : FetchEnds(a) \/ \E bits \in Block : Fetch(a, bits)
  \/ \E u \in Uploads : \/ ClientRun(u) \/ ClientCancel(u) \/ ClientEnds(u) \/ ClientChunk(u)
                        \/ ClientRefers(u) \/ ClientFinish(u)
                        \/ \E a \in Assets : ClientBegin(u, a)
                        \/ \E block \in Block : Intruder(u, block)
  \/ \E j \in Collections : GcStart(j) \/ GcResume(j)
  \/ \E a \in Assets, i \in 1..MaxSerial : GcAttempt(<<a, i>>)
  \/ GcPreview \/ GcUnlink \/ GcResult \/ GcEnds

CacheSpec == CacheInit /\ [][CacheNext]_cacheVars

----------------------------------------------------------------------------
(* What is published is right, and an upload that has not ended can always *)
(* be asked about and finished: either its file holds at least the blocks  *)
(* the row acknowledges, or its object is published and referred to        *)
(* (RemoteUploads.status, which refuses anything else), unless an operator *)
(* has taken its reference away, after which the object may be collected.  *)
UploadsAreRecoverable ==
  /\ \A a \in Assets : objects[a] # NoFile => Right(objects[a].bits)
  /\ \A u \in Uploading :
       IF upfiles[u] # NoFile THEN uploads[u].received <= Len(upfiles[u])
       ELSE /\ uploads[u].received = Size
            /\ (<<u, uploads[u].asset>> \in refs /\ Whole(uploads[u].asset)) \/ u \in withdrawn

(* A client's ledger that says verified is about an object the server      *)
(* still holds and protects (ClientAssets.run; collection in between),     *)
(* unless an operator has taken the reference of that very upload away.    *)
VerifiedIsHeld ==
  \A u \in Uploads : transfers[u].phase = "verified" =>
    /\ uploads[u] # NoRow /\ uploads[u].state = "verified"
    /\ (Whole(uploads[u].asset) /\ <<u, uploads[u].asset>> \in refs) \/ u \in withdrawn

(* With a budget, the payload and all that accepted uploads may still      *)
(* write stay within it, though rows and files disagree after a crash.  (A *)
(* promotion cut before its commit is counted twice by _usage; not here.)  *)
WithinBudget ==
  budget = 0 \/ Payload + Cardinality(Awaited({u \in Uploading : upfiles[u] # NoFile})) <= budget

(* An object disappears only while nobody refers to it, as the very file   *)
(* the job recorded, and never for an attempt an earlier run left open.    *)
CollectedWasApproved ==
  [][\A a \in Assets : objects[a] # NoFile /\ objects'[a] # objects[a] =>
       /\ objects'[a] = NoFile /\ Names(a) = {}
       /\ \E j \in Collections : jobs[j] # NoRow /\ <<a, objects[a].ino>> \in jobs[j].items /\ a \notin jobs[j].done]_cacheVars

(* The cache keeps what it has promised, but to uploads whose reference an  *)
(* operator removed: uploads go on, what a client calls verified is there,  *)
(* and the budget suffices for all that was accepted                        *)
(* (RemoteUploads, ContentCache.admit).                                    *)
PromisesAreKept == UploadsAreRecoverable /\ VerifiedIsHeld /\ WithinBudget
=============================================================================
