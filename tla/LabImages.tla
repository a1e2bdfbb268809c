----------------------------- MODULE LabImages -----------------------------
(***************************************************************************)
(* The registrations of LabManager (tools/ctflab.py): user profiles, base  *)
(* images and NVRAM templates, as they are written by onboard, import,     *)
(* content packs of several nodes with their rollback, apply-matrix,       *)
(* deregister and remove-image.                                            *)
(*                                                                         *)
(* import, packs, the boot matrix and apply-matrix hold the operation      *)
(* lock, and remove-image does while it removes the image.  onboard, when  *)
(* it publishes the profile, deregister, the end of remove-image and the   *)
(* user's editor do not.                                                   *)
(***************************************************************************)
EXTENDS Naturals, FiniteSets

CONSTANTS Nodes,      \* profile names; a pack has one node of each
          PackSource, OtherSource,   \* disks that can be imported
          MaxVersion, \* bound on contents of profiles
          NoImage

ASSUME LabImagesAssumption ==
  /\ PackSource # OtherSource /\ MaxVersion \in Nat \ {0}
  /\ NoImage \notin [source : {PackSource, OtherSource}, vars : BOOLEAN]

VARIABLES yaml,     \* the content of each user profile, 0 without a file, 1 as in the pack
          versions, \* contents of profiles so far
          registered,    \* image.json of each node, or NoImage
          published,    \* the base files of each node
          templates,     \* the nodes with the pack's NVRAM template in their directory
          task,     \* the command that holds the lock
          report,   \* a report that a matrix has written, or NoImage
          leaving,  \* nodes whose profile a command without the lock is about to remove
          raced,    \* history: nodes whose profile such a command took from their image, or from a pack or import
          ruined    \* history: nodes whose image a removal that died has left in part

imagesVars == <<yaml, versions, registered, published, templates, task, report, leaving, raced, ruined>>

Sources == {PackSource, OtherSource}
NoTask == [op |-> "idle", at |-> "", node |-> NoImage, source |-> NoImage, left |-> {}, made |-> {},
           read |-> 0, seen |-> 0, loaded |-> 0, slip |-> FALSE]

ImagesInit ==
  /\ yaml = [n \in Nodes |-> 0] /\ versions = 1
  /\ registered = [n \in Nodes |-> NoImage] /\ published = [n \in Nodes |-> {}] /\ templates = {}
  /\ task = NoTask
  /\ report = NoImage /\ leaving = {} /\ raced = {} /\ ruined = {}

ImagesIdle == task = NoTask
ImagesAt(op, at) == task.op = op /\ task.at = at
ImagesGo(at) == task' = [task EXCEPT !.at = at]
ImagesFinish == task' = NoTask
ImageFiles == <<registered, published, templates>>
Profiled == <<yaml, versions>>
History == <<raced, ruined>>
Files == <<ImageFiles, Profiled, History, leaving, report>>

-----------------------------------------------------------------------------
(* Without the lock: onboard publishes a profile that is not there, an editor
   changes one, deregister finds that one has no image and removes it later, and
   so does remove-image, whatever was done between. *)

(* Between loading the profile and hashing it, reading its bytes and its
   identity, and comparing the identity and replacing it, a matrix and
   apply-matrix do not notice a change; the history notes that there was one. *)
Unwatched(n) ==
  /\ task.node = n
  /\ <<task.op, task.at>> \in {<<"matrix", "hash">>, <<"apply", "identify">>, <<"apply", "replace">>}

Slip(n) == task' = IF Unwatched(n) THEN [task EXCEPT !.slip = TRUE] ELSE task

NewVersion(n) ==
  /\ versions < MaxVersion
  /\ versions' = versions + 1
  /\ yaml' = [yaml EXCEPT ![n] = versions + 1]

Onboard(n) ==
  /\ yaml[n] = 0
  /\ NewVersion(n) /\ Slip(n)
  /\ raced' = IF task.op = "pack" THEN raced ELSE raced \ {n}
  /\ UNCHANGED <<ImageFiles, report, leaving, ruined>>

Edit(n) ==
  /\ yaml[n] > 0
  /\ NewVersion(n) /\ Slip(n)
  /\ UNCHANGED <<ImageFiles, History, report, leaving>>

DeregisterChecks(n) ==
  /\ yaml[n] > 0 /\ registered[n] = NoImage
  /\ leaving' = leaving \cup {n}
  /\ UNCHANGED <<ImageFiles, Profiled, History, task, report>>

Wanted(n) == registered[n] # NoImage \/ task.op = "pack" \/ (task.op = "import" /\ task.node = n)

UnlinkProfile(n) ==
  /\ n \in leaving
  /\ yaml' = [yaml EXCEPT ![n] = 0] /\ Slip(n)
  /\ leaving' = leaving \ {n}
  /\ raced' = IF Wanted(n) THEN raced \cup {n} ELSE raced
  /\ UNCHANGED <<ImageFiles, versions, report, ruined>>

-----------------------------------------------------------------------------
(* import: reuses the base of the same source, publishes it otherwise, and
   then writes image.json.  In a pack it is the third step of a node. *)
ImportImage(n, s) ==
  /\ ImagesIdle
  /\ yaml[n] > 0
  /\ task' = [NoTask EXCEPT !.op = "import", !.at = "base", !.node = n, !.source = s]
  /\ UNCHANGED Files

Reusable(n, s) == registered[n] # NoImage /\ registered[n].source = s /\ s \in published[n]

PublishBase ==
  /\ task.at = "base"
  /\ yaml[task.node] > 0 /\ ~ Reusable(task.node, task.source)
  /\ published' = [published EXCEPT ![task.node] = @ \cup {task.source}]
  /\ ImagesGo("register")
  /\ UNCHANGED <<Profiled, History, registered, templates, leaving, report>>

(* A node that has been imported keeps its files whatever happens later. *)
Uncommitted(n) == task.made
Committed(n) == {f \in task.made : f[2] # n}

ImportDone == IF task.op = "pack"
              THEN task' = [task EXCEPT !.at = "update", !.made = Committed(task.node)]
              ELSE ImagesFinish

ReuseBase ==
  /\ task.at = "base"
  /\ yaml[task.node] > 0 /\ Reusable(task.node, task.source)
  /\ ImportDone
  /\ UNCHANGED Files

RegisterImage ==
  /\ task.at = "register"
  /\ registered' = [registered EXCEPT ![task.node] = [source |-> task.source, vars |-> FALSE]]
  /\ ruined' = ruined \ {task.node}
  /\ ImportDone
  /\ UNCHANGED <<Profiled, published, templates, leaving, report, raced>>

-----------------------------------------------------------------------------
(* install_content_pack: every profile must be free or identical before
   anything is written. *)
PackBegins ==
  /\ ImagesIdle
  /\ \A n \in Nodes : yaml[n] \in {0, 1}
  /\ task' = [NoTask EXCEPT !.op = "pack", !.at = "profiles",
                            !.left = {n \in Nodes : yaml[n] = 0}, !.source = PackSource]
  /\ UNCHANGED Files

(* A link that does not overwrite what has appeared meanwhile. *)
PackProfile(n) ==
  /\ ImagesAt("pack", "profiles") /\ n \in task.left
  /\ yaml[n] = 0
  /\ yaml' = [yaml EXCEPT ![n] = 1]
  /\ task' = [task EXCEPT !.left = @ \ {n}, !.made = @ \cup {<<"yaml", n>>}]
  /\ UNCHANGED <<ImageFiles, History, versions, leaving, report>>

PackNodes ==
  /\ ImagesAt("pack", "profiles") /\ task.left = {}
  /\ task' = [task EXCEPT !.at = "node", !.left = Nodes]
  /\ UNCHANGED Files

PackVars(n) ==
  /\ ImagesAt("pack", "node") /\ n \in task.left
  /\ templates' = templates \cup {n}
  /\ task' = [task EXCEPT !.at = "base", !.node = n, !.left = @ \ {n},
                          !.made = IF n \in templates THEN @ ELSE @ \cup {<<"vars", n>>}]
  /\ UNCHANGED <<Profiled, History, registered, published, leaving, report>>

PackUpdate ==
  /\ ImagesAt("pack", "update")
  /\ registered' = [registered EXCEPT ![task.node].vars = TRUE]
  /\ ImagesGo("node")
  /\ UNCHANGED <<Profiled, History, published, templates, leaving, report>>

PackEnds ==
  /\ ImagesAt("pack", "node") /\ task.left = {}
  /\ ImagesFinish
  /\ UNCHANGED Files

(* Any error removes what this run made for nodes it has not committed; a
   process that dies on the way leaves the rest. *)
PackFails ==
  /\ task.op = "pack"
  /\ \E gone \in SUBSET task.made :
       /\ yaml' = [n \in Nodes |-> IF <<"yaml", n>> \in gone THEN 0 ELSE yaml[n]]
       /\ templates' = {n \in templates : <<"vars", n>> \notin gone}
  /\ ImagesFinish
  /\ UNCHANGED <<History, versions, registered, published, leaving, report>>

-----------------------------------------------------------------------------
(* A boot matrix loads the profile that its candidates are made from, hashes
   the file, and compares the hash again before it reports.  Nothing but
   apply-matrix reads a report, so one of them is enough. *)
MatrixLoads(n) ==
  /\ ImagesIdle
  /\ yaml[n] > 0 /\ registered[n] # NoImage
  /\ task' = [NoTask EXCEPT !.op = "matrix", !.at = "hash", !.node = n, !.loaded = yaml[n]]
  /\ UNCHANGED Files

Present(n) == yaml[n] > 0

MatrixHashes ==
  /\ ImagesAt("matrix", "hash")
  /\ Present(task.node)
  /\ task' = [task EXCEPT !.at = "report", !.read = yaml[task.node]]
  /\ UNCHANGED Files

MatrixReports ==
  /\ ImagesAt("matrix", "report")
  /\ yaml[task.node] = task.read
  /\ report' = [node |-> task.node, yaml |-> task.read, probed |-> task.loaded,
                source |-> registered[task.node].source, slip |-> task.slip]
  /\ ImagesFinish
  /\ UNCHANGED <<ImageFiles, Profiled, History, leaving>>

(* apply_matrix_candidate reads the profile and its identity one after the
   other, compares hash and base with the report, loads the profile to change
   it, compares the identity again and replaces the file. *)
ApplyReads(n) ==
  /\ ImagesIdle
  /\ Present(n) /\ report # NoImage /\ report.node = n
  /\ task' = [NoTask EXCEPT !.op = "apply", !.at = "identify", !.node = n, !.read = yaml[n]]
  /\ UNCHANGED Files

ApplyIdentifies ==
  /\ ImagesAt("apply", "identify")
  /\ Present(task.node)
  /\ task.read = report.yaml
  /\ Reusable(task.node, report.source)
  /\ task' = [task EXCEPT !.at = "load", !.seen = yaml[task.node]]
  /\ UNCHANGED Files

ApplyLoads ==
  /\ ImagesAt("apply", "load")
  /\ Present(task.node)
  /\ task' = [task EXCEPT !.at = "check", !.loaded = yaml[task.node]]
  /\ UNCHANGED Files

Unchanged(n) == yaml[n] = task.seen

ApplyChecks ==
  /\ ImagesAt("apply", "check")
  /\ Unchanged(task.node)
  /\ ImagesGo("replace")
  /\ UNCHANGED Files

ApplyReplaces ==
  /\ ImagesAt("apply", "replace")
  /\ NewVersion(task.node)
  /\ ImagesFinish
  /\ UNCHANGED <<ImageFiles, History, leaving, report>>

-----------------------------------------------------------------------------
(* remove-image: the directory of the image under the lock, and the profile
   without it (UnlinkProfile). *)
RemoveBegins(n) ==
  /\ ImagesIdle
  /\ registered[n] # NoImage
  /\ task' = [NoTask EXCEPT !.op = "remove", !.at = "rmtree", !.node = n]
  /\ UNCHANGED Files

RemoveDirectory ==
  /\ ImagesAt("remove", "rmtree")
  /\ registered' = [registered EXCEPT ![task.node] = NoImage]
  /\ published' = [published EXCEPT ![task.node] = {}]
  /\ templates' = templates \ {task.node}
  /\ ruined' = ruined \ {task.node} /\ raced' = raced \ {task.node}
  /\ leaving' = leaving \cup {task.node}
  /\ ImagesFinish
  /\ UNCHANGED <<Profiled, report>>

RemovalDies ==
  /\ ImagesAt("remove", "rmtree")
  /\ published' = [published EXCEPT ![task.node] = {}]
  /\ templates' \in {templates, templates \ {task.node}}
  /\ ruined' = ruined \cup {task.node}
  /\ ImagesFinish
  /\ UNCHANGED <<Profiled, registered, report, leaving, raced>>

CommandEnds ==
  /\ ~ ImagesIdle
  /\ ImagesFinish
  /\ UNCHANGED Files

ImagesNext ==
  \/ \E n \in Nodes :
       \/ Onboard(n) \/ Edit(n) \/ DeregisterChecks(n) \/ UnlinkProfile(n)
       \/ \E s \in Sources : ImportImage(n, s)
       \/ PackProfile(n) \/ PackVars(n)
       \/ MatrixLoads(n) \/ ApplyReads(n) \/ RemoveBegins(n)
  \/ ReuseBase \/ PublishBase \/ RegisterImage
  \/ PackBegins \/ PackNodes \/ PackUpdate \/ PackEnds \/ PackFails
  \/ MatrixHashes \/ MatrixReports
  \/ ApplyIdentifies \/ ApplyLoads \/ ApplyChecks \/ ApplyReplaces
  \/ RemoveDirectory \/ RemovalDies \/ CommandEnds

ImagesSpec == ImagesInit /\ [][ImagesNext]_imagesVars

-----------------------------------------------------------------------------
(* RegisteredIsComplete: what image.json names is there, the base and the NVRAM
   template, whatever packs failed and rolled back in between, except where a
   removal died halfway; and so is the profile, unless a deregister or
   remove-image unlinked it that had looked before the import or pack. *)
RegisteredIsComplete ==
  \A n \in Nodes \ ruined : registered[n] # NoImage =>
    /\ registered[n].source \in published[n]
    /\ registered[n].vars => n \in templates
    /\ yaml[n] > 0 \/ n \in raced

(* AppliedWasProbed: the profile that apply-matrix replaces, and that it has
   loaded to change, is the very one that the matrix was run with, on the base
   that is registered; no edit is overwritten, unless one fell into an instant
   in which this matrix or apply-matrix does not look (Unwatched). *)
AppliedWasProbed ==
  [][ImagesAt("apply", "replace") /\ yaml' # yaml /\ task' = NoTask /\ ~task.slip /\ ~report.slip =>
       /\ report.node = task.node /\ report.source = registered[task.node].source
       /\ {report.yaml, report.probed, task.loaded} = {yaml[task.node]}]_imagesVars
=============================================================================
