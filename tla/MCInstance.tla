----------------------------- MODULE MCInstance -----------------------------
(***************************************************************************)
(* An instance of a scenario, whose two nodes are started and stopped one  *)
(* after the other, and the pages of the application: the tasks of single  *)
(* machines, one group at a time, and the scene page, once reading the     *)
(* pages of its records and once asking for changes.  The theme chosen at  *)
(* the start names what moves.                                             *)
(***************************************************************************)
EXTENDS ScenarioInstanceProps, GuiTasks, GuiScene, TLC

CONSTANTS n1, n2, k1, k2, k3, k4, p1, p2, f1, f2, f3, Themes

VARIABLES theme

MCTwoNodes == <<n1, n2>>

(* Keys are interchangeable: the next new one is always the first that is unused. *)
KeyOrder == <<k1, k2, k3, k4>>
InOrder == \A n \in 2..Len(KeyOrder) : Fresh(KeyOrder[n - 1]) => Fresh(KeyOrder[n])

(* A content pack with one image, a folder that lists two, and one without any. *)
MCKind == f1 :> "pack" @@ f2 :> "list" @@ f3 :> "plain"
MCOffers == f1 :> {p1} @@ f2 :> {p1, p2} @@ f3 :> {}

Group ==
  [power |-> {"status", "check", "health", "stop", "restart", "relaunch", "preflight", "launch"},
   folders |-> {"status", "verify", "install", "import", "onboard"},
   wizard |-> {"status", "inspect", "candidate", "probe", "apply"},
   course |-> {"status", "preflight", "launch", "course", "reset"},
   care |-> {"status", "candidate", "snapshots", "backups", "recover", "checkpoint", "noderesets", "remove", "deregister", "display",
             "diagnose", "diagnostics", "stage", "select update", "launch update"}]

(* A folder is chosen while a task runs: among the folders and in the wizard, where a status that is read from then on *)
(* stays unanswered, and when the first node only runs, which is then checked and restarted; where that is not the     *)
(* question none is chosen.                                                                                            *)
GuiMove ==
  /\ GuiNext /\ \A t \in tasks' : t.op \in Group[theme]
  /\ theme \in {"course", "care"} => folder' = Nobody
  /\ theme \in {"power", "wizard"} => folder' \in {Nobody, f3} /\ (folder' = f3 => overlaps' = 1)
  /\ theme = "power" /\ folder' = f3 => pid'[p2] = 0 /\ shown'[p2] = 0 /\ \A t \in tasks' : t.node \in {p1, Nobody} /\ t.op \notin {"preflight", "stop"}
  /\ theme \in {"wizard", "folders"} /\ overlaps' = 1 => \A t \in tasks' : t.op = "status" => t.did = "waits"

(* Two calls at a time: those that read records, without the fixed chain; or those that ask for changes and read the status. *)
Records == {"overview", "events", "operation-history"}
SceneMove ==
  /\ SceneNext /\ Cardinality(calls') <= 2 /\ (\A c \in calls' : c.of # Unset)
  /\ theme = "records" =>
       tickets' <= 3 /\ generic' /\ (\A c \in calls' : c.action \in Records) /\ (\A v \in view' : v.result = "completed")
  /\ theme = "changes" =>
       /\ \A c \in calls' : c.action \notin Records \ {"overview"}
       /\ floor' = floor /\ lastEvent' = operations' /\ \A i \in Scenes : operations'[i] <= 1

MCInit == InstanceInit /\ GuiInit /\ SceneInit /\ theme \in Themes

MCNext ==
  /\ \/ theme = "instance" /\ InstanceNext /\ InOrder' /\ UNCHANGED <<guiVars, sceneVars>>
     \/ theme \in DOMAIN Group /\ GuiMove /\ UNCHANGED <<ivars, sceneVars>>
     \/ theme \in {"records", "changes"} /\ SceneMove /\ UNCHANGED <<ivars, guiVars>>
  /\ UNCHANGED theme

MCSpec == MCInit /\ [][MCNext]_<<ivars, guiVars, sceneVars, theme>>
=============================================================================
