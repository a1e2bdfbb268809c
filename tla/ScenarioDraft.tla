---------------------------- MODULE ScenarioDraft ----------------------------
(***************************************************************************)
(* The draft of a scenario that a user edits on the canvas, with its undo  *)
(* history, and the validation that stands between a draft and a file: the *)
(* editor changes a copy, the service computes what it thinks of it, and   *)
(* only what the service accepted is exported or qualified as a template.  *)
(* A network is the set of its usable addresses; a machine is what it      *)
(* depends on and its address in each network.  Hardware, images, MACs and *)
(* texts are left out.  Bounds: MaxEdits revisions of drafts.              *)
(***************************************************************************)
EXTENDS Naturals, Sequences, FiniteSets, Functions

CONSTANTS
  Machines, Networks,        \* names
  Ranges,                    \* the address ranges a user may type: sets of addresses
  NoAddress,
  Sources,                   \* the manifests an instance may have been made from
  UndoLimit, MaxEdits

VARIABLES
  source, generation,        \* the instance: its manifest and its active generation
  here,                      \* sceneDraftContext = sceneInstance
  past, present, future,     \* sceneDraftHistory; sceneDraft, as a set of at most one
  revision, diff,            \* sceneDraftRevision; sceneDraftDiff: the reply that was accepted, or nothing
  asking,                    \* the validation under way: its revision, its manifest and what the service says
  exported, acceptance, qualified  \* files: exported drafts, a record of an acceptance, a qualification

draftVars == <<source, generation, here, past, present, future, revision, diff, asking, exported, acceptance, qualified>>
instanceVars == <<source, generation>>
fileVars == <<exported, acceptance, qualified>>

-----------------------------------------------------------------------------
(* What a manifest is: its networks, the address kept for an external machine, and its machines. *)
Members(m) == DOMAIN m.nodes
Nets(m) == DOMAIN m.nets
Nics(m, n) == m.nodes[n].nics
Addresses(m) == UNION {Range(Nics(m, n)) : n \in Members(m)}

Acyclic(m) == \A S \in SUBSET Members(m) : S # {} => \E n \in S : m.nodes[n].deps \cap S = {}
RangesDisjoint(m) == \A x, y \in Nets(m) : x # y => m.nets[x] \cap m.nets[y] = {}
DependsOnOthers(m) == \A n \in Members(m) : m.nodes[n].deps \subseteq Members(m) \ {n}
AddressesFit(m) == \A n \in Members(m) : DOMAIN Nics(m, n) \subseteq Nets(m) /\ \A x \in DOMAIN Nics(m, n) : Nics(m, n)[x] \in m.nets[x]
AddressesDiffer(m) ==
  \A n, o \in Members(m) : \A x \in DOMAIN Nics(m, n), y \in DOMAIN Nics(m, o) : n # o \/ x # y => Nics(m, n)[x] # Nics(m, o)[y]

IsManifest(m) ==
  /\ m \in [nets : {m.nets}, slot : Nat \cup {NoAddress}, nodes : {m.nodes}]
  /\ Nets(m) \subseteq Networks /\ m.nets \in [Nets(m) -> SUBSET Nat]
  /\ Members(m) \subseteq Machines /\ m.nodes \in [Members(m) -> Range(m.nodes)]
  /\ \A n \in Members(m) :
       /\ m.nodes[n] \in [deps : SUBSET Machines, nics : {Nics(m, n)}]
       /\ DOMAIN Nics(m, n) \subseteq Networks /\ Nics(m, n) \in [DOMAIN Nics(m, n) -> Nat]

(* The service's _validate. *)
validate_manifest(m) ==
  /\ Nets(m) # {} /\ Members(m) # {} /\ RangesDisjoint(m) /\ DependsOnOthers(m)
  /\ \A n \in Members(m) : DOMAIN Nics(m, n) # {}
  /\ AddressesFit(m) /\ AddressesDiffer(m) /\ m.slot \notin Addresses(m) /\ Acyclic(m)

(* An instance is made from a manifest that the service accepted. *)
ASSUME DraftAssumption ==
  /\ \A m \in Sources : IsManifest(m) /\ validate_manifest(m)
  /\ IsFiniteSet(Machines) /\ IsFiniteSet(Networks) /\ \A r \in Ranges : IsFiniteSet(r) /\ r \subseteq Nat
  /\ NoAddress \notin Nat /\ UndoLimit \in Nat \ {0} /\ MaxEdits \in Nat

-----------------------------------------------------------------------------
(* The edits of MacGraphDraft, each the manifests it can make of one. *)

Without(f, x) == [y \in DOMAIN f \ {x} |-> f[y]]
With(f, x, v) == [y \in DOMAIN f \cup {x} |-> IF y = x THEN v ELSE f[y]]
WithNode(m, n, v) == [m EXCEPT !.nodes = With(m.nodes, n, v)]
Lowest(S) == CHOOSE a \in S : \A b \in S : a <= b

(* The first address that no machine has. *)
Free(m, x) == m.nets[x] \ Addresses(m)
Attachable(m, n) == {x \in Nets(m) \ DOMAIN Nics(m, n) : Free(m, x) # {}}
Rewired(m, n, nics) == WithNode(m, n, [m.nodes[n] EXCEPT !.nics = nics])
Attached(m, n, nics, x) == Rewired(m, n, With(nics, x, Lowest(Free(m, x))))

connect(m, n) == {Attached(m, n, Nics(m, n), x) : x \in Attachable(m, n)}
reconnect(m, n) == {Attached(m, n, Without(Nics(m, n), o), x) : o \in DOMAIN Nics(m, n), x \in Attachable(m, n)}
disconnect(m, n) == {Rewired(m, n, Without(Nics(m, n), x)) : x \in DOMAIN Nics(m, n)}
addNode(m) == {WithNode(m, n, [deps |-> {}, nics |-> <<>>]) : n \in Machines \ Members(m)}
removeNode(m, n) == {[m EXCEPT !.nodes = [o \in Members(m) \ {n} |-> [m.nodes[o] EXCEPT !.deps = @ \ {n}]]]}
Dependent(m, n) == {WithNode(m, n, [m.nodes[n] EXCEPT !.deps = S]) : S \in SUBSET (Members(m) \ {n})}
dependenciesUnchecked(m, n) == Dependent(m, n)
dependencies(m, n) == {d \in Dependent(m, n) : Acyclic(d)}
removeNetwork(m) == {[m EXCEPT !.nets = Without(@, x)] : x \in {y \in Nets(m) : \A n \in Members(m) : y \notin DOMAIN Nics(m, n)}}
Fitting(m) == {r \in Ranges : \A y \in Nets(m) : r \cap m.nets[y] = {}}
addNetwork(m) == {[m EXCEPT !.nets = With(@, x, r)] : x \in Networks \ Nets(m), r \in Fitting(m)}

Edited(m) ==
  (UNION {connect(m, n) \cup reconnect(m, n) \cup disconnect(m, n) \cup removeNode(m, n) \cup dependencies(m, n) : n \in Members(m)})
    \cup addNode(m) \cup removeNetwork(m) \cup addNetwork(m)

-----------------------------------------------------------------------------
(* The page. *)

DraftInit ==
  /\ source \in Sources /\ generation = 1 /\ here = TRUE /\ past = <<>> /\ present = {} /\ future = <<>> /\ revision = 0
  /\ diff = {} /\ asking = {} /\ exported = {} /\ acceptance = {} /\ qualified = {}

Revised == revision < MaxEdits /\ revision' = revision + 1 /\ diff' = {}
Editing == asking = {} \/ \A a \in asking : a.late

sceneLoadDraft ==
  /\ Editing /\ Revised /\ here' = TRUE /\ present' = {source} /\ past' = <<>> /\ future' = <<>>
  /\ UNCHANGED <<instanceVars, asking, fileVars>>

Remembered(s, n) == IF Len(s) <= n THEN s ELSE SubSeq(s, Len(s) - n + 1, Len(s))
sceneEditDraft(m) ==
  /\ Editing /\ here /\ Revised
  /\ \E d \in Edited(m) :
       /\ present' = {d}
       /\ IF d = m THEN UNCHANGED <<past, future>> ELSE past' = Remembered(Append(past, m), UndoLimit) /\ future' = <<>>
  /\ UNCHANGED <<instanceVars, here, asking, fileVars>>

sceneUndo(m) ==
  /\ Editing /\ here /\ past # <<>> /\ Revised
  /\ present' = {past[Len(past)]} /\ past' = SubSeq(past, 1, Len(past) - 1) /\ future' = <<m>> \o future
  /\ UNCHANGED <<instanceVars, here, asking, fileVars>>
sceneRedo(m) ==
  /\ Editing /\ here /\ future # <<>> /\ Revised
  /\ present' = {Head(future)} /\ past' = Append(past, m) /\ future' = Tail(future)
  /\ UNCHANGED <<instanceVars, here, asking, fileVars>>

SelectScene ==
  /\ Editing /\ present # {} /\ here' = ~here
  /\ UNCHANGED <<instanceVars, past, present, future, revision, diff, asking, fileVars>>

sceneValidateDraft(m) ==
  /\ Editing /\ here /\ diff' = {}
  /\ asking' = asking \cup {[revision |-> revision, manifest |-> m, late |-> FALSE]}
  /\ UNCHANGED <<instanceVars, here, past, present, future, revision, fileVars>>

(* 30 s: the page is the user's again, and the answer will be dropped. *)
Waits(a) ==
  /\ ~a.late /\ asking' = (asking \ {a}) \cup {[a EXCEPT !.late = TRUE]}
  /\ UNCHANGED <<instanceVars, here, past, present, future, revision, diff, fileVars>>

draft_diff(m) == [manifest |-> m, next |-> generation + 1]
OfThisPage(a) == ~a.late /\ a.revision = revision /\ here

DraftAnswered(a) ==
  /\ asking' = asking \ {a}
  /\ diff' = IF validate_manifest(a.manifest) /\ OfThisPage(a) /\ present = {a.manifest} THEN {draft_diff(a.manifest)} ELSE diff
  /\ UNCHANGED <<instanceVars, here, past, present, future, revision, fileVars>>

Validated(m) == here /\ \E d \in diff : d.manifest = m
sceneExportDraft(m) ==
  /\ Validated(m) /\ m \notin exported /\ exported' = exported \cup {m}
  /\ UNCHANGED <<instanceVars, here, past, present, future, revision, diff, asking, acceptance, qualified>>

-----------------------------------------------------------------------------
(* Templates: somebody accepts a scenario made from an exported file, and  *)
(* the acceptance is bound to that manifest and to the next generation.    *)

SomebodyAccepts(m) ==
  /\ acceptance = {} /\ m \in exported /\ acceptance' = {draft_diff(m)}
  /\ UNCHANGED <<instanceVars, here, past, present, future, revision, diff, asking, exported, qualified>>

check_acceptance(m) == draft_diff(m) \in acceptance

publish_qualification(m) ==
  /\ validate_manifest(m) /\ check_acceptance(m) /\ qualified = {} /\ qualified' = {draft_diff(m)}
  /\ UNCHANGED <<instanceVars, here, past, present, future, revision, diff, asking, exported, acceptance>>
verify_qualification(m) == draft_diff(m) \in qualified /\ check_acceptance(m)

Resets ==
  /\ generation = 1 /\ generation' = 2
  /\ UNCHANGED <<source, here, past, present, future, revision, diff, asking, fileVars>>

DraftNext ==
  \/ sceneLoadDraft \/ SelectScene \/ Resets
  \/ \E m \in present : \/ sceneEditDraft(m) \/ sceneUndo(m) \/ sceneRedo(m) \/ sceneValidateDraft(m) \/ sceneExportDraft(m)
                        \/ publish_qualification(m)
  \/ \E m \in exported : SomebodyAccepts(m)
  \/ \E a \in asking : Waits(a) \/ DraftAnswered(a)

DraftSpec == DraftInit /\ [][DraftNext]_draftVars

-----------------------------------------------------------------------------
(* However drafts are edited, undone and redone, they stay drafts of a     *)
(* network: no two addresses alike, none outside its network, no two       *)
(* networks that overlap, no machine that waits for itself or for one that *)
(* is gone.  That every machine has a network, and that none has the       *)
(* address kept for an external machine, is left to the service: no file   *)
(* is exported that it would refuse, and no template is qualified that was *)
(* not accepted as the very manifest and generation it is qualified for.   *)
DraftsAreSound ==
  /\ \A m \in present \cup Range(past) \cup Range(future) :
       RangesDisjoint(m) /\ DependsOnOthers(m) /\ AddressesFit(m) /\ AddressesDiffer(m) /\ Acyclic(m)
  /\ \A m \in exported : validate_manifest(m)
  /\ \A m \in exported \cup present : verify_qualification(m) => validate_manifest(m) /\ m \in exported

=============================================================================
