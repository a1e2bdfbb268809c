------------------------------ MODULE GuiProofs ------------------------------
(***************************************************************************)
(* Theorems about the pages of the Mac application.  The tasks of single   *)
(* machines, for any profiles and folders: one at a time, but for those    *)
(* under which a folder is chosen.  The scene page, for any instances and  *)
(* bounds: what it shows is of the selected instance, however late the     *)
(* answers are.  Drafts of scenarios, for any manifests and edits: they    *)
(* stay sound, and so does what is made of them.                           *)
(***************************************************************************)
EXTENDS GuiTasks, GuiScene, ScenarioDraft, FiniteSetTheorems, SequenceTheorems,
        WellFoundedInduction, TLAPS

Shaped(t) ==
  t = [op |-> t.op, node |-> t.node, queue |-> t.queue, folder |-> t.folder, proof |-> t.proof, did |-> t.did, seen |-> t.seen,
       no |-> t.no, turn |-> t.turn]

(* What a task under way rests on, unless it was crossed: what it verifies is the folder of now, and the folder that was *)
(* scanned last when the import is to follow; what it imports was verified, what it applies or probes is the candidate.   *)
Founded(t) ==
  /\ t.op = "apply" => t.proof = t.node
  /\ t.op = "probe" => t.node = candidate
  /\ t.op = "verify" => t.folder = folder /\ (t.queue # <<>> => library = folder)
  /\ FromFolder(t) => t.proof = t.folder

Formed(t) == Shaped(t) /\ (t.op = "health" => t.node \in Profiles /\ t.queue \in Seq(Profiles))

Sound(t) ==
  /\ Formed(t) /\ t.turn \in Nat /\ t.turn <= Turn
  /\ ~Crossed(t) => Founded(t)

(* What is shown of an answer that is not in doubt. *)
ShownIsSound ==
  /\ "report" \notin doubt => report \in {Nobody, folder}
  /\ "matrix" \notin doubt => matrix \in {candidate, Nobody}

TasksIInv ==
  /\ TasksTakeTurns
  /\ overlaps \in Nat
  /\ ShownIsSound
  /\ \A t \in tasks : Sound(t)

(* The calls that a step makes: none when the page is free after it, one beside the status otherwise; and it rests on *)
(* what it should when the task it goes on with, or the answer it begins on, does.                                    *)
Sure(m, done) == IF done = {} THEN RestsOn(m.op) \cap doubt = {} ELSE \A t \in done : ~Crossed(t)

Begun(done, more) ==
  /\ \A m \in more : m.did = "waits" /\ Formed(m) /\ m.turn = 0 /\ (m.op # "status" /\ Sure(m, done) => Founded(m)')
  /\ \A m, n \in more : m.op # "status" /\ n.op # "status" => m = n
  /\ (\E m \in more : m.op # "status") => phase' \in Busy \/ (done # {} /\ phase' = phase)
  /\ (\A m \in more : m.op = "status") => phase' \notin Busy

(* A step of a task: the call it waited for is answered, or there was none. *)
Turns(done) == \E more : Moves(done, more) /\ Begun(done, more)

LEMMA RefreshIsStatus == Refresh \subseteq {One("status", Nobody)}
BY DEF Refresh

LEMMA StatusTicket ==
  /\ One("status", Nobody).op = "status" /\ One("status", Nobody).did = "waits" /\ One("status", Nobody).turn = 0
  /\ Formed(One("status", Nobody))
BY DEF One, Ticket, Formed, Shaped

LEMMA OrdinaryTicket ==
  ASSUME NEW op, op \notin {"apply", "probe", "verify", "install", "import", "onboard", "health"},
         NEW node, NEW queue, NEW from, NEW proof
  PROVE  Formed(Ticket(op, node, queue, from, proof)) /\ Founded(Ticket(op, node, queue, from, proof))'
BY DEF Formed, Founded, Shaped, Ticket, FromFolder

LEMMA ImportTicket ==
  ASSUME NEW op \in {"install", "import", "onboard"}, NEW node, NEW queue, NEW from, NEW proof
  PROVE  /\ Formed(Ticket(op, node, queue, from, proof))
         /\ (Kind[from] # "plain" => proof = from) => Founded(Ticket(op, node, queue, from, proof))'
BY DEF Formed, Founded, Shaped, Ticket, FromFolder

LEMMA HealthTicket ==
  ASSUME NEW node \in Profiles, NEW queue \in Seq(Profiles), NEW from, NEW proof
  PROVE  Formed(Ticket("health", node, queue, from, proof)) /\ Founded(Ticket("health", node, queue, from, proof))'
BY DEF Formed, Founded, Shaped, Ticket, FromFolder

LEMMA NothingFollows ==
  ASSUME NEW done, NEW more, more \subseteq {One("status", Nobody)}, phase' \notin Busy
  PROVE  Begun(done, more)
BY StatusTicket DEF Begun

LEMMA OneFollows ==
  ASSUME NEW done, NEW m, m.op # "status", m.did = "waits", m.turn = 0, Formed(m), Sure(m, done) => Founded(m)',
         phase' \in Busy \/ (done # {} /\ phase' = phase),
         NEW others, others \subseteq {One("status", Nobody)}
  PROVE  Begun(done, {m} \cup others)
BY StatusTicket DEF Begun

LEMMA OneFollowsAlone ==
  ASSUME NEW done, NEW m, m.op # "status", m.did = "waits", m.turn = 0, Formed(m), Sure(m, done) => Founded(m)',
         phase' \in Busy \/ (done # {} /\ phase' = phase)
  PROVE  Begun(done, {m})
BY DEF Begun

(* While the page is free, and beside a task that was crossed, every other one was crossed too. *)
LEMMA OthersAreCrossed ==
  ASSUME TasksTakeTurns
  PROVE  /\ phase \notin Busy => \A u \in tasks : u.op # "status" => Crossed(u)
         /\ \A t \in tasks : t.op # "status" => \A u \in tasks \ {t} : u.op # "status" => Crossed(u) /\ Crossed(t)
         /\ phase \in Busy => Underway # {}
BY DEF TasksTakeTurns, IsBusy, Underway

(* A call in its place is the same call, with its task's number and turn. *)
Numbered(m, no, turn) == [m EXCEPT !.no = no, !.turn = turn]

LEMMA Placing ==
  ASSUME NEW m, Formed(m), NEW no, NEW turn, NEW c, c = Numbered(m, no, turn)
  PROVE  /\ Formed(c) /\ c.op = m.op /\ c.did = m.did /\ c.turn = turn
         /\ Founded(m)' => Founded(c)'
<1>1. PICK op, node, queue, from, proof, did, seen, n, k :
        m = [op |-> op, node |-> node, queue |-> queue, folder |-> from, proof |-> proof, did |-> did, seen |-> seen, no |-> n, turn |-> k]
  BY DEF Formed, Shaped
<1>2. c = [op |-> op, node |-> node, queue |-> queue, folder |-> from, proof |-> proof, did |-> did, seen |-> seen, no |-> no, turn |-> turn]
  BY <1>1 DEF Numbered
<1>3. /\ c.op = m.op /\ c.node = m.node /\ c.queue = m.queue /\ c.folder = m.folder /\ c.proof = m.proof
      /\ c.did = m.did /\ c.turn = turn
  BY <1>1, <1>2
<1>4. Formed(c)
  BY <1>2, <1>3 DEF Formed, Shaped
<1>5. Founded(m)' => Founded(c)'
  BY <1>3 DEF Founded, FromFolder
<1> QED BY <1>3, <1>4, <1>5

(* What a task begins, or goes on with. *)
LEMMA PlacedCalls ==
  ASSUME NEW done, NEW more, \A m \in more : Formed(m) /\ m.turn = 0, NEW c \in Placed(more, done)
  PROVE  \E m \in more :
           /\ Formed(c) /\ c.op = m.op /\ c.did = m.did
           /\ Founded(m)' => Founded(c)'
           /\ m.op = "status" => c = m
           /\ m.op # "status" /\ done = {} => c = Begins(m) /\ c.turn = (IF Underway = {} /\ RestsOn(m.op) \cap doubt = {} THEN Turn ELSE 0)
           /\ \A t : m.op # "status" /\ done = {t} => c.turn = t.turn
<1>1. PICK m \in more : c = IF m.op = "status" THEN m ELSE IF done = {} THEN Begins(m) ELSE TaskGoesOn(m, CHOOSE t \in done : TRUE)
  BY DEF Placed
<1>2. CASE m.op = "status"
  BY <1>1, <1>2
<1>3. CASE m.op # "status" /\ done = {}
  <2>1. PICK no, turn : no = Unused /\ turn = IF Underway = {} /\ RestsOn(m.op) \cap doubt = {} THEN Turn ELSE 0
    OBVIOUS
  <2>2. c = Numbered(m, no, turn)
    BY <1>1, <1>3, <2>1 DEF Begins, Numbered
  <2>3. /\ Formed(c) /\ c.op = m.op /\ c.did = m.did /\ c.turn = turn
        /\ Founded(m)' => Founded(c)'
    BY <2>2, Placing
  <2> QED BY <1>1, <1>3, <2>1, <2>3
<1>4. CASE m.op # "status" /\ done # {}
  <2>1. PICK of : of = CHOOSE t \in done : TRUE
    OBVIOUS
  <2>2. PICK no, turn : no = of.no /\ turn = of.turn
    OBVIOUS
  <2>3. c = Numbered(m, no, turn)
    BY <1>1, <1>4, <2>1, <2>2 DEF TaskGoesOn, Numbered
  <2>4. /\ Formed(c) /\ c.op = m.op /\ c.did = m.did /\ c.turn = turn
        /\ Founded(m)' => Founded(c)'
    BY <2>3, Placing
  <2>5. ASSUME NEW t, done = {t} PROVE of = t
    BY <2>1, <2>5
  <2> QED BY <1>4, <2>2, <2>4, <2>5
<1> QED BY <1>2, <1>3, <1>4

LEMMA Succeeds == \A k \in Nat : k + 1 # 0
OBVIOUS

(* A task begins: when the page is free, or when a folder is chosen. *)
LEMMA BeginKeeps ==
  ASSUME TasksIInv, Turns({}), ShownIsSound', \/ phase \notin Busy /\ overlaps' = overlaps
                                              \/ phase \in Busy /\ overlaps' = overlaps + 1
  PROVE  TasksIInv'
<1>1. PICK more : Moves({}, more) /\ Begun({}, more)
  BY DEF Turns
<1>2. overlaps \in Nat /\ overlaps' \in Nat /\ \A t \in tasks : Sound(t)
  BY DEF TasksIInv
<1>3. ASSUME NEW t \in tasks PROVE Sound(t)' /\ (t.op # "status" => Crossed(t)')
  <2>1. Formed(t) /\ t.turn \in Nat /\ t.turn <= overlaps + 1
    BY <1>2 DEF Sound, Turn
  <2>2. t.op # "status" => t.turn # overlaps' + 1
    BY <1>2, <2>1, OthersAreCrossed DEF TasksIInv, Crossed, Turn
  <2>3. ASSUME t.op = "status" PROVE Founded(t)'
    BY <2>3 DEF Founded, FromFolder
  <2> QED BY <1>2, <2>1, <2>2, <2>3 DEF Sound, Crossed, Turn, Formed, Shaped
<1>4. ASSUME NEW c \in Placed(more, {})
      PROVE  /\ Sound(c)' /\ (\E m \in more : c.op = m.op)
             /\ c.op # "status" /\ ~Crossed(c)' => Underway = {} /\ phase' \in Busy /\ \A d \in Placed(more, {}) : d.op # "status" => d = c
  <2>1. \A m \in more : Formed(m) /\ m.turn = 0
    BY <1>1 DEF Begun
  <2>2. PICK m \in more :
           /\ Formed(c) /\ c.op = m.op /\ c.did = m.did
           /\ Founded(m)' => Founded(c)'
           /\ m.op = "status" => c = m
           /\ m.op # "status" => c = Begins(m) /\ c.turn = (IF Underway = {} /\ RestsOn(m.op) \cap doubt = {} THEN Turn ELSE 0)
    BY <2>1, PlacedCalls
  <2>3. c.turn \in Nat /\ c.turn <= overlaps' + 1
    BY <1>2, <2>1, <2>2 DEF Turn
  <2>4. ASSUME c.op = "status" PROVE Founded(c)'
    BY <2>4 DEF Founded, FromFolder
  <2>5. ASSUME c.op # "status", ~Crossed(c)'
        PROVE  Founded(c)' /\ Underway = {} /\ phase' \in Busy /\ \A d \in Placed(more, {}) : d.op # "status" => d = c
    <3>1. c.turn = overlaps' + 1
      BY <2>5 DEF Crossed, Turn
    <3>2. Underway = {} /\ RestsOn(m.op) \cap doubt = {}
      <4>0. PICK k \in Nat : k = overlaps'
        BY <1>2
      <4>1. k + 1 # 0
        BY Succeeds
      <4>2. c.turn = k + 1
        BY <3>1, <4>0
      <4> QED BY <2>2, <2>5, <4>1, <4>2
    <3>3. Founded(m)' /\ phase' \in Busy
      BY <1>1, <2>2, <2>5, <3>2 DEF Begun, Sure
    <3>4. ASSUME NEW d \in Placed(more, {}), d.op # "status" PROVE d = c
      <4>1. PICK n \in more : d.op = n.op /\ (n.op # "status" => d = Begins(n))
        BY <2>1, PlacedCalls
      <4>2. n = m
        BY <1>1, <2>2, <2>5, <3>4, <4>1 DEF Begun
      <4> QED BY <2>2, <2>5, <3>4, <4>1, <4>2
    <3> QED BY <2>2, <3>2, <3>3, <3>4
  <2> QED BY <2>2, <2>3, <2>4, <2>5 DEF Sound, Turn, Formed, Shaped
<1>5. tasks' = tasks \cup Placed(more, {})
  BY <1>1 DEF Moves
<1>6. TasksTakeTurns'
  <2>1. ASSUME phase' \in Busy PROVE \E c \in tasks' : c.op # "status"
    <3>1. PICK m \in more : m.op # "status"
      BY <1>1, <2>1 DEF Begun
    <3>2. PICK c : c = Begins(m)
      OBVIOUS
    <3>3. c \in Placed(more, {})
      BY <3>1, <3>2 DEF Placed
    <3>4. c.op = m.op
      <4>1. Formed(m)
        BY <1>1 DEF Begun
      <4>2. PICK no, turn : c = Numbered(m, no, turn)
        BY <3>2 DEF Begins, Numbered
      <4> QED BY <4>1, <4>2, Placing
    <3> QED BY <1>5, <3>1, <3>3, <3>4
  <2>2. ASSUME NEW c \in tasks', c.op # "status", ~Crossed(c)'
        PROVE  /\ phase' \in Busy /\ \A d \in tasks' : d.op # "status" => d = c
               /\ c.op = "apply" => c.proof = c.node
    <3>1. c \in Placed(more, {})
      BY <1>3, <1>5, <2>2
    <3>2. Underway = {} /\ phase' \in Busy /\ \A d \in Placed(more, {}) : d.op # "status" => d = c
      BY <1>4, <2>2, <3>1
    <3>3. Founded(c)'
      BY <1>4, <2>2, <3>1 DEF Sound
    <3> QED BY <1>5, <3>2, <3>3 DEF Underway, Founded
  <2> QED BY <2>1, <2>2 DEF TasksTakeTurns, IsBusy, Underway
<1> QED BY <1>2, <1>3, <1>4, <1>5, <1>6 DEF TasksIInv

(* A task goes on, or ends. *)
LEMMA GoesOnKeeps ==
  ASSUME TasksIInv, NEW t \in tasks, t.op # "status", Turns({t}), ShownIsSound', overlaps' = overlaps
  PROVE  TasksIInv'
<1>1. PICK more : Moves({t}, more) /\ Begun({t}, more)
  BY DEF Turns
<1>2. overlaps \in Nat /\ Turn' = Turn /\ \A u \in tasks : Sound(u)
  BY DEF TasksIInv, Turn
<1>3. ASSUME NEW u \in tasks \ {t} PROVE Sound(u)' /\ (u.op # "status" => Crossed(u)' /\ Crossed(t))
  <2>1. u.op # "status" => Crossed(u) /\ Crossed(t)
    BY OthersAreCrossed DEF TasksIInv
  <2>2. ASSUME u.op = "status" PROVE Founded(u)'
    BY <2>2 DEF Founded, FromFolder
  <2> QED BY <1>2, <2>1, <2>2 DEF Sound, Crossed, Formed, Shaped
<1>4. \A m \in more : Formed(m) /\ m.turn = 0
  BY <1>1 DEF Begun
<1>5. ASSUME NEW c \in Placed(more, {t})
      PROVE  /\ Sound(c)'
             /\ c.op # "status" /\ ~Crossed(c)' => ~Crossed(t) /\ \A d \in Placed(more, {t}) : d.op # "status" => d = c
  <2>1. PICK m \in more :
           /\ Formed(c) /\ c.op = m.op /\ c.did = m.did
           /\ Founded(m)' => Founded(c)'
           /\ m.op = "status" => c = m
           /\ m.op # "status" => c.turn = t.turn
    BY <1>4, PlacedCalls
  <2>2. c.turn \in Nat /\ c.turn <= Turn
    BY <1>2, <1>4, <2>1 DEF Turn, Sound
  <2>3. ASSUME c.op = "status" PROVE Founded(c)'
    BY <2>3 DEF Founded, FromFolder
  <2>4. ASSUME c.op # "status", ~Crossed(c)'
        PROVE  Founded(c)' /\ ~Crossed(t) /\ \A d \in Placed(more, {t}) : d.op # "status" => d = c
    <3>1. ~Crossed(t)
      BY <1>2, <2>1, <2>4 DEF Crossed
    <3>2. Founded(m)'
      BY <1>1, <2>1, <2>4, <3>1 DEF Begun, Sure
    <3>3. ASSUME NEW d \in Placed(more, {t}), d.op # "status" PROVE d = c
      <4>1. PICK n \in more : d = IF n.op = "status" THEN n ELSE TaskGoesOn(n, CHOOSE u \in {t} : TRUE)
        BY DEF Placed
      <4>2. PICK k \in more : c = IF k.op = "status" THEN k ELSE TaskGoesOn(k, CHOOSE u \in {t} : TRUE)
        BY DEF Placed
      <4>3. n.op # "status" /\ k.op # "status"
        BY <2>4, <3>3, <4>1, <4>2
      <4>4. n = k
        BY <1>1, <4>3 DEF Begun
      <4> QED BY <4>1, <4>2, <4>3, <4>4
    <3> QED BY <2>1, <3>1, <3>2, <3>3
  <2> QED BY <1>2, <2>1, <2>2, <2>3, <2>4 DEF Sound, Formed, Shaped
<1>6. tasks' = (tasks \ {t}) \cup Placed(more, {t})
  BY <1>1 DEF Moves
<1>7. TasksTakeTurns'
  <2>1. ASSUME phase' \in Busy PROVE \E c \in tasks' : c.op # "status"
    <3>1. PICK m \in more : m.op # "status"
      BY <1>1, <2>1 DEF Begun
    <3>2. PICK c : c = TaskGoesOn(m, CHOOSE u \in {t} : TRUE)
      OBVIOUS
    <3>3. c \in Placed(more, {t})
      BY <3>1, <3>2 DEF Placed
    <3>4. c.op = m.op
      <4>1. PICK no, turn : c = Numbered(m, no, turn)
        BY <3>2 DEF TaskGoesOn, Numbered
      <4> QED BY <1>4, <4>1, Placing
    <3> QED BY <1>6, <3>1, <3>3, <3>4
  <2>2. ASSUME NEW c \in tasks', c.op # "status", ~Crossed(c)'
        PROVE  /\ phase' \in Busy /\ \A d \in tasks' : d.op # "status" => d = c
               /\ c.op = "apply" => c.proof = c.node
    <3>1. c \in Placed(more, {t})
      BY <1>3, <1>6, <2>2
    <3>2. ~Crossed(t) /\ \A d \in Placed(more, {t}) : d.op # "status" => d = c
      BY <1>5, <2>2, <3>1
    <3>3. Founded(c)'
      BY <1>5, <2>2, <3>1 DEF Sound
    <3>4. phase \in Busy /\ \E m \in more : m.op # "status"
      BY <1>4, <2>2, <3>1, <3>2, PlacedCalls DEF TasksIInv, TasksTakeTurns, IsBusy, Underway
    <3>5. phase' \in Busy
      BY <1>1, <3>4 DEF Begun
    <3> QED BY <1>3, <1>6, <3>2, <3>3, <3>5 DEF Founded
  <2> QED BY <2>1, <2>2 DEF TasksTakeTurns, IsBusy, Underway
<1> QED BY <1>2, <1>3, <1>5, <1>6, <1>7 DEF TasksIInv

LEMMA QueuesOfProfiles ==
  ASSUME NEW S, S \subseteq Profiles
  PROVE  Queued(S) \in Seq(Profiles)
<1>1. IsFiniteSet(S)
  BY GuiAssumption, FS_Subset
<1>2. ExistsBijection(1..Cardinality(S), S) /\ Cardinality(S) \in Nat
  BY <1>1, FS_CardinalityType
<1>3. \E f \in [1..Cardinality(S) -> S] : IsInjective(f)
  BY <1>2 DEF ExistsBijection, Bijection, Injection, IsInjective
<1>4. Queued(S) \in [1..Cardinality(S) -> S]
  BY <1>3 DEF Queued, SetToSeq
<1> QED BY <1>2, <1>4

(* The next call of a sequence over nodes. *)
LEMMA RestOfQueue ==
  ASSUME NEW q \in Seq(Profiles), q # <<>>
  PROVE  Head(q) \in Profiles /\ Tail(q) \in Seq(Profiles)
OBVIOUS

-----------------------------------------------------------------------------
(* What the buttons start. *)

LEMMA AskTurns ==
  ASSUME NEW op, op # "status", NEW node, NEW queue, NEW from, NEW proof, phase' \in Busy,
         Formed(Ticket(op, node, queue, from, proof)), Ask(Ticket(op, node, queue, from, proof)),
         RestsOn(op) \cap doubt = {} => Founded(Ticket(op, node, queue, from, proof))'
  PROVE  Turns({})
<1> DEFINE m == Ticket(op, node, queue, from, proof)
<1>1. m.op = op /\ m.did = "waits" /\ m.turn = 0 /\ Formed(m) /\ (Sure(m, {}) => Founded(m)') /\ Ask(m)
  BY DEF Ticket, Sure
<1> HIDE DEF m
<1>2. Begun({}, {m})
  BY <1>1, OneFollowsAlone
<1> QED BY <1>1, <1>2 DEF Ask, Turns

LEMMA TakesTurns ==
  ASSUME NEW op, op \notin {"status", "apply", "probe", "verify", "install", "import", "onboard", "health"}, NEW n, phase' \in Busy,
         Ask(One(op, n))
  PROVE  Turns({})
BY OrdinaryTicket, AskTurns DEF One

(* The pages of a node: its calls take the page, and leave the folders and the wizard alone. *)
NodePresses(n) ==
  \/ StartSelected(n) \/ StopSelected(n) \/ RestartSelected(n) \/ NodeReset(n) \/ ImageRemove(n) \/ Deregister(n)
  \/ ShowDisplay(n) \/ Diagnose(n) \/ LoadRecovery(n) \/ ImportCandidate(n)
  \/ \E op \in {"recover", "checkpoint"} : RecoveryAct(n, op)

LEMMA NodePressTurns ==
  ASSUME NEW n, NodePresses(n)
  PROVE  Turns({}) /\ phase \notin Busy /\ UNCHANGED <<shownVars, choiceVars>>
<1>0. "busy" \in Busy /\ "importing" \in Busy
  BY DEF Busy
<1>1. CASE StartSelected(n)
  BY <1>0, <1>1, TakesTurns DEF StartSelected, Begin, IsBusy
<1>2. CASE StopSelected(n)
  BY <1>0, <1>2, TakesTurns DEF StopSelected, Begin, IsBusy
<1>3. CASE RestartSelected(n) \/ NodeReset(n) \/ ImageRemove(n) \/ Deregister(n)
  BY <1>0, <1>3, TakesTurns DEF RestartSelected, NodeReset, ImageRemove, Deregister, Takes, Keeps, Begin, IsBusy
<1>4. CASE ShowDisplay(n) \/ Diagnose(n) \/ LoadRecovery(n)
  BY <1>0, <1>4, TakesTurns DEF ShowDisplay, Diagnose, LoadRecovery, Takes, Keeps, Begin, IsBusy
<1>5. CASE ImportCandidate(n)
  BY <1>0, <1>5, TakesTurns DEF ImportCandidate, Keeps, Begin, IsBusy
<1>6. ASSUME NEW op \in {"recover", "checkpoint"}, RecoveryAct(n, op) PROVE Turns({}) /\ phase \notin Busy /\ UNCHANGED <<shownVars, choiceVars>>
  BY <1>0, <1>6, TakesTurns DEF RecoveryAct, Takes, Keeps, Begin, IsBusy
<1> QED BY <1>1, <1>2, <1>3, <1>4, <1>5, <1>6 DEF NodePresses

(* The buttons that belong to no node. *)
PagePresses ==
  \/ ExportDiagnostics \/ StageUpdate \/ LaunchUpdate \/ ResetAll
  \/ \E course \in SUBSET Profiles : CourseStart(course)

LEMMA PagePressTurns ==
  ASSUME PagePresses
  PROVE  Turns({}) /\ phase \notin Busy /\ UNCHANGED <<shownVars, choiceVars>>
<1>0. "busy" \in Busy /\ "importing" \in Busy
  BY DEF Busy
<1>1. CASE ExportDiagnostics \/ StageUpdate \/ LaunchUpdate
  BY <1>0, <1>1, TakesTurns DEF ExportDiagnostics, StageUpdate, LaunchUpdate, Takes, Keeps, Begin, IsBusy
<1>2. CASE ResetAll
  <2> DEFINE q == Queued(configured)
  <2>1. Ask(Ticket("reset", Head(q), Tail(q), Nobody, Nobody)) /\ phase' = "busy" /\ Begin /\ Keeps
    BY <1>2 DEF ResetAll
  <2> HIDE DEF q
  <2>2. Turns({})
    BY <1>0, <2>1, OrdinaryTicket, AskTurns
  <2> QED BY <2>1, <2>2 DEF Keeps, Begin, IsBusy
<1>3. ASSUME NEW course \in SUBSET Profiles, CourseStart(course) PROVE Turns({}) /\ phase \notin Busy /\ UNCHANGED <<shownVars, choiceVars>>
  <2> DEFINE q == Queued(NotRunning(course))
  <2>1. Ask(Ticket("course", Head(q), Tail(q), Nobody, Nobody)) /\ phase' = "busy" /\ Begin /\ Keeps
    BY <1>3 DEF CourseStart
  <2> HIDE DEF q
  <2>2. Turns({})
    BY <1>0, <2>1, OrdinaryTicket, AskTurns
  <2> QED BY <2>1, <2>2 DEF Keeps, Begin, IsBusy
<1> QED BY <1>1, <1>2, <1>3 DEF PagePresses

LEMMA CheckStatusTurns ==
  ASSUME CheckStatus
  PROVE  Turns({}) /\ phase \notin Busy /\ UNCHANGED choiceVars
BY TakesTurns DEF CheckStatus, Begin, IsBusy, Busy

(* The wizard. *)
WizardPresses == Inspect \/ Probe \/ ApplyMatrix

LEMMA WizardPressTurns ==
  ASSUME TasksIInv, WizardPresses
  PROVE  /\ Turns({}) /\ phase \notin Busy /\ UNCHANGED <<shownVars, folder, library, report>>
         /\ matrix' = Nobody \/ UNCHANGED <<candidate, matrix>>
<1>0. "busy" \in Busy /\ ("matrix" \notin doubt => matrix \in {candidate, Nobody})
  BY DEF Busy, TasksIInv, ShownIsSound
<1>1. CASE Inspect
  BY <1>0, <1>1, TakesTurns DEF Inspect, Begin, IsBusy, WizardStays
<1>2. CASE Probe
  <2>1. Formed(Ticket("probe", candidate, <<>>, Nobody, Nobody)) /\ Founded(Ticket("probe", candidate, <<>>, Nobody, Nobody))'
    BY <1>2 DEF Probe, Formed, Founded, Shaped, Ticket, FromFolder
  <2> QED BY <1>0, <1>2, <2>1, AskTurns DEF Probe, Begin, IsBusy, WizardStays, One
<1>3. CASE ApplyMatrix
  <2>1. Formed(Ticket("apply", candidate, <<>>, Nobody, matrix))
    BY DEF Formed, Shaped, Ticket
  <2>2. ASSUME RestsOn("apply") \cap doubt = {} PROVE Founded(Ticket("apply", candidate, <<>>, Nobody, matrix))'
    <3>1. "matrix" \notin doubt
      BY <2>2 DEF RestsOn
    <3>2. matrix = candidate /\ matrix' = matrix /\ candidate' = candidate
      BY <1>0, <1>3, <3>1 DEF ApplyMatrix, Keeps, choiceVars
    <3> QED BY <3>2 DEF Founded, Ticket, FromFolder
  <2> QED BY <1>0, <1>3, <2>1, <2>2, AskTurns DEF ApplyMatrix, Begin, IsBusy, Keeps, choiceVars
<1> QED BY <1>1, <1>2, <1>3 DEF WizardPresses

-----------------------------------------------------------------------------
(* Folders. *)

(* The report that an import rests on: that of the task that goes on, or the last one. *)
Grounded(done) == IF done = {} THEN "report" \notin doubt ELSE \A t \in done : ~Crossed(t)

LEMMA ImportsTurn ==
  ASSUME NEW done, NEW op \in {"import", "onboard"}, NEW q, NEW f, NEW proof, NEW stop, NEW going,
         going \in Busy \/ (done # {} /\ going = phase),
         Kind[f] # "plain" /\ Grounded(done) => proof = f, ImportNext(done, op, q, f, proof, stop, going)
  PROVE  Turns(done)
<1>0. "idle" \notin Busy /\ "imported" \notin Busy
  BY DEF Busy
<1>1. CASE \E next \in {"idle", "imported"} : Finishes(done, next, Refresh)
  <2>1. PICK next \in {"idle", "imported"} : Finishes(done, next, Refresh)
    BY <1>1
  <2>2. Begun(done, Refresh)
    BY <1>0, <2>1, RefreshIsStatus, NothingFollows DEF Finishes
  <2> QED BY <2>1, <2>2 DEF Turns, Finishes
<1>2. CASE Finishes(done, going, {Ticket(op, Head(q), Tail(q), f, proof)})
  <2> DEFINE m == Ticket(op, Head(q), Tail(q), f, proof)
  <2>1. m.op = op /\ m.did = "waits" /\ m.turn = 0
    BY DEF Ticket
  <2>2. Formed(m) /\ ((Kind[f] # "plain" => proof = f) => Founded(m)')
    BY ImportTicket
  <2>3. Sure(m, done) => Grounded(done)
    BY <2>1 DEF Sure, Grounded, RestsOn
  <2>4. Finishes(done, going, {m})
    BY <1>2
  <2> HIDE DEF m
  <2>5. Begun(done, {m})
    BY <2>1, <2>2, <2>3, <2>4, OneFollowsAlone DEF Finishes
  <2> QED BY <2>4, <2>5 DEF Turns, Finishes
<1> QED BY <1>1, <1>2 DEF ImportNext

LEMMA OnboardTurns ==
  ASSUME NEW done, NEW next, next \notin Busy, NEW f, NEW proof, Kind[f] # "plain" /\ Grounded(done) => proof = f,
         OnboardPending(done, next, f, proof)
  PROVE  Turns(done)
<1> DEFINE q == Queued(Offers[f] \ has)
<1>0. "importing" \in Busy
  BY DEF Busy
<1>1. CASE Finishes(done, next, {})
  <2>1. Begun(done, {})
    BY <1>1, NothingFollows DEF Finishes
  <2> QED BY <1>1, <2>1 DEF Turns, Finishes
<1>2. CASE Finishes(done, "importing", {Ticket("onboard", Head(q), Tail(q), f, proof)})
  <2>1. PICK s : s = q
    OBVIOUS
  <2> HIDE DEF q
  <2> DEFINE m == Ticket("onboard", Head(s), Tail(s), f, proof)
  <2>2. m.op = "onboard" /\ m.did = "waits" /\ m.turn = 0
    BY DEF Ticket
  <2>3. Formed(m) /\ ((Kind[f] # "plain" => proof = f) => Founded(m)')
    BY ImportTicket
  <2>4. Sure(m, done) => Grounded(done)
    BY <2>2 DEF Sure, Grounded, RestsOn
  <2>5. Finishes(done, "importing", {m})
    BY <1>2, <2>1
  <2> HIDE DEF m
  <2>6. Begun(done, {m})
    BY <1>0, <2>2, <2>3, <2>4, <2>5, OneFollowsAlone DEF Finishes
  <2> QED BY <2>5, <2>6 DEF Turns, Finishes
<1> QED BY <1>1, <1>2 DEF OnboardPending

LEMMA ScanTurns ==
  ASSUME NEW f, NEW proof, Scan({}, f, proof), folder' = f
  PROVE  Turns({})
<1>0. "idle" \notin Busy /\ "verifying" \in Busy
  BY DEF Busy
<1>1. CASE Kind[f] = "plain"
  BY <1>0, <1>1, OnboardTurns DEF Scan
<1>2. CASE Kind[f] # "plain"
  <2> DEFINE m == Ticket("verify", Nobody, <<"import">>, f, Nobody)
  <2>1. library' = f /\ Finishes({}, "verifying", {m})
    BY <1>2 DEF Scan
  <2>2. Formed(m) /\ Founded(m)' /\ m.op # "status" /\ m.did = "waits" /\ m.turn = 0
    BY <2>1 DEF Formed, Founded, Shaped, Ticket, FromFolder
  <2> HIDE DEF m
  <2>3. Begun({}, {m})
    BY <1>0, <2>1, <2>2, OneFollowsAlone DEF Finishes
  <2> QED BY <2>1, <2>3 DEF Turns, Finishes
<1> QED BY <1>1, <1>2

LEMMA ChooseTurns ==
  ASSUME NEW f \in Folders, ChooseFolder(f)
  PROVE  Turns({}) /\ report' = Nobody /\ healthy' = {} /\ UNCHANGED <<shown, checked, candidate, matrix>>
BY ScanTurns DEF ChooseFolder

FolderPresses == ScanAndImport \/ VerifyDistribution \/ ImportAll

LEMMA FolderPressTurns ==
  ASSUME TasksIInv, FolderPresses
  PROVE  /\ Turns({}) /\ phase \notin Busy /\ UNCHANGED <<folder, report, candidate, matrix, shownVars>>
<1>0. /\ "importing" \in Busy /\ "verifying" \in Busy
      /\ "report" \notin doubt => report \in {Nobody, folder}
  BY DEF Busy, TasksIInv, ShownIsSound
<1>2. CASE ScanAndImport
  BY <1>0, <1>2, ScanTurns DEF ScanAndImport, Begin, IsBusy
<1>3. CASE VerifyDistribution
  <2>0. PICK m : m = Ticket("verify", Nobody, <<>>, folder, Nobody)
    OBVIOUS
  <2>1. Finishes({}, "verifying", {m}) /\ Keeps /\ phase \notin Busy
    BY <1>3, <2>0 DEF VerifyDistribution, Begin, IsBusy
  <2>2. Formed(m) /\ Founded(m)' /\ m.op # "status" /\ m.did = "waits" /\ m.turn = 0
    BY <2>0, <2>1 DEF Formed, Founded, Shaped, Ticket, Keeps, choiceVars, FromFolder
  <2>3. Begun({}, {m})
    BY <1>0, <2>1, <2>2, OneFollowsAlone DEF Finishes
  <2>4. Turns({})
    BY <2>1, <2>3 DEF Turns, Finishes
  <2> QED BY <1>0, <2>1, <2>4 DEF Keeps, choiceVars
<1>4. CASE ImportAll
  <2>0. /\ "report" \notin doubt => report = folder
        /\ phase \notin Busy
        /\ UNCHANGED <<shownVars, folder, report, candidate, matrix>>
    BY <1>0, <1>4 DEF ImportAll, Begin, IsBusy
  <2>1. Turns({})
    <3>1. CASE Finishes({}, "importing", {Ticket("install", Nobody, <<>>, folder, report)})
      <4>0. PICK m : m = Ticket("install", Nobody, <<>>, folder, report)
        OBVIOUS
      <4>1. Formed(m) /\ (Sure(m, {}) => Founded(m)') /\ m.op # "status" /\ m.did = "waits" /\ m.turn = 0
        <5>1. Formed(m) /\ ((Kind[folder] # "plain" => report = folder) => Founded(m)')
          BY <4>0, ImportTicket
        <5>2. m.op = "install" /\ m.did = "waits" /\ m.turn = 0
          BY <4>0 DEF Ticket
        <5> QED BY <2>0, <5>1, <5>2 DEF Sure, RestsOn
      <4>2. Begun({}, {m})
        BY <1>0, <3>1, <4>0, <4>1, OneFollowsAlone DEF Finishes
      <4> QED BY <3>1, <4>0, <4>2 DEF Turns, Finishes
    <3>2. CASE ImportNext({}, "import", Queued(Manifest(folder)), folder, report, FALSE, "importing")
      BY <1>0, <2>0, <3>2, ImportsTurn DEF Grounded
    <3> QED BY <1>4, <3>1, <3>2 DEF ImportAll
  <2> QED BY <2>0, <2>1
<1> QED BY <1>2, <1>3, <1>4 DEF FolderPresses

-----------------------------------------------------------------------------
(* Answers. *)

LEMMA EndsTurn ==
  ASSUME NEW t, NEW next, next \notin Busy, NEW more, more \subseteq {One("status", Nobody)}, Ends(t, next, more)
  PROVE  Turns({t})
<1>1. Begun({t}, more)
  BY NothingFollows DEF Ends
<1> QED BY <1>1 DEF Turns, Ends, Goes

LEMMA GoesTurn ==
  ASSUME NEW t, NEW m, m.op # "status", m.did = "waits", m.turn = 0, Formed(m), ~Crossed(t) => Founded(m)', phase' \in Busy \cup {phase},
         NEW others, others \subseteq {One("status", Nobody)}, Goes(t, {m} \cup others)
  PROVE  Turns({t})
<1>1. Begun({t}, {m} \cup others)
  BY OneFollows DEF Sure
<1> QED BY <1>1 DEF Turns, Goes

LEMMA GoesOnTurn ==
  ASSUME NEW t, NEW op, op \notin {"status", "apply", "probe", "verify", "install", "import", "onboard", "health"},
         NEW node, NEW queue, NEW from, NEW proof, phase' \in Busy \cup {phase}, Goes(t, {Ticket(op, node, queue, from, proof)})
  PROVE  Turns({t})
<1> DEFINE m == Ticket(op, node, queue, from, proof)
<1>1. m.op # "status" /\ m.did = "waits" /\ m.turn = 0 /\ Formed(m) /\ Founded(m)' /\ Goes(t, {m} \cup {})
  BY OrdinaryTicket DEF Ticket
<1> HIDE DEF m
<1> QED BY <1>1, GoesTurn

(* The answers of the calls about one node, of a course and of a reset. *)
OrdinaryHandles(t) ==
  \/ PreflightAnswered(t) \/ RestartAnswered(t) \/ RefreshingAnswered(t) \/ QuietAnswered(t) \/ StageAnswered(t)
  \/ CourseAnswered(t) \/ ResetAnswered(t) \/ SnapshotsAnswered(t) \/ BackupsAnswered(t) \/ RecoverAnswered(t)
  \/ CheckpointAnswered(t)

LEMMA OrdinaryHandleTurns ==
  ASSUME NEW t \in tasks, OrdinaryHandles(t)
  PROVE  /\ Turns({t}) /\ t.op \notin {"status", "check", "health", "verify", "probe"}
         /\ UNCHANGED <<choiceVars, shown, healthy, checked>>
<1>0. "busy" \in Busy /\ "idle" \notin Busy /\ "failed" \notin Busy
  BY DEF Busy
<1>1. CASE PreflightAnswered(t)
  <2>1. Answered(t, "preflight") /\ Keeps
    BY <1>1 DEF PreflightAnswered
  <2>2. Turns({t})
    BY <1>0, <1>1, EndsTurn, GoesOnTurn DEF PreflightAnswered, Answered, One
  <2> QED BY <2>1, <2>2 DEF Answered, Keeps, shownVars
<1>2. CASE RestartAnswered(t)
  <2>1. Answered(t, "restart") /\ Keeps
    BY <1>2 DEF RestartAnswered
  <2>2. Turns({t})
    BY <1>0, <1>2, EndsTurn, GoesOnTurn, RefreshIsStatus DEF RestartAnswered, Answered, One
  <2> QED BY <2>1, <2>2 DEF Answered, Keeps, shownVars
<1>3. CASE RefreshingAnswered(t)
  <2>1. Turns({t})
    BY <1>0, <1>3, EndsTurn, RefreshIsStatus DEF RefreshingAnswered
  <2> QED BY <1>3, <2>1 DEF RefreshingAnswered, shownVars
<1>4. CASE QuietAnswered(t)
  <2>1. Turns({t})
    BY <1>0, <1>4, EndsTurn DEF QuietAnswered
  <2> QED BY <1>4, <2>1 DEF QuietAnswered, Keeps, shownVars
<1>5. CASE StageAnswered(t)
  <2>1. Turns({t})
    <3>1. CASE Ends(t, "idle", {})
      BY <1>0, <3>1, EndsTurn
    <3>2. CASE Ends(t, "busy", {One("select update", Nobody)})
      BY <1>0, <3>2, GoesOnTurn DEF Ends, One
    <3> QED BY <1>5, <3>1, <3>2 DEF StageAnswered
  <2> QED BY <1>5, <2>1 DEF StageAnswered, Answered, Keeps, shownVars
<1>6. CASE CourseAnswered(t)
  <2>1. Turns({t})
    <3>1. CASE Ends(t, "failed", Refresh) \/ Ends(t, "idle", Refresh)
      BY <1>0, <3>1, EndsTurn, RefreshIsStatus
    <3>2. CASE phase' = phase /\ Goes(t, {Ticket("course", Head(t.queue), Tail(t.queue), Nobody, Nobody)})
      BY <1>0, <1>6, <3>2, GoesOnTurn DEF CourseAnswered, Answered
    <3> QED BY <1>6, <3>1, <3>2 DEF CourseAnswered
  <2> QED BY <1>6, <2>1 DEF CourseAnswered, Answered
<1>7. CASE ResetAnswered(t)
  <2>1. Turns({t})
    <3>1. CASE Ends(t, "failed", {}) \/ Ends(t, "idle", Refresh)
      BY <1>0, <3>1, EndsTurn, RefreshIsStatus
    <3>2. CASE phase' = phase /\ Goes(t, {Ticket("reset", Head(t.queue), Tail(t.queue), Nobody, Nobody)})
      BY <1>0, <1>7, <3>2, GoesOnTurn DEF ResetAnswered, Answered
    <3> QED BY <1>7, <3>1, <3>2 DEF ResetAnswered
  <2> QED BY <1>7, <2>1 DEF ResetAnswered, Answered, Keeps, shownVars
<1>8. CASE SnapshotsAnswered(t)
  <2>1. Turns({t})
    BY <1>0, <1>8, GoesOnTurn DEF SnapshotsAnswered, Answered, One
  <2> QED BY <1>8, <2>1 DEF SnapshotsAnswered, Answered, Keeps, shownVars
<1>9. CASE BackupsAnswered(t)
  <2>1. Turns({t})
    BY <1>0, <1>9, EndsTurn DEF BackupsAnswered
  <2> QED BY <1>9, <2>1 DEF BackupsAnswered, Answered, Keeps, shownVars
<1>10. CASE RecoverAnswered(t)
  <2> DEFINE m == One("snapshots", t.node)
  <2>1. m.op # "status" /\ m.did = "waits" /\ m.turn = 0 /\ Formed(m) /\ Founded(m)'
    BY OrdinaryTicket DEF One, Ticket
  <2>2. Goes(t, {m} \cup Refresh) /\ phase' \in Busy
    BY <1>0, <1>10 DEF RecoverAnswered, Ends
  <2> HIDE DEF m
  <2>3. PICK others : others = Refresh
    OBVIOUS
  <2>4. Turns({t})
    BY <2>1, <2>2, <2>3, RefreshIsStatus, GoesTurn
  <2> QED BY <1>10, <2>4 DEF RecoverAnswered, Answered, Keeps, shownVars
<1>11. CASE CheckpointAnswered(t)
  <2>1. Turns({t})
    <3>1. CASE Ends(t, "idle", {})
      BY <1>0, <3>1, EndsTurn
    <3>2. CASE Ends(t, "busy", {One("recover", t.node)})
      BY <1>0, <3>2, GoesOnTurn DEF Ends, One
    <3> QED BY <1>11, <3>1, <3>2 DEF CheckpointAnswered
  <2> QED BY <1>11, <2>1 DEF CheckpointAnswered, Answered, Keeps, shownVars
<1> QED BY <1>1, <1>2, <1>3, <1>4, <1>5, <1>6, <1>7, <1>8, <1>9, <1>10, <1>11 DEF OrdinaryHandles

(* A verification lets the import of this very folder follow. *)
FolderHandles(t) == VerifyAnswered(t) \/ InstallAnswered(t) \/ ImportAnswered(t) \/ OnboardAnswered(t)

LEMMA FolderHandleTurns ==
  ASSUME TasksIInv, NEW t \in tasks, FolderHandles(t), Doubts(t)
  PROVE  /\ Turns({t}) /\ t.op \notin {"status", "check", "health", "probe"}
         /\ "report" \notin doubt' => report' \in {Nobody, folder'}
         /\ UNCHANGED <<candidate, matrix, shown, healthy, checked>>
<1>0. /\ "importing" \in Busy /\ "imported" \notin Busy /\ "failed" \notin Busy /\ "verified" \notin Busy
      /\ "report" \notin doubt => report \in {Nobody, folder}
      /\ Formed(t) /\ (~Crossed(t) => Founded(t))
  BY DEF Busy, TasksIInv, ShownIsSound, Sound
<1>1. CASE VerifyAnswered(t)
  <2>1. /\ t.op = "verify" /\ (~Crossed(t) => t.folder = folder /\ (t.queue # <<>> => library = folder))
        /\ UNCHANGED <<shownVars, folder, candidate, matrix>>
    BY <1>0, <1>1 DEF VerifyAnswered, Answered, Founded
  <2>2. CASE ~Gate(t) /\ Ends(t, "failed", {}) /\ report' \in {report, Nobody}
    <3>1. doubt' = doubt
      BY <2>2 DEF Gate, Doubts
    <3> QED BY <1>0, <2>1, <2>2, <3>1, EndsTurn DEF shownVars
  <2>3. ASSUME Gate(t), report' = t.folder PROVE "report" \notin doubt' => report' = folder'
    <3>1. Crossed(t) => "report" \in doubt'
      BY <2>1, <2>3 DEF Gate, Doubts, Settles
    <3> QED BY <2>1, <2>3, <3>1
  <2>4. CASE Gate(t) /\ report' = t.folder /\ t.queue = <<>> /\ Ends(t, "verified", {})
    BY <1>0, <2>1, <2>3, <2>4, EndsTurn DEF shownVars
  <2>5. CASE Gate(t) /\ report' = t.folder /\ t.queue # <<>> /\ ImportMissing(t)
    <3>0. Grounded({t}) => Proof(t) = folder /\ library = folder
      BY <2>1, <2>5 DEF Gate, Proof, Grounded
    <3>1. Turns({t})
      <4>1. CASE Finishes({t}, "importing", {Ticket("install", Nobody, <<>>, folder, Proof(t))})
        <5>0. PICK m, proof : proof = Proof(t) /\ m = Ticket("install", Nobody, <<>>, folder, proof)
          OBVIOUS
        <5>1. Formed(m) /\ ((Kind[folder] # "plain" => proof = folder) => Founded(m)')
          BY <5>0, ImportTicket
        <5>2. m.op # "status" /\ m.did = "waits" /\ m.turn = 0
          BY <5>0 DEF Ticket
        <5>3. Sure(m, {t}) => Founded(m)'
          BY <3>0, <5>0, <5>1 DEF Sure, Grounded
        <5>4. Finishes({t}, "importing", {m})
          BY <4>1, <5>0
        <5>5. Begun({t}, {m})
          BY <1>0, <5>1, <5>2, <5>3, <5>4, OneFollowsAlone DEF Finishes
        <5> QED BY <5>4, <5>5 DEF Turns, Finishes
      <4>2. CASE OnboardPending({t}, "verified", library, Proof(t))
        BY <1>0, <3>0, <4>2, OnboardTurns
      <4>3. CASE ImportNext({t}, "import", Queued(Manifest(folder) \ has), folder, Proof(t), FALSE, "importing")
        BY <1>0, <3>0, <4>3, ImportsTurn
      <4> QED BY <2>5, <4>1, <4>2, <4>3 DEF ImportMissing
    <3> QED BY <2>1, <2>3, <2>5, <3>1 DEF shownVars
  <2> QED BY <1>1, <2>2, <2>4, <2>5 DEF VerifyAnswered
<1>2. ASSUME t.op \in {"install", "import", "onboard"} PROVE doubt' = doubt
  BY <1>2 DEF Doubts, Settles
<1>3. CASE InstallAnswered(t)
  <2>1. Turns({t})
    BY <1>0, <1>3, EndsTurn, RefreshIsStatus DEF InstallAnswered
  <2> QED BY <1>0, <1>2, <1>3, <2>1 DEF InstallAnswered, Answered, shownVars
<1>4. CASE ImportAnswered(t)
  <2>1. t.op = "import" /\ UNCHANGED <<shown, healthy, checked, folder, report, candidate, matrix>>
    BY <1>4 DEF ImportAnswered, Answered
  <2>2. Turns({t})
    <3>1. CASE Ends(t, "failed", {})
      BY <1>0, <3>1, EndsTurn
    <3>2. CASE ImportNext({t}, "import", t.queue, t.folder, t.proof, stopQueue, phase)
      <4>1. Kind[t.folder] # "plain" /\ Grounded({t}) => t.proof = t.folder
        BY <1>0, <2>1 DEF Founded, FromFolder, Grounded
      <4> QED BY <3>2, <4>1, ImportsTurn
    <3> QED BY <1>4, <3>1, <3>2 DEF ImportAnswered
  <2> QED BY <1>0, <1>2, <2>1, <2>2
<1>5. CASE OnboardAnswered(t)
  <2>1. t.op = "onboard" /\ UNCHANGED <<shownVars, folder, report, candidate, matrix>>
    BY <1>5 DEF OnboardAnswered, Answered
  <2>2. Kind[t.folder] # "plain" /\ Grounded({t}) => t.proof = t.folder
    BY <1>0, <2>1 DEF Founded, FromFolder, Grounded
  <2>3. Turns({t})
    BY <1>5, <2>2, ImportsTurn DEF OnboardAnswered
  <2> QED BY <1>0, <1>2, <2>1, <2>3 DEF shownVars
<1> QED BY <1>1, <1>3, <1>4, <1>5 DEF FolderHandles

WizardHandles(t) == InspectAnswered(t) \/ CandidateAnswered(t) \/ ProbeAnswered(t) \/ ApplyAnswered(t)

LEMMA WizardHandleTurns ==
  ASSUME TasksIInv, NEW t \in tasks, WizardHandles(t), Doubts(t)
  PROVE  /\ Turns({t}) /\ t.op \notin {"status", "check", "health", "verify"}
         /\ "matrix" \notin doubt' => matrix' \in {candidate', Nobody}
         /\ UNCHANGED <<folder, report, shown, healthy, checked>>
<1>0. /\ "idle" \notin Busy /\ ("matrix" \notin doubt => matrix \in {candidate, Nobody})
      /\ ~Crossed(t) => Founded(t)
  BY DEF Busy, TasksIInv, ShownIsSound, Sound
<1>1. ASSUME t.op # "probe", t.op # "verify", t.op # "health" PROVE doubt' = doubt
  BY <1>1 DEF Doubts, Settles
<1>2. CASE InspectAnswered(t)
  BY <1>0, <1>1, <1>2, EndsTurn DEF InspectAnswered, Answered, Keeps, choiceVars, shownVars
<1>3. CASE CandidateAnswered(t)
  <2>1. Turns({t})
    BY <1>0, <1>3, EndsTurn, RefreshIsStatus DEF CandidateAnswered
  <2> QED BY <1>0, <1>1, <1>3, <2>1 DEF CandidateAnswered, Answered, WizardStays, shownVars
<1>4. CASE ProbeAnswered(t)
  <2>1. t.op = "probe" /\ UNCHANGED <<shownVars, folder, report, candidate>> /\ matrix' \in (IF Well(t) THEN {t.node, Nobody} ELSE {Nobody})
    BY <1>4 DEF ProbeAnswered, Answered, WizardStays
  <2>2. "matrix" \notin doubt' => matrix' \in {candidate, Nobody}
    <3>1. Well(t) /\ Crossed(t) => "matrix" \in doubt'
      BY <2>1 DEF Doubts, Settles
    <3> QED BY <1>0, <2>1, <3>1 DEF Founded
  <2>3. Turns({t})
    BY <1>0, <1>4, EndsTurn DEF ProbeAnswered
  <2> QED BY <2>1, <2>2, <2>3 DEF shownVars
<1>5. CASE ApplyAnswered(t)
  <2>1. Turns({t})
    BY <1>0, <1>5, EndsTurn, RefreshIsStatus DEF ApplyAnswered
  <2> QED BY <1>0, <1>1, <1>5, <2>1 DEF ApplyAnswered, Answered, WizardStays, shownVars
<1> QED BY <1>2, <1>3, <1>4, <1>5 DEF WizardHandles

(* A check of the machines that are shown: one after the other. *)
LEMMA HealthSequenceTurns ==
  ASSUME NEW t, NEW q \in Seq(Profiles), HealthSequence(t, q)
  PROVE  Turns({t})
<1>1. CASE q = <<>>
  <2>1. Begun({t}, {})
    BY <1>1, NothingFollows DEF HealthSequence, Busy
  <2> QED BY <1>1, <2>1 DEF HealthSequence, Turns, Goes
<1>2. CASE q # <<>>
  <2> DEFINE m == Ticket("health", Head(q), Tail(q), Nobody, Nobody)
  <2>1. Formed(m) /\ Founded(m)' /\ m.op # "status" /\ m.did = "waits" /\ m.turn = 0
    BY <1>2, HealthTicket, RestOfQueue DEF Ticket
  <2>2. Goes(t, {m} \cup {}) /\ phase' = phase
    BY <1>2 DEF HealthSequence
  <2> HIDE DEF m
  <2> QED BY <2>1, <2>2, GoesTurn
<1> QED BY <1>1, <1>2

LEMMA HealthHandleTurns ==
  ASSUME TasksIInv, NEW t \in tasks, CheckAnswered(t) \/ HealthAnswered(t)
  PROVE  Turns({t}) /\ t.op \in {"check", "health"} /\ UNCHANGED choiceVars
<1>0. Formed(t)
  BY DEF TasksIInv, Sound
<1>1. CASE CheckAnswered(t)
  <2>1. PICK q : q = Queued({n \in Profiles : shown'[n] # 0})
    OBVIOUS
  <2>2. PICK S : S = {n \in Profiles : shown'[n] # 0}
    OBVIOUS
  <2>3. q \in Seq(Profiles)
    BY <2>1, <2>2, QueuesOfProfiles
  <2>4. HealthSequence(t, q)
    BY <1>1, <2>1 DEF CheckAnswered
  <2> QED BY <1>1, <2>3, <2>4, HealthSequenceTurns DEF CheckAnswered, Answered
<1>2. CASE HealthAnswered(t)
  <2>1. t.op = "health" /\ t.queue \in Seq(Profiles) /\ HealthSequence(t, t.queue)
    BY <1>0, <1>2 DEF HealthAnswered, Answered, Formed
  <2> QED BY <1>2, <2>1, HealthSequenceTurns DEF HealthAnswered
<1> QED BY <1>1, <1>2

-----------------------------------------------------------------------------
(* The tool acts: the call stays what it was, with an answer. *)

Reported(t, s) == [t EXCEPT !.did = "well", !.seen = s]
Failed(t) == [t EXCEPT !.did = "badly"]

LEMMA ActedCall ==
  ASSUME NEW t, Shaped(t), NEW s, NEW u, u = Reported(t, s) \/ u = Failed(t)
  PROVE  /\ Shaped(u) /\ u.op = t.op /\ u.node = t.node /\ u.queue = t.queue /\ u.folder = t.folder /\ u.proof = t.proof
         /\ u.no = t.no /\ u.turn = t.turn
         /\ u.did \in {"well", "badly"} /\ (u.did = "well" => u.seen = s)
<1>1. PICK op, node, queue, from, proof, did, seen, no, turn :
        t = [op |-> op, node |-> node, queue |-> queue, folder |-> from, proof |-> proof, did |-> did, seen |-> seen,
             no |-> no, turn |-> turn]
  BY DEF Shaped
<1>2. CASE u = Reported(t, s)
  <2>1. u = [op |-> op, node |-> node, queue |-> queue, folder |-> from, proof |-> proof, did |-> "well", seen |-> s,
             no |-> no, turn |-> turn]
    BY <1>1, <1>2 DEF Reported
  <2> QED BY <1>1, <2>1 DEF Shaped
<1>3. CASE u = Failed(t)
  <2>1. u = [op |-> op, node |-> node, queue |-> queue, folder |-> from, proof |-> proof, did |-> "badly", seen |-> seen,
             no |-> no, turn |-> turn]
    BY <1>1, <1>3 DEF Failed
  <2> QED BY <1>1, <2>1 DEF Shaped
<1> QED BY <1>2, <1>3

LEMMA ActsKeeps ==
  ASSUME TasksIInv, NEW t \in tasks, Acts(t), UNCHANGED <<overlaps, doubt>>
  PROVE  TasksIInv'
<1>1. PICK u : /\ tasks' = (tasks \ {t}) \cup {u}
               /\ u = [t EXCEPT !.did = "well", !.seen = Told(t)] \/ u = [t EXCEPT !.did = "badly"]
  BY DEF Acts
<1>2. UNCHANGED <<phase, folder, library, report, candidate, matrix>>
  BY DEF Acts, choiceVars
<1>3. /\ Shaped(u) /\ u.op = t.op /\ u.node = t.node /\ u.queue = t.queue /\ u.folder = t.folder /\ u.proof = t.proof
      /\ u.turn = t.turn
  <2>1. Shaped(t)
    BY DEF TasksIInv, Sound, Formed
  <2>2. PICK s : s = Told(t)
    OBVIOUS
  <2>3. u = Reported(t, s) \/ u = Failed(t)
    BY <1>1, <2>2 DEF Reported, Failed
  <2> QED BY <2>1, <2>3, ActedCall
<1>4. \A v \in tasks' : Sound(v)'
  <2>1. Sound(u)'
    BY <1>2, <1>3 DEF TasksIInv, Sound, Formed, Founded, FromFolder, Shaped, Crossed, Turn
  <2>2. \A v \in tasks : Sound(v)'
    BY <1>2 DEF TasksIInv, Sound, Formed, Founded, FromFolder, Shaped, Crossed, Turn
  <2> QED BY <1>1, <2>1, <2>2
<1>5. TasksTakeTurns'
  <2>1. IsBusy' => \E v \in tasks' : v.op # "status"
    BY <1>1, <1>2, <1>3 DEF TasksIInv, TasksTakeTurns, IsBusy, Underway
  <2>2. ASSUME NEW v \in tasks', v.op # "status", ~Crossed(v)'
        PROVE  /\ IsBusy' /\ \A w \in tasks' : w.op # "status" => w = v
               /\ v.op = "apply" => v.proof = v.node
    <3>1. PICK o \in tasks : o.op = v.op /\ o.turn = v.turn /\ o.proof = v.proof /\ o.node = v.node /\ ((v = u /\ o = t) \/ (v = o /\ v # t))
      BY <1>1, <1>3
    <3>2. ~Crossed(o)
      BY <2>2, <3>1 DEF Crossed, Turn
    <3>3. IsBusy /\ (\A w \in tasks : w.op # "status" => w = o) /\ (o.op = "apply" => o.proof = o.node)
      BY <2>2, <3>1, <3>2 DEF TasksIInv, TasksTakeTurns, Underway
    <3> QED BY <1>1, <1>2, <1>3, <3>1, <3>3 DEF IsBusy
  <2> QED BY <2>1, <2>2 DEF TasksTakeTurns, Underway
<1> QED BY <1>2, <1>4, <1>5 DEF TasksIInv, ShownIsSound

(* The status may be read, and answered, beside a task. *)
LEMMA StatusKeeps ==
  ASSUME TasksIInv, NEW done, \A t \in done : t.op = "status", NEW more, more \subseteq {One("status", Nobody)},
         tasks' = (tasks \ done) \cup more, UNCHANGED <<phase, folder, library, report, candidate, matrix, overlaps, doubt>>
  PROVE  TasksIInv'
<1>1. One("status", Nobody).op = "status" /\ Sound(One("status", Nobody))'
  BY StatusTicket DEF TasksIInv, Sound, Formed, Founded, FromFolder, Shaped, Crossed, Turn
<1>2. \A t \in tasks' : t \in tasks \/ t = One("status", Nobody)
  OBVIOUS
<1>3. Underway' = Underway
  BY <1>1, <1>2 DEF Underway
<1>4. \A v \in tasks : Sound(v)' /\ Crossed(v)' = Crossed(v)
  BY DEF TasksIInv, Sound, Formed, Founded, FromFolder, Shaped, Crossed, Turn
<1>5. TasksTakeTurns'
  BY <1>3, <1>4 DEF TasksIInv, TasksTakeTurns, IsBusy, Underway
<1> QED BY <1>1, <1>2, <1>4, <1>5 DEF TasksIInv, ShownIsSound

LEMMA TasksInit == GuiInit => TasksIInv
BY DEF GuiInit, TasksIInv, TasksTakeTurns, IsBusy, Busy, Underway, ShownIsSound

(* Handled by one of the lemmas above, or the status. *)
LEMMA HandlesSplit ==
  ASSUME NEW t, Handles(t)
  PROVE  \/ OrdinaryHandles(t) \/ FolderHandles(t) \/ WizardHandles(t) \/ CheckAnswered(t) \/ HealthAnswered(t) \/ StatusAnswered(t)
BY DEF Handles, OrdinaryHandles, FolderHandles, WizardHandles

LEMMA ButtonsSplit ==
  ASSUME Buttons
  PROVE  \/ RefreshAutomatically \/ StopRemaining \/ CheckStatus \/ PagePresses \/ WizardPresses \/ FolderPresses
         \/ \E n \in Profiles : NodePresses(n)
BY DEF Buttons, PagePresses, WizardPresses, FolderPresses, NodePresses

LEMMA ButtonsKeep ==
  ASSUME TasksIInv, Buttons, UNCHANGED <<overlaps, doubt>>
  PROVE  TasksIInv'
<1>0. ShownIsSound
  BY DEF TasksIInv
<1>1. CASE RefreshAutomatically
  <2>1. PICK more : more = Refresh
    OBVIOUS
  <2>2. tasks' = (tasks \ {}) \cup more /\ UNCHANGED <<phase, folder, library, report, candidate, matrix>>
    BY <1>1, <2>1 DEF RefreshAutomatically, choiceVars
  <2> QED BY <2>1, <2>2, RefreshIsStatus, StatusKeeps
<1>2. CASE StopRemaining
  <2>1. UNCHANGED <<phase, folder, library, report, candidate, matrix, tasks>>
    BY <1>2 DEF StopRemaining
  <2>2. tasks' = (tasks \ {}) \cup {}
    BY <2>1
  <2> QED BY <2>1, <2>2, StatusKeeps
<1>3. CASE CheckStatus
  BY <1>0, <1>3, CheckStatusTurns, BeginKeeps DEF choiceVars, ShownIsSound
<1>4. CASE PagePresses
  BY <1>0, <1>4, PagePressTurns, BeginKeeps DEF choiceVars, ShownIsSound
<1>5. CASE WizardPresses
  BY <1>0, <1>5, WizardPressTurns, BeginKeeps DEF ShownIsSound
<1>6. CASE FolderPresses
  BY <1>0, <1>6, FolderPressTurns, BeginKeeps DEF ShownIsSound
<1>7. CASE \E n \in Profiles : NodePresses(n)
  BY <1>0, <1>7, NodePressTurns, BeginKeeps DEF choiceVars, ShownIsSound
<1> QED BY <1>1, <1>2, <1>3, <1>4, <1>5, <1>6, <1>7, ButtonsSplit

LEMMA ChoiceKeeps ==
  ASSUME TasksIInv, NEW f \in Folders, ChooseFolder(f), UNCHANGED doubt
  PROVE  TasksIInv'
<1>1. ShownIsSound'
  BY ChooseTurns DEF TasksIInv, ShownIsSound
<1>2. \/ phase \notin Busy /\ overlaps' = overlaps
      \/ phase \in Busy /\ overlaps' = overlaps + 1
  BY DEF ChooseFolder, IsBusy
<1> QED BY <1>1, <1>2, ChooseTurns, BeginKeeps

LEMMA HandlesKeep ==
  ASSUME TasksIInv, NEW t \in tasks, Handles(t), Doubts(t), UNCHANGED overlaps
  PROVE  TasksIInv'
<1>0. ShownIsSound /\ Formed(t)
  BY DEF TasksIInv, Sound
<1>1. CASE OrdinaryHandles(t)
  <2>1. doubt' = doubt
    BY <1>1, OrdinaryHandleTurns DEF Doubts, Settles
  <2> QED BY <1>0, <1>1, <2>1, OrdinaryHandleTurns, GoesOnKeeps DEF choiceVars, ShownIsSound
<1>2. CASE FolderHandles(t)
  <2>1. "matrix" \in doubt => "matrix" \in doubt'
    BY <1>2, FolderHandleTurns DEF Doubts, Settles
  <2> QED BY <1>0, <1>2, <2>1, FolderHandleTurns, GoesOnKeeps DEF ShownIsSound
<1>3. CASE WizardHandles(t)
  <2>1. "report" \in doubt => "report" \in doubt'
    BY <1>3, WizardHandleTurns DEF Doubts, Settles
  <2> QED BY <1>0, <1>3, <2>1, WizardHandleTurns, GoesOnKeeps DEF ShownIsSound
<1>4. CASE CheckAnswered(t) \/ HealthAnswered(t)
  <2>1. ("matrix" \in doubt => "matrix" \in doubt') /\ ("report" \in doubt => "report" \in doubt')
    BY <1>0, <1>4, HealthHandleTurns, GuiAssumption DEF Doubts, Settles, Formed
  <2> QED BY <1>0, <1>4, <2>1, HealthHandleTurns, GoesOnKeeps DEF choiceVars, ShownIsSound
<1>5. CASE StatusAnswered(t)
  <2>1. /\ t.op = "status" /\ tasks' = (tasks \ {t}) \cup {}
        /\ UNCHANGED <<phase, folder, library, report, candidate, matrix>>
    BY <1>5 DEF StatusAnswered, Answered, Goes, Moves, Placed, choiceVars
  <2>2. doubt' = doubt
    BY <2>1 DEF Doubts, Settles
  <2>3. PICK done, more : done = {t} /\ more = {}
    OBVIOUS
  <2>4. tasks' = (tasks \ done) \cup more /\ \A u \in done : u.op = "status"
    BY <2>1, <2>3
  <2> QED BY <2>1, <2>2, <2>3, <2>4, StatusKeeps
<1> QED BY <1>1, <1>2, <1>3, <1>4, <1>5, HandlesSplit

LEMMA TasksNext ==
  ASSUME TasksIInv, [GuiNext]_guiVars
  PROVE  TasksIInv'
<1>1. CASE Presses /\ UNCHANGED doubt
  BY <1>1, ButtonsKeep, ChoiceKeeps DEF Presses
<1>2. ASSUME NEW t \in tasks, Acts(t), UNCHANGED <<overlaps, doubt>> PROVE TasksIInv'
  BY <1>2, ActsKeeps
<1>3. ASSUME NEW t \in tasks, Handles(t), Doubts(t), UNCHANGED overlaps PROVE TasksIInv'
  BY <1>3, HandlesKeep
<1>4. CASE (\E n \in Profiles : MachineEnds(n) /\ UNCHANGED <<overlaps, doubt>>) \/ UNCHANGED guiVars
  <2>1. UNCHANGED <<phase, folder, library, report, candidate, matrix, tasks, overlaps, doubt>>
    BY <1>4 DEF MachineEnds, choiceVars, guiVars
  <2>2. tasks' = (tasks \ {}) \cup {}
    BY <2>1
  <2> QED BY <2>1, <2>2, StatusKeeps
<1> QED BY <1>1, <1>2, <1>3, <1>4 DEF GuiNext

(* A task has the page to itself, for any profiles and folders and however impatient the user is, unless a folder is    *)
(* chosen under it (GuiState.isBusy, chooseDistributionDirectory).                                                      *)
THEOREM TasksAlwaysTakeTurns == GuiSpec => []TasksTakeTurns
<1>1. TasksIInv /\ [GuiNext]_guiVars => TasksIInv'
  BY TasksNext
<1>2. TasksIInv => TasksTakeTurns
  BY DEF TasksIInv
<1> QED BY <1>1, <1>2, TasksInit, PTL DEF GuiSpec

(* And what is installed or imported from a folder was verified there, unless another one was chosen under the task or  *)
(* under its verification (verifyDistribution, installContentPack, importMissingFromManifest).                          *)
THEOREM UncrossedInstallsAreAlwaysVerified == GuiSpec => []UncrossedInstallsAreVerified
<1>1. TasksIInv /\ [GuiNext]_guiVars => TasksIInv'
  BY TasksNext
<1>2. TasksIInv => UncrossedInstallsAreVerified
  BY DEF TasksIInv, UncrossedInstallsAreVerified, Sound, Founded
<1> QED BY <1>1, <1>2, TasksInit, PTL DEF GuiSpec

-----------------------------------------------------------------------------
(* Health.  A process that was seen of a node is not newer than the one    *)
(* that runs now; and whatever was seen before a check is answered is not  *)
(* newer than the process that was checked, for no launch comes between    *)
(* unless the check was crossed.                                           *)

Earlier(k, n) == k <= pids /\ (pid[n] # 0 => k <= pid[n])
Sighted(t) == t.op \in {"status", "check"} /\ t.did = "well"
Checked(t) == t.op = "health" /\ t.did = "well"

Processes == /\ shown \in [Profiles -> Nat] /\ checked \in [Profiles -> Nat] /\ pid \in [Profiles -> Nat] /\ pids \in Nat
             /\ \A n \in Profiles : pid[n] <= pids
             /\ healthy \subseteq Profiles
SeenIsEarlier ==
  /\ \A n \in Profiles : Earlier(shown[n], n)
  /\ \A t \in tasks : Sighted(t) => t.seen[2] \in [Profiles -> Nat] /\ \A n \in Profiles : Earlier(t.seen[2][n], n)
CheckIsLatest ==
  \A t \in tasks : Checked(t) =>
    /\ t.seen[1] \in Nat
    /\ ~Crossed(t) =>
         /\ shown[t.node] <= t.seen[1] /\ pid[t.node] <= t.seen[1]
         /\ \A u \in tasks : Sighted(u) => u.seen[2][t.node] <= t.seen[1]

HealthIInv == Processes /\ SeenIsEarlier /\ CheckIsLatest /\ HealthIsCurrent

LEMMA NewCallsWait ==
  ASSUME NEW done, Turns(done)
  PROVE  UNCHANGED worldVars /\ \A t \in tasks' : t \in tasks \ done \/ t.did = "waits"
<1>1. PICK more : Moves(done, more) /\ Begun(done, more)
  BY DEF Turns
<1>2. \A c \in Placed(more, done) : c.did = "waits"
  BY <1>1, PlacedCalls DEF Begun
<1> QED BY <1>1, <1>2 DEF Moves

(* A step of a task that shows nothing new. *)
LEMMA TurnIsUnseen ==
  ASSUME TasksIInv, HealthIInv, NEW done, Turns(done), shown' = shown, checked' = checked, healthy' \subseteq healthy,
         overlaps' \in {overlaps, overlaps + 1}, \A n \in Profiles : n \in doubt => n \in doubt'
  PROVE  HealthIInv'
<1>1. \A t \in tasks' : t \in tasks \/ t.did = "waits"
  BY NewCallsWait
<1>2. pid' = pid /\ pids' = pids
  BY NewCallsWait DEF worldVars
<1>3. ASSUME NEW t \in tasks, ~Crossed(t)' PROVE ~Crossed(t)
  <2>1. overlaps \in Nat /\ t.turn \in Nat /\ t.turn <= overlaps + 1
    BY DEF TasksIInv, Sound, Turn
  <2>2. t.turn = overlaps' + 1
    BY <1>3 DEF Crossed, Turn
  <2>3. PICK a \in Nat, b \in Nat, k \in Nat : a = overlaps /\ b = overlaps' /\ k = t.turn
    BY <2>1
  <2>4. k = b + 1 /\ k <= a + 1 /\ (b = a \/ b = a + 1)
    BY <2>1, <2>2, <2>3
  <2>5. k = a + 1
    BY <2>4
  <2> QED BY <2>3, <2>5 DEF Crossed, Turn
<1>4. Processes'
  BY <1>2 DEF HealthIInv, Processes
<1>5. SeenIsEarlier'
  BY <1>1, <1>2 DEF HealthIInv, SeenIsEarlier, Earlier, Sighted
<1>6. CheckIsLatest'
  BY <1>1, <1>2, <1>3 DEF HealthIInv, CheckIsLatest, Sighted, Checked
<1>7. HealthIsCurrent'
  BY DEF HealthIInv, HealthIsCurrent, Processes
<1> QED BY <1>4, <1>5, <1>6, <1>7 DEF HealthIInv

(* What becomes of the processes: a launch is newer than all, and needs a task of its own. *)
ProcessesMove(t) ==
  /\ pid' \in [Profiles -> Nat] /\ pids' \in Nat /\ pids <= pids'
  /\ \A n \in Profiles : pid'[n] \in {0, pid[n]} \/ (t.op \in Starts /\ pid'[n] = pids' /\ pids < pids')

LEMMA EffectMoves ==
  ASSUME Processes, NEW t, Effect(t) \/ UNCHANGED worldVars
  PROVE  ProcessesMove(t)
<1>0. pid \in [Profiles -> Nat] /\ pids \in Nat
  BY DEF Processes
<1>1. CASE t.op \in Starts /\ pids' = pids + 1 /\ pid' = [pid EXCEPT ![t.node] = pids + 1]
  <2>1. PICK top \in Nat : top = pids + 1
    BY <1>0
  <2>2. PICK node : node = t.node
    OBVIOUS
  <2>3. pid' = [pid EXCEPT ![node] = top]
    BY <1>1, <2>1, <2>2
  <2>4. pid' \in [Profiles -> Nat] /\ \A n \in Profiles : pid'[n] \in {top, pid[n]}
    BY <1>0, <2>3
  <2> QED BY <1>0, <1>1, <2>1, <2>4 DEF ProcessesMove
<1>2. CASE pid' = [pid EXCEPT ![t.node] = 0] /\ pids' = pids
  <2>1. PICK node : node = t.node
    OBVIOUS
  <2>2. pid' = [pid EXCEPT ![node] = 0]
    BY <1>2, <2>1
  <2>3. pid' \in [Profiles -> Nat] /\ \A n \in Profiles : pid'[n] \in {0, pid[n]}
    BY <1>0, <2>2
  <2> QED BY <1>0, <1>2, <2>3 DEF ProcessesMove
<1>3. CASE pid' = pid /\ pids' = pids
  BY <1>0, <1>3 DEF ProcessesMove
<1> QED BY <1>1, <1>2, <1>3 DEF Effect, worldVars

LEMMA EarlierStays ==
  ASSUME Processes, NEW t, ProcessesMove(t), NEW k \in Nat, NEW n \in Profiles, Earlier(k, n)
  PROVE  Earlier(k, n)'
BY DEF Processes, ProcessesMove, Earlier

LEMMA ActsIsUnseen ==
  ASSUME TasksIInv, HealthIInv, NEW t \in tasks, Acts(t), UNCHANGED <<overlaps, doubt>>
  PROVE  HealthIInv'
<1>1. PICK u : /\ tasks' = (tasks \ {t}) \cup {u}
               /\ \/ Effect(t) /\ u = [t EXCEPT !.did = "well", !.seen = Told(t)]
                  \/ UNCHANGED worldVars /\ u = [t EXCEPT !.did = "badly"]
  BY DEF Acts
<1>2. UNCHANGED <<shown, checked, healthy>>
  BY DEF Acts, shownVars
<1>3. /\ Shaped(u) /\ u.op = t.op /\ u.node = t.node
      /\ u.did = "well" => Effect(t) /\ u.seen = Told(t)
  <2>1. Shaped(t)
    BY DEF TasksIInv, Sound, Formed
  <2>2. PICK s : s = Told(t)
    OBVIOUS
  <2>3. CASE Effect(t) /\ u = [t EXCEPT !.did = "well", !.seen = Told(t)]
    <3>1. u = Reported(t, s)
      BY <2>2, <2>3 DEF Reported
    <3> QED BY <2>1, <2>2, <2>3, <3>1, ActedCall
  <2>4. CASE u = [t EXCEPT !.did = "badly"]
    <3>1. u = Failed(t)
      BY <2>4 DEF Failed
    <3>2. u.did = "badly"
      <4>1. PICK op, node, queue, from, proof, did, seen, no, turn :
              t = [op |-> op, node |-> node, queue |-> queue, folder |-> from, proof |-> proof, did |-> did, seen |-> seen,
                   no |-> no, turn |-> turn]
        BY <2>1 DEF Shaped
      <4> QED BY <2>4, <4>1
    <3> QED BY <2>1, <3>1, <3>2, ActedCall
  <2> QED BY <1>1, <2>3, <2>4
<1>4. Processes /\ SeenIsEarlier /\ CheckIsLatest
  BY DEF HealthIInv
<1>5. ProcessesMove(t)
  BY <1>1, <1>4, EffectMoves
<1>6. Processes'
  BY <1>2, <1>4, <1>5 DEF Processes, ProcessesMove
<1>7. SeenIsEarlier'
  <2>1. (\A n \in Profiles : Earlier(shown[n], n))'
    <3> SUFFICES ASSUME NEW n \in Profiles PROVE Earlier(shown[n], n)'
      OBVIOUS
    <3>1. PICK k : k = shown[n]
      OBVIOUS
    <3>2. k \in Nat /\ Earlier(k, n)
      BY <1>4, <3>1 DEF Processes, SeenIsEarlier
    <3>3. Earlier(k, n)'
      BY <1>4, <1>5, <3>2, EarlierStays
    <3> QED BY <1>2, <3>1, <3>3
  <2>2. ASSUME NEW v \in tasks', Sighted(v)
        PROVE  v.seen[2] \in [Profiles -> Nat] /\ \A n \in Profiles : Earlier(v.seen[2][n], n)'
    <3>1. CASE v \in tasks
      <4>1. v.seen[2] \in [Profiles -> Nat] /\ \A n \in Profiles : Earlier(v.seen[2][n], n)
        BY <1>4, <2>2, <3>1 DEF SeenIsEarlier
      <4>2. ASSUME NEW n \in Profiles PROVE Earlier(v.seen[2][n], n)'
        <5>1. v.seen[2][n] \in Nat /\ Earlier(v.seen[2][n], n)
          BY <4>1
        <5> QED BY <1>4, <1>5, <5>1, EarlierStays
      <4> QED BY <4>1, <4>2
    <3>2. CASE v = u
      <4>1. v.op \in {"status", "check"} /\ u.seen = <<imported, pid>>
        BY <1>3, <2>2, <3>2 DEF Sighted, Told
      <4>2. pid' = pid /\ pids' = pids
        BY <1>1, <1>3, <3>2, <4>1 DEF Effect, Starts, Stops, Adds, worldVars
      <4> QED BY <1>4, <3>2, <4>1, <4>2 DEF Processes, Earlier
    <3> QED BY <1>1, <3>1, <3>2
  <2> QED BY <2>1, <2>2 DEF SeenIsEarlier, Sighted
<1>8. CheckIsLatest'
  <2> SUFFICES ASSUME NEW v \in tasks', Checked(v)
               PROVE  /\ v.seen[1] \in Nat
                      /\ ~Crossed(v) =>
                           /\ shown'[v.node] <= v.seen[1] /\ pid'[v.node] <= v.seen[1]
                           /\ \A w \in tasks' : Sighted(w) => w.seen[2][v.node] <= v.seen[1]
    BY DEF CheckIsLatest, Checked, Sighted, Crossed, Turn
  <2>1. CASE v = u
    <3>1. /\ t.op = "health" /\ u.seen = <<pid[t.node]>> /\ pid[t.node] # 0 /\ t.node \in Profiles /\ v.node = t.node
          /\ pid' = pid
      BY <1>3, <2>1 DEF Checked, Told, Effect, Starts, Stops, Adds, worldVars, TasksIInv, Sound, Formed
    <3>2. v.seen[1] = pid[t.node] /\ pid[t.node] \in Nat
      BY <1>4, <2>1, <3>1 DEF Processes
    <3>3. \A w \in tasks' : Sighted(w) => w \in tasks
      BY <1>1, <1>3, <3>1 DEF Sighted
    <3>4. shown[t.node] <= pid[t.node] /\ \A w \in tasks' : Sighted(w) => w.seen[2][t.node] <= pid[t.node]
      BY <1>4, <3>1, <3>3 DEF SeenIsEarlier, Earlier
    <3> QED BY <1>2, <3>1, <3>2, <3>4
  <2>2. CASE v \in tasks \ {t}
    <3>1. v.op = "health" /\ v.node \in Profiles
      BY <2>2 DEF Checked, TasksIInv, Sound, Formed
    <3>2. /\ v.seen[1] \in Nat
          /\ ~Crossed(v) =>
               /\ shown[v.node] <= v.seen[1] /\ pid[v.node] <= v.seen[1]
               /\ \A w \in tasks : Sighted(w) => w.seen[2][v.node] <= v.seen[1]
      BY <1>4, <2>2 DEF CheckIsLatest
    <3>3. ASSUME ~Crossed(v)
          PROVE  /\ shown'[v.node] <= v.seen[1] /\ pid'[v.node] <= v.seen[1]
                 /\ \A w \in tasks' : Sighted(w) => w.seen[2][v.node] <= v.seen[1]
      <4>1. t.op = "status"
        BY <2>2, <3>1, <3>3, OthersAreCrossed DEF TasksIInv
      <4>2. pid' = pid
        BY <1>1, <4>1 DEF Effect, Starts, Stops, Adds, worldVars
      <4>3. Sighted(u) => u.seen[2] = pid
        BY <1>3, <4>1 DEF Sighted, Told
      <4> QED BY <1>1, <1>2, <3>2, <3>3, <4>2, <4>3
    <3> QED BY <3>2, <3>3
  <2> QED BY <1>1, <2>1, <2>2
<1>9. HealthIsCurrent'
  BY <1>2 DEF HealthIInv, HealthIsCurrent
<1> QED BY <1>6, <1>7, <1>8, <1>9 DEF HealthIInv

(* A machine may end beside every task. *)
LEMMA EndIsUnseen ==
  ASSUME HealthIInv, NEW node \in Profiles, MachineEnds(node), UNCHANGED <<overlaps, doubt>>
  PROVE  HealthIInv'
<1>1. /\ UNCHANGED <<shown, checked, healthy, tasks, pids>>
      /\ pid' = [pid EXCEPT ![node] = 0]
  BY DEF MachineEnds, shownVars
<1>2. pid' \in [Profiles -> Nat] /\ \A n \in Profiles : pid'[n] \in {0, pid[n]}
  BY <1>1 DEF HealthIInv, Processes
<1>3. Processes'
  BY <1>1, <1>2 DEF HealthIInv, Processes
<1>4. SeenIsEarlier'
  BY <1>1, <1>2 DEF HealthIInv, SeenIsEarlier, Earlier, Sighted
<1>5. CheckIsLatest'
  <2> SUFFICES ASSUME NEW v \in tasks, Checked(v), ~Crossed(v)
               PROVE  pid'[v.node] <= v.seen[1]
    BY <1>1 DEF HealthIInv, CheckIsLatest, Checked, Sighted, Crossed, Turn
  <2>1. v.seen[1] \in Nat /\ pid[v.node] <= v.seen[1]
    BY DEF HealthIInv, CheckIsLatest
  <2>2. pid'[v.node] = pid[v.node] \/ pid'[v.node] = 0
    BY <1>1 DEF HealthIInv, Processes
  <2> QED BY <2>1, <2>2
<1>6. HealthIsCurrent'
  BY <1>1 DEF HealthIInv, HealthIsCurrent
<1> QED BY <1>3, <1>4, <1>5, <1>6 DEF HealthIInv

(* What a status showed is shown; who is healthy must still run as the process that was shown. *)
LEMMA ReportIsCurrent ==
  ASSUME HealthIInv, NEW seen, seen[2] \in [Profiles -> Nat], ApplyStatusReport(seen), doubt' = doubt
  PROVE  shown' = seen[2] /\ checked' = checked /\ healthy' \subseteq healthy /\ HealthIsCurrent'
<1>1. shown' = seen[2] /\ checked' = checked /\ \A n \in healthy' : n \in healthy /\ shown'[n] = shown[n]
  BY DEF ApplyStatusReport, StillHealthy
<1> QED BY <1>1 DEF HealthIInv, HealthIsCurrent

LEMMA StatusIsCurrent ==
  ASSUME HealthIInv, NEW t \in tasks, StatusAnswered(t), Doubts(t), UNCHANGED overlaps
  PROVE  HealthIInv'
<1>0. doubt' = doubt
  BY DEF StatusAnswered, Answered, Doubts, Settles
<1>1. /\ tasks' \subseteq tasks /\ UNCHANGED worldVars
      /\ \A u \in tasks : Crossed(u)' = Crossed(u)
  BY DEF StatusAnswered, Goes, Moves, Placed, Crossed, Turn
<1>2. CASE Well(t)
  <2>1. Sighted(t) /\ ApplyStatusReport(t.seen)
    BY <1>2 DEF StatusAnswered, Answered, Well, Sighted
  <2>2. t.seen[2] \in [Profiles -> Nat] /\ \A n \in Profiles : Earlier(t.seen[2][n], n)
    BY <2>1 DEF HealthIInv, SeenIsEarlier
  <2>3. PICK seen : seen = t.seen
    OBVIOUS
  <2>4. shown' = t.seen[2] /\ checked' = checked /\ healthy' \subseteq healthy /\ HealthIsCurrent'
    BY <1>0, <2>1, <2>2, <2>3, ReportIsCurrent
  <2>5. Processes'
    BY <1>1, <2>2, <2>4 DEF HealthIInv, Processes, worldVars
  <2>6. SeenIsEarlier'
    BY <1>1, <2>2, <2>4 DEF HealthIInv, SeenIsEarlier, Earlier, Sighted, worldVars
  <2>7. CheckIsLatest'
    BY <1>1, <2>1, <2>4 DEF HealthIInv, CheckIsLatest, Checked, Sighted, worldVars
  <2> QED BY <2>4, <2>5, <2>6, <2>7 DEF HealthIInv
<1>3. CASE ~Well(t)
  <2>1. UNCHANGED <<shown, checked, healthy>>
    BY <1>3 DEF StatusAnswered, Shows, shownVars
  <2> QED BY <1>0, <1>1, <2>1 DEF HealthIInv, Processes, SeenIsEarlier, CheckIsLatest, HealthIsCurrent, Earlier, Sighted, Checked, worldVars
<1> QED BY <1>2, <1>3

LEMMA CheckIsCurrent ==
  ASSUME TasksIInv, HealthIInv, NEW t \in tasks, CheckAnswered(t), Doubts(t), UNCHANGED overlaps
  PROVE  HealthIInv'
<1>1. Turns({t}) /\ t.op = "check"
  BY HealthHandleTurns DEF CheckAnswered, Answered
<1>0. doubt' = doubt
  BY <1>1 DEF Doubts, Settles
<1>2. CASE Well(t)
  <2>1. Sighted(t) /\ ApplyStatusReport(t.seen)
    BY <1>1, <1>2 DEF CheckAnswered, Well, Sighted
  <2>2. t.seen[2] \in [Profiles -> Nat] /\ \A n \in Profiles : Earlier(t.seen[2][n], n)
    BY <2>1 DEF HealthIInv, SeenIsEarlier
  <2>3. PICK seen : seen = t.seen
    OBVIOUS
  <2>4. shown' = t.seen[2] /\ checked' = checked /\ healthy' \subseteq healthy /\ HealthIsCurrent'
    BY <1>0, <2>1, <2>2, <2>3, ReportIsCurrent
  <2>5. \A u \in tasks' : u \in tasks \ {t} \/ u.did = "waits"
    BY <1>1, NewCallsWait
  <2>6. \A u \in tasks \ {t} : u.op # "status" => Crossed(u)'
    BY <1>1, OthersAreCrossed DEF TasksIInv, Crossed, Turn
  <2>7. pid' = pid /\ pids' = pids
    BY <1>1, NewCallsWait DEF worldVars
  <2>8. Processes'
    BY <2>2, <2>4, <2>7 DEF HealthIInv, Processes
  <2>9. SeenIsEarlier'
    BY <2>2, <2>4, <2>5, <2>7 DEF HealthIInv, SeenIsEarlier, Earlier, Sighted
  <2>10. CheckIsLatest'
    BY <2>5, <2>6 DEF HealthIInv, CheckIsLatest, Checked
  <2> QED BY <2>4, <2>8, <2>9, <2>10 DEF HealthIInv
<1>3. CASE ~Well(t)
  <2>1. UNCHANGED <<shown, checked, healthy>>
    BY <1>3 DEF CheckAnswered, Shows, shownVars
  <2> QED BY <1>0, <1>1, <2>1, TurnIsUnseen
<1> QED BY <1>2, <1>3

LEMMA HealthyIsCurrent ==
  ASSUME TasksIInv, HealthIInv, NEW t \in tasks, HealthAnswered(t), Doubts(t), UNCHANGED overlaps
  PROVE  HealthIInv'
<1>1. Turns({t}) /\ t.op = "health" /\ t.node \in Profiles /\ shown' = shown
  BY HealthHandleTurns DEF HealthAnswered, Answered, TasksIInv, Sound, Formed
<1>2. CASE Well(t)
  <2>1. /\ Checked(t) /\ healthy' = healthy \cup {t.node}
        /\ checked' = [checked EXCEPT ![t.node] = t.seen[1]]
        /\ IF Crossed(t) THEN doubt' = doubt \cup {t.node} ELSE doubt' = doubt \ {t.node}
    BY <1>1, <1>2 DEF HealthAnswered, Well, Checked, Doubts, Settles
  <2>2. t.seen[1] \in Nat /\ (~Crossed(t) => shown[t.node] <= t.seen[1])
    BY <2>1 DEF HealthIInv, CheckIsLatest
  <2>3. PICK node \in Profiles, k \in Nat : node = t.node /\ k = t.seen[1]
    BY <1>1, <2>2
  <2>4. checked' = [checked EXCEPT ![node] = k] /\ checked \in [Profiles -> Nat]
    BY <2>1, <2>3 DEF HealthIInv, Processes
  <2>5. /\ checked' \in [Profiles -> Nat] /\ checked'[node] = k
        /\ \A n : n # node => checked'[n] = checked[n]
    BY <2>4
  <2>6. HealthIsCurrent'
    <3> SUFFICES ASSUME NEW n \in healthy', n \notin doubt' PROVE shown'[n] <= checked'[n]
      BY DEF HealthIsCurrent
    <3>1. CASE n = node
      BY <1>1, <2>1, <2>2, <2>3, <2>5, <3>1
    <3>2. CASE n # node
      BY <1>1, <2>1, <2>3, <2>5, <3>2 DEF HealthIInv, HealthIsCurrent
    <3> QED BY <3>1, <3>2
  <2>7. \A u \in tasks' : u \in tasks \ {t} \/ u.did = "waits"
    BY <1>1, NewCallsWait
  <2>8. \A u \in tasks \ {t} : u.op # "status" => Crossed(u)'
    BY <1>1, OthersAreCrossed DEF TasksIInv, Crossed, Turn
  <2>9. pid' = pid /\ pids' = pids
    BY <1>1, NewCallsWait DEF worldVars
  <2>10. Processes'
    BY <1>1, <2>1, <2>5, <2>9 DEF HealthIInv, Processes
  <2>11. SeenIsEarlier'
    BY <1>1, <2>7, <2>9 DEF HealthIInv, SeenIsEarlier, Earlier, Sighted
  <2>12. CheckIsLatest'
    BY <2>7, <2>8 DEF HealthIInv, CheckIsLatest, Checked
  <2> QED BY <2>6, <2>10, <2>11, <2>12 DEF HealthIInv
<1>3. CASE ~Well(t)
  <2>1. UNCHANGED <<shown, checked, doubt>> /\ healthy' \subseteq healthy
    BY <1>1, <1>3 DEF HealthAnswered, Doubts
  <2> QED BY <1>1, <2>1, TurnIsUnseen
<1> QED BY <1>2, <1>3

LEMMA HealthInit == GuiInit => HealthIInv
BY GuiAssumption DEF GuiInit, HealthIInv, Processes, SeenIsEarlier, CheckIsLatest, HealthIsCurrent, Earlier

LEMMA ButtonIsUnseen ==
  ASSUME TasksIInv, HealthIInv, Buttons, UNCHANGED <<overlaps, doubt>>
  PROVE  HealthIInv'
<1>1. CASE RefreshAutomatically
  <2>1. PICK more : more = Refresh
    OBVIOUS
  <2>2. tasks' = tasks \cup more /\ UNCHANGED <<shownVars, worldVars>>
    BY <1>1, <2>1 DEF RefreshAutomatically
  <2>3. \A t \in tasks' : t \in tasks \/ t.did = "waits"
    BY <2>1, <2>2, RefreshIsStatus DEF One, Ticket
  <2>4. Processes' /\ HealthIsCurrent'
    BY <2>2 DEF HealthIInv, Processes, HealthIsCurrent, shownVars, worldVars
  <2>5. SeenIsEarlier'
    BY <2>2, <2>3 DEF HealthIInv, SeenIsEarlier, Earlier, Sighted, shownVars, worldVars
  <2>6. CheckIsLatest'
    BY <2>2, <2>3 DEF HealthIInv, CheckIsLatest, Checked, Sighted, Crossed, Turn, shownVars, worldVars
  <2> QED BY <2>4, <2>5, <2>6 DEF HealthIInv
<1>2. CASE StopRemaining
  BY <1>2 DEF StopRemaining, HealthIInv, Processes, SeenIsEarlier, CheckIsLatest, HealthIsCurrent, Earlier, Sighted, Checked,
              Crossed, Turn, shownVars, worldVars
<1>3. CASE CheckStatus
  <2>1. UNCHANGED <<shown, checked>> /\ healthy' = {}
    BY <1>3 DEF CheckStatus
  <2> QED BY <1>3, <2>1, CheckStatusTurns, TurnIsUnseen
<1>4. CASE PagePresses
  BY <1>4, PagePressTurns, TurnIsUnseen DEF shownVars
<1>5. CASE WizardPresses
  BY <1>5, WizardPressTurns, TurnIsUnseen DEF shownVars
<1>6. CASE FolderPresses
  BY <1>6, FolderPressTurns, TurnIsUnseen DEF shownVars
<1>7. CASE \E n \in Profiles : NodePresses(n)
  BY <1>7, NodePressTurns, TurnIsUnseen DEF shownVars
<1> QED BY <1>1, <1>2, <1>3, <1>4, <1>5, <1>6, <1>7, ButtonsSplit

LEMMA ChoiceIsUnseen ==
  ASSUME TasksIInv, HealthIInv, NEW f \in Folders, ChooseFolder(f), UNCHANGED doubt
  PROVE  HealthIInv'
<1>1. overlaps' \in {overlaps, overlaps + 1}
  BY DEF ChooseFolder
<1> QED BY <1>1, ChooseTurns, TurnIsUnseen

(* An answer to another call leaves what is shown of the machines' health as it was. *)
LEMMA OtherDoubts ==
  ASSUME NEW t, t.op # "health", Doubts(t)
  PROVE  \A n \in Profiles : n \in doubt => n \in doubt'
BY GuiAssumption DEF Doubts, Settles

LEMMA HealthNext ==
  ASSUME TasksIInv, HealthIInv, [GuiNext]_guiVars
  PROVE  HealthIInv'
<1>1. CASE Presses /\ UNCHANGED doubt
  BY <1>1, ButtonIsUnseen, ChoiceIsUnseen DEF Presses
<1>2. ASSUME NEW t \in tasks, Acts(t), UNCHANGED <<overlaps, doubt>> PROVE HealthIInv'
  BY <1>2, ActsIsUnseen
<1>3. ASSUME NEW t \in tasks, Handles(t), Doubts(t), UNCHANGED overlaps PROVE HealthIInv'
  <2>1. CASE OrdinaryHandles(t)
    BY <1>3, <2>1, OrdinaryHandleTurns, OtherDoubts, TurnIsUnseen
  <2>2. CASE FolderHandles(t)
    BY <1>3, <2>2, FolderHandleTurns, OtherDoubts, TurnIsUnseen
  <2>3. CASE WizardHandles(t)
    BY <1>3, <2>3, WizardHandleTurns, OtherDoubts, TurnIsUnseen
  <2> QED BY <1>3, <2>1, <2>2, <2>3, CheckIsCurrent, HealthyIsCurrent, StatusIsCurrent, HandlesSplit
<1>4. ASSUME NEW n \in Profiles, MachineEnds(n), UNCHANGED <<overlaps, doubt>> PROVE HealthIInv'
  BY <1>4, EndIsUnseen
<1>5. CASE UNCHANGED guiVars
  BY <1>5 DEF guiVars, HealthIInv, Processes, SeenIsEarlier, CheckIsLatest, HealthIsCurrent, Earlier, Sighted, Checked, Crossed, Turn
<1> QED BY <1>1, <1>2, <1>3, <1>4, <1>5 DEF GuiNext

(* No machine is shown as healthy that was launched after the one that was checked, whatever ends or is refreshed       *)
(* meanwhile, unless the check was crossed (applyStatusReport, checkHealthSequence).                                    *)
THEOREM HealthIsAlwaysCurrent == GuiSpec => []HealthIsCurrent
<1>1. TasksIInv /\ HealthIInv /\ [GuiNext]_guiVars => TasksIInv' /\ HealthIInv'
  BY TasksNext, HealthNext
<1>2. HealthIInv => HealthIsCurrent
  BY DEF HealthIInv
<1> QED BY <1>1, <1>2, TasksInit, HealthInit, PTL DEF GuiSpec

-----------------------------------------------------------------------------
(***************************************************************************)
(* The scene page.  Calls are numbered, the page waits for the last of     *)
(* them, and one of the fixed chain keeps everything else waiting; what    *)
(* the service answered is of the instance that was asked about.           *)
(***************************************************************************)

ViewShape(v) ==
  v = [of |-> v.of, reading |-> v.reading, revision |-> v.revision, cursor |-> v.cursor, result |-> v.result, fresh |-> v.fresh]
CallShape(c) ==
  c = [id |-> c.id, of |-> c.of, action |-> c.action, arg |-> c.arg, generic |-> c.generic, reply |-> c.reply]

SceneTypes ==
  /\ generic \in BOOLEAN /\ busy \in BOOLEAN /\ tickets \in Nat /\ ticket \in {0, tickets} /\ nextBefore \in Nat /\ cursor \in Nat
  /\ timeline \in Seq(Nat) /\ history \in Seq(Nat)
  /\ operations \in [Scenes -> Nat] /\ lastEvent \in [Scenes -> Nat] /\ floor \in [Scenes -> Nat]
  /\ \A v \in view : ViewShape(v) /\ v.revision \in Nat /\ v.cursor \in Nat
  /\ \A c \in calls : CallShape(c) /\ c.id \in 1..tickets /\ c.arg \in Nat /\ c.generic \in BOOLEAN
  /\ \A x \in sent : x.id \in 1..tickets

(* A page of the history that was asked for before some operation: it begins right below it. *)
IsPage(r, i, before, newest) ==
  \E top \in Nat, n \in Nat :
    /\ n < top /\ (IF before = 0 THEN top <= newest + 1 ELSE top = before)
    /\ r.rows = [k \in 1..n |-> top - k] /\ r.next \in Nat /\ (r.next # 0 => n > 0 /\ r.next = top - n)

RepliesAreReal ==
  \A c \in calls :
    /\ c.reply.kind = "status" => c.reply.revision \in Nat /\ c.reply.cursor \in Nat
    /\ c.reply.kind = "events" => c.reply.rows \in Seq(Nat)
    /\ c.reply.kind = "page" => c.of \in Scenes /\ IsPage(c.reply, c.of, c.arg, operations[c.of])

CallsInOrder ==
  /\ \A c, d \in calls : c.id = d.id => c = d
  /\ ticket # 0 => busy
  /\ \A c \in calls : ~c.generic => busy /\ ticket = 0 /\ ~generic /\ c.id = tickets
  /\ \A c \in calls : c.id = ticket /\ c.action = "operation-history" => c.arg = nextBefore
  /\ \A c \in calls, x \in sent : c.id = x.id => c.action \in Changes

ReadingsAreLater ==
  /\ \A x \in sent, v \in view \cup snapshot : x.id < v.reading
  /\ \A v \in view \cup snapshot : v.reading \in 1..tickets

(* The parts of what the page promises. *)
ShownIsOfTheScene == (\A v \in view : generic /\ v.of = scene) /\ (\A s \in snapshot : ~generic /\ s.of = scene)
TimelineIsUnbroken == \A k \in DOMAIN timeline : timeline[k] = cursor - Len(timeline) + k
HistoryIsUnbroken ==
  /\ \A k \in 2..Len(history) : history[k] = history[k - 1] - 1
  /\ history # <<>> => scene \in Scenes /\ history[1] <= operations[scene] /\ nextBefore \in {0, history[Len(history)]}
BusyWaits == busy => \E c \in calls : c.id = ticket \/ ~c.generic
ChangesRestOnLater == \A x, y \in sent : x.id < y.id => x.id < y.reading

SceneIInv ==
  /\ SceneTypes /\ RepliesAreReal /\ CallsInOrder /\ ReadingsAreLater
  /\ ShownIsOfTheScene /\ TimelineIsUnbroken /\ HistoryIsUnbroken /\ BusyWaits /\ ChangesRestOnLater

LEMMA PageFromParts == SceneIInv => PageIsOfTheScene
BY DEF SceneIInv, PageIsOfTheScene, ShownIsOfTheScene, TimelineIsUnbroken, HistoryIsUnbroken, BusyWaits, ChangesRestOnLater

LEMMA LeastOf ==
  ASSUME NEW a \in Int, NEW b \in Int
  PROVE  Least(a, b) \in {a, b} /\ Least(a, b) <= a /\ Least(a, b) <= b
BY DEF Least

(* The last events of a run, and of the run that continues it. *)
EndsAt(s, end) == \A k \in DOMAIN s : s[k] = end - Len(s) + k
Follows(s, cur) == \A k \in DOMAIN s : s[k] = cur + k

LEMMA RunGoesOn ==
  ASSUME NEW t \in Seq(Nat), NEW r \in Seq(Nat), NEW cur \in Nat, EndsAt(t, cur), Follows(r, cur)
  PROVE  t \o r \in Seq(Nat) /\ EndsAt(t \o r, cur + Len(r))
<1>0. (\A k \in DOMAIN t : t[k] = cur - Len(t) + k) /\ (\A k \in DOMAIN r : r[k] = cur + k)
  BY DEF EndsAt, Follows
<1>1. /\ t \o r \in Seq(Nat) /\ Len(t \o r) = Len(t) + Len(r) /\ Len(t) \in Nat /\ Len(r) \in Nat
      /\ DOMAIN (t \o r) = 1..(Len(t) + Len(r)) /\ DOMAIN t = 1..Len(t) /\ DOMAIN r = 1..Len(r)
  OBVIOUS
<1>2. ASSUME NEW k \in 1..(Len(t) + Len(r)) PROVE (t \o r)[k] = cur + Len(r) - (Len(t) + Len(r)) + k
  <2>1. CASE k <= Len(t)
    <3>1. k \in DOMAIN t /\ (t \o r)[k] = t[k]
      BY <1>1, <2>1
    <3> QED BY <1>0, <1>1, <3>1
  <2>2. CASE k > Len(t)
    <3>1. k - Len(t) \in DOMAIN r /\ (t \o r)[k] = r[k - Len(t)]
      BY <1>1, <2>2
    <3>2. r[k - Len(t)] = cur + (k - Len(t))
      BY <1>0, <3>1
    <3> QED BY <1>1, <3>1, <3>2
  <2> QED BY <1>1, <2>1, <2>2
<1> QED BY <1>1, <1>2 DEF EndsAt

LEMMA LastOfRun ==
  ASSUME NEW s \in Seq(Nat), NEW end \in Nat, EndsAt(s, end)
  PROVE  LastOf(s, Shown) \in Seq(Nat) /\ EndsAt(LastOf(s, Shown), end)
<1>0. Len(s) \in Nat /\ DOMAIN s = 1..Len(s) /\ Shown \in Nat
  BY SceneAssumption
<1>1. PICK m \in Nat : m = Least(Shown, Len(s)) /\ m <= Len(s)
  BY <1>0, LeastOf
<1>2. PICK a \in Nat : a = Len(s) - m /\ a + 1 = Len(s) - m + 1
  BY <1>0, <1>1
<1>3. PICK l : l = SubSeq(s, a + 1, Len(s)) /\ l = LastOf(s, Shown)
  BY <1>1, <1>2 DEF LastOf
<1>4. l \in Seq(Nat) /\ Len(l) = m /\ DOMAIN l = 1..m /\ \A k \in 1..m : l[k] = s[a + k]
  <2>1. \A i \in (a + 1)..Len(s) : s[i] \in Nat
    BY <1>0, <1>2
  <2>2. a + 1 \in Int /\ Len(s) \in Int /\ Len(s) - (a + 1) + 1 = m
    BY <1>0, <1>1, <1>2
  <2>3. /\ l \in Seq(Nat)
        /\ Len(l) = IF a + 1 <= Len(s) THEN Len(s) - (a + 1) + 1 ELSE 0
        /\ \A i \in 1..(Len(s) - (a + 1) + 1) : l[i] = s[a + 1 + i - 1]
    BY <1>3, <2>1, <2>2, SubSeqProperties
  <2>4. Len(l) = m
    BY <1>0, <1>1, <1>2, <2>3
  <2>5. ASSUME NEW k \in 1..m PROVE l[k] = s[a + k]
    <3>1. a + 1 + k - 1 = a + k
      BY <2>5
    <3> QED BY <2>2, <2>3, <3>1
  <2> QED BY <2>3, <2>4, <2>5
<1>5. ASSUME NEW k \in 1..m PROVE l[k] = end - m + k
  <2>1. a + k \in DOMAIN s
    <3>1. a + k \in 1..Len(s)
      BY <1>0, <1>1, <1>2, <1>5
    <3>2. DOMAIN s = 1..Len(s)
      BY <1>0
    <3> QED BY <3>1, <3>2
  <2>2. s[a + k] = end - Len(s) + (a + k)
    BY <2>1 DEF EndsAt
  <2>3. l[k] = s[a + k]
    BY <1>4
  <2>4. end - Len(s) + (a + k) = end - m + k
    BY <1>0, <1>1, <1>2
  <2> QED BY <2>2, <2>3, <2>4
<1> QED BY <1>3, <1>4, <1>5 DEF EndsAt

LEMMA SceneInitInv == SceneInit => SceneIInv
<1> SUFFICES ASSUME SceneInit PROVE SceneIInv
  OBVIOUS
<1>1. SceneTypes
  <2>1. <<>> \in Seq(Nat) /\ [i \in Scenes |-> 0] \in [Scenes -> Nat]
    OBVIOUS
  <2>2. timeline \in Seq(Nat) /\ history \in Seq(Nat) /\ operations \in [Scenes -> Nat] /\ lastEvent \in [Scenes -> Nat] /\ floor \in [Scenes -> Nat]
    BY <2>1 DEF SceneInit
  <2>3. /\ generic \in BOOLEAN /\ busy \in BOOLEAN /\ tickets \in Nat /\ ticket \in {0, tickets} /\ nextBefore \in Nat /\ cursor \in Nat
        /\ view = {} /\ calls = {} /\ sent = {}
    BY DEF SceneInit
  <2> QED BY <2>2, <2>3 DEF SceneTypes
<1>2. RepliesAreReal /\ CallsInOrder /\ ReadingsAreLater /\ ShownIsOfTheScene /\ BusyWaits /\ ChangesRestOnLater
  BY DEF SceneInit, RepliesAreReal, CallsInOrder, ReadingsAreLater, ShownIsOfTheScene, BusyWaits, ChangesRestOnLater
<1>3. TimelineIsUnbroken /\ HistoryIsUnbroken
  BY DEF SceneInit, TimelineIsUnbroken, HistoryIsUnbroken
<1> QED BY <1>1, <1>2, <1>3 DEF SceneIInv

(* A page that is not busy waits for no call. *)
LEMMA FreePage ==
  ASSUME SceneIInv, ~busy
  PROVE  ticket = 0 /\ \A c \in calls : c.generic /\ c.id # 0
BY DEF SceneIInv, CallsInOrder, SceneTypes

(* The selection changes: the page forgets. *)
LEMMA SelectionKeeps ==
  ASSUME SceneIInv, ~busy, Forget, scene' \in Scenes \cup {Unset}, generic' \in BOOLEAN,
         UNCHANGED <<busy, ticket, tickets, calls, sent, serviceVars>>
  PROVE  SceneIInv'
<1>0. ticket = 0 /\ \A c \in calls : c.generic /\ c.id # 0
  BY FreePage
<1>1. SceneTypes'
  BY DEF SceneIInv, SceneTypes, Forget, sceneResetReadonly, serviceVars, CallShape, ViewShape
<1>2. RepliesAreReal'
  BY DEF SceneIInv, RepliesAreReal, IsPage, serviceVars
<1>3. CallsInOrder'
  BY <1>0 DEF SceneIInv, CallsInOrder
<1>4. ReadingsAreLater' /\ ShownIsOfTheScene'
  BY DEF ReadingsAreLater, ShownIsOfTheScene, Forget
<1>5. TimelineIsUnbroken' /\ HistoryIsUnbroken'
  BY DEF TimelineIsUnbroken, HistoryIsUnbroken, Forget, sceneResetReadonly
<1>6. BusyWaits' /\ ChangesRestOnLater'
  BY DEF SceneIInv, BusyWaits, ChangesRestOnLater
<1> QED BY <1>1, <1>2, <1>3, <1>4, <1>5, <1>6 DEF SceneIInv

LEMMA NewCallIs ==
  ASSUME NEW action, NEW arg, NEW c, c = NewCall(action, arg)
  PROVE  /\ CallShape(c) /\ c.id = tickets + 1 /\ c.of = scene /\ c.action = action /\ c.arg = arg /\ c.generic = generic
         /\ c.reply.kind = "none"
BY DEF NewCall, CallShape, None

(* A call of the generic chain takes the page; one that may change something uses up what was read. *)
LEMMA CallKeeps ==
  ASSUME SceneIInv, NEW action, NEW arg \in Nat, sceneGenericCall(action, arg),
         action = "operation-history" => arg = nextBefore',
         nextBefore' \in Nat, cursor' \in Nat, timeline' \in Seq(Nat), history' \in Seq(Nat),
         sent' = sent \/ (action \in Changes /\ \E rd : sent' = sent \cup {[id |-> tickets + 1, reading |-> rd]})
  PROVE  /\ SceneTypes' /\ RepliesAreReal' /\ CallsInOrder' /\ ReadingsAreLater' /\ ShownIsOfTheScene' /\ BusyWaits'
<1>0. /\ ticket = 0 /\ (\A c \in calls : c.generic /\ c.id # 0) /\ generic /\ tickets \in Nat /\ generic \in BOOLEAN
  BY FreePage DEF sceneGenericCall, SceneIInv, SceneTypes
<1>1. PICK n : n = NewCall(action, arg)
  OBVIOUS
<1>2. /\ CallShape(n) /\ n.id = tickets + 1 /\ n.of = scene /\ n.action = action /\ n.arg = arg /\ n.generic = generic
      /\ n.reply.kind = "none"
  BY <1>1, NewCallIs
<1>3. /\ calls' = calls \cup {n} /\ busy' = TRUE /\ ticket' = tickets + 1 /\ tickets' = tickets + 1
      /\ UNCHANGED <<pageVars, serviceVars>>
      /\ view' \subseteq view /\ snapshot' \subseteq snapshot
      /\ action \in Changes => view' = {} /\ snapshot' = {}
  BY <1>1 DEF sceneGenericCall, Reads, Changes
<1>4. \A x \in sent' : x \in sent \/ (action \in Changes /\ x.id = tickets + 1)
  OBVIOUS
<1>5. /\ \A c \in calls : CallShape(c) /\ c.id \in 1..tickets /\ c.arg \in Nat /\ c.generic \in BOOLEAN
      /\ \A v \in view : ViewShape(v) /\ v.revision \in Nat /\ v.cursor \in Nat
      /\ \A x \in sent : x.id \in 1..tickets
      /\ operations \in [Scenes -> Nat] /\ lastEvent \in [Scenes -> Nat] /\ floor \in [Scenes -> Nat]
  BY DEF SceneIInv, SceneTypes
<1>6. SceneTypes'
  <2>1. \A c \in calls' : CallShape(c) /\ c.id \in 1..tickets' /\ c.arg \in Nat /\ c.generic \in BOOLEAN
    <3>1. \A c \in calls : c.id \in 1..tickets'
      BY <1>0, <1>3, <1>5
    <3>2. n.id \in 1..tickets' /\ n.arg \in Nat /\ n.generic \in BOOLEAN
      BY <1>0, <1>2, <1>3
    <3> QED BY <1>2, <1>3, <1>5, <3>1, <3>2
  <2>2. \A x \in sent' : x.id \in 1..tickets'
    BY <1>0, <1>3, <1>4, <1>5
  <2>3. \A v \in view' : ViewShape(v) /\ v.revision \in Nat /\ v.cursor \in Nat
    BY <1>3, <1>5
  <2>4. generic' \in BOOLEAN /\ busy' \in BOOLEAN /\ tickets' \in Nat /\ ticket' \in {0, tickets'}
    BY <1>0, <1>3 DEF pageVars
  <2> QED BY <1>3, <1>5, <2>1, <2>2, <2>3, <2>4 DEF SceneTypes, serviceVars, CallShape, ViewShape
<1>7. RepliesAreReal'
  <2>1. UNCHANGED operations
    BY <1>3 DEF serviceVars
  <2>2. \A c \in calls' : c \in calls \/ c.reply.kind \notin {"status", "events", "page"}
    BY <1>2, <1>3
  <2> QED BY <2>1, <2>2 DEF SceneIInv, RepliesAreReal
<1>8. CallsInOrder'
  <2>1. \A c, d \in calls' : c.id = d.id => c = d
    BY <1>0, <1>2, <1>3, <1>5 DEF SceneIInv, CallsInOrder
  <2>2. \A c \in calls' : c.generic
    BY <1>0, <1>2, <1>3
  <2>3. \A c \in calls' : c.id = ticket' /\ c.action = "operation-history" => c.arg = nextBefore'
    BY <1>0, <1>2, <1>3, <1>5
  <2>4. \A c \in calls', x \in sent' : c.id = x.id => c.action \in Changes
    BY <1>0, <1>2, <1>3, <1>4, <1>5 DEF SceneIInv, CallsInOrder
  <2> QED BY <1>3, <2>1, <2>2, <2>3, <2>4 DEF CallsInOrder
<1>9. ReadingsAreLater'
  <2>1. \A v \in view \cup snapshot : v.reading \in 1..tickets'
    BY <1>0, <1>3 DEF SceneIInv, ReadingsAreLater
  <2>2. \A x \in sent', v \in view' \cup snapshot' : x.id < v.reading
    BY <1>3, <1>4 DEF SceneIInv, ReadingsAreLater
  <2> QED BY <1>3, <2>1, <2>2 DEF ReadingsAreLater
<1>10. ShownIsOfTheScene'
  BY <1>3 DEF SceneIInv, ShownIsOfTheScene, pageVars
<1>11. BusyWaits'
  BY <1>2, <1>3 DEF BusyWaits
<1> QED BY <1>6, <1>7, <1>8, <1>9, <1>10, <1>11

(* Most calls ask, and leave what was read before; the history is read from its beginning again. *)
LEMMA AskingKeeps ==
  ASSUME SceneIInv, ReadStatus \/ QueryOriginal \/ ListInstances \/ sceneEventsRefresh \/ sceneHistoryNextPage \/ sceneHistoryLoad
  PROVE  SceneIInv'
<1>0. /\ nextBefore \in Nat /\ cursor \in Nat /\ timeline \in Seq(Nat) /\ history \in Seq(Nat)
      /\ TimelineIsUnbroken /\ HistoryIsUnbroken /\ ChangesRestOnLater
  BY DEF SceneIInv, SceneTypes
<1>1. ASSUME NEW action, NEW arg \in Nat, sceneGenericCall(action, arg), action = "operation-history" => arg = nextBefore,
             UNCHANGED <<recordVars, sent>>
      PROVE  SceneIInv'
  <2>1. UNCHANGED <<history, nextBefore, timeline, cursor, sent, scene, operations>>
    BY <1>1 DEF recordVars, sceneGenericCall, pageVars, serviceVars
  <2>2. SceneTypes' /\ RepliesAreReal' /\ CallsInOrder' /\ ReadingsAreLater' /\ ShownIsOfTheScene' /\ BusyWaits'
    BY <1>0, <1>1, <2>1, CallKeeps
  <2>3. TimelineIsUnbroken' /\ HistoryIsUnbroken' /\ ChangesRestOnLater'
    BY <1>0, <2>1 DEF TimelineIsUnbroken, HistoryIsUnbroken, ChangesRestOnLater
  <2> QED BY <2>2, <2>3 DEF SceneIInv
<1>2. CASE sceneHistoryLoad
  <2>1. history' = <<>> /\ nextBefore' = 0 /\ UNCHANGED <<timeline, cursor, sent>> /\ sceneGenericCall("operation-history", 0)
    BY <1>2 DEF sceneHistoryLoad
  <2>2. SceneTypes' /\ RepliesAreReal' /\ CallsInOrder' /\ ReadingsAreLater' /\ ShownIsOfTheScene' /\ BusyWaits'
    BY <1>0, <2>1, CallKeeps
  <2>3. TimelineIsUnbroken' /\ HistoryIsUnbroken' /\ ChangesRestOnLater'
    BY <1>0, <2>1 DEF TimelineIsUnbroken, HistoryIsUnbroken, ChangesRestOnLater
  <2> QED BY <2>2, <2>3 DEF SceneIInv
<1>3. CASE ReadStatus
  BY <1>1, <1>3 DEF ReadStatus
<1>4. CASE QueryOriginal
  BY <1>1, <1>4 DEF QueryOriginal
<1>5. CASE ListInstances
  BY <1>1, <1>5 DEF ListInstances
<1>6. CASE sceneEventsRefresh
  BY <1>0, <1>1, <1>6 DEF sceneEventsRefresh
<1>7. CASE sceneHistoryNextPage
  BY <1>0, <1>1, <1>7 DEF sceneHistoryNextPage
<1> QED BY <1>2, <1>3, <1>4, <1>5, <1>6, <1>7

(* A change rests on what was read after the change before it. *)
LEMMA ChangeIsLater ==
  ASSUME SceneIInv, NEW rd, NEW v \in view \cup snapshot, rd = v.reading,
         sent' = sent \cup {[id |-> tickets + 1, reading |-> rd]}
  PROVE  ChangesRestOnLater'
<1>1. tickets \in Nat /\ \A x \in sent : x.id \in 1..tickets /\ x.id < rd
  BY DEF SceneIInv, SceneTypes, ReadingsAreLater
<1> SUFFICES ASSUME NEW x \in sent', NEW y \in sent', x.id < y.id PROVE x.id < y.reading
  BY DEF ChangesRestOnLater
<1>2. CASE y \in sent
  <2>1. x \in sent
    BY <1>1, <1>2
  <2> QED BY <1>2, <2>1 DEF SceneIInv, ChangesRestOnLater
<1>3. CASE y = [id |-> tickets + 1, reading |-> rd]
  <2>1. y.id = tickets + 1 /\ y.reading = rd
    BY <1>3
  <2>2. x \in sent
    <3>1. x = [id |-> tickets + 1, reading |-> rd] => x.id = tickets + 1
      OBVIOUS
    <3> QED BY <1>1, <2>1, <3>1
  <2> QED BY <1>1, <2>1, <2>2
<1> QED BY <1>2, <1>3

LEMMA SubmitKeeps ==
  ASSUME SceneIInv, NEW action \in Changes, sceneSubmit(action)
  PROVE  SceneIInv'
<1>0. /\ nextBefore \in Nat /\ cursor \in Nat /\ timeline \in Seq(Nat) /\ history \in Seq(Nat)
      /\ TimelineIsUnbroken /\ HistoryIsUnbroken
  BY DEF SceneIInv, SceneTypes
<1>1. PICK v \in view : sceneGenericCall(action, v.revision) /\ sent' = sent \cup {[id |-> tickets + 1, reading |-> v.reading]}
  BY DEF sceneSubmit
<1>2. UNCHANGED <<history, nextBefore, timeline, cursor, scene, operations>>
  BY <1>1 DEF sceneSubmit, recordVars, sceneGenericCall, pageVars, serviceVars
<1>3. v.revision \in Nat /\ action # "operation-history"
  BY DEF SceneIInv, SceneTypes, Changes
<1>4. PICK rd : rd = v.reading
  OBVIOUS
<1>5. sent' = sent \cup {[id |-> tickets + 1, reading |-> rd]}
  BY <1>1, <1>4
<1>6. SceneTypes' /\ RepliesAreReal' /\ CallsInOrder' /\ ReadingsAreLater' /\ ShownIsOfTheScene' /\ BusyWaits'
  BY <1>0, <1>1, <1>2, <1>3, <1>5, CallKeeps
<1>7. ChangesRestOnLater'
  BY <1>4, <1>5, ChangeIsLater
<1>8. TimelineIsUnbroken' /\ HistoryIsUnbroken'
  BY <1>0, <1>2 DEF TimelineIsUnbroken, HistoryIsUnbroken
<1> QED BY <1>6, <1>7, <1>8 DEF SceneIInv

(* A call of the fixed chain, which nothing interrupts, uses the snapshot up. *)
LEMMA RequestKeeps ==
  ASSUME SceneIInv, NEW action \in Changes \cup {"status"}, sceneRequest(action)
  PROVE  SceneIInv'
<1>0. /\ ticket = 0 /\ (\A c \in calls : c.generic /\ c.id # 0) /\ ~generic /\ tickets \in Nat /\ generic \in BOOLEAN /\ view = {}
  BY FreePage DEF sceneRequest, SceneIInv, SceneTypes, ShownIsOfTheScene
<1>1. PICK n : n = NewCall(action, 0)
  OBVIOUS
<1>2. /\ CallShape(n) /\ n.id = tickets + 1 /\ n.of = scene /\ n.action = action /\ n.arg = 0 /\ n.generic = generic
      /\ n.reply.kind = "none"
  BY <1>1, NewCallIs
<1>3. /\ calls' = calls \cup {n} /\ busy' = TRUE /\ tickets' = tickets + 1 /\ snapshot' = {}
      /\ UNCHANGED <<pageVars, view, ticket, recordVars, serviceVars>>
      /\ \/ action = "status" /\ sent' = sent
         \/ action \in Changes /\ \E s \in snapshot : sent' = sent \cup {[id |-> tickets + 1, reading |-> s.reading]}
  BY <1>1 DEF sceneRequest
<1>4. \A x \in sent' : x \in sent \/ (action \in Changes /\ x.id = tickets + 1)
  BY <1>3
<1>5. /\ \A c \in calls : CallShape(c) /\ c.id \in 1..tickets /\ c.arg \in Nat /\ c.generic \in BOOLEAN
      /\ \A x \in sent : x.id \in 1..tickets
  BY DEF SceneIInv, SceneTypes
<1>6. SceneTypes'
  <2>1. \A c \in calls' : CallShape(c) /\ c.id \in 1..tickets' /\ c.arg \in Nat /\ c.generic \in BOOLEAN
    <3>1. \A c \in calls : c.id \in 1..tickets'
      BY <1>0, <1>3, <1>5
    <3>2. n.id \in 1..tickets' /\ n.arg \in Nat /\ n.generic \in BOOLEAN
      BY <1>0, <1>2, <1>3
    <3> QED BY <1>2, <1>3, <1>5, <3>1, <3>2
  <2>2. \A x \in sent' : x.id \in 1..tickets'
    BY <1>0, <1>3, <1>4, <1>5
  <2>3. generic' \in BOOLEAN /\ busy' \in BOOLEAN /\ tickets' \in Nat /\ ticket' \in {0, tickets'} /\ view' = {}
    BY <1>0, <1>3 DEF pageVars
  <2>4. nextBefore' \in Nat /\ cursor' \in Nat /\ timeline' \in Seq(Nat) /\ history' \in Seq(Nat)
    BY <1>3 DEF SceneIInv, SceneTypes, recordVars
  <2>5. operations' \in [Scenes -> Nat] /\ lastEvent' \in [Scenes -> Nat] /\ floor' \in [Scenes -> Nat]
    BY <1>3 DEF SceneIInv, SceneTypes, serviceVars
  <2> QED BY <2>1, <2>2, <2>3, <2>4, <2>5 DEF SceneTypes, CallShape
<1>7. RepliesAreReal'
  <2>1. UNCHANGED operations
    BY <1>3 DEF serviceVars
  <2>2. \A c \in calls' : c \in calls \/ c.reply.kind \notin {"status", "events", "page"}
    BY <1>2, <1>3
  <2> QED BY <2>1, <2>2 DEF SceneIInv, RepliesAreReal
<1>8. CallsInOrder'
  <2>1. \A c, d \in calls' : c.id = d.id => c = d
    BY <1>0, <1>2, <1>3, <1>5 DEF SceneIInv, CallsInOrder
  <2>2. \A c \in calls' : ~c.generic => busy' /\ ticket' = 0 /\ ~generic' /\ c.id = tickets'
    BY <1>0, <1>2, <1>3 DEF pageVars
  <2>3. \A c \in calls' : c.id # ticket'
    BY <1>0, <1>2, <1>3, <1>5
  <2>4. \A c \in calls', x \in sent' : c.id = x.id => c.action \in Changes
    BY <1>0, <1>2, <1>3, <1>4, <1>5 DEF SceneIInv, CallsInOrder
  <2> QED BY <1>0, <1>3, <2>1, <2>2, <2>3, <2>4 DEF CallsInOrder
<1>9. ReadingsAreLater' /\ ShownIsOfTheScene'
  BY <1>0, <1>3 DEF ReadingsAreLater, ShownIsOfTheScene
<1>10. BusyWaits'
  BY <1>0, <1>2, <1>3 DEF BusyWaits
<1>11. ChangesRestOnLater'
  <2>1. CASE sent' = sent
    BY <2>1 DEF SceneIInv, ChangesRestOnLater
  <2>2. CASE \E s \in snapshot : sent' = sent \cup {[id |-> tickets + 1, reading |-> s.reading]}
    <3>1. PICK s \in snapshot : sent' = sent \cup {[id |-> tickets + 1, reading |-> s.reading]}
      BY <2>2
    <3>2. PICK rd : rd = s.reading
      OBVIOUS
    <3>3. sent' = sent \cup {[id |-> tickets + 1, reading |-> rd]}
      BY <3>1, <3>2
    <3> QED BY <3>2, <3>3, ChangeIsLater
  <2> QED BY <1>3, <2>1, <2>2
<1>12. TimelineIsUnbroken' /\ HistoryIsUnbroken'
  BY <1>3 DEF SceneIInv, TimelineIsUnbroken, HistoryIsUnbroken, recordVars, pageVars, serviceVars
<1> QED BY <1>6, <1>7, <1>8, <1>9, <1>10, <1>11, <1>12 DEF SceneIInv

-----------------------------------------------------------------------------
(* The service answers. *)

LEMMA PageIsPage ==
  ASSUME NEW i \in Scenes, NEW before \in Nat, operations \in [Scenes -> Nat], NEW r, r = HistoryPage(i, before)
  PROVE  r.kind = "page" /\ IsPage(r, i, before, operations[i])
<1>0. Page \in Nat \ {0} /\ operations[i] \in Nat
  BY SceneAssumption
<1>1. PICK top \in Nat \ {0} : top = IF before = 0 THEN operations[i] + 1 ELSE before
  BY <1>0
<1>2. PICK n \in Nat : n = Least(Page, top - 1) /\ n < top /\ (top - 1 > Page => n = Page)
  BY <1>0 DEF Least
<1>3. PICK rows : rows = [k \in 1..n |-> top - k]
  OBVIOUS
<1>4. Newest(i, top, Page) = rows
  BY <1>2, <1>3 DEF Newest
<1>5. r = [kind |-> "page", rows |-> rows, next |-> IF top - 1 > Page THEN rows[Page] ELSE 0]
  BY <1>1, <1>4 DEF HistoryPage
<1>6. r.kind = "page" /\ r.rows = rows /\ r.next = IF top - 1 > Page THEN rows[Page] ELSE 0
  BY <1>5
<1>7. top - 1 > Page => n > 0 /\ rows[Page] = top - n /\ rows[Page] \in Nat
  BY <1>0, <1>2, <1>3
<1>8. (IF before = 0 THEN top <= operations[i] + 1 ELSE top = before) /\ r.next \in Nat /\ (r.next # 0 => n > 0 /\ r.next = top - n)
  BY <1>0, <1>1, <1>6, <1>7
<1> QED BY <1>2, <1>3, <1>6, <1>8 DEF IsPage

LEMMA AnswerIsReal ==
  ASSUME SceneIInv, NEW c \in calls, c.of \in Scenes, NEW r, r = AnswerOf(c)
  PROVE  /\ r.kind = "status" => r.revision \in Nat /\ r.cursor \in Nat
         /\ r.kind = "events" => r.rows \in Seq(Nat)
         /\ r.kind = "page" => IsPage(r, c.of, c.arg, operations[c.of])
<1>0. c.arg \in Nat /\ operations \in [Scenes -> Nat] /\ lastEvent \in [Scenes -> Nat] /\ EventPage \in Nat
  BY SceneAssumption DEF SceneIInv, SceneTypes
<1>1. CASE r = HistoryPage(c.of, c.arg)
  BY <1>0, <1>1, PageIsPage
<1>2. ASSUME c.arg <= lastEvent[c.of],
             r = [kind |-> "events", rows |-> [k \in 1..Least(EventPage, lastEvent[c.of] - c.arg) |-> c.arg + k]]
      PROVE  r.kind = "events" /\ r.rows \in Seq(Nat)
  <2>1. PICK n \in Nat : n = Least(EventPage, lastEvent[c.of] - c.arg)
    BY <1>0, <1>2 DEF Least
  <2>2. [k \in 1..n |-> c.arg + k] \in [1..n -> Nat]
    BY <1>0
  <2> QED BY <1>2, <2>1, <2>2
<1>3. CASE r = [kind |-> "pruned"]
  BY <1>3
<1>4. CASE r = [kind |-> "status", cursor |-> lastEvent[c.of], revision |-> operations[c.of]]
  BY <1>0, <1>4
<1> QED BY <1>1, <1>2, <1>3, <1>4 DEF AnswerOf

Replied(c, r) == [c EXCEPT !.reply = r]

LEMMA RepliedCall ==
  ASSUME NEW c, CallShape(c), NEW r, NEW d, d = Replied(c, r)
  PROVE  /\ CallShape(d) /\ d.id = c.id /\ d.of = c.of /\ d.action = c.action /\ d.arg = c.arg /\ d.generic = c.generic
         /\ d.reply = r
<1>1. PICK id, of, action, arg, gen, reply :
        c = [id |-> id, of |-> of, action |-> action, arg |-> arg, generic |-> gen, reply |-> reply]
  BY DEF CallShape
<1>2. d = [id |-> id, of |-> of, action |-> action, arg |-> arg, generic |-> gen, reply |-> r]
  BY <1>1 DEF Replied
<1> QED BY <1>1, <1>2 DEF CallShape

(* The service moves on while operations are added: pages that were answered stay right. *)
LEMMA PagesStay ==
  ASSUME NEW r, NEW i, NEW before, NEW a \in Nat, NEW b \in Nat, a <= b, IsPage(r, i, before, a)
  PROVE  IsPage(r, i, before, b)
BY DEF IsPage

LEMMA ServiceMoves ==
  ASSUME SceneIInv, operations' \in [Scenes -> Nat], \A i \in Scenes : operations[i] <= operations'[i],
         lastEvent' \in [Scenes -> Nat], floor' \in [Scenes -> Nat],
         NEW c, NEW d, calls' = calls \/ (c \in calls /\ calls' = (calls \ {c}) \cup {d}),
         CallShape(d) /\ d.id = c.id /\ d.of = c.of /\ d.action = c.action /\ d.arg = c.arg /\ d.generic = c.generic,
         d.reply.kind = "status" => d.reply.revision \in Nat /\ d.reply.cursor \in Nat,
         d.reply.kind = "events" => d.reply.rows \in Seq(Nat),
         d.reply.kind = "page" => d.of \in Scenes /\ IsPage(d.reply, d.of, d.arg, operations[d.of]),
         UNCHANGED <<pageVars, view, snapshot, busy, ticket, tickets, recordVars, sent>>
  PROVE  SceneIInv'
<1>1. UNCHANGED <<scene, generic, view, snapshot, busy, ticket, tickets, sent, history, nextBefore, timeline, cursor>>
  BY DEF pageVars, recordVars
<1>2. operations \in [Scenes -> Nat] /\ \A e \in calls : CallShape(e) /\ e.id \in 1..tickets /\ e.arg \in Nat /\ e.generic \in BOOLEAN
  BY DEF SceneIInv, SceneTypes
<1>3. \A e \in calls' : e \in calls \/ (c \in calls /\ e = d)
  OBVIOUS
<1>4. SceneTypes'
  <2>1. \A e \in calls' : CallShape(e) /\ e.id \in 1..tickets /\ e.arg \in Nat /\ e.generic \in BOOLEAN
    BY <1>2, <1>3
  <2> QED BY <1>1, <2>1 DEF SceneIInv, SceneTypes, CallShape, ViewShape
<1>5. RepliesAreReal'
  <2> SUFFICES ASSUME NEW e \in calls'
               PROVE  /\ e.reply.kind = "status" => e.reply.revision \in Nat /\ e.reply.cursor \in Nat
                      /\ e.reply.kind = "events" => e.reply.rows \in Seq(Nat)
                      /\ e.reply.kind = "page" => e.of \in Scenes /\ IsPage(e.reply, e.of, e.arg, operations'[e.of])
    BY DEF RepliesAreReal
  <2>1. /\ e.reply.kind = "status" => e.reply.revision \in Nat /\ e.reply.cursor \in Nat
        /\ e.reply.kind = "events" => e.reply.rows \in Seq(Nat)
        /\ e.reply.kind = "page" => e.of \in Scenes /\ IsPage(e.reply, e.of, e.arg, operations[e.of])
    BY <1>3 DEF SceneIInv, RepliesAreReal
  <2>2. ASSUME e.of \in Scenes, IsPage(e.reply, e.of, e.arg, operations[e.of])
        PROVE  IsPage(e.reply, e.of, e.arg, operations'[e.of])
    <3>1. operations[e.of] \in Nat /\ operations'[e.of] \in Nat /\ operations[e.of] <= operations'[e.of]
      BY <1>2, <2>2
    <3> QED BY <2>2, <3>1, PagesStay
  <2> QED BY <2>1, <2>2
<1>6. CallsInOrder'
  BY <1>1, <1>3 DEF SceneIInv, CallsInOrder
<1>7. ReadingsAreLater' /\ ShownIsOfTheScene' /\ ChangesRestOnLater'
  BY <1>1 DEF SceneIInv, ReadingsAreLater, ShownIsOfTheScene, ChangesRestOnLater
<1>8. BusyWaits'
  BY <1>1 DEF SceneIInv, BusyWaits
<1>9. TimelineIsUnbroken'
  BY <1>1 DEF SceneIInv, TimelineIsUnbroken
<1>10. HistoryIsUnbroken'
  <2>1. ASSUME history # <<>> PROVE scene \in Scenes /\ history[1] <= operations'[scene] /\ nextBefore \in {0, history[Len(history)]}
    <3>1. scene \in Scenes /\ history[1] <= operations[scene] /\ nextBefore \in {0, history[Len(history)]} /\ history[1] \in Nat
      BY <2>1 DEF SceneIInv, SceneTypes, HistoryIsUnbroken
    <3> QED BY <1>2, <3>1
  <2> QED BY <1>1, <2>1 DEF SceneIInv, HistoryIsUnbroken
<1> QED BY <1>4, <1>5, <1>6, <1>7, <1>8, <1>9, <1>10 DEF SceneIInv

LEMMA ServesKeeps ==
  ASSUME SceneIInv, NEW c \in calls, Serves(c)
  PROVE  SceneIInv'
<1>0. /\ operations \in [Scenes -> Nat] /\ lastEvent \in [Scenes -> Nat] /\ floor \in [Scenes -> Nat]
      /\ CallShape(c) /\ UNCHANGED <<pageVars, view, snapshot, busy, ticket, tickets, recordVars, sent>>
  BY DEF SceneIInv, SceneTypes, Serves
<1>1. ASSUME NEW r, Settle(c, r),
             r.kind = "status" => r.revision \in Nat /\ r.cursor \in Nat,
             r.kind = "events" => r.rows \in Seq(Nat),
             r.kind = "page" => c.of \in Scenes /\ IsPage(r, c.of, c.arg, operations[c.of]),
             operations' \in [Scenes -> Nat], \A i \in Scenes : operations[i] <= operations'[i],
             lastEvent' \in [Scenes -> Nat], floor' \in [Scenes -> Nat]
      PROVE  SceneIInv'
  <2>1. PICK d : d = Replied(c, r) /\ calls' = (calls \ {c}) \cup {d}
    BY <1>1 DEF Settle, Replied
  <2>2. /\ CallShape(d) /\ d.id = c.id /\ d.of = c.of /\ d.action = c.action /\ d.arg = c.arg /\ d.generic = c.generic
        /\ d.reply = r
    BY <1>0, <2>1, RepliedCall
  <2> QED BY <1>0, <1>1, <2>1, <2>2, ServiceMoves
<1>2. CASE c.of \in Scenes /\ Settle(c, AnswerOf(c)) /\ UNCHANGED serviceVars
  <2>1. PICK r : r = AnswerOf(c)
    OBVIOUS
  <2>2. /\ r.kind = "status" => r.revision \in Nat /\ r.cursor \in Nat
        /\ r.kind = "events" => r.rows \in Seq(Nat)
        /\ r.kind = "page" => IsPage(r, c.of, c.arg, operations[c.of])
    BY <1>2, <2>1, AnswerIsReal
  <2>3. /\ operations' \in [Scenes -> Nat] /\ lastEvent' \in [Scenes -> Nat] /\ floor' \in [Scenes -> Nat]
        /\ \A i \in Scenes : operations[i] <= operations'[i]
    BY <1>0, <1>2 DEF serviceVars
  <2>4. Settle(c, r)
    BY <1>2, <2>1
  <2> QED BY <1>1, <1>2, <2>2, <2>3, <2>4
<1>3. CASE Accepts(c) /\ Settle(c, [kind |-> "status", cursor |-> 0, revision |-> 0])
  <2>1. /\ operations' = [operations EXCEPT ![c.of] = @ + 1] /\ lastEvent' = [lastEvent EXCEPT ![c.of] = @ + 1]
        /\ floor' = floor
    BY <1>3 DEF Accepts
  <2>2. PICK i \in Scenes : i = c.of
    BY <1>3 DEF Accepts
  <2>3. operations' = [operations EXCEPT ![i] = @ + 1] /\ lastEvent' = [lastEvent EXCEPT ![i] = @ + 1]
    BY <2>1, <2>2
  <2>4. /\ operations' \in [Scenes -> Nat] /\ lastEvent' \in [Scenes -> Nat] /\ floor' \in [Scenes -> Nat]
        /\ \A j \in Scenes : operations[j] <= operations'[j]
    <3>1. operations' \in [Scenes -> Nat] /\ \A j \in Scenes : operations[j] <= operations'[j]
      BY <1>0, <2>3
    <3>2. lastEvent' \in [Scenes -> Nat] /\ floor' \in [Scenes -> Nat]
      BY <1>0, <2>1, <2>3
    <3> QED BY <3>1, <3>2
  <2>5. PICK r : r = [kind |-> "status", cursor |-> 0, revision |-> 0]
    OBVIOUS
  <2>6. r.kind = "status" /\ r.revision \in Nat /\ r.cursor \in Nat /\ Settle(c, r)
    BY <1>3, <2>5
  <2> QED BY <1>1, <2>4, <2>6
<1>4. CASE \E bad \in {"unreadable", "strange"} : Settle(c, [kind |-> bad]) /\ UNCHANGED serviceVars
  <2>1. PICK bad \in {"unreadable", "strange"} : Settle(c, [kind |-> bad]) /\ UNCHANGED serviceVars
    BY <1>4
  <2>2. PICK r : r = [kind |-> bad]
    OBVIOUS
  <2>3. r.kind \in {"unreadable", "strange"} /\ Settle(c, r)
    BY <2>1, <2>2
  <2>4. /\ operations' \in [Scenes -> Nat] /\ lastEvent' \in [Scenes -> Nat] /\ floor' \in [Scenes -> Nat]
        /\ \A i \in Scenes : operations[i] <= operations'[i]
    BY <1>0, <2>1 DEF serviceVars
  <2> QED BY <1>1, <2>3, <2>4
<1> QED BY <1>2, <1>3, <1>4 DEF Serves

LEMMA OthersKeep ==
  ASSUME SceneIInv, NEW i \in Scenes, Emits(i) \/ Prunes(i)
  PROVE  SceneIInv'
<1>0. /\ operations \in [Scenes -> Nat] /\ lastEvent \in [Scenes -> Nat] /\ floor \in [Scenes -> Nat]
      /\ UNCHANGED <<pageVars, view, snapshot, busy, ticket, tickets, calls, recordVars, sent>>
  BY DEF SceneIInv, SceneTypes, Emits, Prunes
<1>1. /\ operations' \in [Scenes -> Nat] /\ lastEvent' \in [Scenes -> Nat] /\ floor' \in [Scenes -> Nat]
      /\ \A j \in Scenes : operations[j] <= operations'[j]
  <2>1. CASE Emits(i)
    <3>1. lastEvent' = [lastEvent EXCEPT ![i] = @ + 1] /\ floor' = floor /\ (operations' = operations \/ operations' = [operations EXCEPT ![i] = @ + 1])
      BY <2>1 DEF Emits
    <3> QED BY <1>0, <3>1
  <2>2. CASE Prunes(i)
    <3>1. PICK f \in floor[i]..lastEvent[i] : floor' = [floor EXCEPT ![i] = f]
      BY <2>2 DEF Prunes
    <3>2. f \in Nat
      BY <1>0
    <3>3. operations' = operations /\ lastEvent' = lastEvent
      BY <2>2 DEF Prunes
    <3> QED BY <1>0, <3>1, <3>2, <3>3
  <2> QED BY <2>1, <2>2
<1>2. PICK d : d = NewCall("overview", 0)
  OBVIOUS
<1>3. CallShape(d) /\ d.reply.kind = "none"
  BY <1>2, NewCallIs
<1> QED BY <1>0, <1>1, <1>3, ServiceMoves

-----------------------------------------------------------------------------
(* The page, when time is up and when an answer comes. *)

Stale(v) == [v EXCEPT !.fresh = FALSE]

LEMMA StaleIs ==
  ASSUME NEW v, ViewShape(v), NEW w, w = Stale(v)
  PROVE  ViewShape(w) /\ w.of = v.of /\ w.reading = v.reading /\ w.revision = v.revision /\ w.cursor = v.cursor
<1>1. PICK of, reading, rev, cur, result, fresh :
        v = [of |-> of, reading |-> reading, revision |-> rev, cursor |-> cur, result |-> result, fresh |-> fresh]
  BY DEF ViewShape
<1>2. w = [of |-> of, reading |-> reading, revision |-> rev, cursor |-> cur, result |-> result, fresh |-> FALSE]
  BY <1>1 DEF Stale
<1> QED BY <1>1, <1>2 DEF ViewShape

LEMMA InvalidatedView ==
  ASSUME \A v \in view : ViewShape(v)
  PROVE  \A w \in Invalidated : ViewShape(w) /\ \E v \in view : w.of = v.of /\ w.reading = v.reading /\ w.revision = v.revision /\ w.cursor = v.cursor
<1> SUFFICES ASSUME NEW w \in Invalidated
             PROVE  ViewShape(w) /\ \E v \in view : w.of = v.of /\ w.reading = v.reading /\ w.revision = v.revision /\ w.cursor = v.cursor
  OBVIOUS
<1>1. PICK v \in view : w = Stale(v)
  BY DEF Invalidated, Stale
<1>2. ViewShape(v)
  OBVIOUS
<1> QED BY <1>1, <1>2, StaleIs

(* What the page showed may become stale; nothing else of it changes. *)
LEMMA StaleViewKeeps ==
  ASSUME SceneIInv, view' \in {view, Invalidated}
  PROVE  /\ \A v \in view' : ViewShape(v) /\ v.revision \in Nat /\ v.cursor \in Nat /\ v.reading \in 1..tickets
         /\ \A v \in view' : generic /\ v.of = scene
         /\ \A x \in sent, v \in view' : x.id < v.reading
<1>1. \A v \in view : ViewShape(v) /\ v.revision \in Nat /\ v.cursor \in Nat /\ v.reading \in 1..tickets /\ generic /\ v.of = scene
  BY DEF SceneIInv, SceneTypes, ReadingsAreLater, ShownIsOfTheScene
<1>2. \A v \in view, x \in sent : x.id < v.reading
  BY DEF SceneIInv, ReadingsAreLater
<1> QED BY <1>1, <1>2, InvalidatedView

(* A late or missing answer: the records stay. *)
LEMMA TimePasses ==
  ASSUME SceneIInv, view' \in {view, Invalidated}, calls' = calls, UNCHANGED <<pageVars, snapshot, tickets, recordVars, sent, serviceVars>>,
         UNCHANGED <<ticket, busy>> \/ (ticket # 0 /\ ticket' = 0 /\ busy' = FALSE)
  PROVE  SceneIInv'
<1>1. UNCHANGED <<scene, generic, snapshot, tickets, sent, history, nextBefore, timeline, cursor, operations, floor, lastEvent>>
  BY DEF pageVars, recordVars, serviceVars
<1>2. /\ \A v \in view' : ViewShape(v) /\ v.revision \in Nat /\ v.cursor \in Nat /\ v.reading \in 1..tickets
      /\ \A v \in view' : generic /\ v.of = scene
      /\ \A x \in sent, v \in view' : x.id < v.reading
  BY StaleViewKeeps
<1>3. SceneTypes'
  BY <1>1, <1>2 DEF SceneIInv, SceneTypes, CallShape, ViewShape
<1>4. RepliesAreReal' /\ ChangesRestOnLater'
  BY <1>1 DEF SceneIInv, RepliesAreReal, ChangesRestOnLater
<1>5. CallsInOrder'
  <2>1. \A c \in calls : c.id # 0
    BY DEF SceneIInv, SceneTypes
  <2> QED BY <1>1, <2>1 DEF SceneIInv, CallsInOrder
<1>6. ReadingsAreLater' /\ ShownIsOfTheScene'
  BY <1>1, <1>2 DEF SceneIInv, ReadingsAreLater, ShownIsOfTheScene
<1>7. TimelineIsUnbroken' /\ HistoryIsUnbroken'
  BY <1>1 DEF SceneIInv, TimelineIsUnbroken, HistoryIsUnbroken
<1>8. BusyWaits'
  BY <1>1 DEF SceneIInv, BusyWaits
<1> QED BY <1>3, <1>4, <1>5, <1>6, <1>7, <1>8 DEF SceneIInv

(* An answer is late, or it gives the page back. *)
LEMMA AnswerTaken ==
  ASSUME SceneIInv, NEW c \in calls, calls' = calls \ {c}, UNCHANGED <<pageVars, tickets, sent, serviceVars>>,
         \A v \in view' : ViewShape(v) /\ v.revision \in Nat /\ v.cursor \in Nat /\ v.reading \in 1..tickets,
         \A v \in view' : generic /\ v.of = scene,
         \A x \in sent, v \in view' : x.id < v.reading,
         \A s \in snapshot' : s.reading \in 1..tickets /\ ~generic /\ s.of = scene,
         \A x \in sent, s \in snapshot' : x.id < s.reading,
         timeline' \in Seq(Nat), cursor' \in Nat, TimelineIsUnbroken',
         history' \in Seq(Nat), nextBefore' \in Nat, HistoryIsUnbroken',
         \/ UNCHANGED <<ticket, busy, history, nextBefore>> /\ c.generic /\ c.id # ticket
         \/ ticket' = 0 /\ busy' = FALSE /\ (c.id = ticket \/ ~c.generic)
  PROVE  SceneIInv'
<1>1. UNCHANGED <<scene, generic, tickets, sent, operations, floor, lastEvent>>
  BY DEF pageVars, serviceVars
<1>2. \A d \in calls : CallShape(d) /\ d.id \in 1..tickets /\ d.arg \in Nat /\ d.generic \in BOOLEAN
  BY DEF SceneIInv, SceneTypes
<1>3. SceneTypes'
  <2>1. generic' \in BOOLEAN /\ busy' \in BOOLEAN /\ tickets' \in Nat /\ ticket' \in {0, tickets'}
    BY <1>1 DEF SceneIInv, SceneTypes
  <2>2. operations' \in [Scenes -> Nat] /\ lastEvent' \in [Scenes -> Nat] /\ floor' \in [Scenes -> Nat]
    BY <1>1 DEF SceneIInv, SceneTypes
  <2>3. \A d \in calls' : CallShape(d) /\ d.id \in 1..tickets' /\ d.arg \in Nat /\ d.generic \in BOOLEAN
    BY <1>1, <1>2
  <2>4. \A x \in sent' : x.id \in 1..tickets'
    BY <1>1 DEF SceneIInv, SceneTypes
  <2> QED BY <2>1, <2>2, <2>3, <2>4 DEF SceneTypes, CallShape, ViewShape
<1>4. RepliesAreReal'
  BY <1>1 DEF SceneIInv, RepliesAreReal
<1>5. CallsInOrder'
  <2>1. \A d, e \in calls' : d.id = e.id => d = e
    BY DEF SceneIInv, CallsInOrder
  <2>2. \A d \in calls', x \in sent' : d.id = x.id => d.action \in Changes
    BY <1>1 DEF SceneIInv, CallsInOrder
  <2>3. CASE UNCHANGED <<ticket, busy, history, nextBefore>>
    BY <1>1, <2>1, <2>2, <2>3 DEF SceneIInv, CallsInOrder
  <2>4. CASE ticket' = 0 /\ busy' = FALSE /\ (c.id = ticket \/ ~c.generic)
    <3>1. \A d \in calls' : d.generic
      <4>1. CASE c.id = ticket
        BY <1>2, <4>1 DEF SceneIInv, CallsInOrder
      <4>2. CASE ~c.generic
        BY <4>2 DEF SceneIInv, CallsInOrder
      <4> QED BY <2>4, <4>1, <4>2
    <3>2. \A d \in calls' : d.id # ticket'
      BY <1>2, <2>4
    <3> QED BY <2>1, <2>2, <2>4, <3>1, <3>2 DEF CallsInOrder
  <2> QED BY <2>3, <2>4
<1>6. ReadingsAreLater' /\ ShownIsOfTheScene'
  BY <1>1 DEF ReadingsAreLater, ShownIsOfTheScene
<1>7. BusyWaits'
  BY DEF SceneIInv, BusyWaits
<1>8. ChangesRestOnLater'
  BY <1>1 DEF SceneIInv, ChangesRestOnLater
<1> QED BY <1>3, <1>4, <1>5, <1>6, <1>7, <1>8 DEF SceneIInv

LEMMA EventsReadKeeps ==
  ASSUME SceneIInv, NEW r, r.kind = "events" => r.rows \in Seq(Nat), EventsRead(r)
  PROVE  timeline' \in Seq(Nat) /\ cursor' \in Nat /\ TimelineIsUnbroken'
<1>0. timeline \in Seq(Nat) /\ cursor \in Nat /\ (\A v \in view : v.cursor \in Nat) /\ EndsAt(timeline, cursor)
  BY DEF SceneIInv, SceneTypes, TimelineIsUnbroken, EndsAt
<1>1. CASE r.kind = "events" /\ Continues(r.rows)
  <2>1. PICK rows \in Seq(Nat) : rows = r.rows /\ Follows(rows, cursor)
    BY <1>1 DEF Continues, Follows
  <2>2. PICK s : s = timeline \o rows
    OBVIOUS
  <2>3. PICK end \in Nat : end = cursor + Len(rows)
    BY <1>0
  <2>4. s \in Seq(Nat) /\ EndsAt(s, end)
    BY <1>0, <2>1, <2>2, <2>3, RunGoesOn
  <2>5. PICK l : l = LastOf(s, Shown)
    OBVIOUS
  <2>6. l \in Seq(Nat) /\ EndsAt(l, end)
    BY <2>4, <2>5, LastOfRun
  <2>7. timeline' = l /\ cursor' = end
    BY <1>1, <2>1, <2>2, <2>3, <2>5 DEF EventsRead
  <2> QED BY <2>6, <2>7 DEF TimelineIsUnbroken, EndsAt
<1>2. CASE ~(r.kind = "events" /\ Continues(r.rows))
  <2>1. timeline' = <<>> /\ cursor' = IF view = {} THEN 0 ELSE (CHOOSE v \in view : TRUE).cursor
    BY <1>2 DEF EventsRead
  <2>2. cursor' \in Nat
    BY <1>0, <2>1
  <2> QED BY <2>1, <2>2 DEF TimelineIsUnbroken
<1> QED BY <1>1, <1>2

(* A page of the history is shown when it is the first; one that was asked for below the rows shown begins too low. *)
LEMMA HistoryReadKeeps ==
  ASSUME SceneIInv, NEW c \in calls, c.id = ticket, scene = c.of, c.action = "operation-history", HistoryRead(c.reply),
         UNCHANGED <<scene, operations>>
  PROVE  history' \in Seq(Nat) /\ nextBefore' \in Nat /\ HistoryIsUnbroken'
<1>0. /\ history \in Seq(Nat) /\ nextBefore \in Nat /\ HistoryIsUnbroken /\ operations \in [Scenes -> Nat]
      /\ c.arg = nextBefore
  BY DEF SceneIInv, SceneTypes, CallsInOrder
<1>1. CASE UNCHANGED <<history, nextBefore>>
  BY <1>0, <1>1 DEF HistoryIsUnbroken
<1>2. CASE c.reply.kind = "page"
  <2>1. PICK r : r = c.reply
    OBVIOUS
  <2>2. scene \in Scenes /\ IsPage(r, scene, nextBefore, operations[scene])
    BY <1>0, <1>2, <2>1 DEF SceneIInv, RepliesAreReal
  <2>3. PICK top \in Nat, n \in Nat :
          /\ n < top /\ (IF nextBefore = 0 THEN top <= operations[scene] + 1 ELSE top = nextBefore)
          /\ r.rows = [k \in 1..n |-> top - k] /\ r.next \in Nat /\ (r.next # 0 => n > 0 /\ r.next = top - n)
    BY <2>2 DEF IsPage
  <2>4. CASE nextBefore = 0
    <3>1. PICK rows : rows = r.rows
      OBVIOUS
    <3>2. history' = rows /\ nextBefore' = r.next
      BY <1>2, <2>1, <2>4, <3>1 DEF HistoryRead
    <3>3. rows = [k \in 1..n |-> top - k] /\ top <= operations[scene] + 1
      BY <2>3, <2>4, <3>1
    <3>4. rows \in Seq(Nat) /\ Len(rows) = n /\ DOMAIN rows = 1..n
      <4>1. \A k \in 1..n : top - k \in Nat
        BY <2>3
      <4>2. rows \in [1..n -> Nat]
        BY <3>3, <4>1
      <4> QED BY <4>2
    <3>5. \A k \in 2..n : rows[k] = rows[k - 1] - 1
      BY <3>3
    <3>6. rows # <<>> => rows[1] <= operations[scene] /\ n > 0
      <4>1. ASSUME rows # <<>> PROVE n > 0
        BY <3>4, <4>1
      <4>2. operations[scene] \in Nat
        BY <1>0, <2>2
      <4> QED BY <3>3, <4>1, <4>2
    <3>7. r.next \in {0, rows[n]} \/ n = 0
      BY <2>3, <3>3
    <3>8. rows # <<>> => r.next \in {0, rows[Len(rows)]}
      BY <3>4, <3>6, <3>7
    <3> QED BY <2>2, <2>3, <3>2, <3>4, <3>5, <3>6, <3>8 DEF HistoryIsUnbroken
  <2>5. CASE nextBefore # 0
    <3>1. ~FollowsPage(r.rows)
      <4> SUFFICES ASSUME r.rows # <<>>, r.rows[1] = nextBefore PROVE FALSE
        BY DEF FollowsPage
      <4>1. n > 0
        <5> SUFFICES ASSUME n = 0 PROVE FALSE
          OBVIOUS
        <5> QED BY <2>3
      <4>2. r.rows[1] = top - 1
        BY <2>3, <4>1
      <4> QED BY <2>3, <2>5, <4>2
    <3> QED BY <1>1, <1>2, <2>1, <2>5, <3>1 DEF HistoryRead
  <2> QED BY <2>4, <2>5
<1> QED BY <1>1, <1>2 DEF HistoryRead

LEMMA GenericAnswerKeeps ==
  ASSUME SceneIInv, NEW c \in calls, GenericAnswered(c)
  PROVE  SceneIInv'
<1>0. /\ UNCHANGED <<scene, generic, snapshot, tickets, sent, operations, floor, lastEvent>>
      /\ UNCHANGED <<pageVars, tickets, sent, serviceVars>> /\ calls' = calls \ {c} /\ c.generic
  BY DEF GenericAnswered, pageVars, serviceVars
<1>1. /\ timeline \in Seq(Nat) /\ cursor \in Nat /\ TimelineIsUnbroken
      /\ history \in Seq(Nat) /\ nextBefore \in Nat /\ HistoryIsUnbroken
      /\ tickets \in Nat /\ ticket \in {0, tickets} /\ c.id \in 1..tickets
  BY DEF SceneIInv, SceneTypes
<1>2. /\ \A s \in snapshot' : s.reading \in 1..tickets /\ ~generic /\ s.of = scene
      /\ \A x \in sent, s \in snapshot' : x.id < s.reading
  BY <1>0 DEF SceneIInv, ReadingsAreLater, ShownIsOfTheScene
<1>3. /\ timeline' = timeline /\ cursor' = cursor => timeline' \in Seq(Nat) /\ cursor' \in Nat /\ TimelineIsUnbroken'
      /\ history' = history /\ nextBefore' = nextBefore => history' \in Seq(Nat) /\ nextBefore' \in Nat /\ HistoryIsUnbroken'
  BY <1>0, <1>1 DEF TimelineIsUnbroken, HistoryIsUnbroken
<1>4. view' \in {view, Invalidated} =>
        /\ \A v \in view' : ViewShape(v) /\ v.revision \in Nat /\ v.cursor \in Nat /\ v.reading \in 1..tickets
        /\ \A v \in view' : generic /\ v.of = scene
        /\ \A x \in sent, v \in view' : x.id < v.reading
  BY StaleViewKeeps
<1>5. CASE UNCHANGED <<ticket, busy, view, recordVars>> /\ c.id # ticket
  <2>1. UNCHANGED <<ticket, busy, view, history, nextBefore, timeline, cursor>>
    BY <1>5 DEF recordVars
  <2> QED BY <1>0, <1>2, <1>3, <1>4, <1>5, <2>1, AnswerTaken
<1>6. CASE ticket' = 0 /\ busy' = FALSE /\ c.id = ticket /\ UNCHANGED <<view, recordVars>>
  <2>1. UNCHANGED <<view, history, nextBefore, timeline, cursor>>
    BY <1>6 DEF recordVars
  <2> QED BY <1>0, <1>2, <1>3, <1>4, <1>6, <2>1, AnswerTaken
<1>7. CASE ticket' = 0 /\ busy' = FALSE /\ c.id = ticket /\ Ours(c) /\ Read(c)
  <2>0. scene = c.of /\ generic
    BY <1>0, <1>7 DEF Ours
  <2>1. CASE view' \in {view, Invalidated} /\ UNCHANGED recordVars
    <3>1. UNCHANGED <<history, nextBefore, timeline, cursor>>
      BY <2>1 DEF recordVars
    <3> QED BY <1>0, <1>2, <1>3, <1>4, <1>7, <2>1, <3>1, AnswerTaken
  <2>2. ASSUME c.reply.kind = "status", c.action = "overview", UNCHANGED recordVars,
               NEW result, NEW fresh,
               view' = {[of |-> c.of, reading |-> c.id, revision |-> c.reply.revision, cursor |-> c.reply.cursor,
                         result |-> result, fresh |-> fresh]}
        PROVE  SceneIInv'
    <3>1. UNCHANGED <<history, nextBefore, timeline, cursor>>
      BY <2>2 DEF recordVars
    <3>2. PICK w : w = [of |-> c.of, reading |-> c.id, revision |-> c.reply.revision, cursor |-> c.reply.cursor,
                        result |-> result, fresh |-> fresh]
      OBVIOUS
    <3>3. /\ ViewShape(w) /\ w.of = c.of /\ w.reading = c.id /\ w.revision = c.reply.revision /\ w.cursor = c.reply.cursor
      BY <3>2 DEF ViewShape
    <3>4. c.reply.revision \in Nat /\ c.reply.cursor \in Nat
      BY <2>2 DEF SceneIInv, RepliesAreReal
    <3>5. \A x \in sent : x.id < c.id
      <4>1. c.id = tickets
        BY <1>1, <1>7
      <4>2. \A x \in sent : x.id \in 1..tickets
        BY DEF SceneIInv, SceneTypes
      <4>3. \A x \in sent : x.id # c.id
        BY <2>2 DEF SceneIInv, CallsInOrder, Changes
      <4> QED BY <1>1, <4>1, <4>2, <4>3
    <3>6. \A v \in view' : v = w
      BY <2>2, <3>2
    <3>7. /\ \A v \in view' : ViewShape(v) /\ v.revision \in Nat /\ v.cursor \in Nat /\ v.reading \in 1..tickets
          /\ \A v \in view' : generic /\ v.of = scene
          /\ \A x \in sent, v \in view' : x.id < v.reading
      BY <1>1, <2>0, <3>3, <3>4, <3>5, <3>6
    <3> QED BY <1>0, <1>2, <1>3, <1>7, <3>1, <3>7, AnswerTaken
  <2>3. CASE EventsRead(c.reply) /\ UNCHANGED <<view, history, nextBefore>>
    <3>1. c.reply.kind = "events" => c.reply.rows \in Seq(Nat)
      BY DEF SceneIInv, RepliesAreReal
    <3>2. PICK r : r = c.reply
      OBVIOUS
    <3>3. timeline' \in Seq(Nat) /\ cursor' \in Nat /\ TimelineIsUnbroken'
      BY <2>3, <3>1, <3>2, EventsReadKeeps
    <3> QED BY <1>0, <1>2, <1>3, <1>4, <1>7, <2>3, <3>3, AnswerTaken
  <2>4. CASE c.action = "operation-history" /\ HistoryRead(c.reply) /\ UNCHANGED <<view, timeline, cursor>>
    <3>1. history' \in Seq(Nat) /\ nextBefore' \in Nat /\ HistoryIsUnbroken'
      BY <1>0, <1>7, <2>0, <2>4, HistoryReadKeeps
    <3> QED BY <1>0, <1>2, <1>3, <1>4, <1>7, <2>4, <3>1, AnswerTaken
  <2> QED BY <1>7, <2>1, <2>2, <2>3, <2>4 DEF Read
<1> QED BY <1>5, <1>6, <1>7 DEF GenericAnswered, Awaited

(* The fixed chain: the answer that is waited for is the only one that is missing. *)
LEMMA FixedAnswerKeeps ==
  ASSUME SceneIInv, NEW c \in calls, FixedAnswered(c)
  PROVE  SceneIInv'
<1>0. /\ UNCHANGED <<scene, generic, view, ticket, tickets, sent, operations, floor, lastEvent, history, nextBefore, timeline, cursor>>
      /\ UNCHANGED <<pageVars, tickets, sent, serviceVars>> /\ calls' = calls \ {c} /\ ~c.generic /\ busy' = FALSE
  BY DEF FixedAnswered, pageVars, serviceVars, recordVars
<1>1. ~generic /\ ticket = 0 /\ c.id = tickets /\ tickets \in Nat /\ c.id \in 1..tickets
  BY <1>0 DEF SceneIInv, SceneTypes, CallsInOrder
<1>2. /\ timeline' \in Seq(Nat) /\ cursor' \in Nat /\ TimelineIsUnbroken'
      /\ history' \in Seq(Nat) /\ nextBefore' \in Nat /\ HistoryIsUnbroken'
  BY <1>0 DEF SceneIInv, SceneTypes, TimelineIsUnbroken, HistoryIsUnbroken
<1>3. /\ \A v \in view' : ViewShape(v) /\ v.revision \in Nat /\ v.cursor \in Nat /\ v.reading \in 1..tickets
      /\ \A v \in view' : generic /\ v.of = scene
      /\ \A x \in sent, v \in view' : x.id < v.reading
  BY <1>0, StaleViewKeeps
<1>4. /\ \A s \in snapshot' : s.reading \in 1..tickets /\ ~generic /\ s.of = scene
      /\ \A x \in sent, s \in snapshot' : x.id < s.reading
  <2>1. CASE snapshot' = snapshot
    BY <1>1, <2>1 DEF SceneIInv, ReadingsAreLater, ShownIsOfTheScene
  <2>2. CASE scene = c.of /\ c.action = "status" /\ snapshot' = {[of |-> c.of, reading |-> c.id]}
    <3>1. \A s \in snapshot' : s.of = scene /\ s.reading = c.id
      BY <2>2
    <3>2. \A x \in sent : x.id < c.id
      <4>1. \A x \in sent : x.id \in 1..tickets
        BY DEF SceneIInv, SceneTypes
      <4>2. \A x \in sent : x.id # c.id
        BY <2>2 DEF SceneIInv, CallsInOrder, Changes
      <4> QED BY <1>1, <4>1, <4>2
    <3> QED BY <1>1, <3>1, <3>2
  <2> QED BY <2>1, <2>2 DEF FixedAnswered
<1>5. ticket' = 0
  BY <1>0, <1>1
<1> QED BY <1>0, <1>2, <1>3, <1>4, <1>5, AnswerTaken

LEMMA SceneKeeps == SceneIInv /\ [SceneNext]_sceneVars => SceneIInv'
<1> SUFFICES ASSUME SceneIInv, [SceneNext]_sceneVars PROVE SceneIInv'
  OBVIOUS
<1>1. ASSUME NEW i \in Scenes, Select(i) PROVE SceneIInv'
  BY <1>1, SelectionKeeps DEF Select, SceneIInv, SceneTypes
<1>2. CASE SwitchChain
  <2>1. generic' \in BOOLEAN
    BY <1>2 DEF SwitchChain, SceneIInv, SceneTypes
  <2> QED BY <1>2, <2>1, SelectionKeeps DEF SwitchChain
<1>3. CASE WindowEnds
  BY <1>3, TimePasses DEF WindowEnds
<1>4. CASE TimeUp
  BY <1>4, TimePasses DEF TimeUp
<1>5. CASE UNCHANGED sceneVars
  <2>1. /\ view' = view /\ calls' = calls /\ UNCHANGED <<pageVars, snapshot, tickets, recordVars, sent, serviceVars>>
        /\ UNCHANGED <<ticket, busy>>
    BY <1>5 DEF sceneVars, pageVars, recordVars, serviceVars
  <2> QED BY <2>1, TimePasses
<1>6. CASE \E c \in calls : Serves(c) \/ GenericAnswered(c) \/ FixedAnswered(c)
  BY <1>6, ServesKeeps, GenericAnswerKeeps, FixedAnswerKeeps
<1>7. CASE ReadStatus \/ QueryOriginal \/ ListInstances \/ sceneEventsRefresh \/ sceneHistoryLoad \/ sceneHistoryNextPage
  BY <1>7, AskingKeeps
<1>8. CASE \E a \in Changes : sceneSubmit(a)
  BY <1>8, SubmitKeeps
<1>9. CASE \E a \in Changes \cup {"status"} : sceneRequest(a)
  BY <1>9, RequestKeeps
<1>10. CASE \E i \in Scenes : Emits(i) \/ Prunes(i)
  BY <1>10, OthersKeep
<1> QED BY <1>1, <1>2, <1>3, <1>4, <1>5, <1>6, <1>7, <1>8, <1>9, <1>10 DEF SceneNext

(* What the page shows is of the instance and the chain that are selected, its timeline and its history have no gap, a  *)
(* busy page waits for an answer, and a change rests on a reading asked for after the change before it: a late answer   *)
(* shows nothing, as sceneGenericCall and the handlers of its replies compare ticket, chain and instance                *)
(* (GuiApp.swift:1355-1404).                                                                                            *)
THEOREM PageIsAlwaysOfTheScene == SceneSpec => []PageIsOfTheScene
<1> QED BY SceneInitInv, SceneKeeps, PageFromParts, PTL DEF SceneSpec

-----------------------------------------------------------------------------
(* Drafts of scenarios.  Every manifest that the page holds, shows, or can *)
(* go back or forward to is a sound draft, because each edit of            *)
(* MacGraphDraft makes one of one: a new address is one that no machine    *)
(* has, a new network fits beside the others, a removed one had no         *)
(* machine, and dependencies are checked.                                  *)

Wirings == UNION {[D -> Nat] : D \in SUBSET Networks}
NodeRecords == [deps : SUBSET Machines, nics : Wirings]
Manifests == [nets : UNION {[D -> SUBSET Nat] : D \in SUBSET Networks}, slot : Nat \cup {NoAddress},
              nodes : UNION {[D -> NodeRecords] : D \in SUBSET Machines}]
SoundDraft(m) == RangesDisjoint(m) /\ DependsOnOthers(m) /\ AddressesFit(m) /\ AddressesDiffer(m) /\ Acyclic(m)
Drafts == {m \in Manifests : SoundDraft(m)}

(* What IsManifest says, as a set. *)
LEMMA IsManifestIn == ASSUME NEW m, IsManifest(m) PROVE m \in Manifests
<1>1. m = [nets |-> m.nets, slot |-> m.slot, nodes |-> m.nodes] /\ m.slot \in Nat \cup {NoAddress}
  BY DEF IsManifest
<1>2. m.nets \in UNION {[D -> SUBSET Nat] : D \in SUBSET Networks}
  BY DEF IsManifest, Nets
<1>4. ASSUME NEW n \in Members(m) PROVE m.nodes[n] \in NodeRecords
  <2>1. m.nodes[n] = [deps |-> m.nodes[n].deps, nics |-> m.nodes[n].nics] /\ m.nodes[n].deps \in SUBSET Machines
    BY DEF IsManifest
  <2>2. m.nodes[n].nics \in Wirings
    BY DEF IsManifest, Nics, Wirings
  <2>. QED  BY <2>1, <2>2 DEF NodeRecords
<1>5. m.nodes \in [DOMAIN m.nodes -> NodeRecords]
  <2>1. m.nodes = [n \in DOMAIN m.nodes |-> m.nodes[n]]
    BY DEF IsManifest
  <2>. QED  BY <1>4, <2>1 DEF Members
<1>6. DOMAIN m.nodes \in SUBSET Machines
  BY DEF IsManifest, Members
<1>7. m.nodes \in UNION {[D -> NodeRecords] : D \in SUBSET Machines}
  BY <1>5, <1>6
<1>. QED  BY <1>1, <1>2, <1>7 DEF Manifests

LEMMA ManifestParts ==
  ASSUME NEW m \in Manifests
  PROVE  /\ m = [nets |-> m.nets, slot |-> m.slot, nodes |-> m.nodes] /\ m.slot \in Nat \cup {NoAddress}
         /\ Nets(m) \in SUBSET Networks /\ m.nets \in [Nets(m) -> SUBSET Nat]
         /\ Members(m) \in SUBSET Machines /\ m.nodes \in [Members(m) -> NodeRecords]
         /\ \A n \in Members(m) : /\ m.nodes[n] = [deps |-> m.nodes[n].deps, nics |-> Nics(m, n)]
                                  /\ m.nodes[n].deps \in SUBSET Machines /\ Nics(m, n) \in Wirings
                                  /\ DOMAIN Nics(m, n) \in SUBSET Networks /\ Nics(m, n) \in [DOMAIN Nics(m, n) -> Nat]
<1>1. m = [nets |-> m.nets, slot |-> m.slot, nodes |-> m.nodes] /\ m.slot \in Nat \cup {NoAddress}
  BY DEF Manifests
<1>2. m.nets \in UNION {[D -> SUBSET Nat] : D \in SUBSET Networks} /\ m.nodes \in UNION {[D -> NodeRecords] : D \in SUBSET Machines}
  BY DEF Manifests
<1>3. Nets(m) \in SUBSET Networks /\ m.nets \in [Nets(m) -> SUBSET Nat]
  BY <1>2 DEF Nets
<1>4. Members(m) \in SUBSET Machines /\ m.nodes \in [Members(m) -> NodeRecords]
  BY <1>2 DEF Members
<1>5. ASSUME NEW n \in Members(m)
      PROVE  /\ m.nodes[n] = [deps |-> m.nodes[n].deps, nics |-> Nics(m, n)]
             /\ m.nodes[n].deps \in SUBSET Machines /\ Nics(m, n) \in Wirings
             /\ DOMAIN Nics(m, n) \in SUBSET Networks /\ Nics(m, n) \in [DOMAIN Nics(m, n) -> Nat]
  <2>1. m.nodes[n] \in NodeRecords
    BY <1>4
  <2>2. m.nodes[n] = [deps |-> m.nodes[n].deps, nics |-> m.nodes[n].nics] /\ m.nodes[n].deps \in SUBSET Machines /\ m.nodes[n].nics \in Wirings
    BY <2>1 DEF NodeRecords
  <2>3. \A w \in Wirings : DOMAIN w \in SUBSET Networks /\ w \in [DOMAIN w -> Nat]
    BY DEF Wirings
  <2>. QED  BY <2>2, <2>3 DEF Nics
<1>. QED  BY <1>1, <1>3, <1>4, <1>5

LEMMA AddressIn ==
  ASSUME NEW m, NEW n \in Members(m), NEW x \in DOMAIN Nics(m, n)
  PROVE  Nics(m, n)[x] \in Addresses(m)
BY DEF Addresses, Range

(* Numbers that exist have a least one. *)
LEMMA LowestIn == ASSUME NEW S \in SUBSET Nat, S # {} PROVE Lowest(S) \in S
<1> DEFINE Below == OpToRel(<, Nat)
<1>1. IsWellFoundedOn(Below, Nat)
  BY NatLessThanWellFounded
<1>2. \A a, b \in Nat : b < a => <<b, a>> \in Below
  BY DEF OpToRel
<1> HIDE DEF Below
<1>3. PICK a \in S : \A b \in S : ~ (<<b, a>> \in Below)
  BY <1>1, WFMin
<1>4. ASSUME NEW b \in S PROVE a <= b
  <2>1. ~ (b < a)
    BY <1>2, <1>3
  <2>. QED  BY <2>1
<1>. QED  BY <1>4 DEF Lowest

(* A machine of a manifest is replaced, or added. *)
LEMMA WithNodeParts ==
  ASSUME NEW m \in Manifests, NEW n \in Machines, NEW v \in NodeRecords
  PROVE  LET d == WithNode(m, n, v)
         IN  /\ d \in Manifests /\ d.nets = m.nets /\ Nets(d) = Nets(m) /\ d.slot = m.slot
             /\ Members(d) = Members(m) \cup {n} /\ d.nodes[n] = v /\ Nics(d, n) = v.nics
             /\ \A o \in Members(m) \ {n} : d.nodes[o] = m.nodes[o] /\ Nics(d, o) = Nics(m, o)
<1> DEFINE d == WithNode(m, n, v)
<1>1. /\ m = [nets |-> m.nets, slot |-> m.slot, nodes |-> m.nodes]
      /\ Members(m) \in SUBSET Machines /\ m.nodes \in [Members(m) -> NodeRecords]
  BY ManifestParts
<1>2. d = [nets |-> m.nets, slot |-> m.slot, nodes |-> With(m.nodes, n, v)]
  BY <1>1 DEF WithNode
<1>3. With(m.nodes, n, v) = [y \in Members(m) \cup {n} |-> IF y = n THEN v ELSE m.nodes[y]]
  BY DEF With, Members
<1>4. With(m.nodes, n, v) \in [Members(m) \cup {n} -> NodeRecords] /\ Members(m) \cup {n} \in SUBSET Machines
  BY <1>1, <1>3
<1>5. With(m.nodes, n, v) \in UNION {[D -> NodeRecords] : D \in SUBSET Machines}
  BY <1>4
<1>6. d \in Manifests
  <2>1. m.nets \in UNION {[D -> SUBSET Nat] : D \in SUBSET Networks} /\ m.slot \in Nat \cup {NoAddress}
    BY DEF Manifests
  <2>. QED  BY <2>1, <1>2, <1>5 DEF Manifests
<1>7. d.nets = m.nets /\ d.slot = m.slot /\ d.nodes = With(m.nodes, n, v)
  BY <1>2
<1>8. Members(d) = Members(m) \cup {n} /\ d.nodes[n] = v /\ \A o \in Members(m) \ {n} : d.nodes[o] = m.nodes[o]
  BY <1>3, <1>7 DEF Members
<1>9. Nets(d) = Nets(m)
  BY <1>7 DEF Nets
<1> HIDE DEF d
<1>10. Nics(d, n) = v.nics /\ \A o \in Members(m) \ {n} : Nics(d, o) = Nics(m, o)
  BY <1>8 DEF Nics
<1>11. /\ d \in Manifests /\ d.nets = m.nets /\ Nets(d) = Nets(m) /\ d.slot = m.slot
       /\ Members(d) = Members(m) \cup {n} /\ d.nodes[n] = v /\ Nics(d, n) = v.nics
       /\ \A o \in Members(m) \ {n} : d.nodes[o] = m.nodes[o] /\ Nics(d, o) = Nics(m, o)
  BY <1>6, <1>7, <1>8, <1>9, <1>10
<1>. QED  BY <1>11 DEF d

(* A machine of a draft gets other addresses, fitting ones that nobody else has. *)
LEMMA RewiredIsSound ==
  ASSUME NEW m \in Drafts, NEW n \in Members(m), NEW nics \in Wirings,
         DOMAIN nics \subseteq Nets(m), \A x \in DOMAIN nics : nics[x] \in m.nets[x],
         \A x, y \in DOMAIN nics : x # y => nics[x] # nics[y],
         \A o \in Members(m) \ {n} : \A x \in DOMAIN nics, y \in DOMAIN Nics(m, o) : nics[x] # Nics(m, o)[y]
  PROVE  Rewired(m, n, nics) \in Drafts
<1> DEFINE v == [m.nodes[n] EXCEPT !.nics = nics]
<1> DEFINE d == Rewired(m, n, nics)
<1>0. m \in Manifests /\ SoundDraft(m)
  BY DEF Drafts
<1>1. /\ Members(m) \in SUBSET Machines
      /\ m.nodes[n] = [deps |-> m.nodes[n].deps, nics |-> Nics(m, n)] /\ m.nodes[n].deps \in SUBSET Machines
  BY <1>0, ManifestParts
<1>2. v = [deps |-> m.nodes[n].deps, nics |-> nics]
  BY <1>1
<1>3. v \in NodeRecords /\ v.deps = m.nodes[n].deps /\ v.nics = nics
  BY <1>1, <1>2 DEF NodeRecords
<1>4. d = WithNode(m, n, v) /\ n \in Machines
  BY <1>1 DEF Rewired
<1> HIDE DEF v
<1>5. /\ d \in Manifests /\ d.nets = m.nets /\ Nets(d) = Nets(m)
      /\ Members(d) = Members(m) \cup {n} /\ d.nodes[n] = v /\ Nics(d, n) = v.nics
      /\ \A o \in Members(m) \ {n} : d.nodes[o] = m.nodes[o] /\ Nics(d, o) = Nics(m, o)
  BY <1>0, <1>3, <1>4, WithNodeParts
<1> HIDE DEF d
<1>6. Members(d) = Members(m) /\ Nics(d, n) = nics /\ \A o \in Members(m) : d.nodes[o].deps = m.nodes[o].deps
  BY <1>3, <1>5
<1>7. RangesDisjoint(d)
  BY <1>0, <1>5 DEF SoundDraft, RangesDisjoint
<1>8. DependsOnOthers(d) /\ Acyclic(d)
  BY <1>0, <1>6 DEF SoundDraft, DependsOnOthers, Acyclic
<1>9. AddressesFit(d)
  BY <1>0, <1>5, <1>6 DEF SoundDraft, AddressesFit
<1>10. AddressesDiffer(d)
  <2> SUFFICES ASSUME NEW p \in Members(d), NEW o \in Members(d), NEW x \in DOMAIN Nics(d, p), NEW y \in DOMAIN Nics(d, o), p # o \/ x # y
               PROVE  Nics(d, p)[x] # Nics(d, o)[y]
    BY DEF AddressesDiffer
  <2>1. CASE p = n /\ o = n
    BY <2>1, <1>6
  <2>2. CASE p = n /\ o # n
    BY <2>2, <1>5, <1>6
  <2>3. CASE p # n /\ o = n
    BY <2>3, <1>5, <1>6
  <2>4. CASE p # n /\ o # n
    BY <2>4, <1>0, <1>5, <1>6 DEF SoundDraft, AddressesDiffer
  <2>. QED  BY <2>1, <2>2, <2>3, <2>4
<1>. QED  BY <1>5, <1>7, <1>8, <1>9, <1>10 DEF d, Drafts, SoundDraft

(* What a draft says of the addresses of one of its machines. *)
LEMMA DraftNics ==
  ASSUME NEW m \in Drafts, NEW n \in Members(m)
  PROVE  /\ Nics(m, n) \in Wirings /\ DOMAIN Nics(m, n) \subseteq Nets(m) /\ Nets(m) \subseteq Networks
         /\ m.nets \in [Nets(m) -> SUBSET Nat]
         /\ \A x \in DOMAIN Nics(m, n) : Nics(m, n)[x] \in m.nets[x] /\ Nics(m, n)[x] \in Nat
         /\ \A x, y \in DOMAIN Nics(m, n) : x # y => Nics(m, n)[x] # Nics(m, n)[y]
         /\ \A o \in Members(m) \ {n} : \A x \in DOMAIN Nics(m, n), y \in DOMAIN Nics(m, o) : Nics(m, n)[x] # Nics(m, o)[y]
<1>1. m \in Manifests /\ AddressesFit(m) /\ AddressesDiffer(m)
  BY DEF Drafts, SoundDraft
<1>2. /\ Nics(m, n) \in Wirings /\ Nets(m) \subseteq Networks /\ m.nets \in [Nets(m) -> SUBSET Nat]
      /\ Nics(m, n) \in [DOMAIN Nics(m, n) -> Nat]
  BY <1>1, ManifestParts
<1>3. DOMAIN Nics(m, n) \subseteq Nets(m) /\ \A x \in DOMAIN Nics(m, n) : Nics(m, n)[x] \in m.nets[x]
  BY <1>1 DEF AddressesFit
<1>4. /\ \A x, y \in DOMAIN Nics(m, n) : x # y => Nics(m, n)[x] # Nics(m, n)[y]
      /\ \A o \in Members(m) \ {n} : \A x \in DOMAIN Nics(m, n), y \in DOMAIN Nics(m, o) : Nics(m, n)[x] # Nics(m, o)[y]
  BY <1>1 DEF AddressesDiffer
<1>. QED  BY <1>2, <1>3, <1>4

(* A machine that loses some of its addresses and gets one that is free. *)
LEMMA AttachedIsSound ==
  ASSUME NEW m \in Drafts, NEW n \in Members(m), NEW x \in Attachable(m, n), NEW keep \in SUBSET DOMAIN Nics(m, n)
  PROVE  Attached(m, n, [y \in keep |-> Nics(m, n)[y]], x) \in Drafts
<1> DEFINE a == Lowest(Free(m, x))
<1> DEFINE nics == With([y \in keep |-> Nics(m, n)[y]], x, a)
<1>1. x \in Nets(m) /\ x \notin DOMAIN Nics(m, n) /\ Free(m, x) # {}
  BY DEF Attachable
<1>2. Free(m, x) \in SUBSET Nat
  BY <1>1, DraftNics DEF Free
<1>3. a \in Free(m, x)
  BY <1>1, <1>2, LowestIn
<1>4. a \in Nat /\ a \in m.nets[x] /\ a \notin Addresses(m)
  BY <1>2, <1>3 DEF Free
<1> HIDE DEF a
<1>5. nics = [y \in keep \cup {x} |-> IF y = x THEN a ELSE Nics(m, n)[y]]
  BY <1>1 DEF With
<1>6. DOMAIN nics = keep \cup {x} /\ nics[x] = a /\ \A y \in keep : nics[y] = Nics(m, n)[y]
  BY <1>1, <1>5
<1>7. nics \in [keep \cup {x} -> Nat]
  BY <1>4, <1>5, DraftNics
<1>8. keep \cup {x} \in SUBSET Networks
  BY <1>1, DraftNics
<1>9. nics \in Wirings
  BY <1>7, <1>8 DEF Wirings
<1>10. Attached(m, n, [y \in keep |-> Nics(m, n)[y]], x) = Rewired(m, n, nics)
  BY DEF Attached, a
<1> HIDE DEF nics
<1>11. DOMAIN nics \subseteq Nets(m) /\ \A y \in DOMAIN nics : nics[y] \in m.nets[y]
  BY <1>1, <1>4, <1>6, DraftNics
<1>12. \A y \in DOMAIN Nics(m, n) : Nics(m, n)[y] # a
  BY <1>4, AddressIn
<1>13. \A y, z \in DOMAIN nics : y # z => nics[y] # nics[z]
  BY <1>6, <1>12, DraftNics
<1>14. \A o \in Members(m) \ {n} : \A y \in DOMAIN nics, z \in DOMAIN Nics(m, o) : nics[y] # Nics(m, o)[z]
  BY <1>4, <1>6, AddressIn, DraftNics
<1>15. Rewired(m, n, nics) \in Drafts
  BY <1>9, <1>11, <1>13, <1>14, RewiredIsSound
<1>. QED  BY <1>10, <1>15

LEMMA ConnectedIsSound ==
  ASSUME NEW m \in Drafts, NEW n \in Members(m)
  PROVE  connect(m, n) \cup reconnect(m, n) \cup disconnect(m, n) \subseteq Drafts
<1>1. connect(m, n) \subseteq Drafts
  <2>1. Nics(m, n) = [y \in DOMAIN Nics(m, n) |-> Nics(m, n)[y]]
    BY DraftNics DEF Wirings
  <2>2. \A x \in Attachable(m, n) : Attached(m, n, Nics(m, n), x) \in Drafts
    BY <2>1, AttachedIsSound
  <2>. QED  BY <2>2 DEF connect
<1>2. reconnect(m, n) \subseteq Drafts
  <2>1. \A o \in DOMAIN Nics(m, n), x \in Attachable(m, n) : Attached(m, n, Without(Nics(m, n), o), x) \in Drafts
    BY AttachedIsSound DEF Without
  <2>. QED  BY <2>1 DEF reconnect
<1>3. disconnect(m, n) \subseteq Drafts
  <2>1. ASSUME NEW x \in DOMAIN Nics(m, n) PROVE Rewired(m, n, Without(Nics(m, n), x)) \in Drafts
    <3> DEFINE nics == Without(Nics(m, n), x)
    <3>1. DOMAIN nics = DOMAIN Nics(m, n) \ {x} /\ \A y \in DOMAIN nics : nics[y] = Nics(m, n)[y]
      BY DEF Without
    <3>2. nics \in [DOMAIN Nics(m, n) \ {x} -> Nat] /\ DOMAIN Nics(m, n) \ {x} \in SUBSET Networks
      BY DraftNics DEF Without
    <3>3. nics \in Wirings
      BY <3>2 DEF Wirings
    <3> HIDE DEF nics
    <3>4. Rewired(m, n, nics) \in Drafts
      BY <3>1, <3>3, DraftNics, RewiredIsSound
    <3>. QED  BY <3>4 DEF nics
  <2>. QED  BY <2>1 DEF disconnect
<1>. QED  BY <1>1, <1>2, <1>3

LEMMA AddedIsSound == ASSUME NEW m \in Drafts PROVE addNode(m) \subseteq Drafts
<1> SUFFICES ASSUME NEW n \in Machines \ Members(m) PROVE WithNode(m, n, [deps |-> {}, nics |-> <<>>]) \in Drafts
  BY DEF addNode
<1> DEFINE v == [deps |-> {}, nics |-> <<>>]
<1> DEFINE d == WithNode(m, n, v)
<1>0. m \in Manifests /\ SoundDraft(m)
  BY DEF Drafts
<1>1. DOMAIN <<>> = {} /\ <<>> \in [{} -> Nat]
  OBVIOUS
<1>2. v \in NodeRecords /\ v.deps = {} /\ DOMAIN v.nics = {}
  BY <1>1 DEF NodeRecords, Wirings
<1> HIDE DEF v
<1>5. /\ d \in Manifests /\ d.nets = m.nets /\ Nets(d) = Nets(m)
      /\ Members(d) = Members(m) \cup {n} /\ d.nodes[n] = v /\ Nics(d, n) = v.nics
      /\ \A o \in Members(m) \ {n} : d.nodes[o] = m.nodes[o] /\ Nics(d, o) = Nics(m, o)
  BY <1>0, <1>2, WithNodeParts
<1> HIDE DEF d
<1>6. d.nodes[n].deps = {} /\ DOMAIN Nics(d, n) = {} /\ \A o \in Members(m) : d.nodes[o] = m.nodes[o] /\ Nics(d, o) = Nics(m, o)
  BY <1>2, <1>5
<1>7. RangesDisjoint(d)
  BY <1>0, <1>5 DEF SoundDraft, RangesDisjoint
<1>8. DependsOnOthers(d)
  BY <1>0, <1>5, <1>6 DEF SoundDraft, DependsOnOthers
<1>9. AddressesFit(d)
  BY <1>0, <1>5, <1>6 DEF SoundDraft, AddressesFit
<1>10. AddressesDiffer(d)
  BY <1>0, <1>5, <1>6 DEF SoundDraft, AddressesDiffer
<1>11. Acyclic(d)
  <2> SUFFICES ASSUME NEW S \in SUBSET Members(d), S # {} PROVE \E o \in S : d.nodes[o].deps \cap S = {}
    BY DEF Acyclic
  <2>1. CASE n \in S
    BY <2>1, <1>6
  <2>2. CASE n \notin S
    <3>1. S \in SUBSET Members(m)
      BY <2>2, <1>5
    <3>. QED  BY <3>1, <1>0, <1>6 DEF SoundDraft, Acyclic
  <2>. QED  BY <2>1, <2>2
<1>12. d \in Drafts
  BY <1>5, <1>7, <1>8, <1>9, <1>10, <1>11 DEF Drafts, SoundDraft
<1>. QED  BY <1>12 DEF d, v

LEMMA DependentIsSound == ASSUME NEW m \in Drafts, NEW n \in Members(m) PROVE dependencies(m, n) \subseteq Drafts
<1> SUFFICES ASSUME NEW S \in SUBSET (Members(m) \ {n}), Acyclic(WithNode(m, n, [m.nodes[n] EXCEPT !.deps = S]))
             PROVE  WithNode(m, n, [m.nodes[n] EXCEPT !.deps = S]) \in Drafts
  BY DEF dependencies, Dependent
<1> DEFINE v == [m.nodes[n] EXCEPT !.deps = S]
<1> DEFINE d == WithNode(m, n, v)
<1>0. m \in Manifests /\ SoundDraft(m)
  BY DEF Drafts
<1>1. /\ Members(m) \in SUBSET Machines /\ Nics(m, n) \in Wirings
      /\ m.nodes[n] = [deps |-> m.nodes[n].deps, nics |-> Nics(m, n)]
  BY <1>0, ManifestParts
<1>2. v = [deps |-> S, nics |-> Nics(m, n)]
  BY <1>1
<1>3. v \in NodeRecords /\ v.deps = S /\ v.nics = Nics(m, n)
  BY <1>1, <1>2 DEF NodeRecords
<1> HIDE DEF v
<1>5. /\ d \in Manifests /\ d.nets = m.nets /\ Nets(d) = Nets(m)
      /\ Members(d) = Members(m) \cup {n} /\ d.nodes[n] = v /\ Nics(d, n) = v.nics
      /\ \A o \in Members(m) \ {n} : d.nodes[o] = m.nodes[o] /\ Nics(d, o) = Nics(m, o)
  BY <1>0, <1>1, <1>3, WithNodeParts
<1>6. Acyclic(d)
  BY DEF v
<1> HIDE DEF d
<1>7. Members(d) = Members(m) /\ \A o \in Members(m) : Nics(d, o) = Nics(m, o)
  BY <1>3, <1>5
<1>8. RangesDisjoint(d)
  BY <1>0, <1>5 DEF SoundDraft, RangesDisjoint
<1>9. DependsOnOthers(d)
  BY <1>0, <1>3, <1>5, <1>7 DEF SoundDraft, DependsOnOthers
<1>10. AddressesFit(d)
  BY <1>0, <1>5, <1>7 DEF SoundDraft, AddressesFit
<1>11. AddressesDiffer(d)
  BY <1>0, <1>7 DEF SoundDraft, AddressesDiffer
<1>12. d \in Drafts
  BY <1>5, <1>6, <1>8, <1>9, <1>10, <1>11 DEF Drafts, SoundDraft
<1>. QED  BY <1>12 DEF d, v

LEMMA OtherDependencies ==
  ASSUME NEW r, NEW nics, NEW deps, r = [deps |-> r.deps, nics |-> nics]
  PROVE  [r EXCEPT !.deps = deps] = [deps |-> deps, nics |-> nics]
OBVIOUS

(* The machine goes, and nobody depends on it any more. *)
LEMMA RemovedIsSound == ASSUME NEW m \in Drafts, NEW n \in Members(m) PROVE removeNode(m, n) \subseteq Drafts
<1> DEFINE nodes == [o \in Members(m) \ {n} |-> [m.nodes[o] EXCEPT !.deps = @ \ {n}]]
<1> DEFINE d == [m EXCEPT !.nodes = nodes]
<1>0. m \in Manifests /\ SoundDraft(m)
  BY DEF Drafts
<1>1. /\ m = [nets |-> m.nets, slot |-> m.slot, nodes |-> m.nodes]
      /\ Members(m) \in SUBSET Machines
      /\ \A o \in Members(m) : /\ m.nodes[o] = [deps |-> m.nodes[o].deps, nics |-> Nics(m, o)]
                               /\ m.nodes[o].deps \in SUBSET Machines /\ Nics(m, o) \in Wirings
  BY <1>0, ManifestParts
<1>2. ASSUME NEW o \in Members(m) \ {n}
      PROVE  nodes[o] \in NodeRecords /\ nodes[o].deps = m.nodes[o].deps \ {n} /\ nodes[o].nics = Nics(m, o)
  <2>1. nodes[o] = [m.nodes[o] EXCEPT !.deps = m.nodes[o].deps \ {n}]
    OBVIOUS
  <2>2. nodes[o] = [deps |-> m.nodes[o].deps \ {n}, nics |-> Nics(m, o)]
    <3>1. m.nodes[o] = [deps |-> m.nodes[o].deps, nics |-> Nics(m, o)]
      BY <1>1
    <3>. QED  BY <2>1, <3>1, OtherDependencies
  <2>3. m.nodes[o].deps \ {n} \in SUBSET Machines /\ Nics(m, o) \in Wirings
    BY <1>1
  <2> HIDE DEF nodes
  <2>. QED  BY <2>2, <2>3 DEF NodeRecords
<1>3. nodes \in [Members(m) \ {n} -> NodeRecords] /\ Members(m) \ {n} \in SUBSET Machines
  BY <1>1, <1>2
<1> HIDE DEF nodes
<1>4. d = [nets |-> m.nets, slot |-> m.slot, nodes |-> nodes]
  BY <1>1
<1>5. d \in Manifests
  <2>1. m.nets \in UNION {[D -> SUBSET Nat] : D \in SUBSET Networks} /\ m.slot \in Nat \cup {NoAddress}
    BY <1>0 DEF Manifests
  <2>2. nodes \in UNION {[D -> NodeRecords] : D \in SUBSET Machines}
    BY <1>3
  <2>. QED  BY <2>1, <2>2, <1>4 DEF Manifests
<1>6. d.nets = m.nets /\ d.nodes = nodes
  BY <1>4
<1> HIDE DEF d
<1>7. Nets(d) = Nets(m) /\ Members(d) = Members(m) \ {n}
  BY <1>3, <1>6 DEF Nets, Members
<1>8. \A o \in Members(d) : d.nodes[o].deps = m.nodes[o].deps \ {n} /\ Nics(d, o) = Nics(m, o)
  BY <1>2, <1>6, <1>7 DEF Nics
<1>9. RangesDisjoint(d)
  BY <1>0, <1>6, <1>7 DEF SoundDraft, RangesDisjoint
<1>10. DependsOnOthers(d)
  BY <1>0, <1>7, <1>8 DEF SoundDraft, DependsOnOthers
<1>11. AddressesFit(d)
  BY <1>0, <1>6, <1>7, <1>8 DEF SoundDraft, AddressesFit
<1>12. AddressesDiffer(d)
  BY <1>0, <1>7, <1>8 DEF SoundDraft, AddressesDiffer
<1>13. Acyclic(d)
  <2> SUFFICES ASSUME NEW S \in SUBSET Members(d), S # {} PROVE \E o \in S : d.nodes[o].deps \cap S = {}
    BY DEF Acyclic
  <2>1. S \in SUBSET Members(m)
    BY <1>7
  <2>2. PICK o \in S : m.nodes[o].deps \cap S = {}
    BY <2>1, <1>0 DEF SoundDraft, Acyclic
  <2>. QED  BY <2>2, <1>8
<1>14. d \in Drafts
  BY <1>5, <1>9, <1>10, <1>11, <1>12, <1>13 DEF Drafts, SoundDraft
<1>. QED  BY <1>14 DEF d, nodes, removeNode

(* Networks that come fit beside the others, and networks that go had no machine. *)
LEMMA NetworksAreSound ==
  ASSUME NEW m \in Drafts, NEW nets \in UNION {[D -> SUBSET Nat] : D \in SUBSET Networks},
         \A x, y \in DOMAIN nets : x # y => nets[x] \cap nets[y] = {},
         \A n \in Members(m) : DOMAIN Nics(m, n) \subseteq DOMAIN nets,
         \A x \in DOMAIN nets \cap Nets(m) : nets[x] = m.nets[x]
  PROVE  [m EXCEPT !.nets = nets] \in Drafts
<1> DEFINE d == [m EXCEPT !.nets = nets]
<1>0. m \in Manifests /\ SoundDraft(m)
  BY DEF Drafts
<1>1. m = [nets |-> m.nets, slot |-> m.slot, nodes |-> m.nodes]
  BY <1>0, ManifestParts
<1>2. d = [nets |-> nets, slot |-> m.slot, nodes |-> m.nodes]
  BY <1>1
<1>3. d \in Manifests
  <2>1. m.slot \in Nat \cup {NoAddress} /\ m.nodes \in UNION {[D -> NodeRecords] : D \in SUBSET Machines}
    BY <1>0 DEF Manifests
  <2>. QED  BY <2>1, <1>2 DEF Manifests
<1>4. d.nets = nets /\ d.nodes = m.nodes
  BY <1>2
<1> HIDE DEF d
<1>5. Nets(d) = DOMAIN nets /\ Members(d) = Members(m) /\ \A n \in Members(m) : Nics(d, n) = Nics(m, n)
  BY <1>4 DEF Nets, Members, Nics
<1>6. RangesDisjoint(d)
  BY <1>4, <1>5 DEF RangesDisjoint
<1>7. DependsOnOthers(d) /\ Acyclic(d)
  BY <1>0, <1>4, <1>5 DEF SoundDraft, DependsOnOthers, Acyclic
<1>8. AddressesFit(d)
  BY <1>0, <1>4, <1>5 DEF SoundDraft, AddressesFit
<1>9. AddressesDiffer(d)
  BY <1>0, <1>5 DEF SoundDraft, AddressesDiffer
<1>. QED  BY <1>3, <1>6, <1>7, <1>8, <1>9 DEF d, Drafts, SoundDraft

LEMMA NetworkEditsAreSound == ASSUME NEW m \in Drafts PROVE removeNetwork(m) \cup addNetwork(m) \subseteq Drafts
<1>0. m \in Manifests /\ RangesDisjoint(m) /\ AddressesFit(m)
  BY DEF Drafts, SoundDraft
<1>1. Nets(m) \in SUBSET Networks /\ m.nets \in [Nets(m) -> SUBSET Nat]
  BY <1>0, ManifestParts
<1>2. ASSUME NEW x \in Nets(m), \A n \in Members(m) : x \notin DOMAIN Nics(m, n)
      PROVE  [m EXCEPT !.nets = Without(m.nets, x)] \in Drafts
  <2> DEFINE nets == Without(m.nets, x)
  <2>1. DOMAIN nets = Nets(m) \ {x} /\ \A y \in DOMAIN nets : nets[y] = m.nets[y]
    BY DEF Without, Nets
  <2>2. nets \in [Nets(m) \ {x} -> SUBSET Nat] /\ Nets(m) \ {x} \in SUBSET Networks
    BY <1>1 DEF Without
  <2>3. nets \in UNION {[D -> SUBSET Nat] : D \in SUBSET Networks}
    BY <2>2
  <2> HIDE DEF nets
  <2>4. \A y, z \in DOMAIN nets : y # z => nets[y] \cap nets[z] = {}
    BY <1>0, <2>1 DEF RangesDisjoint
  <2>5. \A n \in Members(m) : DOMAIN Nics(m, n) \subseteq DOMAIN nets
    BY <1>0, <1>2, <2>1 DEF AddressesFit
  <2>6. [m EXCEPT !.nets = nets] \in Drafts
    BY <2>1, <2>3, <2>4, <2>5, NetworksAreSound
  <2>. QED  BY <2>6 DEF nets
<1>3. ASSUME NEW x \in Networks \ Nets(m), NEW r \in Fitting(m)
      PROVE  [m EXCEPT !.nets = With(m.nets, x, r)] \in Drafts
  <2> DEFINE nets == With(m.nets, x, r)
  <2>1. r \in SUBSET Nat /\ \A y \in Nets(m) : r \cap m.nets[y] = {}
    BY DraftAssumption DEF Fitting
  <2>2. DOMAIN nets = Nets(m) \cup {x} /\ nets[x] = r /\ \A y \in Nets(m) : nets[y] = m.nets[y]
    BY DEF With, Nets
  <2>3. nets = [y \in Nets(m) \cup {x} |-> IF y = x THEN r ELSE m.nets[y]]
    BY DEF With, Nets
  <2>4. nets \in [Nets(m) \cup {x} -> SUBSET Nat] /\ Nets(m) \cup {x} \in SUBSET Networks
    BY <1>1, <2>1, <2>3
  <2>5. nets \in UNION {[D -> SUBSET Nat] : D \in SUBSET Networks}
    BY <2>4
  <2> HIDE DEF nets
  <2>6. \A y, z \in DOMAIN nets : y # z => nets[y] \cap nets[z] = {}
    BY <1>0, <2>1, <2>2 DEF RangesDisjoint
  <2>7. \A n \in Members(m) : DOMAIN Nics(m, n) \subseteq DOMAIN nets
    BY <1>0, <2>2 DEF AddressesFit
  <2>8. [m EXCEPT !.nets = nets] \in Drafts
    BY <2>2, <2>5, <2>6, <2>7, NetworksAreSound
  <2>. QED  BY <2>8 DEF nets
<1>. QED  BY <1>2, <1>3 DEF removeNetwork, addNetwork

(* Whatever the editor makes of a draft is a draft. *)
LEMMA EditedIsSound == ASSUME NEW m \in Drafts PROVE Edited(m) \subseteq Drafts
<1>1. \A n \in Members(m) : connect(m, n) \cup reconnect(m, n) \cup disconnect(m, n) \subseteq Drafts
  BY ConnectedIsSound
<1>2. \A n \in Members(m) : removeNode(m, n) \subseteq Drafts
  BY RemovedIsSound
<1>3. \A n \in Members(m) : dependencies(m, n) \subseteq Drafts
  BY DependentIsSound
<1>4. addNode(m) \subseteq Drafts
  BY AddedIsSound
<1>5. removeNetwork(m) \cup addNetwork(m) \subseteq Drafts
  BY NetworkEditsAreSound
<1>6. ASSUME NEW d \in Edited(m) PROVE d \in Drafts
  <2>1. CASE \E n \in Members(m) : d \in connect(m, n) \cup reconnect(m, n) \cup disconnect(m, n)
    BY <1>1, <2>1
  <2>2. CASE \E n \in Members(m) : d \in removeNode(m, n) \cup dependencies(m, n)
    BY <1>2, <1>3, <2>2
  <2>3. CASE d \in addNode(m) \cup removeNetwork(m) \cup addNetwork(m)
    BY <1>4, <1>5, <2>3
  <2>4. \/ \E n \in Members(m) : d \in connect(m, n) \cup reconnect(m, n) \cup disconnect(m, n) \cup removeNode(m, n) \cup dependencies(m, n)
        \/ d \in addNode(m) \cup removeNetwork(m) \cup addNetwork(m)
    BY <1>6, Zenon DEF Edited
  <2>. QED  BY <2>1, <2>2, <2>3, <2>4
<1>. QED  BY <1>6

-----------------------------------------------------------------------------
(* The page: what it shows and what it can go back or forward to are       *)
(* drafts, an answer it keeps is of a manifest that the service accepts,   *)
(* and so is a file; an acceptance is of a file.                           *)
DraftsIInv ==
  /\ source \in Drafts /\ present \subseteq Drafts /\ past \in Seq(Drafts) /\ future \in Seq(Drafts)
  /\ \A d \in diff : validate_manifest(d.manifest)
  /\ \A m \in exported : validate_manifest(m)
  /\ \A d \in acceptance : d.manifest \in exported

LEMMA SourceIsDraft == ASSUME NEW m \in Sources PROVE m \in Drafts
<1>1. IsManifest(m) /\ validate_manifest(m)
  BY DraftAssumption
<1>. QED  BY <1>1, IsManifestIn DEF validate_manifest, Drafts, SoundDraft

LEMMA DraftsInitially == DraftInit => DraftsIInv
BY SourceIsDraft DEF DraftInit, DraftsIInv

LEMMA RememberedType == ASSUME NEW s \in Seq(Drafts), NEW n \in Nat \ {0} PROVE Remembered(s, n) \in Seq(Drafts)
<1>1. CASE Len(s) <= n
  BY <1>1 DEF Remembered
<1>2. CASE ~ (Len(s) <= n)
  <2>1. Len(s) \in Nat
    OBVIOUS
  <2>2. Len(s) - n + 1 \in 1 .. Len(s) + 1 /\ Len(s) \in (Len(s) - n + 1) - 1 .. Len(s)
    BY <1>2, <2>1
  <2>3. SubSeq(s, Len(s) - n + 1, Len(s)) \in Seq(Drafts)
    BY <2>1, <2>2
  <2>. QED  BY <1>2, <2>3 DEF Remembered
<1>. QED  BY <1>1, <1>2

LEMMA DraftsStep == DraftsIInv /\ [DraftNext]_draftVars => DraftsIInv'
<1> SUFFICES ASSUME DraftsIInv, [DraftNext]_draftVars PROVE DraftsIInv'
  OBVIOUS
<1>0. /\ source \in Drafts /\ present \subseteq Drafts /\ past \in Seq(Drafts) /\ future \in Seq(Drafts)
      /\ \A d \in diff : validate_manifest(d.manifest)
      /\ \A m \in exported : validate_manifest(m)
      /\ \A d \in acceptance : d.manifest \in exported
  BY DEF DraftsIInv
<1>1. CASE sceneLoadDraft
  BY <1>0, <1>1 DEF sceneLoadDraft, Revised, instanceVars, fileVars, DraftsIInv
<1>2. CASE SelectScene
  BY <1>0, <1>2 DEF SelectScene, instanceVars, fileVars, DraftsIInv
<1>3. CASE Resets
  BY <1>0, <1>3 DEF Resets, fileVars, DraftsIInv
<1>4. ASSUME NEW m \in present, sceneEditDraft(m) PROVE DraftsIInv'
  <2>1. m \in Drafts
    BY <1>0
  <2>2. PICK d \in Edited(m) :
          /\ present' = {d}
          /\ IF d = m THEN UNCHANGED <<past, future>> ELSE past' = Remembered(Append(past, m), UndoLimit) /\ future' = <<>>
    BY <1>4 DEF sceneEditDraft
  <2>3. d \in Drafts
    BY <2>1, EditedIsSound
  <2>4. past' \in Seq(Drafts) /\ future' \in Seq(Drafts)
    <3>1. CASE d = m
      BY <3>1, <2>2, <1>0
    <3>2. CASE d # m
      <4>1. Append(past, m) \in Seq(Drafts)
        BY <1>0, <2>1
      <4>2. Remembered(Append(past, m), UndoLimit) \in Seq(Drafts)
        BY <4>1, RememberedType, DraftAssumption
      <4>. QED  BY <3>2, <4>2, <2>2
    <3>. QED  BY <3>1, <3>2
  <2>5. source' = source /\ diff' = {} /\ exported' = exported /\ acceptance' = acceptance
    BY <1>4 DEF sceneEditDraft, Revised, instanceVars, fileVars
  <2>. QED  BY <1>0, <2>2, <2>3, <2>4, <2>5 DEF DraftsIInv
<1>5. ASSUME NEW m \in present, sceneUndo(m) PROVE DraftsIInv'
  <2>1. past # <<>> /\ present' = {past[Len(past)]} /\ past' = SubSeq(past, 1, Len(past) - 1) /\ future' = <<m>> \o future
    BY <1>5 DEF sceneUndo
  <2>2. Len(past) \in Nat \ {0} /\ past[Len(past)] \in Drafts /\ past' \in Seq(Drafts)
    BY <1>0, <2>1
  <2>3. future' \in Seq(Drafts)
    BY <1>0, <2>1
  <2>4. source' = source /\ diff' = {} /\ exported' = exported /\ acceptance' = acceptance
    BY <1>5 DEF sceneUndo, Revised, instanceVars, fileVars
  <2>. QED  BY <1>0, <2>1, <2>2, <2>3, <2>4 DEF DraftsIInv
<1>6. ASSUME NEW m \in present, sceneRedo(m) PROVE DraftsIInv'
  <2>1. future # <<>> /\ present' = {Head(future)} /\ past' = Append(past, m) /\ future' = Tail(future)
    BY <1>6 DEF sceneRedo
  <2>2. Head(future) \in Drafts /\ future' \in Seq(Drafts) /\ past' \in Seq(Drafts)
    BY <1>0, <2>1
  <2>3. source' = source /\ diff' = {} /\ exported' = exported /\ acceptance' = acceptance
    BY <1>6 DEF sceneRedo, Revised, instanceVars, fileVars
  <2>. QED  BY <1>0, <2>1, <2>2, <2>3 DEF DraftsIInv
<1>7. ASSUME NEW m \in present, sceneValidateDraft(m) PROVE DraftsIInv'
  BY <1>0, <1>7 DEF sceneValidateDraft, instanceVars, fileVars, DraftsIInv
<1>8. ASSUME NEW m \in present, sceneExportDraft(m) PROVE DraftsIInv'
  BY <1>0, <1>8 DEF sceneExportDraft, Validated, instanceVars, DraftsIInv
<1>9. ASSUME NEW m \in present, publish_qualification(m) PROVE DraftsIInv'
  BY <1>0, <1>9 DEF publish_qualification, instanceVars, DraftsIInv
<1>10. ASSUME NEW m \in exported, SomebodyAccepts(m) PROVE DraftsIInv'
  BY <1>0, <1>10 DEF SomebodyAccepts, draft_diff, instanceVars, DraftsIInv
<1>11. ASSUME NEW a \in asking, Waits(a) PROVE DraftsIInv'
  BY <1>0, <1>11 DEF Waits, instanceVars, fileVars, DraftsIInv
<1>12. ASSUME NEW a \in asking, DraftAnswered(a) PROVE DraftsIInv'
  <2>1. \A d \in diff' : validate_manifest(d.manifest)
    BY <1>0, <1>12 DEF DraftAnswered, draft_diff
  <2>2. UNCHANGED <<source, past, present, future, exported, acceptance>>
    BY <1>12 DEF DraftAnswered, instanceVars, fileVars
  <2>. QED  BY <1>0, <2>1, <2>2 DEF DraftsIInv
<1>13. CASE UNCHANGED draftVars
  BY <1>0, <1>13 DEF draftVars, DraftsIInv
<1>. QED
  BY <1>1, <1>2, <1>3, <1>4, <1>5, <1>6, <1>7, <1>8, <1>9, <1>10, <1>11, <1>12, <1>13 DEF DraftNext

LEMMA DraftsSound == DraftsIInv => DraftsAreSound
<1> SUFFICES ASSUME DraftsIInv PROVE DraftsAreSound
  OBVIOUS
<1>1. ASSUME NEW s \in Seq(Drafts) PROVE Range(s) \subseteq Drafts
  BY DEF Range
<1>2. present \cup Range(past) \cup Range(future) \subseteq Drafts
  BY <1>1 DEF DraftsIInv
<1>3. \A m \in present \cup Range(past) \cup Range(future) :
        RangesDisjoint(m) /\ DependsOnOthers(m) /\ AddressesFit(m) /\ AddressesDiffer(m) /\ Acyclic(m)
  BY <1>2 DEF Drafts, SoundDraft
<1>4. ASSUME NEW m, verify_qualification(m) PROVE validate_manifest(m) /\ m \in exported
  <2>1. draft_diff(m) \in acceptance /\ draft_diff(m).manifest = m
    BY <1>4 DEF verify_qualification, check_acceptance, draft_diff
  <2>. QED  BY <2>1 DEF DraftsIInv
<1>. QED  BY <1>3, <1>4 DEF DraftsIInv, DraftsAreSound

(* However a draft of a scenario is edited, undone and redone, it stays    *)
(* the draft of a network: addresses differ and are in their networks,     *)
(* networks do not overlap, and no machine waits for itself.  No file is   *)
(* exported that the service would refuse, and a template is qualified     *)
(* only for an accepted export.                                            *)
THEOREM DraftsAreAlwaysSound == DraftSpec => []DraftsAreSound
<1>1. DraftSpec => []DraftsIInv
  BY DraftsInitially, DraftsStep, PTL DEF DraftSpec
<1>. QED  BY <1>1, DraftsSound, PTL

=============================================================================
