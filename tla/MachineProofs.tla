---------------------------- MODULE MachineProofs ----------------------------
(***************************************************************************)
(* Proofs about the launch attempts, for any number of attempts and of     *)
(* rearmed observers: what is observed as stopped is stopped, there is one *)
(* machine at most, and the node is the machine the coordinator takes it   *)
(* for.  About the agent inside a guest, for any number of requests and    *)
(* boots: nothing is done twice, and what it reports as done is.  About    *)
(* the lease ledger, for any pool and clocks, and about an instance that   *)
(* runs under leases: permits, launches and the stop of an expired lease.  *)
(***************************************************************************)
EXTENDS DriverLaunch, GuestAgent, LeaseStoreProps, ManagedInstanceProps, LocalServiceProofs,
        FiniteSetTheorems, TLAPS

(* The bound on attempts matters only in that attempts are numbers from 1. *)
LEMMA Numbers ==
  /\ LaunchNumbers \subseteq Nat /\ 0..MaxAttempts \subseteq Nat
  /\ 0..MaxAttempts = LaunchNumbers \cup {0} /\ 0 \notin LaunchNumbers
  BY DriverAssumption DEF LaunchNumbers

(* The processes of an attempt. *)
LEMMA Roles ==
  /\ Worker \in Processes /\ Observer \in Processes /\ Worker # Observer
  /\ Observers \subseteq Processes /\ Sessions \subseteq Observers /\ Worker \notin Observers
  BY DriverAssumption DEF Processes, Observers

(* No file has been written before the first attempt. *)
LEMMA DriverInitInv == DriverInit => DriverInv
  BY Numbers, Roles
    DEF DriverInit, DriverInv, DriverTypeOK, LaterIsBlank, EarlierIsProven, ExitMeansGone,
         BoundMeansLaunched, CallerBeforeWorker, IntentBeforeCommand, PoweredDownOnce, Files, Content, Pcs

(* A step that leaves the launch, the binding and the evidence of the earlier
   attempts as they are leaves them proven. *)
LEMMA ProofsStay ==
  ASSUME EarlierIsProven, last' = last,
         \A a \in LaunchNumbers : a < last =>
           /\ file[a]["launch"] = "whole" => file'[a]["launch"] = "whole"
           /\ file[a]["binding"] = "whole" => file'[a]["binding"] = "whole"
           /\ \A p \in Processes : exit[a][p] = "whole" => exit'[a][p] = "whole"
  PROVE  EarlierIsProven'
  BY DEF EarlierIsProven, Proven, Bound

(* record writes one file, and what is written completely stays. *)
LEMMA Recording ==
  ASSUME DriverTypeOK, NEW a \in LaunchNumbers, NEW f \in Files, Record(a, f)
  PROVE  /\ file' \in [LaunchNumbers -> [Files -> Content]]
         /\ file[a][f] = "none" => file'[a][f] = "torn"
         /\ file[a][f] # "none" => file[a][f] = "torn" /\ file'[a][f] = "whole"
         /\ \A b \in LaunchNumbers, g \in Files :
              /\ file[b][g] = "whole" => file'[b][g] = "whole"
              /\ b # a \/ g # f => file'[b][g] = file[b][g]
  BY DEF DriverTypeOK, Record, Written, Content

(* A step of one process leaves the others where they are. *)
LEMMA Becoming ==
  ASSUME DriverTypeOK, NEW a \in LaunchNumbers, NEW p \in Processes, NEW pc \in Pcs, Become(a, p, pc)
  PROVE  /\ proc' \in [LaunchNumbers -> [Processes -> Pcs]]
         /\ proc'[a][p] = pc
         /\ \A b \in LaunchNumbers, q \in Processes : b # a \/ q # p => proc'[b][q] = proc[b][q]
  BY DEF DriverTypeOK, Become

(* What is observed as stopped has been proven to be. *)
LEMMA StoppedHasProof ==
  ASSUME DriverTypeOK, Observation = "stopped", last # 0
  PROVE  Proven(last)
  BY DEF DriverTypeOK, Observation, ExitClaims, Proven

LEMMA DriverCallerInv ==
  ASSUME DriverInv, CallerNext
  PROVE  DriverInv'
<1> USE Numbers, Roles
<1>1. DriverTypeOK
  BY DEF DriverInv
<1>2. LaterIsBlank
  BY DEF DriverInv
<1>3. EarlierIsProven
  BY DEF DriverInv
<1>4. ExitMeansGone
  BY DEF DriverInv
<1>5. BoundMeansLaunched
  BY DEF DriverInv
<1>6. CallerBeforeWorker
  BY DEF DriverInv
<1>7. IntentBeforeCommand
  BY DEF DriverInv
<1>8. PoweredDownOnce
  BY DEF DriverInv
<1>11. CASE Start
  <2>10. DriverTypeOK'
    BY <1>11, <1>1 DEF Start, NewAttempt, DriverTypeOK
  <2>11. LaterIsBlank'
    BY <1>11, <1>1, <1>2 DEF Start, NewAttempt, DriverTypeOK, LaterIsBlank
  <2>12. EarlierIsProven'
    <3> SUFFICES ASSUME NEW a \in LaunchNumbers, a < last + 1
                 PROVE  Proven(a)'
      BY <1>11 DEF Start, NewAttempt, EarlierIsProven
    <3>1. Proven(a)
      BY <1>11, <1>1, <1>3, StoppedHasProof DEF Start, EarlierIsProven, DriverTypeOK
    <3> QED
      BY <1>11, <3>1 DEF Start, NewAttempt, Proven, Bound
  <2>13. ExitMeansGone'
    BY <1>11, <1>1, <1>4 DEF Start, NewAttempt, DriverTypeOK, ExitMeansGone
  <2>14. BoundMeansLaunched'
    BY <1>11, <1>1, <1>5 DEF Start, NewAttempt, DriverTypeOK, BoundMeansLaunched
  <2>15. CallerBeforeWorker'
    BY <1>11, <1>1, <1>6, <1>2 DEF Start, NewAttempt, DriverTypeOK, CallerBeforeWorker, LaterIsBlank
  <2>16. IntentBeforeCommand'
    BY <1>11, <1>1, <1>7 DEF Start, NewAttempt, DriverTypeOK, IntentBeforeCommand
  <2>17. PoweredDownOnce'
    BY <1>11, <1>1, <1>8 DEF Start, NewAttempt, DriverTypeOK, PoweredDownOnce
  <2> QED
    BY <2>10, <2>11, <2>12, <2>13, <2>14, <2>15, <2>16, <2>17 DEF DriverInv
<1>12. CASE RecordLaunch
  <2>1. last \in LaunchNumbers /\ "launch" \in Files /\ Record(last, "launch")
    BY <1>12, <1>1 DEF RecordLaunch, DriverTypeOK, Files
  <2>10. DriverTypeOK'
    BY <1>12, <2>1, Recording, <1>1 DEF RecordLaunch, After, DriverTypeOK
  <2>11. LaterIsBlank'
    BY <1>12, <2>1, Recording, <1>1, <1>2 DEF RecordLaunch, After, DriverTypeOK, LaterIsBlank
  <2>12. EarlierIsProven'
    BY <1>12, <2>1, Recording, <1>1, <1>3, ProofsStay DEF RecordLaunch, After, Files
  <2>13. ExitMeansGone'
    BY <1>12, <2>1, Recording, <1>1, <1>4 DEF RecordLaunch, After, DriverTypeOK, ExitMeansGone
  <2>14. BoundMeansLaunched'
    BY <1>12, <2>1, Recording, <1>1, <1>5
      DEF RecordLaunch, After, DriverTypeOK, BoundMeansLaunched, Files
  <2>15. CallerBeforeWorker'
    BY <1>12, <2>1, Recording, <1>1, <1>6 DEF RecordLaunch, After, DriverTypeOK, CallerBeforeWorker
  <2>16. IntentBeforeCommand'
    BY <1>12, <2>1, Recording, <1>1, <1>7
      DEF RecordLaunch, After, DriverTypeOK, IntentBeforeCommand, Files
  <2>17. PoweredDownOnce'
    BY <1>12, <2>1, Recording, <1>1, <1>8 DEF RecordLaunch, After, DriverTypeOK, PoweredDownOnce
  <2> QED
    BY <2>10, <2>11, <2>12, <2>13, <2>14, <2>15, <2>16, <2>17 DEF DriverInv
<1>13. CASE SpawnWorker
  <2>1. last \in LaunchNumbers /\ Become(last, Worker, "spawned")
    BY <1>13, <1>1 DEF SpawnWorker, DriverTypeOK
  <2>2. "spawned" \in Pcs
    BY DEF Pcs
  <2>10. DriverTypeOK'
    BY <1>13, <2>1, <2>2, Becoming, <1>1 DEF SpawnWorker, DriverTypeOK
  <2>11. LaterIsBlank'
    BY <1>13, <2>1, <2>2, Becoming, <1>1, <1>2 DEF SpawnWorker, DriverTypeOK, LaterIsBlank
  <2>12. EarlierIsProven'
    BY <1>13, <2>1, <2>2, Becoming, <1>1, <1>3, ProofsStay DEF SpawnWorker
  <2>13. ExitMeansGone'
    BY <1>13, <2>1, <2>2, Becoming, <1>1, <1>4 DEF SpawnWorker, DriverTypeOK, ExitMeansGone
  <2>14. BoundMeansLaunched'
    BY <1>13, <2>1, <2>2, Becoming, <1>1, <1>5, <1>6
      DEF SpawnWorker, DriverTypeOK, BoundMeansLaunched, CallerBeforeWorker
  <2>15. CallerBeforeWorker'
    BY <1>13, <2>1, <2>2, Becoming, <1>1, <1>6 DEF SpawnWorker, DriverTypeOK, CallerBeforeWorker
  <2>16. IntentBeforeCommand'
    BY <1>13, <2>1, <2>2, Becoming, <1>1, <1>7 DEF SpawnWorker, DriverTypeOK, IntentBeforeCommand
  <2>17. PoweredDownOnce'
    BY <1>13, <2>1, <2>2, Becoming, <1>1, <1>8 DEF SpawnWorker, DriverTypeOK, PoweredDownOnce
  <2> QED
    BY <2>10, <2>11, <2>12, <2>13, <2>14, <2>15, <2>16, <2>17 DEF DriverInv
<1>14. CASE Stop
  <2>10. DriverTypeOK'
    BY <1>14, <1>1 DEF Stop, DriverTypeOK
  <2>11. LaterIsBlank'
    BY <1>14, <1>1, <1>2 DEF Stop, DriverTypeOK, LaterIsBlank
  <2>12. EarlierIsProven'
    BY <1>14, <1>1, <1>3, ProofsStay DEF Stop
  <2>13. ExitMeansGone'
    BY <1>14, <1>1, <1>4 DEF Stop, DriverTypeOK, ExitMeansGone
  <2>14. BoundMeansLaunched'
    BY <1>14, <1>1, <1>5 DEF Stop, DriverTypeOK, BoundMeansLaunched
  <2>15. CallerBeforeWorker'
    BY <1>14, <1>1, <1>6 DEF Stop, DriverTypeOK, CallerBeforeWorker
  <2>16. IntentBeforeCommand'
    BY <1>14, <1>1, <1>7 DEF Stop, DriverTypeOK, IntentBeforeCommand
  <2>17. PoweredDownOnce'
    BY <1>14, <1>1, <1>8 DEF Stop, DriverTypeOK, PoweredDownOnce
  <2> QED
    BY <2>10, <2>11, <2>12, <2>13, <2>14, <2>15, <2>16, <2>17 DEF DriverInv
<1>15. CASE RecordStop
  <2>1. last \in LaunchNumbers /\ "stop.intent" \in Files /\ Record(last, "stop.intent")
    BY <1>15, <1>1 DEF RecordStop, DriverTypeOK, Files
  <2>2. sent[last] = 0
    BY <1>15, <2>1, <1>1, <1>7, <1>8 DEF RecordStop, IntentBeforeCommand, PoweredDownOnce, DriverTypeOK
  <2>10. DriverTypeOK'
    BY <1>15, <2>1, <2>2, Recording, <1>1 DEF RecordStop, After, DriverTypeOK
  <2>11. LaterIsBlank'
    BY <1>15, <2>1, <2>2, Recording, <1>1, <1>2 DEF RecordStop, After, DriverTypeOK, LaterIsBlank
  <2>12. EarlierIsProven'
    BY <1>15, <2>1, <2>2, Recording, <1>1, <1>3, ProofsStay DEF RecordStop, After, Files
  <2>13. ExitMeansGone'
    BY <1>15, <2>1, <2>2, Recording, <1>1, <1>4 DEF RecordStop, After, DriverTypeOK, ExitMeansGone
  <2>14. BoundMeansLaunched'
    BY <1>15, <2>1, <2>2, Recording, <1>1, <1>5
      DEF RecordStop, After, DriverTypeOK, BoundMeansLaunched, Files
  <2>15. CallerBeforeWorker'
    BY <1>15, <2>1, <2>2, Recording, <1>1, <1>6 DEF RecordStop, After, DriverTypeOK, CallerBeforeWorker
  <2>16. IntentBeforeCommand'
    BY <1>15, <2>1, <2>2, Recording, <1>1, <1>7
      DEF RecordStop, After, DriverTypeOK, IntentBeforeCommand, Files
  <2>17. PoweredDownOnce'
    BY <1>15, <2>1, <2>2, Recording, <1>1, <1>8 DEF RecordStop, After, DriverTypeOK, PoweredDownOnce
  <2> QED
    BY <2>10, <2>11, <2>12, <2>13, <2>14, <2>15, <2>16, <2>17 DEF DriverInv
<1>16. CASE Powerdown
  <2>10. DriverTypeOK'
    BY <1>16, <1>1 DEF Powerdown, DriverTypeOK
  <2>11. LaterIsBlank'
    BY <1>16, <1>1, <1>2 DEF Powerdown, DriverTypeOK, LaterIsBlank
  <2>12. EarlierIsProven'
    BY <1>16, <1>1, <1>3, ProofsStay DEF Powerdown
  <2>13. ExitMeansGone'
    BY <1>16, <1>1, <1>4 DEF Powerdown, DriverTypeOK, ExitMeansGone
  <2>14. BoundMeansLaunched'
    BY <1>16, <1>1, <1>5 DEF Powerdown, DriverTypeOK, BoundMeansLaunched
  <2>15. CallerBeforeWorker'
    BY <1>16, <1>1, <1>6 DEF Powerdown, DriverTypeOK, CallerBeforeWorker
  <2>16. IntentBeforeCommand'
    BY <1>16, <1>1, <1>7 DEF Powerdown, DriverTypeOK, IntentBeforeCommand
  <2>17. PoweredDownOnce'
    BY <1>16, <1>1, <1>8, <1>7 DEF Powerdown, DriverTypeOK, PoweredDownOnce, IntentBeforeCommand
  <2> QED
    BY <2>10, <2>11, <2>12, <2>13, <2>14, <2>15, <2>16, <2>17 DEF DriverInv
<1>17. CASE LockForRearm \/ CallerLeaves
  <2>10. DriverTypeOK'
    BY <1>17, <1>1 DEF LockForRearm, CallerLeaves, DriverTypeOK
  <2>11. LaterIsBlank'
    BY <1>17, <1>1, <1>2 DEF LockForRearm, CallerLeaves, DriverTypeOK, LaterIsBlank
  <2>12. EarlierIsProven'
    BY <1>17, <1>1, <1>3, ProofsStay DEF LockForRearm, CallerLeaves
  <2>13. ExitMeansGone'
    BY <1>17, <1>1, <1>4 DEF LockForRearm, CallerLeaves, DriverTypeOK, ExitMeansGone
  <2>14. BoundMeansLaunched'
    BY <1>17, <1>1, <1>5 DEF LockForRearm, CallerLeaves, DriverTypeOK, BoundMeansLaunched
  <2>15. CallerBeforeWorker'
    BY <1>17, <1>1, <1>6 DEF LockForRearm, CallerLeaves, DriverTypeOK, CallerBeforeWorker
  <2>16. IntentBeforeCommand'
    BY <1>17, <1>1, <1>7 DEF LockForRearm, CallerLeaves, DriverTypeOK, IntentBeforeCommand
  <2>17. PoweredDownOnce'
    BY <1>17, <1>1, <1>8 DEF LockForRearm, CallerLeaves, DriverTypeOK, PoweredDownOnce
  <2> QED
    BY <2>10, <2>11, <2>12, <2>13, <2>14, <2>15, <2>16, <2>17 DEF DriverInv
<1>18. ASSUME NEW session \in Sessions, Rearm(session) PROVE DriverInv'
  <2>1. PICK pc \in Pcs : last \in LaunchNumbers /\ session \in Processes /\ session # Worker /\ Become(last, session, pc)
    BY <1>18, <1>1 DEF Rearm, DriverTypeOK, Pcs
  <2>10. DriverTypeOK'
    BY <1>18, <2>1, Becoming, <1>1 DEF Rearm, DriverTypeOK
  <2>11. LaterIsBlank'
    BY <1>18, <2>1, Becoming, <1>1, <1>2 DEF Rearm, DriverTypeOK, LaterIsBlank
  <2>12. EarlierIsProven'
    BY <1>18, <2>1, Becoming, <1>1, <1>3, ProofsStay DEF Rearm
  <2>13. ExitMeansGone'
    BY <1>18, <2>1, Becoming, <1>1, <1>4 DEF Rearm, DriverTypeOK, ExitMeansGone
  <2>14. BoundMeansLaunched'
    BY <1>18, <2>1, Becoming, <1>1, <1>5 DEF Rearm, DriverTypeOK, BoundMeansLaunched
  <2>15. CallerBeforeWorker'
    BY <1>18, <2>1, Becoming, <1>1, <1>6 DEF Rearm, DriverTypeOK, CallerBeforeWorker
  <2>16. IntentBeforeCommand'
    BY <1>18, <2>1, Becoming, <1>1, <1>7 DEF Rearm, DriverTypeOK, IntentBeforeCommand
  <2>17. PoweredDownOnce'
    BY <1>18, <2>1, Becoming, <1>1, <1>8 DEF Rearm, DriverTypeOK, PoweredDownOnce
  <2> QED
    BY <2>10, <2>11, <2>12, <2>13, <2>14, <2>15, <2>16, <2>17 DEF DriverInv
<1> QED
  BY <1>11, <1>12, <1>13, <1>14, <1>15, <1>16, <1>17, <1>18 DEF CallerNext

LEMMA DriverAttemptInv ==
  ASSUME DriverInv, NEW a \in LaunchNumbers, AttemptNext(a)
  PROVE  DriverInv'
<1> USE Numbers, Roles
<1>1. DriverTypeOK
  BY DEF DriverInv
<1>2. LaterIsBlank
  BY DEF DriverInv
<1>3. EarlierIsProven
  BY DEF DriverInv
<1>4. ExitMeansGone
  BY DEF DriverInv
<1>5. BoundMeansLaunched
  BY DEF DriverInv
<1>6. CallerBeforeWorker
  BY DEF DriverInv
<1>7. IntentBeforeCommand
  BY DEF DriverInv
<1>8. PoweredDownOnce
  BY DEF DriverInv
<1>11. CASE WorkerBegins(a)
  <2>8. ~(a > last)
    BY <1>11, <1>1, <1>2 DEF WorkerBegins, DriverTypeOK, LaterIsBlank
  <2>9. caller \in {"provision", "spawn"} => last \in LaunchNumbers /\ last # a
    BY <1>11, <1>1, <1>6 DEF WorkerBegins, DriverTypeOK, CallerBeforeWorker
  <2>1. Become(a, Worker, "starting") /\ "starting" \in Pcs
    BY <1>11 DEF WorkerBegins, Pcs
  <2>10. DriverTypeOK'
    BY <1>11, <2>1, Becoming, <1>1 DEF WorkerBegins, DriverTypeOK
  <2>11. LaterIsBlank'
    BY <1>11, <2>8, <2>1, Becoming, <1>1, <1>2 DEF WorkerBegins, DriverTypeOK, LaterIsBlank
  <2>12. EarlierIsProven'
    BY <1>11, <2>1, Becoming, <1>1, <1>3, ProofsStay DEF WorkerBegins
  <2>13. ExitMeansGone'
    BY <1>11, <2>1, Becoming, <1>1, <1>4 DEF WorkerBegins, DriverTypeOK, ExitMeansGone
  <2>14. BoundMeansLaunched'
    BY <1>11, <2>1, Becoming, <1>1, <1>5 DEF WorkerBegins, DriverTypeOK, BoundMeansLaunched
  <2>15. CallerBeforeWorker'
    BY <1>11, <2>9, <2>1, Becoming, <1>1, <1>6 DEF WorkerBegins, DriverTypeOK, CallerBeforeWorker
  <2>16. IntentBeforeCommand'
    BY <1>11, <2>1, Becoming, <1>1, <1>7 DEF WorkerBegins, DriverTypeOK, IntentBeforeCommand
  <2>17. PoweredDownOnce'
    BY <1>11, <2>1, Becoming, <1>1, <1>8 DEF WorkerBegins, DriverTypeOK, PoweredDownOnce
  <2> QED
    BY <2>10, <2>11, <2>12, <2>13, <2>14, <2>15, <2>16, <2>17 DEF DriverInv
<1>12. CASE RecordStart(a)
  <2>8. ~(a > last)
    BY <1>12, <1>1, <1>2 DEF RecordStart, DriverTypeOK, LaterIsBlank
  <2>9. caller \in {"provision", "spawn"} => last \in LaunchNumbers /\ last # a
    BY <1>12, <1>1, <1>6 DEF RecordStart, DriverTypeOK, CallerBeforeWorker
  <2>1. Record(a, "start.intent") /\ "start.intent" \in Files
    BY <1>12 DEF RecordStart, Files
  <2>10. DriverTypeOK'
    BY <1>12, <2>1, Recording, <1>1 DEF RecordStart, DriverTypeOK
  <2>11. LaterIsBlank'
    <3>1. \A b \in LaunchNumbers, f \in Files : b > last => file'[b][f] = file[b][f]
      BY <2>1, <2>8, <1>1, Recording
    <3> QED
      BY <1>12, <3>1, <1>2 DEF RecordStart, LaterIsBlank
  <2>12. EarlierIsProven'
    BY <1>12, <2>1, Recording, <1>1, <1>3, ProofsStay DEF RecordStart, Files
  <2>13. ExitMeansGone'
    BY <1>12, <2>1, Recording, <1>1, <1>4 DEF RecordStart, DriverTypeOK, ExitMeansGone
  <2>14. BoundMeansLaunched'
    BY <1>12, <2>1, Recording, <1>1, <1>5 DEF RecordStart, DriverTypeOK, BoundMeansLaunched, Files
  <2>15. CallerBeforeWorker'
    BY <1>12, <2>9, <2>1, Recording, <1>1, <1>6 DEF RecordStart, DriverTypeOK, CallerBeforeWorker
  <2>16. IntentBeforeCommand'
    BY <1>12, <2>1, Recording, <1>1, <1>7 DEF RecordStart, DriverTypeOK, IntentBeforeCommand, Files
  <2>17. PoweredDownOnce'
    BY <1>12, <2>1, Recording, <1>1, <1>8 DEF RecordStart, DriverTypeOK, PoweredDownOnce
  <2> QED
    BY <2>10, <2>11, <2>12, <2>13, <2>14, <2>15, <2>16, <2>17 DEF DriverInv
<1>13. CASE Launch(a)
  <2>8. ~(a > last)
    BY <1>13, <1>1, <1>2 DEF Launch, DriverTypeOK, LaterIsBlank
  <2>9. caller \in {"provision", "spawn"} => last \in LaunchNumbers /\ last # a
    BY <1>13, <1>1, <1>6 DEF Launch, DriverTypeOK, CallerBeforeWorker
  <2>1. Become(a, Worker, "launched") /\ "launched" \in Pcs
    BY <1>13 DEF Launch, Pcs
  <2>10. DriverTypeOK'
    BY <1>13, <2>1, Becoming, <1>1 DEF Launch, DriverTypeOK
  <2>11. LaterIsBlank'
    BY <1>13, <2>8, <2>1, Becoming, <1>1, <1>2 DEF Launch, DriverTypeOK, LaterIsBlank
  <2>12. EarlierIsProven'
    BY <1>13, <2>1, Becoming, <1>1, <1>3, ProofsStay DEF Launch
  <2>13. ExitMeansGone'
    BY <1>13, <2>1, Becoming, <1>1, <1>4, <1>5
      DEF Launch, DriverTypeOK, ExitMeansGone, BoundMeansLaunched
  <2>14. BoundMeansLaunched'
    BY <1>13, <2>1, Becoming, <1>1, <1>5 DEF Launch, DriverTypeOK, BoundMeansLaunched
  <2>15. CallerBeforeWorker'
    BY <1>13, <2>9, <2>1, Becoming, <1>1, <1>6 DEF Launch, DriverTypeOK, CallerBeforeWorker
  <2>16. IntentBeforeCommand'
    BY <1>13, <2>1, Becoming, <1>1, <1>7 DEF Launch, DriverTypeOK, IntentBeforeCommand
  <2>17. PoweredDownOnce'
    BY <1>13, <2>1, Becoming, <1>1, <1>8 DEF Launch, DriverTypeOK, PoweredDownOnce
  <2> QED
    BY <2>10, <2>11, <2>12, <2>13, <2>14, <2>15, <2>16, <2>17 DEF DriverInv
<1>14. CASE RecordBinding(a)
  <2>8. ~(a > last)
    BY <1>14, <1>1, <1>2 DEF RecordBinding, DriverTypeOK, LaterIsBlank
  <2>9. caller \in {"provision", "spawn"} => last \in LaunchNumbers /\ last # a
    BY <1>14, <1>1, <1>6 DEF RecordBinding, DriverTypeOK, CallerBeforeWorker
  <2>1. Record(a, "binding") /\ "binding" \in Files
    BY <1>14 DEF RecordBinding, Files
  <2>2. PICK pc \in Pcs : Become(a, Worker, pc) /\ pc \in {"launched", "bound"}
    BY <1>14 DEF RecordBinding, After, Pcs
  <2>10. DriverTypeOK'
    BY <1>14, <2>1, <2>2, Recording, Becoming, <1>1 DEF RecordBinding, DriverTypeOK
  <2>11. LaterIsBlank'
    BY <1>14, <2>8, <2>1, <2>2, Recording, Becoming, <1>1, <1>2
      DEF RecordBinding, DriverTypeOK, LaterIsBlank
  <2>12. EarlierIsProven'
    BY <1>14, <2>1, <2>2, Recording, Becoming, <1>1, <1>3, ProofsStay DEF RecordBinding, Files
  <2>13. ExitMeansGone'
    BY <1>14, <2>1, <2>2, Recording, Becoming, <1>1, <1>4 DEF RecordBinding, DriverTypeOK, ExitMeansGone
  <2>14. BoundMeansLaunched'
    <3>1. qemu[a] # "none" /\ proc'[a][Worker] \in {"launched", "bound"}
      BY <1>14, <2>2, <1>1, <1>5, Becoming DEF RecordBinding, BoundMeansLaunched
    <3>2. \A b \in LaunchNumbers : b # a => proc'[b][Worker] = proc[b][Worker]
      BY <2>2, <1>1, Becoming
    <3>3. \A b \in LaunchNumbers : b # a => file'[b]["binding"] = file[b]["binding"]
      BY <2>1, <1>1, Recording DEF Files
    <3> QED
      BY <1>14, <3>1, <3>2, <3>3, <1>5 DEF RecordBinding, BoundMeansLaunched
  <2>15. CallerBeforeWorker'
    BY <1>14, <2>9, <2>1, <2>2, Recording, Becoming, <1>1, <1>6
      DEF RecordBinding, DriverTypeOK, CallerBeforeWorker
  <2>16. IntentBeforeCommand'
    BY <1>14, <2>1, <2>2, Recording, Becoming, <1>1, <1>7
      DEF RecordBinding, DriverTypeOK, IntentBeforeCommand, Files
  <2>17. PoweredDownOnce'
    BY <1>14, <2>1, <2>2, Recording, Becoming, <1>1, <1>8
      DEF RecordBinding, DriverTypeOK, PoweredDownOnce
  <2> QED
    BY <2>10, <2>11, <2>12, <2>13, <2>14, <2>15, <2>16, <2>17 DEF DriverInv
<1>15. CASE SpawnObserver(a)
  <2>1. /\ proc' \in [LaunchNumbers -> [Processes -> Pcs]]
        /\ proc'[a][Worker] = "watching"
        /\ \A b \in LaunchNumbers, q \in Processes :
             b # a \/ q \notin {Worker, Observer} => proc'[b][q] = proc[b][q]
    BY <1>15, <1>1 DEF SpawnObserver, DriverTypeOK, Pcs
  <2>10. DriverTypeOK'
    BY <1>15, <2>1, <1>1 DEF SpawnObserver, DriverTypeOK
  <2>11. LaterIsBlank'
    BY <1>15, <2>1, <1>1, <1>2 DEF SpawnObserver, DriverTypeOK, LaterIsBlank
  <2>12. EarlierIsProven'
    BY <1>15, <2>1, <1>1, <1>3, ProofsStay DEF SpawnObserver
  <2>13. ExitMeansGone'
    BY <1>15, <2>1, <1>1, <1>4 DEF SpawnObserver, DriverTypeOK, ExitMeansGone
  <2>14. BoundMeansLaunched'
    <3>1. \A b \in LaunchNumbers : b # a => proc'[b][Worker] = proc[b][Worker]
      BY <2>1
    <3>2. file' = file /\ qemu' = qemu
      BY <1>15 DEF SpawnObserver
    <3> QED
      BY <2>1, <3>1, <3>2, <1>5 DEF BoundMeansLaunched
  <2>15. CallerBeforeWorker'
    BY <1>15, <2>1, <1>1, <1>6 DEF SpawnObserver, DriverTypeOK, CallerBeforeWorker
  <2>16. IntentBeforeCommand'
    BY <1>15, <2>1, <1>1, <1>7 DEF SpawnObserver, DriverTypeOK, IntentBeforeCommand
  <2>17. PoweredDownOnce'
    BY <1>15, <2>1, <1>1, <1>8 DEF SpawnObserver, DriverTypeOK, PoweredDownOnce
  <2> QED
    BY <2>10, <2>11, <2>12, <2>13, <2>14, <2>15, <2>16, <2>17 DEF DriverInv
<1>16. ASSUME NEW o \in Observers, Attach(a, o) \/ Ready(a, o) PROVE DriverInv'
  <2>1. PICK pc \in Pcs : Become(a, o, pc) /\ o \in Processes /\ o # Worker
    BY <1>16 DEF Attach, Ready, Pcs
  <2>10. DriverTypeOK'
    BY <1>16, <2>1, Becoming, <1>1 DEF Attach, Ready, DriverTypeOK
  <2>11. LaterIsBlank'
    BY SMTT(20), <1>16, <2>1, Becoming, <1>1, <1>2 DEF Attach, Ready, DriverTypeOK, LaterIsBlank
  <2>12. EarlierIsProven'
    BY <1>16, <2>1, Becoming, <1>1, <1>3, ProofsStay DEF Attach, Ready
  <2>13. ExitMeansGone'
    BY <1>16, <2>1, Becoming, <1>1, <1>4 DEF Attach, Ready, DriverTypeOK, ExitMeansGone
  <2>14. BoundMeansLaunched'
    BY <1>16, <2>1, Becoming, <1>1, <1>5 DEF Attach, Ready, DriverTypeOK, BoundMeansLaunched
  <2>15. CallerBeforeWorker'
    BY <1>16, <2>1, Becoming, <1>1, <1>6 DEF Attach, Ready, DriverTypeOK, CallerBeforeWorker
  <2>16. IntentBeforeCommand'
    BY <1>16, <2>1, Becoming, <1>1, <1>7 DEF Attach, Ready, DriverTypeOK, IntentBeforeCommand
  <2>17. PoweredDownOnce'
    BY <1>16, <2>1, Becoming, <1>1, <1>8 DEF Attach, Ready, DriverTypeOK, PoweredDownOnce
  <2> QED
    BY <2>10, <2>11, <2>12, <2>13, <2>14, <2>15, <2>16, <2>17 DEF DriverInv
<1>17. ASSUME NEW p \in Processes, RecordExit(a, p) PROVE DriverInv'
  <2>1. PICK pc \in Pcs : Become(a, p, pc) /\ pc \in {"watching", "done"}
    BY <1>17 DEF RecordExit, After, Pcs
  <2>2. /\ exit' \in [LaunchNumbers -> [Processes -> Content]]
        /\ \A b \in LaunchNumbers, q \in Processes :
             /\ exit[b][q] = "whole" => exit'[b][q] = "whole"
             /\ b # a => exit'[b][q] = exit[b][q]
    BY <1>17, <1>1 DEF RecordExit, Written, DriverTypeOK, Content
  <2>10. DriverTypeOK'
    BY <1>17, <2>1, <2>2, Becoming, <1>1 DEF RecordExit, DriverTypeOK
  <2>11. LaterIsBlank'
    BY <1>17, <2>1, <2>2, Becoming, <1>1, <1>2 DEF RecordExit, DriverTypeOK, LaterIsBlank
  <2>12. EarlierIsProven'
    BY <1>17, <2>1, <2>2, Becoming, <1>1, <1>3, ProofsStay DEF RecordExit
  <2>13. ExitMeansGone'
    BY <1>17, <2>1, <2>2, Becoming, <1>1, <1>4 DEF RecordExit, DriverTypeOK, ExitMeansGone
  <2>14. BoundMeansLaunched'
    BY <1>17, <2>1, <2>2, Becoming, <1>1, <1>5 DEF RecordExit, DriverTypeOK, BoundMeansLaunched
  <2>15. CallerBeforeWorker'
    BY SMTT(20), <1>17, <2>1, <2>2, Becoming, <1>1, <1>6 DEF RecordExit, DriverTypeOK, CallerBeforeWorker
  <2>16. IntentBeforeCommand'
    BY <1>17, <2>1, <2>2, Becoming, <1>1, <1>7 DEF RecordExit, DriverTypeOK, IntentBeforeCommand
  <2>17. PoweredDownOnce'
    BY <1>17, <2>1, <2>2, Becoming, <1>1, <1>8 DEF RecordExit, DriverTypeOK, PoweredDownOnce
  <2> QED
    BY <2>10, <2>11, <2>12, <2>13, <2>14, <2>15, <2>16, <2>17 DEF DriverInv
<1>18. ASSUME NEW p \in Processes, ProcessDies(a, p) PROVE DriverInv'
  <2>1. Become(a, p, "dead") /\ "dead" \in Pcs
    BY <1>18 DEF ProcessDies, Pcs
  <2>10. DriverTypeOK'
    BY <1>18, <2>1, Becoming, <1>1 DEF ProcessDies, DriverTypeOK
  <2>11. LaterIsBlank'
    <3>1. ~(a > last)
      BY <1>18, <1>2 DEF ProcessDies, LaterIsBlank
    <3>2. \A b \in LaunchNumbers, q \in Processes : b > last => proc'[b][q] = proc[b][q]
      BY <2>1, <3>1, <1>1, Becoming
    <3> QED
      BY <1>18, <3>2, <1>2 DEF ProcessDies, LaterIsBlank
  <2>12. EarlierIsProven'
    BY <1>18, <2>1, Becoming, <1>1, <1>3, ProofsStay DEF ProcessDies
  <2>13. ExitMeansGone'
    BY <1>18, <2>1, Becoming, <1>1, <1>4 DEF ProcessDies, DriverTypeOK, ExitMeansGone
  <2>14. BoundMeansLaunched'
    <3> SUFFICES ASSUME NEW b \in LaunchNumbers
                 PROVE  /\ proc'[b][Worker] \in {"none", "spawned", "starting"} => qemu[b] = "none"
                        /\ proc'[b][Worker] = "launched" => qemu[b] # "none"
      BY <1>18, <1>5 DEF ProcessDies, BoundMeansLaunched
    <3>1. proc'[b][Worker] = proc[b][Worker] \/ proc'[b][Worker] = "dead"
      BY <2>1, <1>1, Becoming
    <3> QED
      BY <3>1, <1>5 DEF BoundMeansLaunched
  <2>15. CallerBeforeWorker'
    BY <1>18, <2>1, Becoming, <1>1, <1>6 DEF ProcessDies, DriverTypeOK, CallerBeforeWorker
  <2>16. IntentBeforeCommand'
    BY <1>18, <2>1, Becoming, <1>1, <1>7 DEF ProcessDies, DriverTypeOK, IntentBeforeCommand
  <2>17. PoweredDownOnce'
    BY <1>18, <2>1, Becoming, <1>1, <1>8 DEF ProcessDies, DriverTypeOK, PoweredDownOnce
  <2> QED
    BY <2>10, <2>11, <2>12, <2>13, <2>14, <2>15, <2>16, <2>17 DEF DriverInv
<1>19. CASE MachineEnds(a)
  <2>10. DriverTypeOK'
    BY <1>19, <1>1 DEF MachineEnds, DriverTypeOK
  <2>11. LaterIsBlank'
    BY <1>19, <1>1, <1>2 DEF MachineEnds, DriverTypeOK, LaterIsBlank
  <2>12. EarlierIsProven'
    BY <1>19, <1>1, <1>3, ProofsStay DEF MachineEnds
  <2>13. ExitMeansGone'
    BY <1>19, <1>1, <1>4 DEF MachineEnds, DriverTypeOK, ExitMeansGone
  <2>14. BoundMeansLaunched'
    BY <1>19, <1>1, <1>5 DEF MachineEnds, DriverTypeOK, BoundMeansLaunched
  <2>15. CallerBeforeWorker'
    BY <1>19, <1>1, <1>6 DEF MachineEnds, DriverTypeOK, CallerBeforeWorker
  <2>16. IntentBeforeCommand'
    BY <1>19, <1>1, <1>7 DEF MachineEnds, DriverTypeOK, IntentBeforeCommand
  <2>17. PoweredDownOnce'
    BY <1>19, <1>1, <1>8 DEF MachineEnds, DriverTypeOK, PoweredDownOnce
  <2> QED
    BY <2>10, <2>11, <2>12, <2>13, <2>14, <2>15, <2>16, <2>17 DEF DriverInv
<1> QED
  BY <1>11, <1>12, <1>13, <1>14, <1>15, <1>16, <1>17, <1>18, <1>19 DEF AttemptNext

(* Every step keeps the invariant. *)
LEMMA DriverStepInv == DriverInv /\ [DriverNext]_dvars => DriverInv'
<1> SUFFICES ASSUME DriverInv, [DriverNext]_dvars PROVE DriverInv'
  OBVIOUS
<1>1. CASE CallerNext
  BY <1>1, DriverCallerInv
<1>2. ASSUME NEW a \in LaunchNumbers, AttemptNext(a) PROVE DriverInv'
  BY <1>2, DriverAttemptInv
<1>3. CASE UNCHANGED dvars
  BY <1>3
    DEF dvars, DriverInv, DriverTypeOK, LaterIsBlank, EarlierIsProven, Proven, Bound, ExitMeansGone,
       BoundMeansLaunched, CallerBeforeWorker, IntentBeforeCommand, PoweredDownOnce
<1> QED
  BY <1>1, <1>2, <1>3 DEF DriverNext

(* What the files say of the processes, at all times. *)
THEOREM FilesTellTheTruth == DriverSpec => []DriverInv
  BY DriverInitInv, DriverStepInv, PTL DEF DriverSpec

(* A node that is observed as stopped has no QEMU process in any attempt, and
   no worker that could still launch one. *)
THEOREM StoppedIsStopped == DriverSpec => []StoppedIsProven
<1>1. ASSUME DriverInv PROVE StoppedIsProven
  <2> SUFFICES ASSUME Observation = "stopped", NEW a \in LaunchNumbers
               PROVE  qemu[a] # "up" /\ proc[a][Worker] \notin {"spawned", "starting"}
    BY DEF StoppedIsProven
  <2>1. DriverTypeOK /\ LaterIsBlank /\ EarlierIsProven /\ ExitMeansGone /\ BoundMeansLaunched
    BY <1>1 DEF DriverInv
  <2>2. CASE a > last
    BY <2>1, <2>2, Roles DEF LaterIsBlank
  <2>3. CASE ~(a > last)
    <3>1. last # 0 /\ (a < last \/ a = last)
      BY <2>1, <2>3, Numbers DEF DriverTypeOK
    <3>2. Proven(a)
      BY <2>1, <3>1, StoppedHasProof DEF EarlierIsProven
    <3> QED
      BY <2>1, <3>2 DEF Proven, ExitMeansGone, BoundMeansLaunched
  <2> QED
    BY <2>2, <2>3
<1> QED
  BY <1>1, FilesTellTheTruth, PTL

(* Two attempts never have a QEMU process at the same time. *)
THEOREM OnlyOneMachine == DriverSpec => []OneMachine
<1>1. ASSUME DriverInv PROVE OneMachine
  <2>1. DriverTypeOK /\ LaterIsBlank /\ EarlierIsProven /\ ExitMeansGone
    BY <1>1 DEF DriverInv
  <2>2. ASSUME NEW a \in LaunchNumbers, qemu[a] = "up" PROVE a = last
    <3>1. ~(a > last)
      BY <2>1, <2>2 DEF LaterIsBlank
    <3>2. ~(a < last)
      BY <2>1, <2>2 DEF EarlierIsProven, Proven, ExitMeansGone
    <3> QED
      BY <2>1, <3>1, <3>2, Numbers DEF DriverTypeOK
  <2> QED
    BY <2>2 DEF OneMachine
<1> QED
  BY <1>1, FilesTellTheTruth, PTL

(* No launch is asked to power down twice. *)
THEOREM PowerdownIsNotRepeated == DriverSpec => []PoweredDownOnce
<1>1. DriverInv => PoweredDownOnce
  BY DEF DriverInv
<1> QED
  BY <1>1, FilesTellTheTruth, PTL

-----------------------------------------------------------------------------
(* Only start moves on to another attempt; in every other step, what was
   complete in the files and in the evidence stays. *)
LEMMA WholeForGood ==
  ASSUME DriverInv, [DriverNext]_dvars, ~Start
  PROVE  /\ last' = last
         /\ \A a \in LaunchNumbers :
              /\ Bound(a) => Bound(a)'
              /\ Proven(a) => Proven(a)'
<1> USE Roles
<1>1. DriverTypeOK
  BY DEF DriverInv
<1>2. SUFFICES /\ last' = last
               /\ \A a \in LaunchNumbers, f \in {"launch", "binding"} :
                    file[a][f] = "whole" => file'[a][f] = "whole"
               /\ \A a \in LaunchNumbers, p \in Processes : exit[a][p] = "whole" => exit'[a][p] = "whole"
  BY DEF Bound, Proven
<1>3. CASE CallerNext
  <2>1. CASE RecordLaunch \/ RecordStop
    <3>1. PICK f \in Files : last \in LaunchNumbers /\ Record(last, f)
      BY <1>1, <2>1 DEF RecordLaunch, RecordStop, DriverTypeOK, Files
    <3> QED
      BY <1>1, <2>1, <3>1, Recording DEF RecordLaunch, RecordStop, Files
  <2>2. CASE UNCHANGED <<last, file, exit>>
    BY <2>2
  <2> QED
    BY <1>3, <2>1, <2>2 DEF CallerNext, SpawnWorker, Stop, Powerdown, LockForRearm, Rearm, CallerLeaves
<1>4. ASSUME NEW a \in LaunchNumbers, AttemptNext(a)
      PROVE  /\ last' = last
             /\ \A b \in LaunchNumbers, f \in {"launch", "binding"} :
                  file[b][f] = "whole" => file'[b][f] = "whole"
             /\ \A b \in LaunchNumbers, p \in Processes : exit[b][p] = "whole" => exit'[b][p] = "whole"
  <2>1. CASE RecordStart(a) \/ RecordBinding(a)
    <3>1. PICK f \in Files : Record(a, f)
      BY <2>1 DEF RecordStart, RecordBinding, Files
    <3> QED
      BY <1>1, <2>1, <3>1, Recording DEF RecordStart, RecordBinding, Files
  <2>2. ASSUME NEW p \in Processes, RecordExit(a, p)
        PROVE  /\ UNCHANGED <<last, file>>
               /\ \A b \in LaunchNumbers, q \in Processes : exit[b][q] = "whole" => exit'[b][q] = "whole"
    BY <1>1, <2>2 DEF RecordExit, Written, DriverTypeOK
  <2>3. CASE UNCHANGED <<last, file, exit>>
    BY <2>3
  <2> QED
    BY <1>4, <2>1, <2>2, <2>3
    DEF AttemptNext, WorkerBegins, Launch, SpawnObserver, Attach, Ready, ProcessDies, MachineEnds
<1>5. CASE UNCHANGED dvars
  BY <1>5 DEF dvars
<1> QED
  BY <1>3, <1>4, <1>5 DEF DriverNext

(* A launch moves the node from off to launching, every other step on to what
   the files prove by then. *)
LEMMA MachineStep ==
  ASSUME DriverInv, [DriverNext]_dvars
  PROVE  [Machine!Launch \/ Machine!Up \/ Machine!Off]_MachineState
<1> USE Roles DEF Machine!Launch, Machine!Up, Machine!Off
<1>1. DriverTypeOK /\ LaterIsBlank
  BY DEF DriverInv
<1>2. CASE Start
  <2>1. MachineState = "off"
    BY <1>1, <1>2, StoppedHasProof DEF Start, MachineState, Proven
  <2>2. last' # 0 /\ ~Bound(last')
    BY <1>1, <1>2, Numbers DEF Start, NewAttempt, Bound, LaterIsBlank, Files, DriverTypeOK
  <2>3. ~Bound(last)'
    BY <1>2, <2>2 DEF Start, NewAttempt, Bound
  <2> QED
    BY <2>1, <2>2, <2>3 DEF MachineState
<1>3. CASE ~Start
  <2>1. last' = last /\ (last # 0 => last \in LaunchNumbers)
    BY <1>1, <1>3, WholeForGood, Numbers DEF DriverTypeOK
  <2>2. last # 0 => (Bound(last) => Bound(last)') /\ (Proven(last) => Proven(last)')
    BY <1>3, <2>1, WholeForGood DEF Bound, Proven
  <2> QED
    BY <2>1, <2>2 DEF MachineState
<1> QED
  BY <1>2, <1>3

(* To the coordinator, the node is a machine that is launched only when it is
   off and stays off until then. *)
THEOREM NodeIsTheMachine == DriverSpec => ImplementsMachine
<1>1. DriverInit => Machine!MachineInit
  BY DEF DriverInit, Machine!MachineInit, MachineState
<1>2. DriverInv /\ [DriverNext]_dvars => [Machine!Launch \/ Machine!Up \/ Machine!Off]_MachineState
  BY MachineStep
<1> QED
  BY <1>1, <1>2, FilesTellTheTruth, PTL DEF DriverSpec, ImplementsMachine, Machine!MachineSpec

-----------------------------------------------------------------------------
(***************************************************************************)
(* The agent in the guest.  Whoever is at work holds the gate, and its     *)
(* operation is the only one without a result; what is left of its plan is *)
(* part of the plan, and what is not left is recorded (of the network);    *)
(* a command that is about to be given was never given; nobody but the     *)
(* preparation at work made a container that is in its way, and rules were *)
(* loaded in this boot before anything was started behind them.            *)
(***************************************************************************)
StepsOf(action) == ToSet(Plan(action))
AgentRow == [op : Ops \cup {Nobody}, left : Seq(Steps), pc : {"off", "check", "step", "call", "record"}, mode : {"dispatch", "resume"}]
GuestRow == [action : Actions \cup {"none"}, result : {"none", "failed", "done"}]
NetRow == [rules : Nat, addresses : BOOLEAN, forward : BOOLEAN]

GuestTypes ==
  /\ row \in [Ops -> GuestRow] /\ effects \in [Ops -> [Steps -> {"none", "intent", "recorded"}]]
  /\ agent \in [Agents -> AgentRow] /\ net \in NetRow /\ proof \in Nat
  /\ maker \in [Things -> Ops \cup {0, Nobody}] /\ issued \in [Ops -> [Steps -> Nat]]

Busy(a) == agent[a].pc # "off"
Acting(a) == agent[a].pc \in {"step", "call", "record"}
Does(a) == row[agent[a].op].action
Starting == {"containers-start", "services-start"}
Guarded == {"container", "dns", "time"}

CallIsFresh(o, s) == effects[o][s] = "intent" /\ issued[o][s] = 0

AtWork(a) ==
  /\ holder = a /\ agent[a].op \in Unsettled
  /\ ToSet(agent[a].left) \subseteq StepsOf(Does(a))
  /\ agent[a].pc \in {"check", "call", "record"} => agent[a].left # <<>>
  /\ agent[a].mode = "resume" => Does(a) = "containers-prepare"
  /\ agent[a].pc = "call" => CallIsFresh(agent[a].op, Head(agent[a].left))
  /\ agent[a].pc = "record" /\ Head(agent[a].left) = "network-proof" => agent[a].op \in opProof
  /\ Does(a) = "network-apply" => \A s \in StepsOf("network-apply") \ ToSet(agent[a].left) : effects[agent[a].op][s] = "recorded"
  /\ Acting(a) /\ Does(a) = "containers-prepare" => maker["container"] \in {Nobody, agent[a].op}
  /\ Acting(a) /\ Does(a) \in Starting => net.rules > 0
WorkIsOrderly == \A a \in Agents : Busy(a) => AtWork(a)

OneUnsettled == \A o, p \in Unsettled : o = p
CommandsAreRecorded == \A o \in Ops, s \in Steps : issued[o][s] <= 1 /\ (effects[o][s] = "none" => issued[o][s] = 0)
ProofsAreOwn == \A o \in Ops : effects[o]["network-proof"] = "recorded" => o \in opProof
RulesComeFirst == runs \cap Guarded # {} => net.rules > 0
DoneIsTrue ==
  \A o \in Ops :
    /\ Completed(o, "containers-prepare") =>
         /\ effects[o]["volume"] = "recorded" /\ effects[o]["container"] = "recorded"
         /\ maker["container"] = o => maker["volume"] \in {o, Nobody}
    /\ Completed(o, "network-apply") => \A s \in StepsOf("network-apply") : effects[o][s] = "recorded"
GuestLedger == OneUnsettled /\ CommandsAreRecorded /\ ProofsAreOwn /\ RulesComeFirst /\ DoneIsTrue

GuestIInv == GuestTypes /\ WorkIsOrderly /\ GuestLedger

(* The steps of every plan. *)
LEMMA PlanSteps ==
  /\ StepsOf("network-apply") = {"forward-off", "addresses", "firewall", "forward-on", "network-proof"}
  /\ StepsOf("services-start") = {"start-dns", "start-time"} /\ StepsOf("services-stop") = {"stop-time", "stop-dns"}
  /\ StepsOf("containers-prepare") = {"image", "volume", "container"}
  /\ StepsOf("containers-start") = {"start", "routing"} /\ StepsOf("containers-stop") = {"stop"}
  /\ StepsOf("analysis-run") = {"analysis-input", "analysis", "analysis-start", "analysis-export", "analysis-verify", "analysis-stop"}
BY DEF StepsOf, Plan, ToSet

LEMMA PlansAreSteps == \A x \in Actions : StepsOf(x) \subseteq Steps /\ Plan(x) \in Seq(Steps) /\ Plan(x) # <<>>
<1>1. \A x \in Actions : StepsOf(x) \subseteq Steps
  BY DEF StepsOf, Steps
<1>2. \A x \in Actions : Plan(x) \in Seq(StepsOf(x)) /\ Plan(x) # <<>>
  BY PlanSteps DEF Actions, Plan
<1>3. \A x \in Actions : Plan(x) \in Seq(Steps)
  BY <1>1, <1>2
<1>. QED  BY <1>1, <1>2, <1>3

(* What is left of a plan is its next step and the rest. *)
LEMMA Queue ==
  ASSUME NEW left \in Seq(Steps)
  PROVE  /\ left = <<>> => ToSet(left) = {}
         /\ left # <<>> => /\ Head(left) \in Steps /\ Tail(left) \in Seq(Steps)
                           /\ ToSet(left) = {Head(left)} \cup ToSet(Tail(left))
<1>1. CASE left = <<>>
  BY <1>1 DEF ToSet
<1>2. CASE left # <<>>
  <2>1. /\ Len(left) \in Nat /\ Len(left) >= 1 /\ Head(left) = left[1] /\ left[1] \in Steps
        /\ Tail(left) \in Seq(Steps) /\ Len(Tail(left)) = Len(left) - 1
        /\ \A i \in 1..Len(left) - 1 : Tail(left)[i] = left[i + 1]
    BY <1>2
  <2>2. ToSet(left) = {left[i] : i \in 1..Len(left)} /\ ToSet(Tail(left)) = {Tail(left)[i] : i \in 1..Len(left) - 1}
    <3>1. DOMAIN left = 1..Len(left) /\ DOMAIN Tail(left) = 1..Len(left) - 1
      BY <2>1
    <3>2. ToSet(left) = {left[i] : i \in DOMAIN left} /\ ToSet(Tail(left)) = {Tail(left)[i] : i \in DOMAIN Tail(left)}
      BY DEF ToSet
    <3>. QED  BY <3>1, <3>2
  <2>3. \A i \in 1..Len(left) : i = 1 \/ (i - 1 \in 1..Len(left) - 1 /\ left[i] = Tail(left)[i - 1])
    BY <2>1
  <2>4. \A x \in ToSet(left) : x = Head(left) \/ x \in ToSet(Tail(left))
    BY <2>1, <2>2, <2>3
  <2>5. \A i \in 1..Len(left) - 1 : i + 1 \in 1..Len(left) /\ Tail(left)[i] = left[i + 1]
    BY <2>1
  <2>6. Head(left) \in ToSet(left) /\ \A x \in ToSet(Tail(left)) : x \in ToSet(left)
    BY <2>1, <2>2, <2>5
  <2>. QED  BY <1>2, <2>1, <2>4, <2>6
<1>. QED  BY <1>1, <1>2

LEMMA GuestStarting == GuestInit => GuestIInv
<1>. SUFFICES ASSUME GuestInit
              PROVE  GuestIInv
  OBVIOUS
<1>1. Off \in AgentRow /\ Off.pc = "off" /\ NoNet \in NetRow
  BY DEF Off, AgentRow, NoNet, NetRow
<1>2. GuestTypes
  BY <1>1 DEF GuestInit, GuestTypes, GuestRow
<1>3. \A o \in Ops : row[o].action = "none" /\ row[o].action \notin {"containers-prepare", "network-apply"}
  BY DEF GuestInit
<1>4. OneUnsettled /\ DoneIsTrue
  BY <1>3 DEF OneUnsettled, Unsettled, DoneIsTrue, Completed
<1>5. WorkIsOrderly
  BY <1>1 DEF GuestInit, WorkIsOrderly, Busy
<1>6. "network-proof" \in Steps
  BY PlanSteps, PlansAreSteps DEF Actions
<1>7. CommandsAreRecorded /\ ProofsAreOwn /\ RulesComeFirst
  BY <1>6 DEF GuestInit, CommandsAreRecorded, ProofsAreOwn, RulesComeFirst
<1>. QED  BY <1>2, <1>4, <1>5, <1>7 DEF GuestIInv, GuestLedger

(* Only one process works at a time. *)
LEMMA OthersRest ==
  ASSUME GuestIInv, NEW a \in Agents, holder \in {a, Nobody}
  PROVE  \A b \in Agents \ {a} : ~Busy(b)
BY GuestAssumption DEF GuestIInv, WorkIsOrderly, AtWork

(* One process moves. *)
LEMMA OneMoves ==
  ASSUME GuestIInv, NEW a \in Agents, holder \in {a, Nobody}, \A b \in Agents \ {a} : agent'[b] = agent[b],
         GuestTypes', GuestLedger', Busy(a)' => AtWork(a)'
  PROVE  GuestIInv'
BY OthersRest DEF GuestIInv, WorkIsOrderly, Busy

(* One process stops, whatever it has left behind. *)
LEMMA OneQuits ==
  ASSUME GuestIInv, NEW a \in Agents, holder \in {a, Nobody}, agent' = [agent EXCEPT ![a] = Off], 
         /\ row' \in [Ops -> GuestRow] /\ effects' \in [Ops -> [Steps -> {"none", "intent", "recorded"}]]
         /\ net' \in NetRow /\ proof' \in Nat /\ maker' \in [Things -> Ops \cup {0, Nobody}] /\ issued' \in [Ops -> [Steps -> Nat]],
         GuestLedger'
  PROVE  GuestIInv'
<1>1. Off \in AgentRow /\ Off.pc = "off"
  BY DEF Off, AgentRow
<1>2. agent' \in [Agents -> AgentRow] /\ agent'[a] = Off /\ \A b \in Agents \ {a} : agent'[b] = agent[b]
  BY <1>1 DEF GuestIInv, GuestTypes
<1>3. GuestTypes' /\ ~Busy(a)'
  BY <1>1, <1>2 DEF GuestTypes, Busy
<1>. QED  BY <1>2, <1>3, OneMoves

(* What a command may change. *)
LEMMA ActsOnItsOwn ==
  ASSUME GuestTypes, NEW o \in Ops, NEW x \in Actions, NEW s \in StepsOf(x), Acts(s, o)
  PROVE  /\ net' \in NetRow /\ net'.rules >= net.rules /\ proof' \in Nat /\ maker' \in [Things -> Ops \cup {0, Nobody}]
         /\ opProof \subseteq opProof' /\ (s = "network-proof" => o \in opProof')
         /\ runs' \cap Guarded # {} => runs \cap Guarded # {} \/ x \in Starting
         /\ \/ maker'["volume"] = maker["volume"] /\ maker'["container"] = maker["container"]
            \/ /\ x = "containers-prepare" /\ maker["container"] = Nobody /\ maker'["container"] = o
            \/ /\ x = "containers-prepare" /\ s = "volume" /\ maker["volume"] = Nobody /\ maker'["container"] = maker["container"]
<1>1. CASE s \in StepsOf("network-apply") /\ NetworkActs(s, o)
  <2>1. x = "network-apply" /\ maker' = maker /\ runs' = runs
    BY <1>1, PlanSteps DEF Actions, NetworkActs, Configured
  <2>2. /\ net' \in NetRow /\ net'.rules >= net.rules
    <3>1. \/ net' = net \/ net' = [net EXCEPT !.forward = FALSE] \/ net' = [net EXCEPT !.addresses = TRUE]
          \/ net' = [net EXCEPT !.rules = IF @ < 2 THEN @ + 1 ELSE @] \/ net' = [net EXCEPT !.forward = TRUE]
      BY <1>1, PlanSteps DEF NetworkActs, Configured
    <3>2. net \in NetRow /\ net.rules \in Nat
      BY DEF GuestTypes, NetRow
    <3>3. CASE net' = net
      BY <3>2, <3>3
    <3>4. CASE net' = [net EXCEPT !.rules = IF @ < 2 THEN @ + 1 ELSE @]
      <4>1. (IF net.rules < 2 THEN net.rules + 1 ELSE net.rules) \in Nat /\ (IF net.rules < 2 THEN net.rules + 1 ELSE net.rules) >= net.rules
        BY <3>2
      <4>. QED  BY <3>2, <3>4, <4>1 DEF NetRow
    <3>5. ASSUME NEW f \in BOOLEAN, net' = [net EXCEPT !.forward = f] \/ net' = [net EXCEPT !.addresses = f]
          PROVE  net' \in NetRow /\ net'.rules >= net.rules
      <4>1. net'.rules = net.rules /\ net' \in NetRow
        BY <3>2, <3>5 DEF NetRow
      <4>. QED  BY <3>2, <4>1
    <3>. QED  BY <3>1, <3>3, <3>4, <3>5
  <2>3. proof' \in Nat /\ opProof \subseteq opProof' /\ (s = "network-proof" => o \in opProof')
    BY <1>1, PlanSteps DEF NetworkActs, Configured, GuestTypes, NetRow, Fingerprint
  <2>. QED  BY <2>1, <2>2, <2>3 DEF GuestTypes
<1>2. CASE s \in StepsOf("containers-prepare") /\ PreparationActs(s, o)
  <2>1. x = "containers-prepare" /\ net' = net /\ proof' = proof /\ opProof' = opProof /\ runs' = runs /\ s # "network-proof"
    BY <1>2, PlanSteps DEF Actions, PreparationActs, Made
  <2>2. CASE s = "container"
    <3>1. /\ maker["container"] = Nobody
          /\ maker' = [maker EXCEPT !["container"] = o, !["volume"] = IF @ = Nobody THEN 0 ELSE @]
      BY <1>2, <2>2 DEF PreparationActs
    <3>. QED  BY <2>1, <3>1 DEF GuestTypes, NetRow, Things
  <2>3. CASE s = "image"
    <3>1. maker' = [maker EXCEPT !["image"] = o]
      BY <1>2, <2>3 DEF PreparationActs, Made
    <3>. QED  BY <2>1, <2>3, <3>1 DEF GuestTypes, NetRow, Things
  <2>4. CASE s = "volume"
    <3>1. maker' = [maker EXCEPT !["volume"] = o] /\ maker["volume"] = Nobody
      BY <1>2, <2>4 DEF PreparationActs, Made
    <3>. QED  BY <2>1, <2>4, <3>1 DEF GuestTypes, NetRow, Things
  <2>. QED  BY <1>2, <2>2, <2>3, <2>4, PlanSteps
<1>3. CASE s \in {"start", "stop", "routing"} /\ ContainerActs(s)
  <2>1. /\ net' = net /\ proof' = proof /\ opProof' = opProof /\ maker' = maker
        /\ runs' \subseteq runs \/ s = "start"
    BY <1>3 DEF ContainerActs, NowRuns, RoutingActs
  <2>2. s # "network-proof" /\ (s = "start" => x = "containers-start")
    BY <1>3, PlanSteps DEF Actions
  <2>. QED  BY <2>1, <2>2 DEF GuestTypes, NetRow, Starting
<1>4. CASE s \in {"start-dns", "start-time", "stop-dns", "stop-time"} /\ ServiceActs(s)
  <2>1. /\ net' = net /\ proof' = proof /\ opProof' = opProof /\ maker' = maker
        /\ runs' \subseteq runs \/ s \in {"start-dns", "start-time"}
    BY <1>4 DEF ServiceActs, NowRuns
  <2>2. s # "network-proof" /\ (s \in {"start-dns", "start-time"} => x = "services-start")
    BY <1>4, PlanSteps DEF Actions
  <2>. QED  BY <2>1, <2>2 DEF GuestTypes, NetRow, Starting
<1>5. CASE s \in StepsOf("analysis-run") /\ AnalysisActs(s, o)
  <2>1. /\ net' = net /\ proof' = proof /\ opProof' = opProof /\ s # "network-proof"
        /\ runs' \subseteq runs \cup {"analysis"}
        /\ maker' \in {maker, [maker EXCEPT !["analysis"] = o]}
    BY <1>5, PlanSteps DEF AnalysisActs, NowRuns, InputCopied, ExportVerified, Made
  <2>2. /\ maker' \in [Things -> Ops \cup {0, Nobody}]
        /\ maker'["volume"] = maker["volume"] /\ maker'["container"] = maker["container"]
    BY <2>1 DEF GuestTypes, Things
  <2>. QED  BY <2>1, <2>2 DEF GuestTypes, NetRow, Guarded
<1>. QED  BY <1>1, <1>2, <1>3, <1>4, <1>5 DEF Acts, StepsOf

(* A new request enters the table. *)
LEMMA DispatchStep ==
  ASSUME GuestIInv, NEW a \in Agents, NEW o \in Ops, NEW action \in Actions, Dispatch(a, o, action)
  PROVE  GuestIInv'
<1>. DEFINE entry == [action |-> action, result |-> "none"]
            new == [op |-> o, left |-> Plan(action), pc |-> "check", mode |-> "dispatch"]
<1>0. GuestTypes /\ WorkIsOrderly /\ GuestLedger
  BY DEF GuestIInv
<1>1. /\ holder = Nobody /\ Unsettled = {} /\ row[o].action = "none" /\ row' = [row EXCEPT ![o] = entry] /\ holder' = a
      /\ agent' = [agent EXCEPT ![a] = new]
      /\ UNCHANGED <<effects, net, proof, opProof, maker, runs, issued>>
  BY DEF Dispatch, NoneUnresolved, Ops, worldVars
<1>2. /\ new \in AgentRow /\ new.op = o /\ new.left = Plan(action) /\ new.pc = "check" /\ new.mode = "dispatch"
      /\ entry \in GuestRow /\ entry.action = action /\ entry.result = "none" /\ action # "none"
  BY PlansAreSteps DEF AgentRow, GuestRow, Actions
<1>. HIDE DEF new, entry
<1>3. /\ agent'[a] = new /\ \A b \in Agents \ {a} : agent'[b] = agent[b]
      /\ row'[o] = entry /\ \A p \in Ops \ {o} : row'[p] = row[p]
  BY <1>0, <1>1 DEF GuestTypes
<1>4. GuestTypes'
  BY <1>0, <1>1, <1>2 DEF GuestTypes
<1>5. Unsettled' = {o}
  BY <1>1, <1>2, <1>3 DEF Unsettled
<1>6. DoneIsTrue'
  BY <1>0, <1>1, <1>2, <1>3 DEF GuestLedger, DoneIsTrue, Completed
<1>7. GuestLedger'
  BY <1>0, <1>1, <1>5, <1>6 DEF GuestLedger, OneUnsettled, CommandsAreRecorded, ProofsAreOwn, RulesComeFirst
<1>8. AtWork(a)'
  BY <1>1, <1>2, <1>3, <1>5, PlansAreSteps DEF AtWork, Does, Acting, StepsOf
<1>. QED  BY <1>1, <1>3, <1>4, <1>7, <1>8, OneMoves

(* What the process at work knows of its operation. *)
LEMMA TheWorker ==
  ASSUME GuestIInv, NEW a \in Agents, Busy(a)
  PROVE  /\ GuestTypes /\ GuestLedger /\ AtWork(a) /\ holder = a /\ agent[a] \in AgentRow /\ agent[a].op \in Ops
         /\ Does(a) \in Actions /\ row[agent[a].op] \in GuestRow /\ row[agent[a].op].result = "none"
         /\ \A p \in Unsettled : p = agent[a].op
BY DEF GuestIInv, WorkIsOrderly, GuestTypes, AtWork, Unsettled, GuestRow, Does, GuestLedger, OneUnsettled

(* The conditions of the action. *)
LEMMA CheckStep ==
  ASSUME GuestIInv, NEW a \in Agents, Check(a)
  PROVE  GuestIInv'
<1>. DEFINE o == agent[a].op
<1>0. /\ agent[a].pc = "check" /\ Busy(a) /\ UNCHANGED <<effects, net, proof, opProof, maker, runs, issued>>
  BY DEF Check, Busy, worldVars
<1>1. /\ GuestTypes /\ GuestLedger /\ AtWork(a) /\ holder = a /\ agent[a] \in AgentRow /\ o \in Ops
      /\ Does(a) \in Actions /\ row[o] \in GuestRow /\ row[o].result = "none"
  BY <1>0, TheWorker
<1>2. CASE /\ Permitted(row[o].action)
           /\ agent' = [agent EXCEPT ![a].pc = "step", ![a].left = Needed(@)] /\ UNCHANGED <<row, holder>>
  <2>. DEFINE left == Needed(agent[a].left)
              new == [agent[a] EXCEPT !.pc = "step", !.left = left]
  <2>1. left \in Seq(Steps) /\ ToSet(left) \subseteq ToSet(agent[a].left)
    <3>1. agent[a].left \in Seq(Steps) /\ agent[a].left # <<>>
      BY <1>0, <1>1 DEF AgentRow, AtWork
    <3>. QED  BY <3>1, Queue DEF Needed
  <2>2. Does(a) = "network-apply" => left = agent[a].left
    <3>1. agent[a].left \in Seq(Steps) /\ agent[a].left # <<>> /\ ToSet(agent[a].left) \subseteq StepsOf(Does(a))
      BY <1>0, <1>1 DEF AgentRow, AtWork
    <3>. QED  BY <3>1, Queue, PlanSteps DEF Needed
  <2>3. agent' = [agent EXCEPT ![a] = new]
    BY <1>1, <1>2
  <2>. HIDE DEF left
  <2>4. new \in AgentRow /\ new.op = o /\ new.left = left /\ new.pc = "step" /\ new.mode = agent[a].mode
    BY <1>1, <2>1 DEF AgentRow
  <2>. HIDE DEF new, o
  <2>5. agent'[a] = new /\ \A b \in Agents \ {a} : agent'[b] = agent[b]
    BY <1>1, <2>3 DEF GuestTypes
  <2>6. GuestTypes'
    BY <1>0, <1>1, <1>2, <2>3, <2>4 DEF GuestTypes
  <2>b. GuestLedger'
    BY <1>0, <1>1, <1>2 DEF GuestLedger, OneUnsettled, Unsettled, CommandsAreRecorded, ProofsAreOwn, RulesComeFirst, DoneIsTrue, Completed
  <2>7. Permitted(Does(a))
    BY <1>2 DEF Does, o
  <2>8. Does(a) \in Starting => net.rules > 0
    <3>1. Does(a) \in Starting => NetworkReady
      BY <2>7 DEF Permitted, Starting
    <3>. QED  BY <1>1, <3>1 DEF NetworkReady, Fingerprint, GuestTypes, NetRow
  <2>9. Does(a) = "containers-prepare" => maker["container"] = Nobody
    <3>1. ToSet(Resources) = {"volume", "container"}
      BY DEF Resources, ToSet
    <3>. QED  BY <2>7, <3>1 DEF Permitted
  <2>10. o = agent[a].op
    BY DEF o
  <2>11. AtWork(a)'
    BY <1>0, <1>1, <1>2, <2>1, <2>2, <2>4, <2>5, <2>8, <2>9, <2>10 DEF AtWork, Does, Acting, Unsettled
  <2>. QED  BY <1>1, <2>5, <2>6, <2>b, <2>11, OneMoves
<1>3. CASE row' = [row EXCEPT ![o].result = "failed"] /\ Quits(a)
  <2>. DEFINE new == [row[o] EXCEPT !.result = "failed"]
  <2>1. row' = [row EXCEPT ![o] = new] /\ new \in GuestRow /\ new.result = "failed"
    BY <1>1, <1>3 DEF GuestRow
  <2>. HIDE DEF new, o
  <2>2. row'[o] = new /\ \A p \in Ops \ {o} : row'[p] = row[p]
    BY <1>1, <2>1 DEF GuestTypes
  <2>3. Unsettled' \subseteq Unsettled
    BY <2>1, <2>2 DEF Unsettled
  <2>4. DoneIsTrue'
    BY <1>0, <1>1, <2>1, <2>2 DEF GuestLedger, DoneIsTrue, Completed
  <2>5. GuestLedger'
    BY <1>0, <1>1, <2>3, <2>4 DEF GuestLedger, OneUnsettled, CommandsAreRecorded, ProofsAreOwn, RulesComeFirst
  <2>. QED  BY <1>0, <1>1, <1>3, <2>1, <2>5, OneQuits DEF Quits, GuestTypes
<1>. QED  BY <1>2, <1>3 DEF Check

(* One effect is written down. *)
LEMMA OneEffect ==
  ASSUME GuestTypes, NEW o \in Ops, NEW s \in Steps, NEW v \in {"intent", "recorded"}, effects' = [effects EXCEPT ![o][s] = v]
  PROVE  /\ effects' \in [Ops -> [Steps -> {"none", "intent", "recorded"}]] /\ effects'[o][s] = v
         /\ \A p \in Ops, t \in Steps : p # o \/ t # s => effects'[p][t] = effects[p][t]
BY DEF GuestTypes

(* What is recorded stays, and what is done stays true, when the operation at work gets a record. *)
LEMMA DoneStays ==
  ASSUME GuestTypes, DoneIsTrue, NEW o \in Ops, row[o].result = "none", row' = row, maker' = maker,
         \A p \in Ops \ {o}, t \in Steps : effects'[p][t] = effects[p][t]
  PROVE  DoneIsTrue'
<1>1. \A p \in Ops : Completed(p, "containers-prepare")' \/ Completed(p, "network-apply")' => p # o
  BY DEF Completed
<1>2. {"volume", "container"} \subseteq Steps /\ StepsOf("network-apply") \subseteq Steps
  BY PlanSteps, PlansAreSteps DEF Actions
<1>. QED  BY <1>1, <1>2 DEF DoneIsTrue, Completed

LEMMA IntentStep ==
  ASSUME GuestIInv, NEW a \in Agents, Intent(a)
  PROVE  GuestIInv'
<1>. DEFINE o == agent[a].op
            s == Head(agent[a].left)
            new == [agent[a] EXCEPT !.pc = "call"]
<1>0. /\ agent[a].pc = "step" /\ Busy(a) /\ agent[a].left # <<>> /\ effects[o][s] = "none"
      /\ effects' = [effects EXCEPT ![o][s] = "intent"] /\ agent' = [agent EXCEPT ![a].pc = "call"]
      /\ UNCHANGED <<row, holder, net, proof, opProof, maker, runs, issued>>
  BY DEF Intent, Busy, worldVars, FirstTime
<1>1. /\ GuestTypes /\ GuestLedger /\ AtWork(a) /\ holder = a /\ agent[a] \in AgentRow /\ o \in Ops
      /\ Does(a) \in Actions /\ row[o] \in GuestRow /\ row[o].result = "none"
  BY <1>0, TheWorker
<1>2. s \in Steps
  BY <1>0, <1>1, Queue DEF AgentRow
<1>3. new \in AgentRow /\ new.op = o /\ new.left = agent[a].left /\ new.pc = "call" /\ new.mode = agent[a].mode
  BY <1>1 DEF AgentRow
<1>4. agent' = [agent EXCEPT ![a] = new]
  BY <1>0, <1>1
<1>5. o = agent[a].op /\ s = Head(agent[a].left)
  OBVIOUS
<1>. HIDE DEF o, s, new
<1>6. agent'[a] = new /\ \A b \in Agents \ {a} : agent'[b] = agent[b]
  BY <1>1, <1>4 DEF GuestTypes
<1>7. /\ effects' \in [Ops -> [Steps -> {"none", "intent", "recorded"}]] /\ effects'[o][s] = "intent"
      /\ \A p \in Ops, t \in Steps : p # o \/ t # s => effects'[p][t] = effects[p][t]
  BY <1>0, <1>1, <1>2, OneEffect
<1>8. GuestTypes'
  <2>1. agent' \in [Agents -> AgentRow]
    BY <1>1, <1>3, <1>4 DEF GuestTypes
  <2>. QED  BY <1>0, <1>1, <1>7, <2>1 DEF GuestTypes
<1>9. "network-proof" \in Steps /\ StepsOf("network-apply") \subseteq Steps
  BY PlanSteps, PlansAreSteps DEF Actions
<1>10. DoneIsTrue'
  BY <1>0, <1>1, <1>7, DoneStays DEF GuestLedger
<1>11. GuestLedger'
  BY <1>0, <1>1, <1>7, <1>9, <1>10 DEF GuestLedger, OneUnsettled, Unsettled, CommandsAreRecorded, ProofsAreOwn, RulesComeFirst
<1>12. issued[o][s] = 0
  BY <1>0, <1>1, <1>2 DEF GuestLedger, CommandsAreRecorded
<1>13. AtWork(a)'
  BY <1>0, <1>1, <1>3, <1>5, <1>6, <1>7, <1>9, <1>12 DEF AtWork, Does, Acting, Unsettled, CallIsFresh
<1>. QED  BY <1>1, <1>6, <1>8, <1>11, <1>13, OneMoves

(* The command is given, and whether it acted is not always known. *)
LEMMA CallsStep ==
  ASSUME GuestIInv, NEW a \in Agents, CallStep(a)
  PROVE  GuestIInv'
<1>. DEFINE o == agent[a].op
            s == Head(agent[a].left)
            new == [agent[a] EXCEPT !.pc = "record"]
<1>0. /\ agent[a].pc = "call" /\ Busy(a) /\ issued' = [issued EXCEPT ![o][s] = @ + 1] /\ UNCHANGED <<row, effects>>
      /\ \/ Acts(s, o) /\ agent' = [agent EXCEPT ![a].pc = "record"] /\ UNCHANGED holder
         \/ Acts(s, o) /\ Quits(a)
         \/ UNCHANGED <<net, proof, opProof, maker, runs>> /\ Quits(a)
  BY DEF CallStep, Busy, ledgerVars
<1>1. /\ GuestTypes /\ GuestLedger /\ AtWork(a) /\ holder = a /\ agent[a] \in AgentRow /\ o \in Ops
      /\ Does(a) \in Actions /\ row[o] \in GuestRow /\ row[o].result = "none"
  BY <1>0, TheWorker
<1>2. s \in Steps /\ s \in StepsOf(Does(a)) /\ effects[o][s] = "intent" /\ issued[o][s] = 0
  BY <1>0, <1>1, Queue DEF AgentRow, AtWork, CallIsFresh
<1>3. new \in AgentRow /\ new.op = o /\ new.left = agent[a].left /\ new.pc = "record" /\ new.mode = agent[a].mode
  BY <1>1 DEF AgentRow
<1>4. o = agent[a].op /\ s = Head(agent[a].left) /\ Does(a) = row[o].action
  BY DEF Does
<1>5. agent' = [agent EXCEPT ![a].pc = "record"] => agent' = [agent EXCEPT ![a] = new]
  BY <1>1
<1>. HIDE DEF o, s, new
<1>6. /\ issued' \in [Ops -> [Steps -> Nat]] /\ issued'[o][s] = 1
      /\ \A p \in Ops, t \in Steps : p # o \/ t # s => issued'[p][t] = issued[p][t]
  BY <1>0, <1>1, <1>2 DEF GuestTypes
<1>7. CommandsAreRecorded'
  BY <1>0, <1>1, <1>2, <1>6 DEF GuestLedger, CommandsAreRecorded
<1>8. /\ net' \in NetRow /\ net'.rules >= net.rules /\ proof' \in Nat /\ maker' \in [Things -> Ops \cup {0, Nobody}]
      /\ opProof \subseteq opProof'
      /\ runs' \cap Guarded # {} => runs \cap Guarded # {} \/ Does(a) \in Starting
      /\ \/ maker'["volume"] = maker["volume"] /\ maker'["container"] = maker["container"]
         \/ Does(a) = "containers-prepare" /\ maker["container"] = Nobody /\ maker'["container"] = o
         \/ Does(a) = "containers-prepare" /\ maker["volume"] = Nobody /\ maker'["container"] = maker["container"]
  <2>1. CASE Acts(s, o)
    BY <1>1, <1>2, <2>1, ActsOnItsOwn
  <2>2. CASE UNCHANGED <<net, proof, opProof, maker, runs>>
    BY <1>1, <2>2 DEF GuestTypes, NetRow
  <2>. QED  BY <1>0, <2>1, <2>2
<1>9. net.rules \in Nat /\ net'.rules \in Nat
  BY <1>1, <1>8 DEF GuestTypes, NetRow
<1>10. RulesComeFirst'
  BY <1>0, <1>1, <1>8, <1>9 DEF GuestLedger, RulesComeFirst, AtWork, Acting
<1>11. Does(a) = "containers-prepare" => maker["container"] \in {Nobody, o}
  BY <1>0, <1>1, <1>4 DEF AtWork, Acting
<1>12. DoneIsTrue'
  <2>1. \A p \in Ops : Completed(p, "containers-prepare")' \/ Completed(p, "network-apply")' => p # o /\ p # Nobody
    BY <1>0, <1>1, GuestAssumption DEF Completed
  <2>2. \A p \in Ops : p # o /\ p # Nobody /\ maker'["container"] = p => maker["container"] = p /\ maker'["volume"] = maker["volume"]
    BY <1>8, <1>11
  <2>. QED  BY <1>0, <1>1, <2>1, <2>2 DEF GuestLedger, DoneIsTrue, Completed
<1>13. GuestLedger'
  BY <1>0, <1>1, <1>7, <1>8, <1>10, <1>12 DEF GuestLedger, OneUnsettled, Unsettled, ProofsAreOwn
<1>14. CASE Acts(s, o) /\ agent' = [agent EXCEPT ![a].pc = "record"] /\ UNCHANGED holder
  <2>1. agent'[a] = new /\ \A b \in Agents \ {a} : agent'[b] = agent[b]
    BY <1>1, <1>5, <1>14 DEF GuestTypes
  <2>2. GuestTypes'
    BY <1>0, <1>1, <1>3, <1>5, <1>6, <1>8, <1>14 DEF GuestTypes
  <2>3. s = "network-proof" => o \in opProof'
    BY <1>1, <1>2, <1>14, ActsOnItsOwn
  <2>4. AtWork(a)'
    <3>1. Does(a)' = Does(a) /\ (Does(a) = "containers-prepare" => maker'["container"] \in {Nobody, o})
      BY <1>0, <1>3, <1>4, <1>8, <1>11, <2>1 DEF Does
    <3>2. Does(a) \in Starting => net'.rules > 0
      BY <1>0, <1>1, <1>8, <1>9 DEF AtWork, Acting
    <3>. QED  BY <1>0, <1>1, <1>3, <1>4, <1>14, <2>1, <2>3, <3>1, <3>2 DEF AtWork, Acting, Unsettled
  <2>. QED  BY <1>1, <1>13, <2>1, <2>2, <2>4, OneMoves
<1>15. CASE Quits(a)
  BY <1>0, <1>1, <1>6, <1>8, <1>13, <1>15, OneQuits DEF Quits, GuestTypes
<1>. QED  BY <1>0, <1>14, <1>15

LEMMA RecordsTheStep ==
  ASSUME GuestIInv, NEW a \in Agents, RecordStep(a)
  PROVE  GuestIInv'
<1>. DEFINE o == agent[a].op
            s == Head(agent[a].left)
            new == [agent[a] EXCEPT !.pc = "step", !.left = Tail(agent[a].left)]
<1>0. /\ agent[a].pc = "record" /\ Busy(a) /\ effects' = [effects EXCEPT ![o][s] = "recorded"]
      /\ agent' = [agent EXCEPT ![a].pc = "step", ![a].left = Tail(@)]
      /\ UNCHANGED <<row, holder, net, proof, opProof, maker, runs, issued>>
  BY DEF RecordStep, Busy, worldVars
<1>1. /\ GuestTypes /\ GuestLedger /\ AtWork(a) /\ holder = a /\ agent[a] \in AgentRow /\ o \in Ops
      /\ Does(a) \in Actions /\ row[o] \in GuestRow /\ row[o].result = "none"
  BY <1>0, TheWorker
<1>2. /\ s \in Steps /\ Tail(agent[a].left) \in Seq(Steps) /\ ToSet(agent[a].left) = {s} \cup ToSet(Tail(agent[a].left))
  BY <1>0, <1>1, Queue DEF AgentRow, AtWork
<1>3. new \in AgentRow /\ new.op = o /\ new.left = Tail(agent[a].left) /\ new.pc = "step" /\ new.mode = agent[a].mode
  BY <1>1, <1>2 DEF AgentRow
<1>4. agent' = [agent EXCEPT ![a] = new]
  BY <1>0, <1>1
<1>5. o = agent[a].op /\ s = Head(agent[a].left)
  OBVIOUS
<1>. HIDE DEF o, s, new
<1>6. agent'[a] = new /\ \A b \in Agents \ {a} : agent'[b] = agent[b]
  BY <1>1, <1>4 DEF GuestTypes
<1>7. /\ effects' \in [Ops -> [Steps -> {"none", "intent", "recorded"}]] /\ effects'[o][s] = "recorded"
      /\ \A p \in Ops, t \in Steps : p # o \/ t # s => effects'[p][t] = effects[p][t]
  <2>1. GuestTypes /\ effects' = [effects EXCEPT ![o][s] = "recorded"] /\ "recorded" \in {"intent", "recorded"}
    BY <1>0, <1>1
  <2>. QED  BY ONLY <1>1, <1>2, <2>1 DEF GuestTypes
<1>8. GuestTypes'
  <2>1. agent' \in [Agents -> AgentRow]
    BY <1>1, <1>3, <1>4 DEF GuestTypes
  <2>. QED  BY <1>0, <1>1, <1>7, <2>1 DEF GuestTypes
<1>9. "network-proof" \in Steps /\ StepsOf("network-apply") \subseteq Steps
  BY PlanSteps, PlansAreSteps DEF Actions
<1>10. DoneIsTrue'
  BY <1>0, <1>1, <1>7, DoneStays DEF GuestLedger
<1>11. s = "network-proof" => o \in opProof
  BY <1>0, <1>1, <1>5 DEF AtWork
<1>12. ProofsAreOwn'
  BY <1>0, <1>1, <1>7, <1>9, <1>11 DEF GuestLedger, ProofsAreOwn
<1>13. CommandsAreRecorded'
  BY <1>0, <1>1, <1>7 DEF GuestLedger, CommandsAreRecorded
<1>14. GuestLedger'
  BY <1>0, <1>1, <1>10, <1>12, <1>13 DEF GuestLedger, OneUnsettled, Unsettled, RulesComeFirst
<1>15. Does(a) = "network-apply" => \A t \in StepsOf("network-apply") \ ToSet(Tail(agent[a].left)) : effects'[o][t] = "recorded"
  BY <1>1, <1>2, <1>5, <1>7, <1>9 DEF AtWork
<1>16. AtWork(a)'
  <2>1. Does(a)' = Does(a)
    BY <1>0, <1>3, <1>5, <1>6 DEF Does
  <2>2. /\ holder' = a /\ agent'[a].op \in Unsettled' /\ ToSet(agent'[a].left) \subseteq StepsOf(Does(a))
        /\ agent'[a].mode = "resume" => Does(a) = "containers-prepare"
        /\ Does(a) = "containers-prepare" => maker'["container"] \in {Nobody, agent'[a].op}
        /\ Does(a) \in Starting => net'.rules > 0
    BY <1>0, <1>1, <1>2, <1>3, <1>5, <1>6 DEF AtWork, Acting, Unsettled
  <2>. QED  BY <1>3, <1>6, <1>15, <2>1, <2>2 DEF AtWork
<1>. QED  BY <1>1, <1>6, <1>8, <1>14, <1>16, OneMoves

(* A resumption passes over what it knows, or records what it finds. *)
LEMMA ResumesKnown ==
  ASSUME GuestIInv, NEW a \in Agents, ResumeKnown(a)
  PROVE  GuestIInv'
<1>. DEFINE o == agent[a].op
            s == Head(agent[a].left)
            new == [agent[a] EXCEPT !.left = Tail(agent[a].left)]
<1>0. /\ agent[a].pc = "step" /\ agent[a].mode = "resume" /\ Busy(a) /\ agent[a].left # <<>>
      /\ \/ /\ effects' \in {effects, [effects EXCEPT ![o][s] = "recorded"]}
            /\ agent' = [agent EXCEPT ![a].left = Tail(@)] /\ UNCHANGED holder
         \/ Quits(a) /\ UNCHANGED effects
      /\ UNCHANGED <<row, net, proof, opProof, maker, runs, issued>>
  BY DEF ResumeKnown, Busy, worldVars
<1>1. /\ GuestTypes /\ GuestLedger /\ AtWork(a) /\ holder = a /\ agent[a] \in AgentRow /\ o \in Ops
      /\ Does(a) \in Actions /\ row[o] \in GuestRow /\ row[o].result = "none"
  BY <1>0, TheWorker
<1>2. /\ s \in Steps /\ Tail(agent[a].left) \in Seq(Steps) /\ ToSet(agent[a].left) = {s} \cup ToSet(Tail(agent[a].left))
  BY <1>0, <1>1, Queue DEF AgentRow
<1>3. Does(a) = "containers-prepare" /\ s # "network-proof" /\ "network-proof" \in Steps
  BY <1>0, <1>1, <1>2, PlanSteps, PlansAreSteps DEF AtWork, Actions
<1>4. new \in AgentRow /\ new.op = o /\ new.left = Tail(agent[a].left) /\ new.pc = "step" /\ new.mode = agent[a].mode
  BY <1>0, <1>1, <1>2 DEF AgentRow
<1>5. o = agent[a].op /\ s = Head(agent[a].left)
  OBVIOUS
<1>6. agent' = [agent EXCEPT ![a].left = Tail(@)] => agent' = [agent EXCEPT ![a] = new]
  BY <1>1
<1>. HIDE DEF o, s, new
<1>7. /\ effects' \in [Ops -> [Steps -> {"none", "intent", "recorded"}]]
      /\ \A p \in Ops, t \in Steps : effects'[p][t] = effects[p][t] \/ (p = o /\ t = s /\ effects'[p][t] = "recorded")
  <2>1. CASE effects' = effects
    BY <1>1, <2>1 DEF GuestTypes
  <2>2. CASE effects' = [effects EXCEPT ![o][s] = "recorded"]
    BY <1>1, <1>2, <2>2 DEF GuestTypes
  <2>. QED  BY <1>0, <2>1, <2>2
<1>8. DoneIsTrue'
  BY <1>0, <1>1, <1>7, DoneStays DEF GuestLedger
<1>9. GuestLedger'
  <2>1. CommandsAreRecorded'
    BY <1>0, <1>1, <1>7 DEF GuestLedger, CommandsAreRecorded
  <2>2. ProofsAreOwn'
    BY <1>0, <1>1, <1>3, <1>7 DEF GuestLedger, ProofsAreOwn
  <2>. QED  BY <1>0, <1>1, <1>8, <2>1, <2>2 DEF GuestLedger, OneUnsettled, Unsettled, RulesComeFirst
<1>10. CASE agent' = [agent EXCEPT ![a] = new] /\ holder' = holder
  <2>1. agent'[a] = new /\ \A b \in Agents \ {a} : agent'[b] = agent[b]
    BY <1>1, <1>10 DEF GuestTypes
  <2>2. GuestTypes'
    <3>1. agent' \in [Agents -> AgentRow]
      BY <1>1, <1>4, <1>10 DEF GuestTypes
    <3>. QED  BY <1>0, <1>1, <1>7, <3>1 DEF GuestTypes
  <2>3. AtWork(a)'
    BY <1>0, <1>1, <1>2, <1>3, <1>4, <1>5, <1>10, <2>1 DEF AtWork, Does, Acting, Unsettled
  <2>. QED  BY <1>1, <1>9, <2>1, <2>2, <2>3, OneMoves
<1>11. CASE Quits(a)
  BY <1>0, <1>1, <1>7, <1>9, <1>11, OneQuits DEF Quits, GuestTypes
<1>. QED  BY <1>0, <1>6, <1>10, <1>11

(* A row gets its answer. *)
LEMMA OneAnswer ==
  ASSUME GuestTypes, GuestLedger, NEW o \in Ops, o \in Unsettled, row' = [row EXCEPT ![o].result = "done"],
         opProof' = opProof, maker' = maker, issued' = issued, runs' = runs, net' = net, CommandsAreRecorded', ProofsAreOwn',
         \A p \in Ops \ {o}, t \in Steps : effects'[p][t] = effects[p][t],
         row[o].action = "containers-prepare" =>
           /\ effects'[o]["volume"] = "recorded" /\ effects'[o]["container"] = "recorded"
           /\ maker["container"] = o => maker["volume"] \in {o, Nobody},
         row[o].action = "network-apply" => \A t \in StepsOf("network-apply") : effects'[o][t] = "recorded"
  PROVE  GuestLedger' /\ row' \in [Ops -> GuestRow]
<1>. DEFINE new == [row[o] EXCEPT !.result = "done"]
<1>1. row[o] \in GuestRow /\ row' = [row EXCEPT ![o] = new]
  BY DEF GuestTypes
<1>2. new \in GuestRow /\ new.result = "done" /\ new.action = row[o].action
  BY <1>1 DEF GuestRow
<1>. HIDE DEF new
<1>3. row'[o] = new /\ (\A p \in Ops \ {o} : row'[p] = row[p]) /\ row' \in [Ops -> GuestRow]
  BY <1>1, <1>2 DEF GuestTypes
<1>4. Unsettled' \subseteq Unsettled
  BY <1>2, <1>3 DEF Unsettled
<1>5. {"volume", "container"} \subseteq Steps /\ StepsOf("network-apply") \subseteq Steps
  BY PlanSteps, PlansAreSteps DEF Actions
<1>6. ASSUME NEW p \in Ops
      PROVE  /\ Completed(p, "containers-prepare")' =>
                  /\ effects'[p]["volume"] = "recorded" /\ effects'[p]["container"] = "recorded"
                  /\ maker'["container"] = p => maker'["volume"] \in {p, Nobody}
             /\ Completed(p, "network-apply")' => \A t \in StepsOf("network-apply") : effects'[p][t] = "recorded"
  <2>1. CASE p = o
    BY <1>2, <1>3, <2>1 DEF Completed
  <2>2. CASE p # o
    BY <1>3, <1>5, <2>2 DEF Completed, GuestLedger, DoneIsTrue
  <2>. QED  BY <2>1, <2>2
<1>. QED  BY <1>3, <1>4, <1>6 DEF GuestLedger, OneUnsettled, RulesComeFirst, DoneIsTrue

LEMMA ConcludesStep ==
  ASSUME GuestIInv, NEW a \in Agents, Concludes(a)
  PROVE  GuestIInv'
<1>. DEFINE o == agent[a].op
<1>0. /\ agent[a].pc = "step" /\ Busy(a) /\ agent[a].left = <<>> /\ Quits(a)
      /\ \/ Witnessed(o) /\ row' = [row EXCEPT ![o].result = "done"]
         \/ UNCHANGED row
      /\ UNCHANGED <<effects, net, proof, opProof, maker, runs, issued>>
  BY DEF Concludes, Busy, worldVars
<1>1. /\ GuestTypes /\ GuestLedger /\ AtWork(a) /\ holder = a /\ agent[a] \in AgentRow /\ o \in Ops /\ o \in Unsettled
      /\ Does(a) \in Actions /\ row[o] \in GuestRow /\ row[o].result = "none" /\ Does(a) = row[o].action
  BY <1>0, TheWorker DEF AtWork, Does
<1>2. CASE Witnessed(o) /\ row' = [row EXCEPT ![o].result = "done"]
  <2>1. row[o].action = "containers-prepare" =>
          effects[o]["volume"] = "recorded" /\ effects[o]["container"] = "recorded" /\ maker["volume"] = o
    <3>1. ToSet(Resources) = {"volume", "container"}
      BY DEF Resources, ToSet
    <3>. QED  BY <1>2, <3>1 DEF Witnessed, AllFound, AllRecorded
  <2>2. row[o].action = "network-apply" => \A t \in StepsOf("network-apply") : effects[o][t] = "recorded"
    BY <1>0, <1>1 DEF AtWork, ToSet
  <2>3. CommandsAreRecorded' /\ ProofsAreOwn'
    BY <1>0, <1>1 DEF GuestLedger, CommandsAreRecorded, ProofsAreOwn
  <2>4. GuestLedger' /\ row' \in [Ops -> GuestRow]
    BY <1>0, <1>1, <1>2, <2>1, <2>2, <2>3, OneAnswer
  <2>. QED  BY <1>0, <1>1, <2>4, OneQuits DEF Quits, GuestTypes
<1>3. CASE UNCHANGED row
  <2>1. GuestLedger'
    BY <1>0, <1>1, <1>3 DEF GuestLedger, OneUnsettled, Unsettled, CommandsAreRecorded, ProofsAreOwn, RulesComeFirst, DoneIsTrue, Completed
  <2>. QED  BY <1>0, <1>1, <1>3, <2>1, OneQuits DEF Quits, GuestTypes
<1>. QED  BY <1>0, <1>2, <1>3

LEMMA ReconcileStep ==
  ASSUME GuestIInv, NEW a \in Agents, NEW o \in Ops, Reconcile(a, o)
  PROVE  GuestIInv'
<1>0. GuestTypes /\ WorkIsOrderly /\ GuestLedger
  BY DEF GuestIInv
<1>1. /\ holder = Nobody /\ row[o].action = "network-apply" /\ o \in Unsettled /\ o \in opProof
      /\ effects' = [effects EXCEPT ![o]["network-proof"] = "recorded"] /\ row' = [row EXCEPT ![o].result = "done"]
      /\ UNCHANGED <<agent, holder, net, proof, opProof, maker, runs, issued>>
  BY DEF Reconcile, worldVars
<1>2. \A s \in StepsOf("network-apply") : effects[o][s] = "recorded" \/ s = "network-proof"
  BY DEF Reconcile, StepsOf
<1>3. "network-proof" \in Steps /\ StepsOf("network-apply") \subseteq Steps
  BY PlanSteps, PlansAreSteps DEF Actions
<1>4. /\ effects' \in [Ops -> [Steps -> {"none", "intent", "recorded"}]] /\ effects'[o]["network-proof"] = "recorded"
      /\ \A p \in Ops, t \in Steps : p # o \/ t # "network-proof" => effects'[p][t] = effects[p][t]
  BY <1>0, <1>1, <1>3 DEF GuestTypes
<1>5. CommandsAreRecorded' /\ ProofsAreOwn'
  BY <1>0, <1>1, <1>3, <1>4 DEF GuestLedger, CommandsAreRecorded, ProofsAreOwn
<1>6. \A t \in StepsOf("network-apply") : effects'[o][t] = "recorded"
  BY <1>2, <1>3, <1>4
<1>7. GuestLedger' /\ row' \in [Ops -> GuestRow]
  BY <1>0, <1>1, <1>4, <1>5, <1>6, OneAnswer
<1>8. WorkIsOrderly'
  BY <1>0, <1>1, GuestAssumption DEF WorkIsOrderly, AtWork, Busy
<1>. QED  BY <1>0, <1>1, <1>4, <1>7, <1>8 DEF GuestIInv, GuestTypes

LEMMA ResumeStep ==
  ASSUME GuestIInv, NEW a \in Agents, NEW o \in Ops, Resume(a, o)
  PROVE  GuestIInv'
<1>. DEFINE new == [op |-> o, left |-> Plan("containers-prepare"), pc |-> "step", mode |-> "resume"]
<1>0. GuestTypes /\ WorkIsOrderly /\ GuestLedger
  BY DEF GuestIInv
<1>1. /\ holder = Nobody /\ row[o].action = "containers-prepare" /\ o \in Unsettled /\ CanResume(o)
      /\ holder' = a /\ agent' = [agent EXCEPT ![a] = new]
      /\ UNCHANGED <<row, effects, net, proof, opProof, maker, runs, issued>>
  BY DEF Resume, worldVars, ledgerVars
<1>2. /\ new \in AgentRow /\ new.op = o /\ ToSet(new.left) = StepsOf("containers-prepare") /\ new.pc = "step" /\ new.mode = "resume"
  BY PlansAreSteps DEF AgentRow, Actions, StepsOf
<1>. HIDE DEF new
<1>3. agent'[a] = new /\ \A b \in Agents \ {a} : agent'[b] = agent[b]
  BY <1>0, <1>1 DEF GuestTypes
<1>4. GuestTypes'
  <2>1. agent' \in [Agents -> AgentRow]
    BY <1>0, <1>1, <1>2 DEF GuestTypes
  <2>. QED  BY <1>0, <1>1, <2>1 DEF GuestTypes
<1>5. GuestLedger'
  BY <1>0, <1>1 DEF GuestLedger, OneUnsettled, Unsettled, CommandsAreRecorded, ProofsAreOwn, RulesComeFirst, DoneIsTrue, Completed
<1>6. maker["container"] \in {Nobody, o}
  <2>1. StateOf(o, "container") \in {"not-started", "observed-unrecorded", "recorded"}
    <3>1. ToSet(Resources) = {"volume", "container"}
      BY DEF Resources, ToSet
    <3>. QED  BY <1>1, <3>1 DEF CanResume
  <2>. QED  BY <2>1 DEF StateOf
<1>7. AtWork(a)'
  BY <1>0, <1>1, <1>2, <1>3, <1>6 DEF AtWork, Does, Acting, Unsettled, Starting
<1>. QED  BY <1>1, <1>3, <1>4, <1>5, <1>7, OneMoves

(* Deaths, boots, and what others do in the guest. *)
LEMMA OthersStep ==
  ASSUME GuestIInv,
         \/ \E a \in Agents : Dies(a)
         \/ GuestBoots
         \/ \E r \in {"volume", "container"} : Loses(r)
         \/ \E r \in {"container", "dns"} : Ends(r)
  PROVE  GuestIInv'
<1>0. GuestTypes /\ WorkIsOrderly /\ GuestLedger
  BY DEF GuestIInv
<1>1. ASSUME NEW a \in Agents, Dies(a)
      PROVE  GuestIInv'
  <2>1. Busy(a) /\ Quits(a) /\ UNCHANGED <<row, effects, net, proof, opProof, maker, runs, issued>>
    BY <1>1 DEF Dies, Busy, worldVars, ledgerVars
  <2>2. GuestLedger'
    BY <1>0, <2>1 DEF GuestLedger, OneUnsettled, Unsettled, CommandsAreRecorded, ProofsAreOwn, RulesComeFirst, DoneIsTrue, Completed
  <2>3. holder = a
    BY <2>1, TheWorker
  <2>. QED  BY <1>0, <2>1, <2>2, <2>3, OneQuits DEF Quits, GuestTypes
<1>2. CASE GuestBoots
  <2>1. /\ agent' = [a \in Agents |-> Off] /\ runs' = {} /\ net' = NoNet
        /\ UNCHANGED <<row, effects, proof, opProof, maker, issued>>
    BY <1>2 DEF GuestBoots, ledgerVars
  <2>2. Off \in AgentRow /\ Off.pc = "off" /\ NoNet \in NetRow
    BY DEF Off, AgentRow, NoNet, NetRow
  <2>3. GuestTypes' /\ WorkIsOrderly'
    BY <1>0, <2>1, <2>2 DEF GuestTypes, WorkIsOrderly, Busy
  <2>4. GuestLedger'
    BY <1>0, <2>1 DEF GuestLedger, OneUnsettled, Unsettled, CommandsAreRecorded, ProofsAreOwn, RulesComeFirst, DoneIsTrue, Completed
  <2>. QED  BY <2>3, <2>4 DEF GuestIInv
<1>3. ASSUME runs' \subseteq runs, maker' = maker \/ \E r \in {"volume", "container"} : maker' = [maker EXCEPT ![r] = Nobody],
             UNCHANGED <<row, effects, agent, holder, net, proof, opProof, issued>>
      PROVE  GuestIInv'
  <2>1. /\ maker' \in [Things -> Ops \cup {0, Nobody}] /\ maker'["container"] \in {maker["container"], Nobody}
        /\ maker'["volume"] \in {maker["volume"], Nobody}
    BY <1>0, <1>3 DEF GuestTypes, Things
  <2>2. DoneIsTrue'
    BY <1>0, <1>3, <2>1, GuestAssumption DEF GuestLedger, DoneIsTrue, Completed
  <2>3. GuestLedger'
    BY <1>0, <1>3, <2>2 DEF GuestLedger, OneUnsettled, Unsettled, CommandsAreRecorded, ProofsAreOwn, RulesComeFirst
  <2>4. ASSUME NEW a \in Agents, Busy(a)'
        PROVE  AtWork(a)'
    <3>1. AtWork(a) /\ Does(a)' = Does(a)
      BY <1>0, <1>3, <2>4 DEF WorkIsOrderly, Busy, Does
    <3>. QED  BY <1>3, <2>1, <3>1 DEF AtWork, Acting, Unsettled, CallIsFresh
  <2>5. GuestTypes'
    BY <1>0, <1>3, <2>1 DEF GuestTypes
  <2>. QED  BY <2>3, <2>4, <2>5 DEF GuestIInv, WorkIsOrderly
<1>4. ASSUME NEW r \in {"volume", "container"}, Loses(r)
      PROVE  GuestIInv'
  BY <1>3, <1>4 DEF Loses, ledgerVars
<1>5. ASSUME NEW r \in {"container", "dns"}, Ends(r)
      PROVE  GuestIInv'
  BY <1>3, <1>5 DEF Ends, ledgerVars
<1>. QED  BY <1>1, <1>2, <1>4, <1>5

LEMMA GuestSteps == GuestIInv /\ [GuestNext]_guestVars => GuestIInv'
<1>. SUFFICES ASSUME GuestIInv, [GuestNext]_guestVars
              PROVE  GuestIInv'
  OBVIOUS
<1>1. CASE UNCHANGED guestVars
  <2>1. UNCHANGED <<row, effects, agent, holder, net, proof, opProof, maker, runs, issued>>
    BY <1>1 DEF guestVars
  <2>2. GuestTypes' /\ GuestLedger'
    BY <2>1 DEF GuestIInv, GuestTypes, GuestLedger, OneUnsettled, Unsettled, CommandsAreRecorded, ProofsAreOwn, RulesComeFirst, DoneIsTrue, Completed
  <2>3. WorkIsOrderly'
    BY <2>1 DEF GuestIInv, WorkIsOrderly, Busy, AtWork, Acting, Does, Unsettled, CallIsFresh
  <2>. QED  BY <2>2, <2>3 DEF GuestIInv
<1>. QED
  BY <1>1, DispatchStep, CheckStep, IntentStep, CallsStep, RecordsTheStep, ResumesKnown, ConcludesStep, ReconcileStep, ResumeStep, OthersStep
  DEF GuestNext

LEMMA GuestAlways == GuestSpec => []GuestIInv
BY GuestStarting, GuestSteps, PTL DEF GuestSpec

(* For any number of requests, agents, boots and resources lost: no command of an operation is given twice, and one *)
(* operation at a time has no result (dispatch and effect of ctflab_guest_agent).                                  *)
THEOREM NothingIsEverRepeated == GuestSpec => []NothingIsRepeated
<1>1. GuestIInv => NothingIsRepeated
  <2>. SUFFICES ASSUME GuestIInv
                PROVE  NothingIsRepeated
    OBVIOUS
  <2>1. Cardinality(Unsettled) <= 1
    <3>1. CASE Unsettled = {}
      BY <3>1, FS_EmptySet
    <3>2. CASE Unsettled # {}
      <4>1. PICK o \in Unsettled : Unsettled = {o}
        BY <3>2 DEF GuestIInv, GuestLedger, OneUnsettled
      <4>2. Cardinality({o}) = 1
        BY FS_Singleton
      <4>. QED  BY <4>1, <4>2
    <3>. QED  BY <3>1, <3>2
  <2>. QED  BY <2>1 DEF GuestIInv, GuestLedger, CommandsAreRecorded, NothingIsRepeated
<1>. QED  BY <1>1, GuestAlways, PTL

(* What runs behind rules has the rules of this boot, and what is answered as done is recorded, has the volume that  *)
(* it made itself and was proven by itself (container_action, resume_preparation and reconcile_network).             *)
THEOREM PreparedIsAlwaysReal == GuestSpec => []PreparedIsReal
<1>1. GuestIInv => PreparedIsReal
  <2>. SUFFICES ASSUME GuestIInv
                PROVE  PreparedIsReal
    OBVIOUS
  <2>1. ToSet(Resources) = {"volume", "container"}
    BY DEF Resources, ToSet
  <2>2. \A o \in Ops : Completed(o, "network-apply") => o \in opProof
    BY PlanSteps DEF GuestIInv, GuestLedger, DoneIsTrue, ProofsAreOwn
  <2>. QED  BY <2>1, <2>2 DEF GuestIInv, GuestLedger, DoneIsTrue, RulesComeFirst, Guarded, StepsOf, PreparedIsReal
<1>. QED  BY <1>1, GuestAlways, PTL

-----------------------------------------------------------------------------
(* The lease ledger, for any pool, clients and clocks. *)
LEMMA ReservationType ==
  ASSUME clock \in Clock, NEW i \in Managed, NEW ttl \in Nat
  PROVE  Reservation(i, ttl) \in Row
BY LeaseAssumption DEF Reservation, Row, Clock, LeaseStates, NoStop

LEMMA MarkedType ==
  ASSUME NEW entry \in Row, NEW state \in LeaseStates, NEW stop \in [gen : Nat, rev : Nat]
  PROVE  Marked(entry, state, stop) \in Row
BY DEF Marked, Row

LEMMA ExtendedType ==
  ASSUME NEW entry \in Row, NEW deadline \in Nat
  PROVE  /\ Extended(entry, deadline) \in Row
         /\ Extended(entry, deadline).deadline >= entry.deadline
BY DEF Extended, Row

LEMMA RowFields ==
  ASSUME NEW entry \in Row
  PROVE  /\ entry.state \in LeaseStates /\ entry.inst \in Managed /\ entry.issued \in Clock
         /\ entry.deadline \in Nat /\ entry.stop \in [gen : Nat, rev : Nat]
BY DEF Row

(* What a step does to the entry of one lease, or to the clocks. *)
Acquired(l, entry) ==
  /\ lease[l].state = "absent" /\ entry.state = "reserved"
  /\ HeldOn(entry.inst) = {}
  /\ entry.issued = clock
  /\ entry.inst \in storage'

Kept(l, entry) ==
  /\ Held(l) /\ entry.state # "absent"
  /\ entry.inst = lease[l].inst /\ entry.issued = lease[l].issued
  /\ entry.deadline >= lease[l].deadline

Booked ==
  /\ clock' = clock
  /\ storage \subseteq storage' /\ storage' \subseteq Managed
  /\ renewed' \subseteq Renewals
  /\ \E l \in Leases, entry \in Row :
       /\ lease' = [lease EXCEPT ![l] = entry]
       /\ Acquired(l, entry) \/ Kept(l, entry)

Advanced ==
  /\ lease' = lease /\ storage' = storage /\ renewed' = renewed
  /\ clock' \in Clock

ClockMoves == Tick \/ Sleep \/ Boot \/ \E drift \in Drifts : SetClock(drift)

LEMMA ClockAdvances ==
  ASSUME LeaseTypeOK, ClockMoves
  PROVE  Advanced
<1>0. /\ clock \in [boot : 1..MaxBoot, mono : 0..MaxMono, drift : Drifts]
      /\ MaxBoot \in Nat /\ MaxMono \in Nat /\ MaxDrift \in Nat
  BY LeaseAssumption DEF LeaseTypeOK, Clock
<1>1. CASE Tick
  BY <1>0, <1>1 DEF Tick, Advanced, Clock
<1>2. CASE Sleep
  BY <1>0, <1>2 DEF Sleep, Advanced, Clock, Drifts
<1>3. CASE Boot
  BY <1>0, <1>3 DEF Boot, Advanced, Clock
<1>4. CASE \E drift \in Drifts : SetClock(drift)
  BY <1>0, <1>4 DEF SetClock, Advanced, Clock
<1> QED BY <1>1, <1>2, <1>3, <1>4 DEF ClockMoves

LEMMA AcquireBooks ==
  ASSUME LeaseTypeOK, NEW l \in Leases, NEW i \in Managed, NEW ttl \in Ttls, Acquire(l, i, ttl)
  PROVE  Booked
<1>1. /\ Reservation(i, ttl) \in Row
      /\ Reservation(i, ttl).state = "reserved" /\ Reservation(i, ttl).inst = i
      /\ Reservation(i, ttl).issued = clock
  BY ReservationType, LeaseAssumption DEF LeaseTypeOK, Reservation
<1>2. Acquired(l, Reservation(i, ttl))
  BY <1>1 DEF Acquire, Acquired
<1> QED BY <1>1, <1>2 DEF Acquire, Booked, LeaseTypeOK

LEMMA RenewBooks ==
  ASSUME LeaseTypeOK, NEW l \in Leases, NEW r \in Renewals, NEW ttl \in Ttls, Renew(l, r, ttl)
  PROVE  Booked
<1> DEFINE entry == Extended(lease[l], clock.mono + ttl)
<1>1. lease[l] \in Row /\ clock.mono + ttl \in Nat
  BY LeaseAssumption DEF LeaseTypeOK, Clock
<1>2. entry \in Row /\ entry.deadline >= lease[l].deadline
  BY <1>1, ExtendedType
<1>3. entry.state = lease[l].state /\ entry.inst = lease[l].inst /\ entry.issued = lease[l].issued
  BY DEF Extended
<1>4. lease[l].state = "reserved"
  BY DEF Renew, Admitted
<1>5. Kept(l, entry)
  BY <1>2, <1>3, <1>4 DEF Kept, Held
<1>6. lease' = [lease EXCEPT ![l] = entry]
  BY DEF Renew
<1> HIDE DEF entry
<1> QED BY <1>2, <1>5, <1>6 DEF Renew, Booked, LeaseTypeOK

LEMMA SaveBooks ==
  ASSUME LeaseTypeOK, NEW l \in Leases, Held(l), NEW state \in LeaseStates \ {"absent"},
         NEW stop \in [gen : Nat, rev : Nat], Save(l, state, stop)
  PROVE  Booked
<1> DEFINE entry == Marked(lease[l], state, stop)
<1>1. lease[l] \in Row
  BY DEF LeaseTypeOK
<1>2. entry \in Row
  BY <1>1, MarkedType
<1>3. /\ entry.state = state /\ entry.inst = lease[l].inst /\ entry.issued = lease[l].issued
      /\ entry.deadline = lease[l].deadline
  BY DEF Marked
<1>4. lease[l].deadline \in Nat
  BY <1>1, RowFields
<1>5. Kept(l, entry)
  BY <1>3, <1>4 DEF Kept
<1>6. lease' = [lease EXCEPT ![l] = entry]
  BY DEF Save
<1> HIDE DEF entry
<1> QED BY <1>2, <1>5, <1>6 DEF Save, Booked, LeaseTypeOK

LEMMA TransactionBooks ==
  ASSUME LeaseTypeOK, Transaction
  PROVE  Booked
<1>0. \A l \in Leases : lease[l].stop \in [gen : Nat, rev : Nat]
  BY RowFields DEF LeaseTypeOK
<1>1. CASE \E l \in Leases, i \in Managed, ttl \in Ttls : Acquire(l, i, ttl)
  BY <1>1, AcquireBooks
<1>2. CASE \E l \in Leases, r \in Renewals, ttl \in Ttls : Renew(l, r, ttl)
  BY <1>2, RenewBooks
<1>3. CASE \E l \in Leases : Held(l) /\ \E state \in {"attention", "stop-intent", "stop-submitted"} :
                               Save(l, state, lease[l].stop)
  BY <1>0, <1>3, SaveBooks DEF LeaseStates
<1>4. CASE \E l \in Leases : Release(l)
  BY <1>0, <1>4, SaveBooks DEF LeaseStates, Release
<1> QED BY <1>1, <1>2, <1>3, <1>4 DEF Transaction

(* The ledger is kept whichever of its entries is written. *)
LEMMA LedgerKept ==
  ASSUME LeaseTypeOK, OneLeasePerInstance, DiskStaysReserved,
         Booked \/ Advanced \/ UNCHANGED leaseVars
  PROVE  LeaseTypeOK' /\ OneLeasePerInstance' /\ DiskStaysReserved'
<1>1. CASE Booked
  <2>1. PICK l \in Leases, entry \in Row :
          /\ lease' = [lease EXCEPT ![l] = entry]
          /\ Acquired(l, entry) \/ Kept(l, entry)
    BY <1>1 DEF Booked
  <2>2. /\ lease'[l] = entry /\ \A m \in Leases : m # l => lease'[m] = lease[m]
        /\ clock' = clock
        /\ storage \subseteq storage' /\ storage' \subseteq Managed /\ renewed' \subseteq Renewals
    BY <1>1, <2>1 DEF Booked, LeaseTypeOK
  <2>3. LeaseTypeOK'
    BY <2>1, <2>2 DEF LeaseTypeOK
  <2>4. OneLeasePerInstance'
    BY <2>1, <2>2 DEF OneLeasePerInstance, Held, HeldOn, Acquired, Kept
  <2>5. DiskStaysReserved'
    BY <2>1, <2>2 DEF DiskStaysReserved, Acquired, Kept, Held
  <2> QED BY <2>3, <2>4, <2>5
<1>2. CASE Advanced
  BY <1>2 DEF Advanced, LeaseTypeOK, OneLeasePerInstance, DiskStaysReserved, Held
<1>3. CASE UNCHANGED leaseVars
  BY <1>3 DEF leaseVars, LeaseTypeOK, OneLeasePerInstance, DiskStaysReserved, Held
<1> QED BY <1>1, <1>2, <1>3

-----------------------------------------------------------------------------
LEMMA InitInv == TimedInit => TimedInv
<1> SUFFICES ASSUME TimedInit PROVE TimedInv
  OBVIOUS
<1> DEFINE i == CHOOSE i \in Managed : TRUE
           entry == Marked(Reservation(i, 0), "absent", NoStop)
<1>1. clock \in Clock /\ clock.boot = 1 /\ clock.mono = 0 /\ clock.drift = 0
  BY LeaseAssumption DEF TimedInit, LeaseInit, Clock, Drifts
<1>2. i \in Managed
  BY LeaseAssumption
<1>3. entry \in Row
  BY <1>1, <1>2, ReservationType, MarkedType DEF LeaseStates, NoStop
<1>4. entry.state = "absent" /\ entry.issued = clock /\ entry.deadline = 0
  BY <1>1 DEF Marked, Reservation
<1>5. lease = [l \in Leases |-> entry]
  BY DEF TimedInit, LeaseInit
<1> HIDE DEF entry
<1>6. \A l \in Leases : lease[l] = entry
  BY <1>5
<1>7. LeaseTypeOK
  BY <1>1, <1>3, <1>5 DEF LeaseTypeOK, TimedInit, LeaseInit
<1>8. OneLeasePerInstance /\ DiskStaysReserved
  BY <1>4, <1>6 DEF OneLeasePerInstance, DiskStaysReserved, Held
<1>9. IssuedBefore /\ LateBySleep
  BY <1>1, <1>4, <1>6 DEF IssuedBefore, LateBySleep, TimedInit
<1> QED BY <1>7, <1>8, <1>9 DEF TimedInv, TimedInit

LEMMA TransactionStep ==
  ASSUME TimedInv, TimedTransaction
  PROVE  TimedInv'
<1>0. /\ LeaseTypeOK /\ real \in Nat /\ due \in [Leases -> Int] /\ byHand \in [Leases -> Int]
      /\ \A l \in Leases : lease[l] \in Row
      /\ clock.boot \in Int /\ clock.mono \in Int /\ clock.drift \in Int
  BY LeaseAssumption DEF TimedInv, LeaseTypeOK, Clock, Drifts
<1>1. Booked
  BY <1>0, TransactionBooks DEF TimedTransaction
<1>2. PICK l \in Leases, entry \in Row :
        /\ lease' = [lease EXCEPT ![l] = entry]
        /\ Acquired(l, entry) \/ Kept(l, entry)
  BY <1>1 DEF Booked
<1>3. /\ lease'[l] = entry /\ \A m \in Leases : m # l => lease'[m] = lease[m]
      /\ clock' = clock /\ real' = real
  BY <1>0, <1>1, <1>2 DEF Booked, TimedTransaction, LeaseTypeOK
<1>4. LeaseTypeOK' /\ OneLeasePerInstance' /\ DiskStaysReserved'
  BY <1>1, LedgerKept DEF TimedInv
<1>5. \A m \in Leases : lease'[m].deadline \in Int /\ lease[m].deadline \in Int
                          /\ lease'[m].issued.drift \in Int /\ lease[m].issued.drift \in Int
  BY <1>0, <1>4, RowFields, LeaseAssumption DEF LeaseTypeOK, Clock, Drifts
<1>6. due' \in [Leases -> Int] /\ byHand' \in [Leases -> Int]
  BY <1>0, <1>5 DEF TimedTransaction
<1>7. IssuedBefore'
  BY <1>0, <1>2, <1>3 DEF TimedInv, IssuedBefore, Acquired, Kept
<1>8. LateBySleep'
  <2> SUFFICES ASSUME NEW m \in Leases, lease'[m].state # "absent", lease'[m].issued.boot = clock.boot
               PROVE  /\ clock.drift - lease'[m].issued.drift - byHand'[m] >= 0
                      /\ real - due'[m] <= clock.mono - lease'[m].deadline
                                             + (clock.drift - lease'[m].issued.drift - byHand'[m])
    BY <1>3 DEF LateBySleep, Slept
  <2>1. CASE Granted(m)
    <3>1. m = l /\ Acquired(l, entry)
      BY <1>2, <1>3, <2>1 DEF Granted, Kept, Held
    <3>2. lease'[m].issued.drift = clock.drift
      BY <1>3, <3>1 DEF Acquired
    <3>3. byHand'[m] = 0 /\ due'[m] = real + (lease'[m].deadline - clock.mono)
      BY <2>1 DEF TimedTransaction
    <3>. QED  BY <1>0, <1>5, <3>2, <3>3
  <2>2. CASE ~Granted(m)
    <3>1. byHand'[m] = byHand[m] /\ lease[m].state # "absent"
      BY <2>2 DEF TimedTransaction, Granted
    <3>2. lease'[m].issued = lease[m].issued
      BY <1>2, <1>3, <3>1 DEF Acquired, Kept
    <3>3. /\ clock.drift - lease[m].issued.drift - byHand[m] >= 0
          /\ real - due[m] <= clock.mono - lease[m].deadline
                                 + (clock.drift - lease[m].issued.drift - byHand[m])
      BY <3>1, <3>2 DEF TimedInv, LateBySleep, Slept
    <3>4. CASE lease'[m].deadline # lease[m].deadline
      <4>1. due'[m] = real + (lease'[m].deadline - clock.mono)
        BY <3>4 DEF TimedTransaction
      <4>. QED  BY <1>0, <1>5, <3>1, <3>2, <3>3, <4>1
    <3>5. CASE lease'[m].deadline = lease[m].deadline
      <4>1. due'[m] = due[m]
        BY <2>2, <3>5 DEF TimedTransaction
      <4>. QED  BY <3>1, <3>2, <3>3, <3>5, <4>1
    <3>. QED  BY <3>4, <3>5
  <2>. QED  BY <2>1, <2>2
<1>. QED  BY <1>0, <1>3, <1>4, <1>6, <1>7, <1>8 DEF TimedInv

LEMMA ClockStep ==
  ASSUME TimedInv, TimedClock
  PROVE  TimedInv'
<1>0. /\ LeaseTypeOK /\ real \in Nat /\ due \in [Leases -> Int] /\ byHand \in [Leases -> Int]
      /\ clock \in [boot : 1..MaxBoot, mono : 0..MaxMono, drift : Drifts]
      /\ clock.boot \in Int /\ clock.mono \in Int /\ clock.drift \in Int
  BY LeaseAssumption DEF TimedInv, LeaseTypeOK, Clock, Drifts
<1>1. Advanced
  BY <1>0, ClockAdvances DEF TimedClock, ClockMoves
<1>2. lease' = lease /\ due' = due
  BY <1>1 DEF Advanced, TimedClock
<1>3. LeaseTypeOK' /\ OneLeasePerInstance' /\ DiskStaysReserved'
  BY <1>1, LedgerKept DEF TimedInv
<1>4. \A m \in Leases : /\ lease[m].issued.boot \in Int /\ lease[m].issued.drift \in Int
                          /\ lease[m].deadline \in Int /\ due[m] \in Int /\ byHand[m] \in Int
  BY <1>0, RowFields, LeaseAssumption DEF LeaseTypeOK, Clock, Drifts
<1>5. \A m \in Leases : lease[m].issued.boot <= clock.boot
  BY DEF TimedInv, IssuedBefore
<1>6. \A m \in Leases : lease[m].state # "absent" /\ lease[m].issued.boot = clock.boot =>
        /\ clock.drift - lease[m].issued.drift - byHand[m] >= 0
        /\ real - due[m] <= clock.mono - lease[m].deadline
                               + (clock.drift - lease[m].issued.drift - byHand[m])
  BY DEF TimedInv, LateBySleep, Slept
<1> DEFINE Behind == /\ real' \in Nat /\ byHand' \in [Leases -> Int]
                     /\ \A m \in Leases : lease[m].issued.boot <= clock'.boot
                     /\ \A m \in Leases : lease[m].state # "absent" /\ lease[m].issued.boot = clock'.boot =>
                          /\ clock'.drift - lease[m].issued.drift - byHand'[m] >= 0
                          /\ real' - due[m] <= clock'.mono - lease[m].deadline
                                                  + (clock'.drift - lease[m].issued.drift - byHand'[m])
<1>7. ASSUME Tick, real' = real + 1, byHand' = byHand PROVE Behind
  <2>1. clock'.boot = clock.boot /\ clock'.drift = clock.drift /\ clock'.mono = clock.mono + 1
    BY <1>0, <1>7 DEF Tick
  <2>. QED  BY <1>0, <1>4, <1>5, <1>6, <1>7, <2>1
<1>8. ASSUME Sleep, real' = real + 1, byHand' = byHand PROVE Behind
  <2>1. clock'.boot = clock.boot /\ clock'.drift = clock.drift + 1 /\ clock'.mono = clock.mono
    BY <1>0, <1>8 DEF Sleep
  <2>. QED  BY <1>0, <1>4, <1>5, <1>6, <1>8, <2>1
<1>9. ASSUME Boot, real' \in {real, real + 1}, byHand' = byHand PROVE Behind
  <2>1. clock'.boot = clock.boot + 1
    BY <1>0, <1>9 DEF Boot
  <2>. QED  BY <1>0, <1>4, <1>5, <1>9, <2>1
<1>10. ASSUME NEW drift \in Drifts, SetClock(drift), real' = real,
              byHand' = [l \in Leases |-> byHand[l] + (drift - clock.drift)]
       PROVE  Behind
  <2>2. clock'.boot = clock.boot /\ clock'.drift = drift /\ clock'.mono = clock.mono /\ drift \in Int
    BY <1>0, <1>10, LeaseAssumption DEF SetClock, Drifts
  <2>3. byHand' \in [Leases -> Int]
    BY <1>0, <1>4, <1>10, <2>2
  <2>4. \A m \in Leases : byHand'[m] = byHand[m] + (drift - clock.drift)
    BY <1>10
  <2>5. \A m \in Leases : clock'.drift - lease[m].issued.drift - byHand'[m]
                            = clock.drift - lease[m].issued.drift - byHand[m]
    BY <1>0, <1>4, <2>2, <2>4
  <2>. QED  BY <1>0, <1>5, <1>6, <1>10, <2>2, <2>3, <2>5
<1>11. Behind
  BY <1>7, <1>8, <1>9, <1>10 DEF TimedClock
<1>12. IssuedBefore' /\ LateBySleep'
  BY <1>2, <1>11 DEF IssuedBefore, LateBySleep, Slept
<1>. QED  BY <1>0, <1>2, <1>3, <1>11, <1>12 DEF TimedInv

LEMMA StepInv == TimedInv /\ [TimedNext]_timedVars => TimedInv'
<1> SUFFICES ASSUME TimedInv, UNCHANGED timedVars PROVE TimedInv'
  BY TransactionStep, ClockStep DEF TimedNext
<1>. QED
  BY DEF timedVars, leaseVars, TimedInv, LeaseTypeOK, OneLeasePerInstance, DiskStaysReserved,
         IssuedBefore, LateBySleep, Slept, Held

(* The invariant of the ledger, for every pool: it is inductive. *)
THEOREM LedgerHolds == TimedSpec => []TimedInv
BY InitInv, StepInv, PTL DEF TimedSpec

(* No instance is ever leased twice. *)
THEOREM LeasedOnce == TimedSpec => []OneLeasePerInstance
<1>1. TimedInv => OneLeasePerInstance
  BY DEF TimedInv
<1> QED BY <1>1, LedgerHolds, PTL

(* A reserved disk is never forgotten. *)
THEOREM DiskReserved == TimedSpec => []DiskStaysReserved
<1>1. TimedInv => DiskStaysReserved
  BY DEF TimedInv
<1> QED BY <1>1, LedgerHolds, PTL

(* A lease entitles nobody for longer past the time it was granted for than the
   tolerance of time_state, however often the host slept or was booted and
   however often the lease was renewed; setting the wall clock back adds no
   more than it was set back by. *)
THEOREM EntitlementEnds == TimedSpec => []EntitledOnlyInTime
<1>1. TimedInv => EntitledOnlyInTime
  <2> SUFFICES ASSUME TimedInv, NEW l \in Leases, Admitted(l, lease[l].inst)
               PROVE  real < due[l] + Tolerance - byHand[l]
    BY DEF EntitledOnlyInTime
  <2>1. /\ lease[l] \in Row /\ clock.mono \in Int /\ clock.drift \in Int
        /\ real \in Int /\ due[l] \in Int /\ byHand[l] \in Int /\ Tolerance \in Int
    BY LeaseAssumption DEF TimedInv, LeaseTypeOK, Clock, Drifts
  <2>2. lease[l].deadline \in Int /\ lease[l].issued.drift \in Int
    BY <2>1, RowFields, LeaseAssumption DEF Clock, Drifts
  <2>3. /\ lease[l].issued.boot = clock.boot /\ lease[l].state = "reserved"
        /\ ~(clock.drift - lease[l].issued.drift > Tolerance)
        /\ ~(clock.mono >= lease[l].deadline)
    BY DEF Admitted, TimeState, Elsewhere, Parted
  <2>4. real - due[l] <= clock.mono - lease[l].deadline + (clock.drift - lease[l].issued.drift - byHand[l])
    BY <2>3 DEF TimedInv, LateBySleep, Slept
  <2> QED BY <2>1, <2>2, <2>3, <2>4
<1> QED BY <1>1, LedgerHolds, PTL

(* Granted time is never cut short, and a released lease never comes back. *)
THEOREM GrantsAreKept == TimedSpec => GrantsStand
<1> DEFINE Stand(l) == /\ Held(l) => lease'[l].deadline >= lease[l].deadline
                       /\ lease[l].state = "released" => lease'[l] = lease[l]
<1>1. TimedInv /\ [TimedNext]_timedVars => [\A l \in Leases : Stand(l)]_timedVars
  <2> SUFFICES ASSUME TimedInv, TimedNext, NEW m \in Leases PROVE Stand(m)
    OBVIOUS
  <2>1. lease \in [Leases -> Row] /\ lease[m].deadline \in Nat
    BY RowFields DEF TimedInv, LeaseTypeOK
  <2>2. CASE Booked
    <3>1. PICK l \in Leases, entry \in Row :
            /\ lease' = [lease EXCEPT ![l] = entry]
            /\ Acquired(l, entry) \/ Kept(l, entry)
      BY <2>2 DEF Booked
    <3>2. CASE m = l
      BY <2>1, <3>1, <3>2 DEF Acquired, Kept, Held
    <3>3. CASE m # l
      BY <2>1, <3>1, <3>3
    <3> QED BY <3>2, <3>3
  <2>3. CASE TimedClock
    BY <2>1, <2>3, ClockAdvances DEF Advanced, ClockMoves, TimedClock, TimedInv
  <2> QED BY <2>2, <2>3, TransactionBooks DEF TimedInv, TimedNext, TimedTransaction
<1> QED BY <1>1, LedgerHolds, PTL DEF TimedSpec, GrantsStand

-----------------------------------------------------------------------------
(* The limits.  What is used is counted unit by unit, so that a lease adds *)
(* the units of one instance, and no transaction adds more than it asked   *)
(* fits for.                                                               *)

(* A new set of units, and how many there are of one holder. *)
LEMMA OneHoldersUnits ==
  ASSUME NEW x, NEW n \in Nat
  PROVE  IsFiniteSet({x} \X (1..n)) /\ Cardinality({x} \X (1..n)) = n
<1> DEFINE A == {x}
           B == 1..n
<1>1. IsFiniteSet(A) /\ Cardinality(A) = 1
  BY FS_Singleton
<1>2. IsFiniteSet(B) /\ Cardinality(B) = n
  BY FS_Interval
<1> HIDE DEF A, B
<1>3. IsFiniteSet(A \X B) /\ Cardinality(A \X B) = Cardinality(A) * Cardinality(B)
  BY <1>1, <1>2, FS_Product
<1>4. 1 * n = n
  OBVIOUS
<1>5. IsFiniteSet(A \X B) /\ Cardinality(A \X B) = n
  BY <1>1, <1>2, <1>3, <1>4, Zenon
<1>. QED  BY <1>5 DEF A, B

LEMMA UnitsAdded ==
  ASSUME NEW S, NEW T, NEW x, NEW n \in Nat, IsFiniteSet(S), T \subseteq S \cup ({x} \X (1..n))
  PROVE  IsFiniteSet(T) /\ Cardinality(T) <= Cardinality(S) + n
<1> DEFINE U == {x} \X (1..n)
<1>1. IsFiniteSet(U) /\ Cardinality(U) = n
  BY OneHoldersUnits
<1> HIDE DEF U
<1>2. IsFiniteSet(S \cup U) /\ Cardinality(S \cup U) = Cardinality(S) + n - Cardinality(S \cap U)
  BY <1>1, FS_Union
<1>3. IsFiniteSet(S \cap U)
  BY FS_Intersection
<1>4. Cardinality(S) \in Nat /\ Cardinality(S \cap U) \in Nat
  BY <1>3, FS_CardinalityType
<1>5. T \in SUBSET (S \cup U)
  BY DEF U
<1>6. IsFiniteSet(T) /\ Cardinality(T) <= Cardinality(S \cup U)
  BY <1>2, <1>5, FS_Subset
<1>7. Cardinality(T) \in Nat
  BY <1>6, FS_CardinalityType
<1>. QED  BY <1>2, <1>4, <1>6, <1>7

LEMMA UnitsKept ==
  ASSUME NEW S, NEW T, IsFiniteSet(S), T \subseteq S
  PROVE  IsFiniteSet(T) /\ Cardinality(T) <= Cardinality(S) /\ Cardinality(T) \in Nat /\ Cardinality(S) \in Nat
BY FS_Subset, FS_CardinalityType

(* What a transaction does to the units: nothing is taken, or the units of *)
(* one more instance, which its pool and its owner have room for.          *)
Spares == \A S \in SUBSET Managed : LeasedUnits(S)' \subseteq LeasedUnits(S) /\ DiskUnits(S)' \subseteq DiskUnits(S)
Adds(l, i) ==
  /\ Fits(i, Cost[i], NewDisk(i))
  /\ \A S \in SUBSET Managed :
       /\ LeasedUnits(S)' \subseteq LeasedUnits(S) \cup (IF i \in S THEN {l} \X (1..Cost[i]) ELSE {})
       /\ DiskUnits(S)' \subseteq DiskUnits(S) \cup (IF i \in S THEN {i} \X (1..NewDisk(i)) ELSE {})

(* The units are finitely many, and of the pool and of every principal, within the limit. *)
LimitsInv == IsFiniteSet(LeasedUnits(Managed)) /\ IsFiniteSet(DiskUnits(Managed)) /\ WithinLimits

LEMMA UnitsOfFewer ==
  ASSUME NEW S \in SUBSET Managed
  PROVE  LeasedUnits(S) \subseteq LeasedUnits(Managed) /\ DiskUnits(S) \subseteq DiskUnits(Managed)
BY DEF LeasedUnits, DiskUnits

LEMMA SameUnits ==
  ASSUME NEW S \in SUBSET Managed, LeaseTypeOK,
         \A l \in Leases : Held(l)' => Held(l) /\ lease'[l].inst = lease[l].inst, storage' \subseteq storage
  PROVE  LeasedUnits(S)' \subseteq LeasedUnits(S) /\ DiskUnits(S)' \subseteq DiskUnits(S)
BY DEF LeasedUnits, DiskUnits

LEMMA SparedWithinLimits == ASSUME LimitsInv, Spares PROVE LimitsInv'
<1>1. \A p \in {Owner[i] : i \in Managed} : OwnedBy(p) \in SUBSET Managed
  BY DEF OwnedBy
<1>2. ASSUME NEW S \in SUBSET Managed
      PROVE  /\ IsFiniteSet(LeasedUnits(S)') /\ IsFiniteSet(DiskUnits(S)')
             /\ InUse(S)' <= InUse(S) /\ Stored(S)' <= Stored(S)
             /\ InUse(S) \in Nat /\ InUse(S)' \in Nat /\ Stored(S) \in Nat /\ Stored(S)' \in Nat
  <2>1. IsFiniteSet(LeasedUnits(S)) /\ IsFiniteSet(DiskUnits(S))
    BY UnitsOfFewer, FS_Subset DEF LimitsInv
  <2>2. LeasedUnits(S)' \subseteq LeasedUnits(S) /\ DiskUnits(S)' \subseteq DiskUnits(S)
    BY DEF Spares
  <2>3. /\ IsFiniteSet(LeasedUnits(S)') /\ Cardinality(LeasedUnits(S)') <= Cardinality(LeasedUnits(S))
        /\ Cardinality(LeasedUnits(S)') \in Nat /\ Cardinality(LeasedUnits(S)) \in Nat
    BY <2>1, <2>2, UnitsKept
  <2>4. /\ IsFiniteSet(DiskUnits(S)') /\ Cardinality(DiskUnits(S)') <= Cardinality(DiskUnits(S))
        /\ Cardinality(DiskUnits(S)') \in Nat /\ Cardinality(DiskUnits(S)) \in Nat
    BY <2>1, <2>2, UnitsKept
  <2>. QED  BY <2>3, <2>4 DEF InUse, Stored
<1>3. Capacity \in Nat /\ \A p \in {Owner[i] : i \in Managed} : Limit[p] \in Nat
  BY LeaseAssumption
<1>4. InUse(Managed)' <= Capacity /\ Stored(Managed)' <= Capacity
  BY <1>2, <1>3 DEF LimitsInv, WithinLimits
<1>5. ASSUME NEW p \in {Owner[i] : i \in Managed} PROVE InUse(OwnedBy(p))' <= Limit[p] /\ Stored(OwnedBy(p))' <= Limit[p]
  <2>1. InUse(OwnedBy(p)) <= Limit[p] /\ Stored(OwnedBy(p)) <= Limit[p]
    BY DEF LimitsInv, WithinLimits
  <2>. QED  BY <1>1, <1>2, <1>3, <2>1
<1>. QED  BY <1>2, <1>4, <1>5 DEF LimitsInv, WithinLimits


LEMMA AddedWithinLimits == ASSUME LimitsInv, NEW l \in Leases, NEW i \in Managed, Adds(l, i) PROVE LimitsInv'
<1>0. /\ Cost[i] \in Nat /\ NewDisk(i) \in Nat
      /\ Capacity \in Nat /\ \A p \in {Owner[j] : j \in Managed} : Limit[p] \in Nat
      /\ \A p \in {Owner[j] : j \in Managed} : OwnedBy(p) \in SUBSET Managed
  BY LeaseAssumption DEF NewDisk, OwnedBy
<1>1. ASSUME NEW S \in SUBSET Managed
      PROVE  /\ IsFiniteSet(LeasedUnits(S)) /\ IsFiniteSet(DiskUnits(S))
             /\ InUse(S) \in Nat /\ Stored(S) \in Nat
  <2>1. IsFiniteSet(LeasedUnits(S)) /\ IsFiniteSet(DiskUnits(S))
    BY UnitsOfFewer, FS_Subset DEF LimitsInv
  <2>. QED  BY <2>1, FS_CardinalityType DEF InUse, Stored
<1>2. ASSUME NEW S \in SUBSET Managed, i \in S
      PROVE  /\ IsFiniteSet(LeasedUnits(S)') /\ IsFiniteSet(DiskUnits(S)')
             /\ InUse(S)' <= InUse(S) + Cost[i] /\ Stored(S)' <= Stored(S) + NewDisk(i)
             /\ InUse(S)' \in Nat /\ Stored(S)' \in Nat
  <2>1. /\ LeasedUnits(S)' \subseteq LeasedUnits(S) \cup ({l} \X (1..Cost[i]))
        /\ DiskUnits(S)' \subseteq DiskUnits(S) \cup ({i} \X (1..NewDisk(i)))
    BY <1>2 DEF Adds
  <2>2. IsFiniteSet(LeasedUnits(S)') /\ Cardinality(LeasedUnits(S)') <= Cardinality(LeasedUnits(S)) + Cost[i]
    BY <1>0, <1>1, <2>1, UnitsAdded
  <2>3. IsFiniteSet(DiskUnits(S)') /\ Cardinality(DiskUnits(S)') <= Cardinality(DiskUnits(S)) + NewDisk(i)
    BY <1>0, <1>1, <2>1, UnitsAdded
  <2>. QED  BY <2>2, <2>3, FS_CardinalityType DEF InUse, Stored
<1>3. ASSUME NEW S \in SUBSET Managed, i \notin S
      PROVE  InUse(S)' <= InUse(S) /\ Stored(S)' <= Stored(S) /\ InUse(S)' \in Nat /\ Stored(S)' \in Nat
  <2>1. LeasedUnits(S)' \subseteq LeasedUnits(S) /\ DiskUnits(S)' \subseteq DiskUnits(S)
    BY <1>3 DEF Adds
  <2>2. Cardinality(LeasedUnits(S)') <= Cardinality(LeasedUnits(S)) /\ Cardinality(LeasedUnits(S)') \in Nat
    BY <1>1, <2>1, UnitsKept
  <2>3. Cardinality(DiskUnits(S)') <= Cardinality(DiskUnits(S)) /\ Cardinality(DiskUnits(S)') \in Nat
    BY <1>1, <2>1, UnitsKept
  <2>. QED  BY <2>2, <2>3 DEF InUse, Stored
<1>4. /\ InUse(Managed) + Cost[i] <= Capacity /\ Stored(Managed) + NewDisk(i) <= Capacity
      /\ InUse(OwnedBy(Owner[i])) + Cost[i] <= Limit[Owner[i]]
      /\ Stored(OwnedBy(Owner[i])) + NewDisk(i) <= Limit[Owner[i]]
  BY DEF Adds, Fits, FitsPool
<1>5. InUse(Managed)' <= Capacity /\ Stored(Managed)' <= Capacity
  BY <1>0, <1>1, <1>2, <1>4
<1>6. ASSUME NEW p \in {Owner[j] : j \in Managed} PROVE InUse(OwnedBy(p))' <= Limit[p] /\ Stored(OwnedBy(p))' <= Limit[p]
  <2>1. CASE p = Owner[i]
    <3>1. i \in OwnedBy(p) /\ OwnedBy(p) \in SUBSET Managed
      BY <1>0, <2>1 DEF OwnedBy
    <3>2. /\ InUse(OwnedBy(p))' <= InUse(OwnedBy(p)) + Cost[i] /\ Stored(OwnedBy(p))' <= Stored(OwnedBy(p)) + NewDisk(i)
          /\ InUse(OwnedBy(p))' \in Nat /\ Stored(OwnedBy(p))' \in Nat /\ InUse(OwnedBy(p)) \in Nat /\ Stored(OwnedBy(p)) \in Nat
      BY <1>1, <1>2, <3>1
    <3>3. InUse(OwnedBy(p)) + Cost[i] <= Limit[p] /\ Stored(OwnedBy(p)) + NewDisk(i) <= Limit[p] /\ Limit[p] \in Nat
      BY <1>0, <1>4, <2>1
    <3>. QED  BY <1>0, <3>2, <3>3
  <2>2. CASE p # Owner[i]
    <3>1. i \notin OwnedBy(p) /\ OwnedBy(p) \in SUBSET Managed
      BY <1>0, <2>2 DEF OwnedBy
    <3>2. InUse(OwnedBy(p)) <= Limit[p] /\ Stored(OwnedBy(p)) <= Limit[p]
      BY DEF LimitsInv, WithinLimits
    <3>. QED  BY <1>0, <1>1, <1>3, <3>1, <3>2
  <2>. QED  BY <2>1, <2>2
<1>7. IsFiniteSet(LeasedUnits(Managed)') /\ IsFiniteSet(DiskUnits(Managed)')
  BY <1>2
<1>. QED  BY <1>5, <1>6, <1>7 DEF LimitsInv, WithinLimits

LEMMA AcquireAdds ==
  ASSUME LeaseTypeOK, NEW l \in Leases, NEW i \in Managed, NEW ttl \in Ttls, Acquire(l, i, ttl)
  PROVE  Adds(l, i)
<1>1. /\ lease'[l].inst = i /\ \A k \in Leases \ {l} : lease'[k] = lease[k]
      /\ ~ Held(l) /\ storage' = storage \cup {i}
  BY DEF Acquire, Reservation, Held, LeaseTypeOK
<1>2. ASSUME NEW S \in SUBSET Managed, NEW u \in LeasedUnits(S)'
      PROVE  u \in LeasedUnits(S) \cup (IF i \in S THEN {l} \X (1..Cost[i]) ELSE {})
  <2>1. PICK k \in Leases : Held(k)' /\ lease'[k].inst \in S /\ u \in {k} \X (1..Cost[lease'[k].inst])
    BY <1>2 DEF LeasedUnits
  <2>2. CASE k = l
    BY <1>1, <2>1, <2>2
  <2>3. CASE k # l
    <3>1. lease'[k] = lease[k]
      BY <1>1, <2>3
    <3>. QED  BY <2>1, <3>1 DEF LeasedUnits, Held
  <2>. QED  BY <2>2, <2>3
<1>3. ASSUME NEW S \in SUBSET Managed, NEW u \in DiskUnits(S)'
      PROVE  u \in DiskUnits(S) \cup (IF i \in S THEN {i} \X (1..NewDisk(i)) ELSE {})
  <2>1. PICK j \in storage' \cap S : u \in {j} \X (1..Disk[j])
    BY <1>3 DEF DiskUnits
  <2>2. CASE j \in storage
    BY <2>1, <2>2 DEF DiskUnits
  <2>3. CASE j \notin storage
    <3>1. j = i /\ NewDisk(i) = Disk[i]
      BY <1>1, <2>1, <2>3 DEF NewDisk
    <3>. QED  BY <2>1, <3>1
  <2>. QED  BY <2>2, <2>3
<1>4. Fits(i, Cost[i], NewDisk(i))
  BY DEF Acquire
<1>. QED  BY <1>2, <1>3, <1>4 DEF Adds

LEMMA LimitsInitially == TimedInit => LimitsInv
<1> SUFFICES ASSUME TimedInit PROVE LimitsInv
  OBVIOUS
<1>1. \A l \in Leases : ~ Held(l)
  BY DEF TimedInit, LeaseInit, Marked, Held
<1>2. storage = {}
  BY DEF TimedInit, LeaseInit
<1>3. ASSUME NEW S PROVE LeasedUnits(S) = {} /\ DiskUnits(S) = {}
  BY <1>1, <1>2 DEF LeasedUnits, DiskUnits
<1>4. IsFiniteSet({}) /\ Cardinality({}) = 0
  BY FS_EmptySet
<1>5. ASSUME NEW S PROVE InUse(S) = 0 /\ Stored(S) = 0
  BY <1>3, <1>4 DEF InUse, Stored
<1>6. Capacity \in Nat /\ \A p \in {Owner[i] : i \in Managed} : Limit[p] \in Nat
  BY LeaseAssumption
<1>7. WithinLimits
  BY <1>5, <1>6 DEF WithinLimits
<1>. QED  BY <1>3, <1>4, <1>7 DEF LimitsInv

LEMMA LimitsStep == LimitsInv /\ TimedInv /\ [TimedNext]_timedVars => LimitsInv'
<1> SUFFICES ASSUME LimitsInv, TimedInv, [TimedNext]_timedVars PROVE LimitsInv'
  OBVIOUS
<1>0. LeaseTypeOK
  BY DEF TimedInv
<1>1. CASE \E l \in Leases, i \in Managed, ttl \in Ttls : Acquire(l, i, ttl)
  BY <1>0, <1>1, AcquireAdds, AddedWithinLimits
<1> DEFINE Same == (\A l \in Leases : Held(l)' => Held(l) /\ lease'[l].inst = lease[l].inst) /\ storage' \subseteq storage
<1>2. ASSUME Same PROVE LimitsInv'
  <2>1. Spares
    BY <1>0, <1>2, SameUnits DEF Spares
  <2>. QED  BY <2>1, SparedWithinLimits
<1>3. ASSUME NEW l \in Leases, NEW state, NEW stop, Held(l), Save(l, state, stop) PROVE LimitsInv'
  <2>1. Same
    BY <1>0, <1>3 DEF Save, Marked, Held, LeaseTypeOK
  <2>. QED  BY <1>2, <2>1
<1>4. CASE \E l \in Leases : Held(l) /\ \E state \in {"attention", "stop-intent", "stop-submitted"} : Save(l, state, lease[l].stop)
  BY <1>3, <1>4
<1>5. CASE \E l \in Leases : Release(l)
  BY <1>3, <1>5 DEF Release
<1>6. CASE \E l \in Leases, r \in Renewals, ttl \in Ttls : Renew(l, r, ttl)
  <2>1. Same
    BY <1>0, <1>6 DEF Renew, Extended, Held, LeaseTypeOK
  <2>. QED  BY <1>2, <2>1
<1>7. CASE TimedClock \/ UNCHANGED timedVars
  <2>1. Same
    BY <1>7 DEF TimedClock, Tick, Sleep, Boot, SetClock, timedVars, leaseVars, Held
  <2>. QED  BY <1>2, <2>1
<1>. QED  BY <1>1, <1>4, <1>5, <1>6, <1>7 DEF TimedNext, TimedTransaction, Transaction

(* What is leased and what is stored never exceeds the pool or the share   *)
(* of a principal, for any pool, costs and limits (acquire_locked, fits,   *)
(* usage): a lease that has ended gives its units back once, and the disk  *)
(* of an instance is reserved once.                                        *)
THEOREM LimitsAlwaysKept == TimedSpec => []WithinLimits
<1>1. LimitsInv => WithinLimits
  BY DEF LimitsInv
<1> QED BY <1>1, LimitsInitially, LimitsStep, LedgerHolds, PTL DEF TimedSpec

-----------------------------------------------------------------------------
(***************************************************************************)
(* One managed instance, for any number of leases, operations and workers: *)
(* the ledger of leases, the contract service, its jobs and the scheduler, *)
(* any of which may die.                                                   *)
(*                                                                         *)
(* A permit is written for a recorded operation, under a lease of this     *)
(* instance; only a permitted job executes, and whoever acts on leases, a  *)
(* job or the scheduler, holds the pool's gate, so that a lease that was   *)
(* found reserved still is when the machine starts.                        *)
(***************************************************************************)
ManagedTyped ==
  /\ pool \in Workers \cup {Free, Others, Scheduler}
  /\ permit \in [OpIds -> [lease : Leases \cup {NoLease}, purpose : {"none", "remote", "expiry"}]]
  /\ job \in [Workers -> {"none", "bound", "denied", "armed", "done"}]
  /\ sched \in [pc : {"idle", "submit", "record"}, lease : Leases \cup {NoLease}]
  /\ machine \in {"on", "off"}

PermittedUnder(o, l) ==
  permit[o] # NoPermit /\ ops[o].kind \notin Safe
    => l \in Leases /\ lease[l].state # "absent" /\ lease[l].inst = I

PermitsAreOurs ==
  /\ \A o \in OpIds \ Recorded : permit[o] = NoPermit
  /\ \A o \in Recorded : PermittedUnder(o, permit[o].lease)

JobsArePermitted == \A w \in Workers : work[w].pc # "idle" => permit[work[w].op] # NoPermit
JobsHoldThePool == \A w \in Workers : job[w] \in {"bound", "armed", "done"} => pool = w
ArmedIsInside == \A w \in Workers : job[w] = "armed" => work[w].pc \in {"running", "finish"}

ArmedIsReserved ==
  \A w \in Workers :
    job[w] = "armed" /\ work[w].pc = "running" /\ ops[work[w].op].kind \notin Safe
      => lease[permit[work[w].op].lease].state = "reserved"

SchedulerHoldsThePool ==
  IF sched.pc = "idle" THEN sched = Quit
  ELSE pool = Scheduler /\ sched.lease \in Leases /\ Held(sched.lease)

AbsentIsBlank == \A l \in Leases : lease[l].state = "absent" => lease[l].stop = NoStop
StopsHaveGenerations ==
  \A o \in Recorded : (\E l \in Leases : ops[o].key = StopKey[l]) => ops[o].gen > 0

ManagedInv ==
  /\ ServiceInv
  /\ LeaseTypeOK /\ OneLeasePerInstance /\ DiskStaysReserved
  /\ ManagedTyped
  /\ RunningIsLeased /\ NothingOutlivesItsLease /\ StopRequestIsTheRecorded
  /\ PermitsAreOurs /\ JobsArePermitted /\ JobsHoldThePool /\ ArmedIsInside /\ ArmedIsReserved
  /\ SchedulerHoldsThePool /\ AbsentIsBlank /\ StopsHaveGenerations

LEMMA ManagedBasics ==
  ASSUME ManagedInv
  PROVE  /\ I \in Instances /\ Instances = {I} /\ I \in Managed
         /\ rows \in Nat /\ Recorded \subseteq OpIds /\ rows + 1 \notin Recorded
         /\ ops \in [Recorded -> OperationRow] /\ \A o \in Recorded : ops[o].inst = I
         /\ inst[I] \in InstanceRow /\ inst[I].active \in OpIds \cup {NoOp}
         /\ work \in [Workers -> Local] /\ lease \in [Leases -> Row]
         /\ \A w \in Workers : w # Free /\ w # Others /\ w # Scheduler
         /\ Free # Others /\ Free # Scheduler /\ Others # Scheduler
         /\ \A w \in Workers : work[w].pc # "idle" => work[w].op \in Recorded
<1>1. TypeOK /\ LeaseTypeOK
  BY DEF ManagedInv, ServiceInv
<1>2. rows \in Nat /\ Recorded \subseteq OpIds /\ rows + 1 \notin Recorded
  BY <1>1, ServiceAssumption DEF TypeOK, Recorded, OpIds
<1>3. ops \in [Recorded -> OperationRow] /\ \A o \in Recorded : ops[o].inst = I
  BY <1>1, ManagedAssumption DEF TypeOK, OperationRow
<1>4. inst[I] \in InstanceRow /\ inst[I].active \in OpIds \cup {NoOp}
  BY <1>1, <1>2, ManagedAssumption DEF TypeOK
<1> QED
  BY <1>1, <1>2, <1>3, <1>4, ManagedAssumption DEF TypeOK, LeaseTypeOK

(* Everything that a step leaves alone is named by the variables of the
   service, of the ledger and of the manager. *)
Managers == <<pool, permit, job, sched, machine>>

(* What a step may do to the leases: what was written is not taken back, no
   lease is given up unless the instance is quiet, and while a job holds the
   gate nothing is written. *)
LeasesStand ==
  \A l \in Leases :
    /\ lease[l].state # "absent" => lease'[l].state # "absent" /\ lease'[l].inst = lease[l].inst
    /\ Held(l) /\ ~Quiet => lease'[l].state \notin {"absent", "released"}
    /\ lease[l].stop # NoStop => lease'[l].stop = lease[l].stop
    /\ lease'[l].state = "absent" => lease[l].state = "absent" /\ lease'[l].stop = lease[l].stop
    /\ pool \in Workers => lease'[l] = lease[l]

LEMMA SaveStands ==
  ASSUME ManagedInv, NEW l \in Leases, Held(l), NEW state \in LeaseStates \ {"absent"},
         NEW stop \in [gen : Nat, rev : Nat], Save(l, state, stop),
         lease[l].stop # NoStop => stop = lease[l].stop,
         state = "released" => Quiet, pool \notin Workers
  PROVE  LeasesStand /\ Booked
<1>1. lease \in [Leases -> Row]
  BY ManagedBasics
<1>2. \A m \in Leases : m # l => lease'[m] = lease[m]
  BY <1>1 DEF Save
<1>3. lease'[l].state = state /\ lease'[l].inst = lease[l].inst /\ lease'[l].stop = stop
  BY <1>1 DEF Save, Marked
<1>4. Booked
  BY SaveBooks DEF ManagedInv
<1> QED
  BY <1>2, <1>3, <1>4 DEF LeasesStand, Held

LEMMA AcquireStands ==
  ASSUME ManagedInv, NEW l \in Leases, NEW ttl \in Ttls, AcquireLease(l, ttl)
  PROVE  LeasesStand /\ Booked
<1>1. lease \in [Leases -> Row] /\ I \in Managed /\ pool \notin Workers
  BY ManagedBasics DEF AcquireLease
<1>2. /\ lease[l].state = "absent" /\ lease' = [lease EXCEPT ![l] = Reservation(I, ttl)]
      /\ Acquire(l, I, ttl)
  BY DEF AcquireLease, Acquire
<1>3. \A m \in Leases : m # l => lease'[m] = lease[m]
  BY <1>1, <1>2
<1>4. lease'[l].state = "reserved"
  BY <1>1, <1>2 DEF Reservation
<1>5. lease[l].stop = NoStop
  BY <1>2 DEF ManagedInv, AbsentIsBlank
<1>6. Booked
  BY <1>1, <1>2, AcquireBooks DEF ManagedInv
<1> QED
  BY <1>1, <1>2, <1>3, <1>4, <1>5, <1>6 DEF LeasesStand, Held

LEMMA RenewStands ==
  ASSUME ManagedInv, NEW l \in Leases, NEW r \in Renewals, NEW ttl \in Ttls, RenewLease(l, r, ttl)
  PROVE  LeasesStand /\ Booked
<1>1. lease \in [Leases -> Row] /\ pool \notin Workers
  BY ManagedBasics DEF RenewLease
<1>2. Renew(l, r, ttl) /\ lease' = [lease EXCEPT ![l] = Extended(lease[l], clock.mono + ttl)]
  BY DEF RenewLease, Renew
<1>3. \A m \in Leases : m # l => lease'[m] = lease[m]
  BY <1>1, <1>2
<1>4. lease'[l].state = lease[l].state /\ lease'[l].inst = lease[l].inst /\ lease'[l].stop = lease[l].stop
  BY <1>1, <1>2 DEF Extended
<1>5. Booked
  BY <1>2, RenewBooks DEF ManagedInv
<1> QED
  BY <1>1, <1>3, <1>4, <1>5 DEF LeasesStand, Held

(* The steps that write to the ledger of leases. *)
Ledgered ==
  \/ \E l \in Leases :
       \/ \E ttl \in Ttls : AcquireLease(l, ttl)
       \/ \E r \in Renewals, ttl \in Ttls : RenewLease(l, r, ttl)
       \/ ReleaseLease(l)
       \/ ExpiryAttention(l) \/ ExpiryRelease(l) \/ ExpiryIntent(l)
  \/ ExpiryRecord

LEMMA LedgerMoves ==
  ASSUME ManagedInv, Ledgered
  PROVE  LeasesStand /\ Booked
<1>0. /\ lease \in [Leases -> Row] /\ Free \notin Workers /\ Scheduler \notin Workers
      /\ \A l \in Leases : lease[l].stop \in [gen : Nat, rev : Nat]
      /\ inst[I].generation \in Nat /\ inst[I].revision \in Nat
  BY ManagedBasics, RowFields DEF InstanceRow
<1>1. ASSUME NEW l \in Leases, ReleaseLease(l) PROVE LeasesStand /\ Booked
  BY <1>0, <1>1, SaveStands DEF ReleaseLease, Release, LeaseStates
<1>2. ASSUME NEW l \in Leases, ExpiryAttention(l) PROVE LeasesStand /\ Booked
  BY <1>0, <1>2, SaveStands DEF ExpiryAttention, Handle, LeaseStates
<1>3. ASSUME NEW l \in Leases, ExpiryRelease(l) PROVE LeasesStand /\ Booked
  BY <1>0, <1>3, SaveStands DEF ExpiryRelease, Due, Handle, LeaseStates
<1>4. ASSUME NEW l \in Leases, ExpiryIntent(l) PROVE LeasesStand /\ Booked
  <2>1. PICK stop \in [gen : Nat, rev : Nat] : stop = [gen |-> inst[I].generation, rev |-> inst[I].revision]
    BY <1>0
  <2>2. Held(l) /\ pool = Free /\ lease[l].stop = NoStop /\ Save(l, "stop-intent", stop)
    BY <1>4, <2>1 DEF ExpiryIntent, StopDue, StopDueAgain, Due, Asked
  <2> QED
    BY <1>0, <2>2, SaveStands DEF LeaseStates
<1>5. CASE ExpiryRecord
  <2>1. PICK state \in {"stop-submitted", "attention"} : Save(sched.lease, state, lease[sched.lease].stop)
    BY <1>5 DEF ExpiryRecord
  <2>2. sched.lease \in Leases /\ Held(sched.lease) /\ pool = Scheduler
    BY <1>5 DEF ExpiryRecord, ManagedInv, SchedulerHoldsThePool
  <2> QED
    BY <1>0, <2>1, <2>2, SaveStands DEF LeaseStates
<1> QED
  BY <1>1, <1>2, <1>3, <1>4, <1>5, AcquireStands, RenewStands DEF Ledgered

(* Every other step leaves the ledger alone or moves the clocks. *)
LEMMA OthersLeaveLeases ==
  ASSUME ManagedInv, [ManagedNext]_mvars, ~Ledgered
  PROVE  lease' = lease /\ (Advanced \/ UNCHANGED leaseVars)
<1>1. ASSUME NEW w \in Workers, Job(w) PROVE UNCHANGED leaseVars
  BY <1>1 DEF Job, JobStarts, JobContinues, Arm, Effect, Step, JobReturns, JobEnds
<1>2. CASE TimePasses \/ Reboot
  BY <1>2, ClockAdvances DEF TimePasses, Reboot, ClockMoves, Advanced, ManagedInv
<1>3. ASSUME NEW key \in ClientKeys,
             \/ \E kind \in Kinds \cup {"prepare"}, l \in Leases \cup {NoLease} : SubmitManaged(kind, key, l)
             \/ CancelManaged(key)
      PROVE  UNCHANGED leaseVars
  BY <1>3 DEF SubmitManaged, CancelManaged
<1>4. CASE ExpirySubmit \/ SchedulerDies \/ OtherInstance \/ MachineOff
  BY <1>4 DEF ExpirySubmit, SchedulerDies, OtherInstance, MachineOff, leaseVars
<1>5. CASE UNCHANGED mvars
  BY <1>5 DEF mvars, leaseVars
<1>6. UNCHANGED leaseVars => lease' = lease
  BY DEF leaseVars
<1> QED
  BY <1>1, <1>2, <1>3, <1>4, <1>5, <1>6 DEF ManagedNext, Client, Expiry, Ledgered, Advanced

LEMMA LeasesMove ==
  ASSUME ManagedInv, [ManagedNext]_mvars
  PROVE  LeasesStand /\ LeaseTypeOK' /\ OneLeasePerInstance' /\ DiskStaysReserved'
<1>1. CASE Ledgered
  BY <1>1, LedgerMoves, LedgerKept DEF ManagedInv
<1>2. CASE ~Ledgered
  BY <1>2, OthersLeaveLeases, LedgerKept DEF ManagedInv, LeasesStand, Held
<1> QED
  BY <1>1, <1>2

(* The contract service, whose callers expect the current revision and whose
   backend is a job. *)
LEMMA RebootKeeps ==
  ASSUME ServiceInv, UNCHANGED <<inst, ops, rows, events, executed>>,
         work' = [w \in Workers |-> Idle], gate' = NoWorker
  PROVE  ServiceInv' /\ Unmoved
<1>1. /\ Recorded' = Recorded /\ Idle \in Local /\ Idle.pc = "idle"
      /\ \A w \in Workers : work'[w].pc = "idle" /\ gate' # w
  BY ServiceAssumption DEF Recorded, Idle, At, Local, Failure, Outcome, States, Doubtful
<1>2. TypeOK'
  BY <1>1 DEF ServiceInv, TypeOK
<1>3. ServiceInv'
  BY <1>1, <1>2 DEF ServiceInv, HeldByUnresolved, UnresolvedHolds, AnswerMatchesStatus,
     TransientWhileHeld, GateProtectsExecution, GenerationSeen, OutcomeIsSettled, KeysDiffer,
     CalledOnce, AbsentRows, Unresolved, Present, Recorded
<1> QED
  BY <1>3 DEF Unmoved

LEMMA JobMoves ==
  ASSUME ManagedInv, NEW w \in Workers, Job(w)
  PROVE  ServiceInv' /\ ServiceMove
<1>0. ServiceInv
  BY DEF ManagedInv
<1>1. CASE \/ \E o \in OpIds : Claim(w, o)
           \/ CheckCancel(w) \/ ObserveFails(w) \/ BackendRaises(w)
           \/ Finish(w) \/ FinishFails(w) \/ Crash(w)
  <2>1. Next
    BY <1>1 DEF Next, Work
  <2> QED
    BY <1>0, <2>1, ServiceStep, StepShape
<1>2. ASSUME NEW state, Observe(w, inst[I].generation, state) PROVE ServiceInv' /\ ServiceMove
  <2>1. Unmoved
    BY <1>2 DEF Observe, Unmoved
  <2> QED
    BY <1>0, <1>2, <2>1, AnyObservation DEF ServiceMove
<1>3. ASSUME NEW out \in Outcome, BackendReturns(w, out) PROVE ServiceInv' /\ ServiceMove
  <2>1. Unmoved
    BY <1>3 DEF BackendReturns, Unmoved
  <2> QED
    BY <1>0, <1>3, <2>1, AnyReturn DEF ServiceMove
<1>4. Result(w) \in Outcome /\ [state |-> "stopped", cancelled |-> TRUE, error |-> FALSE] \in Outcome
  BY DEF Result, Found, Outcome, States, Running
<1>5. CASE UNCHANGED vars
  BY <1>0, <1>5, ServiceStep, StepShape
<1>6. CASE JobContinues(w)
  BY <1>1, <1>2, <1>6 DEF JobContinues
<1>7. CASE JobReturns(w)
  BY <1>3, <1>4, <1>7 DEF JobReturns
<1> QED
  BY <1>1, <1>5, <1>6, <1>7 DEF Job, JobStarts, Arm, Effect, Step, JobEnds

(* What is recorded for the instance, and on whose behalf. *)
LEMMA SubmitMoves ==
  ASSUME ManagedInv, NEW kind \in Kinds \cup {"prepare"}, NEW key \in Keys, NEW l,
         SubmitManaged(kind, key, l)
  PROVE  ServiceInv' /\ ServiceMove
<1>1. ServiceInv /\ I \in Instances
  BY ManagedBasics DEF ManagedInv
<1>2. CASE kind = "prepare"
  <2>1. Prepare(I, key)
    BY <1>2 DEF SubmitManaged
  <2> QED
    BY <1>1, <2>1, AnyRequest DEF ServiceMove
<1>3. CASE kind # "prepare"
  <2>1. Submit(kind, I, key, inst[I].generation, inst[I].revision)
    BY <1>3 DEF SubmitManaged
  <2> QED
    BY <1>1, <1>3, <2>1, AnyRequest DEF ServiceMove
<1> QED
  BY <1>2, <1>3

LEMMA ContractMoves ==
  ASSUME ManagedInv, [ManagedNext]_mvars
  PROVE  ServiceInv' /\ ServiceMove
<1>1. /\ ServiceInv /\ I \in Instances /\ ClientKeys \subseteq Keys
      /\ \A l \in Leases : StopKey[l] \in Keys
      /\ "stop" \in Kinds
  BY ManagedBasics, ManagedAssumption DEF ManagedInv, ClientKeys
<1>2. ASSUME NEW key \in ClientKeys, CancelManaged(key) PROVE ServiceInv' /\ ServiceMove
  <2>1. Cancel(I, key, inst[I].generation, inst[I].revision, inst[I].active)
    BY <1>2 DEF CancelManaged
  <2>2. inst[I].active \in OpIds
    BY <2>1, ManagedBasics DEF Cancel
  <2> QED
    BY <1>1, <1>2, <2>1, <2>2, AnyRequest DEF ServiceMove
<1>3. CASE ExpirySubmit
  <2>1. PICK key, gen, rev : key = StopKey[sched.lease] /\ Submit("stop", I, key, gen, rev)
    BY <1>3 DEF ExpirySubmit
  <2>2. sched.lease \in Leases
    BY <1>3 DEF ExpirySubmit, ManagedInv, SchedulerHoldsThePool
  <2>3. key \in Keys
    BY <1>1, <2>1, <2>2
  <2> QED
    BY <1>1, <2>1, <2>3, AnyRequest DEF ServiceMove
<1>4. CASE UNCHANGED vars
  BY <1>1, <1>4, ServiceStep, StepShape
<1>5. CASE Reboot
  BY <1>1, <1>5, RebootKeeps DEF Reboot, ServiceMove
<1>6. CASE Ledgered \/ SchedulerDies \/ OtherInstance \/ MachineOff \/ TimePasses
  BY <1>4, <1>6 DEF Ledgered, AcquireLease, RenewLease, ReleaseLease, ExpiryAttention, ExpiryRelease, ExpiryIntent,
     ExpiryRecord, Handle, SchedulerDies, OtherInstance, MachineOff, TimePasses
<1>7. CASE UNCHANGED mvars
  <2>1. UNCHANGED vars
    BY <1>7 DEF mvars
  <2> QED
    BY <1>4, <2>1
<1> QED
  BY <1>1, <1>2, <1>3, <1>5, <1>6, <1>7, SubmitMoves, JobMoves DEF ManagedNext, Client, Expiry, Ledgered

(* What a job does to the gate and to its own local state. *)
JobStep(w) ==
  /\ lease' = lease /\ permit' = permit /\ sched' = sched
  /\ \A v \in Workers : v # w => job'[v] = job[v] /\ work'[v] = work[v]
  /\ job' \in [Workers -> {"none", "bound", "denied", "armed", "done"}]
  /\ pool' = pool \/ (pool = Free /\ pool' = w) \/ (pool = w /\ pool' = Free)
  /\ job'[w] \in {"bound", "armed", "done"} => pool' = w
  /\ job'[w] = "armed" => work'[w].pc \in {"running", "finish"}
  /\ work'[w].pc # "idle" => work'[w].op \in Recorded /\ permit[work'[w].op] # NoPermit
  /\ job'[w] = "armed" /\ work'[w].pc = "running" =>
       /\ work[w].pc = "running" /\ work'[w].op = work[w].op /\ ops' = ops
       /\ job[w] = "armed" \/ Authorized(work[w].op)

LEMMA JobStartsSteps ==
  ASSUME ManagedInv, NEW w \in Workers, NEW o \in OpIds, JobStarts(w, o)
  PROVE  JobStep(w) /\ machine' = machine
<1>1. /\ job \in [Workers -> {"none", "bound", "denied", "armed", "done"}]
      /\ work \in [Workers -> Local]
  BY ManagedBasics DEF ManagedInv, ManagedTyped
<1>2. /\ o \in Recorded /\ permit[o] # NoPermit
      /\ work' = [work EXCEPT ![w] = At("claimed", o, inst[ops[o].inst].generation, inst[ops[o].inst].previous,
                                        Failure("unknown"))]
      /\ lease' = lease /\ permit' = permit /\ sched' = sched /\ machine' = machine
  BY DEF JobStarts, Claim, Claimable, leaseVars
<1>3. work'[w].pc = "claimed" /\ work'[w].op = o /\ \A v \in Workers : v # w => work'[v] = work[v]
  BY <1>1, <1>2 DEF At
<1>4. \/ /\ pool = Free /\ pool' = w /\ job' = [job EXCEPT ![w] = "bound"]
      \/ pool' = pool /\ job' = [job EXCEPT ![w] = "denied"]
  BY DEF JobStarts
<1>5. /\ \A v \in Workers : v # w => job'[v] = job[v]
      /\ job' \in [Workers -> {"none", "bound", "denied", "armed", "done"}]
      /\ \/ pool = Free /\ pool' = w /\ job'[w] = "bound"
         \/ pool' = pool /\ job'[w] = "denied"
  BY <1>1, <1>4
<1> QED
  BY <1>2, <1>3, <1>5 DEF JobStep

(* A step within execute; one that is armed can only fail or return. *)
LEMMA JobLocalSteps ==
  ASSUME ManagedInv, NEW w \in Workers, JobContinues(w) \/ JobReturns(w)
  PROVE  JobStep(w) /\ machine' = machine
<1>1. /\ job \in [Workers -> {"none", "bound", "denied", "armed", "done"}]
      /\ work \in [Workers -> Local]
  BY ManagedBasics DEF ManagedInv, ManagedTyped
<1>2. /\ job' = job /\ pool' = pool /\ machine' = machine
      /\ lease' = lease /\ permit' = permit /\ sched' = sched
  BY DEF JobContinues, JobReturns, leaseVars
<1>3. PICK local : /\ work' = [work EXCEPT ![w] = local] /\ local.op = work[w].op /\ work[w].pc # "idle"
                   /\ \/ local.pc = "finish"
                      \/ work[w].pc \in {"claimed", "observing"}
  <2>1. ASSUME NEW out, Decide(w, out), work[w].pc # "idle"
        PROVE  \E local : /\ work' = [work EXCEPT ![w] = local] /\ local.op = work[w].op /\ work[w].pc # "idle"
                          /\ \/ local.pc = "finish"
                             \/ work[w].pc \in {"claimed", "observing"}
    <3>1. PICK local : local = At("finish", work[w].op, work[w].gen, work[w].previous, out)
      OBVIOUS
    <3>2. local.pc = "finish" /\ local.op = work[w].op
      BY <3>1 DEF At
    <3>3. work' = [work EXCEPT ![w] = local]
      BY <2>1, <3>1 DEF Decide
    <3> QED
      BY <2>1, <3>2, <3>3
  <2>2. ASSUME NEW gen, Call(w, gen), work[w].pc \in {"claimed", "observing"}
        PROVE  \E local : /\ work' = [work EXCEPT ![w] = local] /\ local.op = work[w].op /\ work[w].pc # "idle"
                          /\ \/ local.pc = "finish"
                             \/ work[w].pc \in {"claimed", "observing"}
    <3>1. PICK local : local = At("running", work[w].op, gen, work[w].previous, work[w].outcome)
      OBVIOUS
    <3> QED
      BY <2>2, <3>1 DEF Call, At
  <2>3. ASSUME work' = [work EXCEPT ![w].pc = "observing"], work[w].pc = "claimed"
        PROVE  \E local : /\ work' = [work EXCEPT ![w] = local] /\ local.op = work[w].op /\ work[w].pc # "idle"
                          /\ \/ local.pc = "finish"
                             \/ work[w].pc \in {"claimed", "observing"}
    <3>1. PICK local : local = [work[w] EXCEPT !.pc = "observing"]
      OBVIOUS
    <3>2. work[w] \in Local
      BY <1>1
    <3>3. local.op = work[w].op
      BY <3>1, <3>2 DEF Local
    <3>4. work' = [work EXCEPT ![w] = local]
      BY <1>1, <2>3, <3>1
    <3> QED
      BY <2>3, <3>3, <3>4
  <2>4. CASE CheckCancel(w)
    BY <2>1, <2>2, <2>3, <2>4 DEF CheckCancel
  <2>5. CASE \E gen, state : Observe(w, gen, state)
    BY <2>2, <2>5 DEF Observe
  <2>6. CASE ObserveFails(w) \/ BackendRaises(w) \/ \E out : BackendReturns(w, out)
    BY <2>1, <2>6 DEF ObserveFails, BackendRaises, BackendReturns
  <2> QED
    BY <2>4, <2>5, <2>6 DEF JobContinues, JobReturns
<1>4. work'[w] = local /\ \A v \in Workers : v # w => work'[v] = work[v]
  BY <1>1, <1>3
<1>5. /\ job[w] = "armed" => work[w].pc \in {"running", "finish"}
      /\ job[w] \in {"bound", "armed", "done"} => pool = w
      /\ work[w].op \in Recorded /\ permit[work[w].op] # NoPermit
  BY <1>3, ManagedBasics DEF ManagedInv, ArmedIsInside, JobsHoldThePool, JobsArePermitted
<1> QED
  BY <1>1, <1>2, <1>3, <1>4, <1>5 DEF JobStep

LEMMA JobEffects ==
  ASSUME ManagedInv, NEW w \in Workers, Arm(w) \/ Effect(w)
  PROVE  /\ JobStep(w)
         /\ \/ machine' = machine \/ machine' = "off"
            \/ /\ machine' = "on" /\ job[w] = "armed" /\ work[w].pc = "running"
               /\ ops[work[w].op].kind = "start"
<1>1. /\ job \in [Workers -> {"none", "bound", "denied", "armed", "done"}]
      /\ machine \in {"on", "off"}
  BY DEF ManagedInv, ManagedTyped
<1>2. /\ work' = work /\ ops' = ops /\ pool' = pool /\ work[w].pc = "running"
      /\ lease' = lease /\ permit' = permit /\ sched' = sched
  BY DEF Arm, Effect, Step, vars, leaseVars
<1>3. \/ job[w] = "bound" /\ job' = [job EXCEPT ![w] = "armed"] /\ Authorized(work[w].op) /\ machine' = machine
      \/ job[w] = "armed" /\ job' = [job EXCEPT ![w] = "done"]
  BY DEF Arm, Effect, Step
<1>4. /\ \A v \in Workers : v # w => job'[v] = job[v]
      /\ job' \in [Workers -> {"none", "bound", "denied", "armed", "done"}]
      /\ \/ job[w] = "bound" /\ job'[w] = "armed" /\ Authorized(work[w].op) /\ machine' = machine
         \/ job[w] = "armed" /\ job'[w] = "done"
  BY <1>1, <1>3
<1>5. /\ job[w] \in {"bound", "armed"} => pool = w
      /\ work[w].op \in Recorded /\ permit[work[w].op] # NoPermit
  BY <1>2, ManagedBasics DEF ManagedInv, JobsHoldThePool, JobsArePermitted
<1>6. JobStep(w)
  BY <1>2, <1>4, <1>5 DEF JobStep
<1>7. \/ machine' = machine \/ machine' = "off"
      \/ /\ machine' = "on" /\ job[w] = "armed" /\ work[w].pc = "running"
         /\ ops[work[w].op].kind = "start"
  BY <1>1, <1>2, <1>3 DEF Arm, Effect, Step
<1> QED
  BY <1>6, <1>7

LEMMA JobEndsSteps ==
  ASSUME ManagedInv, NEW w \in Workers, JobEnds(w)
  PROVE  JobStep(w) /\ machine' = machine
<1>1. /\ job \in [Workers -> {"none", "bound", "denied", "armed", "done"}]
      /\ work \in [Workers -> Local]
  BY ManagedBasics DEF ManagedInv, ManagedTyped
<1>2. /\ job' = [job EXCEPT ![w] = "none"] /\ pool' = IF pool = w THEN Free ELSE pool
      /\ lease' = lease /\ permit' = permit /\ sched' = sched /\ machine' = machine
  BY DEF JobEnds, leaseVars
<1>3. work' = [work EXCEPT ![w] = Idle]
  BY DEF JobEnds, Finish, FinishFails, Crash, Leave
<1>4. work'[w].pc = "idle" /\ \A v \in Workers : v # w => work'[v] = work[v]
  BY <1>1, <1>3 DEF Idle, At
<1> QED
  BY <1>1, <1>2, <1>4 DEF JobStep

LEMMA JobSteps ==
  ASSUME ManagedInv, NEW w \in Workers, Job(w)
  PROVE  /\ JobStep(w)
         /\ \/ machine' = machine \/ machine' = "off"
            \/ /\ machine' = "on" /\ job[w] = "armed" /\ work[w].pc = "running"
               /\ ops[work[w].op].kind = "start"
BY JobStartsSteps, JobLocalSteps, JobEffects, JobEndsSteps DEF Job

(* What a request records. *)
LEMMA RequestAdds ==
  ASSUME ManagedInv, NEW kind, NEW key, NEW gen, NEW rev,
         \/ Prepare(I, key) /\ kind = "prepare"
         \/ Submit(kind, I, key, gen, rev)
  PROVE  /\ rows' = rows + 1 /\ work' = work /\ Recorded' = Recorded \cup {rows + 1}
         /\ ops'[rows + 1].kind = kind /\ ops'[rows + 1].key = key
         /\ kind # "prepare" => /\ gen > 0 /\ gen \in Nat /\ rev \in Nat
                                /\ ops'[rows + 1].gen = gen /\ ops'[rows + 1].rev = rev
<1>1. rows \in Nat /\ inst[I] \in InstanceRow
  BY ManagedBasics
<1>2. Recorded' = Recorded \cup {rows + 1}
  <2>1. rows' = rows + 1
    BY DEF Prepare, Submit
  <2> QED
    BY <1>1, <2>1 DEF Recorded
<1>3. CASE Prepare(I, key) /\ kind = "prepare"
  <2>1. ops' = WithRow(ops, NewOp("prepare", I, key, 0, 0, NoOp, "pending", NoAnswer))
    BY <1>3 DEF Prepare
  <2>2. ops'[rows + 1] = NewOp("prepare", I, key, 0, 0, NoOp, "pending", NoAnswer)
    BY <1>1, <2>1 DEF WithRow
  <2> QED
    BY <1>2, <1>3, <2>2 DEF Prepare, NewOp
<1>4. CASE Submit(kind, I, key, gen, rev)
  <2>1. ops' = WithRow(Superseded(inst[I]), NewOp(kind, I, key, gen, rev, NoOp, "pending", NoAnswer))
    BY <1>4 DEF Submit
  <2>2. ops'[rows + 1] = NewOp(kind, I, key, gen, rev, NoOp, "pending", NoAnswer)
    BY <1>1, <2>1 DEF WithRow
  <2>3. inst[I].generation > 0 /\ gen = inst[I].generation /\ rev = inst[I].revision
    BY <1>4 DEF Submit, Present, Current
  <2>4. gen \in Nat /\ rev \in Nat
    BY <1>1, <2>3 DEF InstanceRow
  <2> QED
    BY <1>2, <1>4, <2>2, <2>3, <2>4 DEF Submit, NewOp
<1> QED
  BY <1>3, <1>4

(* The operation that a request adds: a client's is executed under a lease
   that is reserved when it is submitted, and does not bear the key of a stop
   that a lease's expiry asks for; that stop is the one the lease records. *)
Added(o) ==
  /\ o \notin Recorded /\ Recorded' = Recorded \cup {o}
  /\ lease' = lease /\ job' = job /\ machine' = machine /\ work' = work
  /\ \A q \in OpIds : q # o => permit'[q] = permit[q]
  /\ permit' \in [OpIds -> [lease : Leases \cup {NoLease}, purpose : {"none", "remote", "expiry"}]]
  /\ permit'[o] # NoPermit /\ ops'[o].kind \notin Safe =>
       LET l == permit'[o].lease
       IN l \in Leases /\ lease[l].state = "reserved" /\ lease[l].inst = I
  /\ \A l \in Leases : ops'[o].key = StopKey[l] =>
       /\ ops'[o].kind = "stop" /\ ops'[o].gen > 0
       /\ lease[l].stop = [gen |-> ops'[o].gen, rev |-> ops'[o].rev]

LEMMA PermitWritten ==
  ASSUME ManagedInv, NEW l \in Leases \cup {NoLease}, NEW purpose \in {"remote", "expiry"},
         Dispatched(l, purpose), rows + 1 \in OpIds
  PROVE  /\ \A q \in OpIds : q # rows + 1 => permit'[q] = permit[q]
         /\ permit' \in [OpIds -> [lease : Leases \cup {NoLease}, purpose : {"none", "remote", "expiry"}]]
         /\ permit'[rows + 1] # NoPermit => permit'[rows + 1].lease = l
<1>1. /\ permit \in [OpIds -> [lease : Leases \cup {NoLease}, purpose : {"none", "remote", "expiry"}]]
      /\ permit[rows + 1] = NoPermit
  BY ManagedBasics DEF ManagedInv, ManagedTyped, PermitsAreOurs
<1> QED
  BY <1>1 DEF Dispatched

LEMMA ClientAdds ==
  ASSUME ManagedInv, NEW kind \in Kinds \cup {"prepare"}, NEW key \in ClientKeys, NEW l \in Leases \cup {NoLease},
         SubmitManaged(kind, key, l)
  PROVE  Added(rows + 1) /\ pool' = pool /\ sched' = sched
<1>1. PICK gen, rev : \/ Prepare(I, key) /\ kind = "prepare"
                      \/ Submit(kind, I, key, gen, rev)
  BY DEF SubmitManaged
<1>2. /\ work' = work /\ Recorded' = Recorded \cup {rows + 1}
      /\ ops'[rows + 1].kind = kind /\ ops'[rows + 1].key = key /\ rows + 1 \in OpIds
  <2>1. rows + 1 \in OpIds
    BY <1>1, ManagedBasics, ServiceAssumption DEF Prepare, Submit, OpIds
  <2> QED
    BY <1>1, <2>1, RequestAdds
<1>3. /\ lease' = lease /\ job' = job /\ machine' = machine /\ pool' = pool /\ sched' = sched
      /\ Dispatched(l, "remote") /\ MayRun(kind, l)
  BY DEF SubmitManaged, leaseVars
<1>4. kind \notin Safe => l \in Leases /\ lease[l].state = "reserved" /\ lease[l].inst = I
  BY <1>3 DEF MayRun, Admitted
<1>5. \A m \in Leases : ops'[rows + 1].key # StopKey[m]
  BY <1>2 DEF ClientKeys
<1> QED
  BY <1>2, <1>3, <1>4, <1>5, PermitWritten, ManagedBasics DEF Added

LEMMA StopAdds ==
  ASSUME ManagedInv, ExpirySubmit
  PROVE  Added(rows + 1) /\ pool' = pool /\ sched' = [sched EXCEPT !.pc = "record"]
<1>1. PICK l, gen, rev : /\ l = sched.lease /\ Submit("stop", I, StopKey[l], gen, rev)
                         /\ gen = lease[l].stop.gen /\ rev = lease[l].stop.rev
  BY DEF ExpirySubmit
<1>2. l \in Leases
  BY <1>1 DEF ExpirySubmit, ManagedInv, SchedulerHoldsThePool
<1>3. /\ work' = work /\ Recorded' = Recorded \cup {rows + 1} /\ rows + 1 \in OpIds
      /\ ops'[rows + 1].kind = "stop" /\ ops'[rows + 1].key = StopKey[l]
      /\ gen > 0 /\ ops'[rows + 1].gen = gen /\ ops'[rows + 1].rev = rev
  <2>1. rows + 1 \in OpIds
    BY <1>1, ManagedBasics, ServiceAssumption DEF Submit, OpIds
  <2> QED
    BY <1>1, <2>1, RequestAdds
<1>4. /\ lease' = lease /\ job' = job /\ machine' = machine /\ pool' = pool
      /\ sched' = [sched EXCEPT !.pc = "record"] /\ Dispatched(l, "expiry")
  BY <1>1 DEF ExpirySubmit, leaseVars
<1>5. lease[l].stop = [gen |-> gen, rev |-> rev]
  <2>1. lease[l].stop \in [gen : Nat, rev : Nat]
    BY <1>2, ManagedBasics, RowFields
  <2> QED
    BY <1>1, <2>1
<1>6. \A m \in Leases : StopKey[l] = StopKey[m] => m = l
  BY <1>2, ManagedAssumption
<1> QED
  BY <1>2, <1>3, <1>4, <1>5, <1>6, PermitWritten, ManagedBasics DEF Added, Safe

(* A cancellation is recorded and answered, and needs no permit. *)
LEMMA CancelAdds ==
  ASSUME ManagedInv, NEW key \in ClientKeys, CancelManaged(key)
  PROVE  Added(rows + 1) /\ pool' = pool /\ sched' = sched
<1>1. /\ Cancel(I, key, inst[I].generation, inst[I].revision, inst[I].active)
      /\ lease' = lease /\ job' = job /\ machine' = machine /\ pool' = pool /\ sched' = sched /\ permit' = permit
  BY DEF CancelManaged, leaseVars
<1>2. PICK f, new : /\ ops' = WithRow(f, new) /\ new.kind = "cancel" /\ new.key = key
                    /\ rows' = rows + 1 /\ work' = work /\ rows < MaxOps
  BY <1>1 DEF Cancel, NewOp
<1>3. /\ ops'[rows + 1] = new /\ Recorded' = Recorded \cup {rows + 1} /\ rows + 1 \in OpIds
  BY <1>2, ManagedBasics, ServiceAssumption DEF WithRow, Recorded, OpIds
<1>4. permit[rows + 1] = NoPermit
  BY <1>3, ManagedBasics DEF ManagedInv, PermitsAreOurs
<1>5. \A m \in Leases : key # StopKey[m]
  BY DEF ClientKeys
<1> QED
  BY <1>1, <1>2, <1>3, <1>4, <1>5, ManagedBasics DEF Added, ManagedInv, ManagedTyped

(* The remaining steps: those of clients and of the scheduler on leases, of
   other instances, of the machine and of the host. *)
AllStop ==
  /\ job' = [w \in Workers |-> "none"] /\ work' = [w \in Workers |-> Idle]
  /\ pool' = Free /\ sched' = Quit

ManagerStep ==
  /\ ops' = ops /\ rows' = rows /\ permit' = permit
  /\ machine' = machine \/ machine' = "off"
  /\ \/ AllStop
     \/ /\ job' = job /\ work' = work
        /\ \/ pool' = pool /\ sched' = sched /\ (lease' = lease \/ pool = Free)
           \/ /\ pool = Free /\ pool' = Scheduler
              /\ sched'.pc = "submit" /\ sched'.lease \in Leases /\ lease'[sched'.lease].state \notin {"absent", "released"}
              /\ sched' \in [pc : {"idle", "submit", "record"}, lease : Leases \cup {NoLease}]
           \/ pool \notin Workers /\ pool' \in {Free, Others} /\ sched' = Quit

LEMMA Manages ==
  ASSUME ManagedInv,
         \/ Ledgered \/ SchedulerDies \/ OtherInstance \/ MachineOff \/ TimePasses \/ Reboot
         \/ UNCHANGED mvars
  PROVE  ManagerStep
<1>0. /\ \A w \in Workers : w # Free /\ w # Others /\ w # Scheduler
      /\ Free # Others /\ Free # Scheduler /\ Others # Scheduler
      /\ lease \in [Leases -> Row]
      /\ IF sched.pc = "idle" THEN sched = Quit ELSE pool = Scheduler
  BY ManagedBasics DEF ManagedInv, SchedulerHoldsThePool
<1>1. ASSUME NEW l \in Leases,
             \/ \E ttl \in Ttls : AcquireLease(l, ttl)
             \/ \E r \in Renewals, ttl \in Ttls : RenewLease(l, r, ttl)
             \/ ReleaseLease(l)
             \/ ExpiryAttention(l) \/ ExpiryRelease(l)
      PROVE  ManagerStep
  BY <1>1 DEF AcquireLease, RenewLease, ReleaseLease, ExpiryAttention, ExpiryRelease, Due, Handle, ManagerStep, vars
<1>2. ASSUME NEW l \in Leases, ExpiryIntent(l) PROVE ManagerStep
  <2>1. /\ pool = Free /\ pool' = Scheduler /\ sched' = [pc |-> "submit", lease |-> l]
        /\ UNCHANGED <<vars, permit, job, machine>>
        /\ lease' = [lease EXCEPT ![l] = Marked(@, "stop-intent", [gen |-> inst[I].generation, rev |-> inst[I].revision])]
    BY <1>2 DEF ExpiryIntent, StopDue, StopDueAgain, Due, Save
  <2>2. lease'[l].state = "stop-intent"
    BY <1>0, <2>1 DEF Marked
  <2>3. lease'[sched'.lease].state \notin {"absent", "released"}
    BY <2>1, <2>2
  <2> QED
    BY <2>1, <2>3 DEF ManagerStep, vars
<1>3. CASE ExpiryRecord
  BY <1>0, <1>3 DEF ExpiryRecord, ManagerStep, vars
<1>4. CASE SchedulerDies
  BY <1>0, <1>4 DEF SchedulerDies, ManagerStep, vars, Quit
<1>5. CASE OtherInstance
  BY <1>0, <1>5 DEF OtherInstance, ManagerStep, vars
<1>6. CASE MachineOff \/ TimePasses
  BY <1>6 DEF MachineOff, TimePasses, Tick, Sleep, SetClock, ManagerStep, vars, leaseVars
<1>7. CASE Reboot
  BY <1>7 DEF Reboot, ManagerStep, AllStop
<1>8. CASE UNCHANGED mvars
  BY <1>8 DEF mvars, vars, leaseVars, ManagerStep
<1> QED
  BY <1>1, <1>2, <1>3, <1>4, <1>5, <1>6, <1>7, <1>8 DEF Ledgered

(* Every step is one of these. *)
LEMMA ManagedShape ==
  ASSUME ManagedInv, [ManagedNext]_mvars
  PROVE  \/ \E w \in Workers : Job(w)
         \/ \E o \in OpIds : /\ Added(o) /\ pool' = pool
                             /\ \/ sched' = sched
                                \/ sched.pc = "submit" /\ sched' = [sched EXCEPT !.pc = "record"]
         \/ ManagerStep
<1>0. ASSUME Added(rows + 1) PROVE rows + 1 \in OpIds
  <2>1. Recorded' \subseteq OpIds'
    BY ContractMoves, ServiceAssumption DEF ServiceInv, TypeOK, Recorded, OpIds
  <2>2. rows + 1 \in Recorded'
    BY <1>0 DEF Added
  <2> QED
    BY <2>1, <2>2 DEF OpIds
<1>1. ASSUME NEW key \in ClientKeys, NEW kind \in Kinds \cup {"prepare"}, NEW l \in Leases \cup {NoLease},
             SubmitManaged(kind, key, l) \/ CancelManaged(key)
      PROVE  \E o \in OpIds : Added(o) /\ pool' = pool /\ sched' = sched
  BY <1>0, <1>1, ClientAdds, CancelAdds
<1>2. CASE ExpirySubmit
  BY <1>0, <1>2, StopAdds DEF ExpirySubmit
<1> QED
  BY <1>1, <1>2, Manages DEF ManagedNext, Client, Expiry, Ledgered

(* What was permitted stays so, and what is added is permitted by a lease that
   is reserved. *)
LEMMA OperationsMove ==
  ASSUME ManagedInv, [ManagedNext]_mvars
  PROVE  /\ \A q \in Recorded : permit'[q] = permit[q]
         /\ \A q \in Recorded' \ Recorded : q \in OpIds /\ Added(q)
         /\ \A q \in OpIds \ Recorded' : permit'[q] = permit[q] /\ q \notin Recorded
         /\ Recorded' \subseteq OpIds
<1>0. Recorded' \subseteq OpIds
  <2>1. Recorded' \subseteq OpIds'
    BY ContractMoves, ServiceAssumption DEF ServiceInv, TypeOK, Recorded, OpIds
  <2> QED
    BY <2>1 DEF OpIds
<1>1. \A q \in Recorded : q \in Recorded'
  BY ContractMoves, RequestsStay DEF ManagedInv
<1>2. ASSUME NEW w \in Workers, Job(w) PROVE permit' = permit /\ Recorded' = Recorded
  <2>1. rows' = rows
    BY <1>2 DEF Job, JobStarts, Claim, JobContinues, CheckCancel, ObserveFails, BackendRaises, Observe, Arm, Effect,
       Step, vars, JobReturns, BackendReturns, JobEnds, Finish, FinishFails, Crash
  <2> QED
    BY <1>2, <2>1, JobSteps DEF JobStep, Recorded
<1>3. CASE ManagerStep
  BY <1>0, <1>3 DEF ManagerStep, Recorded
<1>4. ASSUME NEW o \in OpIds, Added(o)
      PROVE  /\ \A q \in Recorded : permit'[q] = permit[q]
             /\ \A q \in Recorded' \ Recorded : q \in OpIds /\ Added(q)
             /\ \A q \in OpIds \ Recorded' : permit'[q] = permit[q] /\ q \notin Recorded
  BY <1>0, <1>4, ManagedBasics DEF Added
<1> QED
  BY <1>0, <1>1, <1>2, <1>3, <1>4, ManagedShape

LEMMA KeepsTyped == ManagedInv /\ [ManagedNext]_mvars => ManagedTyped'
<1> SUFFICES ASSUME ManagedInv, [ManagedNext]_mvars PROVE ManagedTyped'
  OBVIOUS
<1>0. ManagedTyped
  BY DEF ManagedInv
<1>1. ASSUME NEW w \in Workers, Job(w) PROVE ManagedTyped'
  BY <1>0, <1>1, JobSteps DEF JobStep, ManagedTyped
<1>2. ASSUME NEW o \in OpIds, Added(o), pool' = pool,
             sched' = sched \/ sched' = [sched EXCEPT !.pc = "record"]
      PROVE  ManagedTyped'
  BY <1>0, <1>2 DEF Added, ManagedTyped
<1>3. CASE ManagerStep
  BY <1>0, <1>3 DEF ManagerStep, AllStop, Quit, ManagedTyped
<1> QED
  BY <1>1, <1>2, <1>3, ManagedShape

(* The machine is started by an armed job alone. *)
LEMMA MachineStarts ==
  ASSUME ManagedInv, [ManagedNext]_mvars, machine = "off", machine' = "on"
  PROVE  \E w \in Workers : /\ job[w] = "armed" /\ work[w].pc = "running"
                            /\ ops[work[w].op].kind = "start" /\ lease' = lease
BY ManagedShape, JobSteps DEF JobStep, Added, ManagerStep

LEMMA KeepsRunning == ManagedInv /\ [ManagedNext]_mvars => RunningIsLeased'
<1> SUFFICES ASSUME ManagedInv, [ManagedNext]_mvars, machine' = "on"
             PROVE  \E l \in Leases : lease'[l].state \notin {"absent", "released"} /\ lease'[l].inst = I
  BY DEF RunningIsLeased, Held
<1>0. machine \in {"on", "off"}
  BY DEF ManagedInv, ManagedTyped
<1>1. CASE machine = "on"
  <2>1. PICK l \in Leases : Held(l) /\ lease[l].inst = I
    BY <1>1 DEF ManagedInv, RunningIsLeased
  <2>2. ~Quiet
    BY <1>1 DEF Quiet
  <2> QED
    BY <2>1, <2>2, LeasesMove DEF LeasesStand, Held
<1>2. CASE machine = "off"
  <2>1. PICK w \in Workers : /\ job[w] = "armed" /\ work[w].pc = "running"
                             /\ ops[work[w].op].kind = "start" /\ lease' = lease
    BY <1>2, MachineStarts
  <2>2. PICK o \in Recorded : o = work[w].op
    BY <2>1, ManagedBasics
  <2>3. permit[o] # NoPermit /\ ops[o].kind \notin Safe
    BY <2>1, <2>2 DEF ManagedInv, JobsArePermitted, Safe
  <2>4. permit[o].lease \in Leases /\ lease[permit[o].lease].inst = I
    BY <2>3 DEF ManagedInv, PermitsAreOurs, PermittedUnder
  <2>5. lease[permit[o].lease].state = "reserved"
    BY <2>1, <2>2, <2>3 DEF ManagedInv, ArmedIsReserved
  <2> QED
    BY <2>1, <2>4, <2>5
<1> QED
  BY <1>0, <1>1, <1>2

LEMMA KeepsNeeded == ManagedInv /\ [ManagedNext]_mvars => NothingOutlivesItsLease'
<1> SUFFICES ASSUME ManagedInv, [ManagedNext]_mvars, NEW o \in Recorded',
                    ops'[o].status \in {"pending", "executing"}, permit'[o] # NoPermit, ops'[o].kind \notin Safe
             PROVE  lease'[permit'[o].lease].state \notin {"absent", "released"}
  BY DEF NothingOutlivesItsLease, Unresolved, Held, Safe, NoPermit
<1>1. CASE o \in Recorded
  <2>1. Unresolved(o) /\ permit'[o] = permit[o] /\ ops'[o].kind = ops[o].kind
    BY <1>1, ContractMoves, RequestsStay, OperationsMove DEF ManagedInv
  <2>2. permit[o].lease \in Leases /\ Held(permit[o].lease)
    BY <1>1, <2>1 DEF ManagedInv, NothingOutlivesItsLease, PermitsAreOurs, PermittedUnder
  <2>3. inst[I].active = o /\ o # NoOp
    BY <1>1, <2>1, ManagedBasics DEF ManagedInv, ServiceInv, UnresolvedHolds, Recorded, NoOp
  <2>4. ~Quiet
    BY <2>3 DEF Quiet
  <2> QED
    BY <2>1, <2>2, <2>4, LeasesMove DEF LeasesStand
<1>2. CASE o \notin Recorded
  BY <1>2, OperationsMove DEF Added
<1> QED
  BY <1>1, <1>2

LEMMA KeepsStops ==
  ManagedInv /\ [ManagedNext]_mvars => StopRequestIsTheRecorded' /\ StopsHaveGenerations'
<1> SUFFICES ASSUME ManagedInv, [ManagedNext]_mvars, NEW o \in Recorded', NEW l \in Leases, ops'[o].key = StopKey[l]
             PROVE  /\ ops'[o].kind = "stop" /\ ops'[o].gen > 0
                    /\ lease'[l].stop = [gen |-> ops'[o].gen, rev |-> ops'[o].rev]
  BY DEF StopRequestIsTheRecorded, StopsHaveGenerations
<1>1. CASE o \in Recorded
  <2>1. /\ ops'[o].kind = ops[o].kind /\ ops'[o].key = ops[o].key
        /\ ops'[o].gen = ops[o].gen /\ ops'[o].rev = ops[o].rev
    BY <1>1, ContractMoves, RequestsStay DEF ManagedInv
  <2>2. /\ ops[o].kind = "stop" /\ ops[o].gen > 0
        /\ lease[l].stop = [gen |-> ops[o].gen, rev |-> ops[o].rev]
    BY <1>1, <2>1 DEF ManagedInv, StopRequestIsTheRecorded, StopsHaveGenerations
  <2>3. lease[l].stop # NoStop
    BY <2>2 DEF NoStop
  <2> QED
    BY <2>1, <2>2, <2>3, LeasesMove DEF LeasesStand
<1>2. CASE o \notin Recorded
  BY <1>2, OperationsMove DEF Added
<1> QED
  BY <1>1, <1>2

LEMMA KeepsPermits == ManagedInv /\ [ManagedNext]_mvars => PermitsAreOurs'
<1> SUFFICES ASSUME ManagedInv, [ManagedNext]_mvars PROVE PermitsAreOurs'
  OBVIOUS
<1>1. \A o \in OpIds \ Recorded' : permit'[o] = NoPermit
  BY OperationsMove DEF ManagedInv, PermitsAreOurs
<1>2. ASSUME NEW o \in Recorded', permit'[o] # NoPermit, ops'[o].kind \notin Safe
      PROVE  LET l == permit'[o].lease
             IN l \in Leases /\ lease'[l].state # "absent" /\ lease'[l].inst = I
  <2>1. CASE o \in Recorded
    <3>1. permit'[o] = permit[o] /\ ops'[o].kind = ops[o].kind
      BY <2>1, ContractMoves, RequestsStay, OperationsMove DEF ManagedInv
    <3>2. permit[o].lease \in Leases /\ lease[permit[o].lease].state # "absent" /\ lease[permit[o].lease].inst = I
      BY <1>2, <2>1, <3>1 DEF ManagedInv, PermitsAreOurs, PermittedUnder
    <3> QED
      BY <3>1, <3>2, LeasesMove DEF LeasesStand
  <2>2. CASE o \notin Recorded
    BY <1>2, <2>2, OperationsMove DEF Added
  <2> QED
    BY <2>1, <2>2
<1> QED
  BY <1>1, <1>2 DEF PermitsAreOurs, PermittedUnder, OpIds, NoPermit, Safe

LEMMA KeepsJobs ==
  ManagedInv /\ [ManagedNext]_mvars => JobsArePermitted' /\ JobsHoldThePool' /\ ArmedIsInside'
<1> SUFFICES ASSUME ManagedInv, [ManagedNext]_mvars, NEW v \in Workers
             PROVE  /\ work'[v].pc # "idle" => permit'[work'[v].op] # NoPermit
                    /\ job'[v] \in {"bound", "armed", "done"} => pool' = v
                    /\ job'[v] = "armed" => work'[v].pc \in {"running", "finish"}
  BY DEF JobsArePermitted, JobsHoldThePool, ArmedIsInside, NoPermit
<1>0. /\ work[v].pc # "idle" => permit[work[v].op] # NoPermit /\ work[v].op \in Recorded
      /\ job[v] \in {"bound", "armed", "done"} => pool = v
      /\ job[v] = "armed" => work[v].pc \in {"running", "finish"}
      /\ v # Free /\ v # Others /\ v # Scheduler
  BY ManagedBasics DEF ManagedInv, JobsArePermitted, JobsHoldThePool, ArmedIsInside
<1>1. ASSUME NEW w \in Workers, Job(w)
      PROVE  /\ work'[v].pc # "idle" => permit'[work'[v].op] # NoPermit
             /\ job'[v] \in {"bound", "armed", "done"} => pool' = v
             /\ job'[v] = "armed" => work'[v].pc \in {"running", "finish"}
  <2>1. JobStep(w)
    BY <1>1, JobSteps
  <2>2. CASE v = w
    BY <2>1, <2>2 DEF JobStep
  <2>3. CASE v # w
    <3>1. job'[v] = job[v] /\ work'[v] = work[v] /\ permit' = permit
      BY <2>1, <2>3 DEF JobStep
    <3>2. pool = v => pool' = v
      BY <1>0, <2>1, <2>3 DEF JobStep
    <3> QED
      BY <1>0, <3>1, <3>2
  <2> QED
    BY <2>2, <2>3
<1>2. ASSUME NEW o \in OpIds, Added(o), pool' = pool
      PROVE  /\ work'[v].pc # "idle" => permit'[work'[v].op] # NoPermit
             /\ job'[v] \in {"bound", "armed", "done"} => pool' = v
             /\ job'[v] = "armed" => work'[v].pc \in {"running", "finish"}
  BY <1>0, <1>2, OperationsMove DEF Added
<1>3. CASE ManagerStep
  BY <1>0, <1>3 DEF ManagerStep, AllStop, Idle, At
<1> QED
  BY <1>1, <1>2, <1>3, ManagedShape

(* The lease that a job was authorized under is left alone until its effect. *)
LEMMA KeepsArmed == ManagedInv /\ [ManagedNext]_mvars => ArmedIsReserved'
<1> SUFFICES ASSUME ManagedInv, [ManagedNext]_mvars, NEW v \in Workers,
                    job'[v] = "armed", work'[v].pc = "running", ops'[work'[v].op].kind \notin Safe
             PROVE  lease'[permit'[work'[v].op].lease].state = "reserved"
  BY DEF ArmedIsReserved, Safe
<1> DEFINE Stays == /\ job[v] = "armed" /\ work[v].pc = "running" /\ work'[v].op = work[v].op
                    /\ ops'[work[v].op].kind = ops[work[v].op].kind
<1>1. ASSUME Stays
      PROVE  lease'[permit'[work'[v].op].lease].state = "reserved"
  <2>1. PICK o \in Recorded : o = work[v].op
    BY <1>1, ManagedBasics
  <2>2. permit'[o] = permit[o] /\ permit[o] # NoPermit /\ ops[o].kind \notin Safe /\ pool = v
    BY <1>1, <2>1, OperationsMove DEF ManagedInv, JobsArePermitted, JobsHoldThePool
  <2>3. permit[o].lease \in Leases /\ lease[permit[o].lease].state = "reserved"
    BY <1>1, <2>1, <2>2 DEF ManagedInv, PermitsAreOurs, PermittedUnder, ArmedIsReserved
  <2>4. lease'[permit[o].lease] = lease[permit[o].lease]
    BY <2>2, <2>3, LeasesMove DEF LeasesStand
  <2> QED
    BY <1>1, <2>1, <2>2, <2>3, <2>4
<1>2. ASSUME work'[v] = work[v], job'[v] = job[v] PROVE Stays
  <2>1. work[v].op \in Recorded
    BY <1>2, ManagedBasics
  <2> QED
    BY <1>2, <2>1, ContractMoves, RequestsStay DEF ManagedInv
<1>3. ASSUME NEW w \in Workers, Job(w), v # w PROVE Stays
  BY <1>2, <1>3, JobSteps DEF JobStep
<1>4. ASSUME Job(v) PROVE Stays \/ lease'[permit'[work'[v].op].lease].state = "reserved"
  <2>1. /\ work[v].pc = "running" /\ work'[v].op = work[v].op /\ ops' = ops
        /\ job[v] = "armed" \/ Authorized(work[v].op)
        /\ lease' = lease /\ permit' = permit
    BY <1>4, JobSteps DEF JobStep
  <2>2. CASE job[v] = "armed"
    BY <2>1, <2>2
  <2>3. CASE Authorized(work[v].op)
    <3>1. PICK o : o = work[v].op
      OBVIOUS
    <3>2. MayRun(ops[o].kind, permit[o].lease) /\ ops[o].kind \notin Safe
      BY <2>1, <2>3, <3>1 DEF Authorized
    <3>3. lease[permit[o].lease].state = "reserved"
      BY <3>2 DEF MayRun, Admitted
    <3> QED
      BY <2>1, <3>1, <3>3
  <2> QED
    BY <2>1, <2>2, <2>3
<1>5. ASSUME NEW o \in OpIds, Added(o) PROVE Stays
  BY <1>2, <1>5 DEF Added
<1>6. CASE ManagerStep
  <2>1. CASE AllStop
    BY <2>1 DEF AllStop
  <2>2. CASE job' = job /\ work' = work
    BY <1>1, <1>2, <2>2
  <2> QED
    BY <1>6, <2>1, <2>2 DEF ManagerStep
<1> HIDE DEF Stays
<1> QED
  BY <1>1, <1>3, <1>4, <1>5, <1>6, ManagedShape

LEMMA KeepsScheduler == ManagedInv /\ [ManagedNext]_mvars => SchedulerHoldsThePool'
<1> SUFFICES ASSUME ManagedInv, [ManagedNext]_mvars
             PROVE  IF sched'.pc = "idle" THEN sched' = Quit
                    ELSE /\ pool' = Scheduler /\ sched'.lease \in Leases
                         /\ lease'[sched'.lease].state \notin {"absent", "released"}
  BY DEF SchedulerHoldsThePool, Held, Quit
<1>0. /\ IF sched.pc = "idle" THEN sched = Quit
         ELSE pool = Scheduler /\ sched.lease \in Leases /\ Held(sched.lease)
      /\ sched \in [pc : {"idle", "submit", "record"}, lease : Leases \cup {NoLease}]
      /\ \A w \in Workers : w # Free /\ w # Others /\ w # Scheduler
      /\ Free # Others /\ Free # Scheduler /\ Others # Scheduler
  BY ManagedBasics DEF ManagedInv, SchedulerHoldsThePool, ManagedTyped
<1>1. ASSUME NEW w \in Workers, Job(w)
      PROVE  IF sched'.pc = "idle" THEN sched' = Quit
             ELSE /\ pool' = Scheduler /\ sched'.lease \in Leases
                  /\ lease'[sched'.lease].state \notin {"absent", "released"}
  BY <1>0, <1>1, JobSteps DEF JobStep, Held
<1>2. ASSUME NEW o \in OpIds, Added(o), pool' = pool,
             sched' = sched \/ (sched.pc = "submit" /\ sched' = [sched EXCEPT !.pc = "record"])
      PROVE  IF sched'.pc = "idle" THEN sched' = Quit
             ELSE /\ pool' = Scheduler /\ sched'.lease \in Leases
                  /\ lease'[sched'.lease].state \notin {"absent", "released"}
  BY <1>0, <1>2 DEF Added, Held
<1>3. CASE ManagerStep
  BY <1>0, <1>3 DEF ManagerStep, AllStop, Held, Quit
<1> QED
  BY <1>1, <1>2, <1>3, ManagedShape

LEMMA ManagedStarts == ManagedInit => ManagedInv
<1> SUFFICES ASSUME ManagedInit PROVE ManagedInv
  OBVIOUS
<1>1. ServiceInv
  BY InitialService DEF ManagedInit
<1> DEFINE i == CHOOSE i \in Managed : TRUE
           entry == Marked(Reservation(i, 0), "absent", NoStop)
<1>2. clock \in Clock
  BY LeaseAssumption DEF ManagedInit, LeaseInit, Clock, Drifts
<1>3. entry \in Row
  BY <1>2, LeaseAssumption, ReservationType, MarkedType DEF LeaseStates, NoStop
<1>4. entry.state = "absent" /\ entry.stop = NoStop
  BY DEF Marked
<1>5. lease = [l \in Leases |-> entry]
  BY DEF ManagedInit, LeaseInit
<1> HIDE DEF entry
<1>6. /\ LeaseTypeOK
      /\ \A l \in Leases : lease[l].state = "absent" /\ lease[l].stop = NoStop
  BY <1>2, <1>3, <1>4, <1>5 DEF LeaseTypeOK, ManagedInit, LeaseInit
<1>7. Recorded = {} /\ \A w \in Workers : work[w].pc = "idle"
  BY DEF ManagedInit, Init, Recorded, Idle, At
<1>8. ManagedTyped /\ SchedulerHoldsThePool
  BY DEF ManagedInit, ManagedTyped, SchedulerHoldsThePool, NoPermit, Quit
<1>9. /\ RunningIsLeased /\ JobsHoldThePool /\ ArmedIsInside /\ ArmedIsReserved
      /\ NothingOutlivesItsLease /\ StopRequestIsTheRecorded /\ PermitsAreOurs /\ StopsHaveGenerations
      /\ JobsArePermitted
  BY <1>7 DEF ManagedInit, RunningIsLeased, JobsHoldThePool, ArmedIsInside, ArmedIsReserved,
     NothingOutlivesItsLease, StopRequestIsTheRecorded, PermitsAreOurs, StopsHaveGenerations, JobsArePermitted
<1>10. OneLeasePerInstance /\ DiskStaysReserved /\ AbsentIsBlank
  BY <1>6 DEF OneLeasePerInstance, DiskStaysReserved, AbsentIsBlank, Held
<1> QED
  BY <1>1, <1>6, <1>8, <1>9, <1>10 DEF ManagedInv

LEMMA ManagedKeeps == ManagedInv /\ [ManagedNext]_mvars => ManagedInv'
<1> SUFFICES ASSUME ManagedInv, [ManagedNext]_mvars PROVE ManagedInv'
  OBVIOUS
<1>1. ServiceInv' /\ LeaseTypeOK' /\ OneLeasePerInstance' /\ DiskStaysReserved'
  BY ContractMoves, LeasesMove
<1>2. AbsentIsBlank'
  BY LeasesMove DEF LeasesStand, ManagedInv, AbsentIsBlank, NoStop
<1> QED
  BY <1>1, <1>2, KeepsTyped, KeepsRunning, KeepsNeeded, KeepsStops, KeepsPermits, KeepsJobs, KeepsArmed,
     KeepsScheduler DEF ManagedInv

LEMMA ManagedAlways == ManagedSpec => []ManagedInv
BY ManagedStarts, ManagedKeeps, PTL DEF ManagedSpec

(* Machines and unresolved operations keep the lease they were started under,
   and a lease is ended by the one stop that it recorded, whatever expires,
   crashes, is cancelled or retried. *)
THEOREM LeasesAlwaysGovern == ManagedSpec => []LeasesGovern
<1>1. ManagedInv => LeasesGovern
  BY DEF ManagedInv, LeasesGovern
<1> QED
  BY <1>1, ManagedAlways, PTL

(* A machine starts under a lease that is reserved at that moment: between the
   last look at the lease and the launch nobody can put it into question. *)
THEOREM LaunchesAreReserved == ManagedSpec => LaunchIsReserved
<1>1. ManagedInv /\ [ManagedNext]_mvars =>
        [machine = "off" /\ machine' = "on" =>
           \E w \in Workers : LET l == permit[work[w].op].lease
                              IN work[w].pc = "running" /\ l \in Leases /\ lease[l].state = "reserved"]_mvars
  <2> SUFFICES ASSUME ManagedInv, [ManagedNext]_mvars, machine = "off", machine' = "on"
               PROVE  \E w \in Workers : LET l == permit[work[w].op].lease
                                         IN work[w].pc = "running" /\ l \in Leases /\ lease[l].state = "reserved"
    OBVIOUS
  <2>1. PICK w \in Workers : job[w] = "armed" /\ work[w].pc = "running" /\ ops[work[w].op].kind = "start"
    BY MachineStarts
  <2>2. work[w].op \in Recorded /\ permit[work[w].op] # NoPermit /\ ops[work[w].op].kind \notin Safe
    BY <2>1, ManagedBasics DEF ManagedInv, JobsArePermitted, Safe
  <2> QED
    BY <2>1, <2>2 DEF ManagedInv, PermitsAreOurs, PermittedUnder, ArmedIsReserved
<1> QED
  BY <1>1, ManagedAlways, PTL DEF ManagedSpec, LaunchIsReserved

(* What the ledger of leases and the contract service promise on their own
   they also promise here: the instance is never leased twice, its disk stays
   reserved, and its operations implement the ledger of operations. *)
THEOREM ManagedLeasedOnce == ManagedSpec => [](OneLeasePerInstance /\ DiskStaysReserved)
<1>1. ManagedInv => OneLeasePerInstance /\ DiskStaysReserved
  BY DEF ManagedInv
<1> QED
  BY <1>1, ManagedAlways, PTL

(* Requests of clients and of the scheduler, jobs that die and reboots of the
   host are steps of the ledger of operations, or ones it does not see. *)
THEOREM ManagedImplementsLedger == ManagedSpec => ImplementsLedger
<1>1. ManagedInit => Ledger!Init
  BY LedgerStarts DEF ManagedInit
<1>2. ManagedInv /\ [ManagedNext]_mvars => [Ledger!Next]_(Ledger!lvars)
  BY ContractMoves, LedgerFollows DEF ManagedInv
<1> QED
  BY <1>1, <1>2, ManagedAlways, PTL DEF ManagedSpec, ImplementsLedger, Ledger!Spec
=============================================================================
