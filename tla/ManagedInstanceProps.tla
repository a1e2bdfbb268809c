------------------------ MODULE ManagedInstanceProps ------------------------
(* What must be true between the leases, the operations and the machine. *)
EXTENDS ManagedInstance

(* As long as the machine runs, or nobody can prove that it does not, its
   resources stay charged to a lease: no expiry, release, crash or reboot
   hands them to somebody else. *)
RunningIsLeased ==
  machine = "on" => \E l \in Leases : Held(l) /\ lease[l].inst = I

(* A machine is started under a lease that is reserved at that moment, and that
   no uncertain clock, expiry or stop has put into question before. *)
LaunchIsReserved ==
  [][machine = "off" /\ machine' = "on" =>
       \E w \in Workers : LET l == permit[work[w].op].lease
                          IN work[w].pc = "running" /\ l \in Leases /\ lease[l].state = "reserved"]_mvars

(* While an operation that a lease was needed for is unresolved, that lease is
   not given back. *)
NothingOutlivesItsLease ==
  \A o \in Recorded :
    Unresolved(o) /\ permit[o] # NoPermit /\ ops[o].kind \notin Safe => Held(permit[o].lease)

(* The stop request kept in a lease is the one that was recorded and dispatched
   on its behalf, whatever crashed in between: an expired lease asks for one
   stop, decided once. *)
StopRequestIsTheRecorded ==
  \A o \in Recorded : \A l \in Leases :
    ops[o].key = StopKey[l] =>
      /\ ops[o].kind = "stop"
      /\ lease[l].stop = [gen |-> ops[o].gen, rev |-> ops[o].rev]

(* What a lease was given for happens within it: machines and unresolved
   operations keep it, and it is ended by the one stop that it recorded
   (LeaseRunner.quiet, release, submit_locked, expiry). *)
LeasesGovern == RunningIsLeased /\ NothingOutlivesItsLease /\ StopRequestIsTheRecorded
=============================================================================
