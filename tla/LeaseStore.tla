----------------------------- MODULE LeaseStore -----------------------------
(***************************************************************************)
(* The lease ledger of tools/ctflab_lease_store.py: which principal holds  *)
(* which managed instance, until when, and what the holdings take from the *)
(* pool.  Every action is one transaction made while the pool's gate is    *)
(* held.  Whether an instance is quiet enough to be leased or released is  *)
(* decided by the caller, as in the code.                                  *)
(*                                                                         *)
(* One resource stands for processors and memory, which are given back     *)
(* with the lease, and one for disk, which stays reserved for ever.        *)
(***************************************************************************)
EXTENDS Integers, FiniteSets

CONSTANTS Leases,     \* lease identifiers, chosen by clients
          Renewals,   \* renewal identifiers, chosen by clients
          Managed,    \* the instances the pool manages
          Owner,      \* the principal an instance belongs to
          Cost,       \* what a running instance takes
          Disk,       \* what its files take
          Capacity,   \* of the pool, for both resources
          Limit,      \* of a principal, for both resources
          Ttls,       \* times to live that clients ask for
          ExpiryAction, \* "notify" or "request-stop", for an instance
          Tolerance,  \* how far the two clocks of the host may part unnoticed, 300 s in the code
          MaxMono,    \* bound on the monotonic clock
          MaxDrift,   \* bound on how far the wall clock leaves it, either way
          MaxBoot     \* bound on the number of boots

ASSUME LeaseAssumption ==
  /\ Managed # {}
  /\ Cost \in [Managed -> Nat] /\ Disk \in [Managed -> Nat]
  /\ Capacity \in Nat /\ Limit \in [{Owner[i] : i \in Managed} -> Nat]
  /\ Ttls \subseteq Nat
  /\ ExpiryAction \in [Managed -> {"notify", "request-stop"}]
  /\ Tolerance \in Nat /\ MaxMono \in Nat /\ MaxDrift \in Nat /\ MaxBoot \in Nat \ {0}

VARIABLES lease,     \* leases table
          storage,   \* storage table: instances with a reservation on disk
          renewed,   \* renewals table
          clock      \* the host's clocks

leaseVars == <<lease, storage, renewed, clock>>

LeaseStates == {"absent", "reserved", "attention", "stop-intent", "stop-submitted", "released"}

(* A boot identifier, the time the host was awake since that boot, and how far
   the wall clock is ahead of that: the monotonic clock stands still while the
   host sleeps, the wall clock goes on, and somebody may set it. *)
Drifts == -MaxDrift..MaxDrift
Clock == [boot : 1..MaxBoot, mono : 0..MaxMono, drift : Drifts]

(* The stop request saved in a lease, by the generation and the revision that
   it was decided on. *)
NoStop == [gen |-> 0, rev |-> 0]

Row == [state : LeaseStates, inst : Managed, issued : Clock, deadline : Nat,
        stop : [gen : Nat, rev : Nat]]

Reservation(i, ttl) ==
  [state |-> "reserved", inst |-> i, issued |-> clock, deadline |-> clock.mono + ttl, stop |-> NoStop]

Marked(row, state, stop) ==
  [state |-> state, inst |-> row.inst, issued |-> row.issued, deadline |-> row.deadline, stop |-> stop]

LeaseInit ==
  /\ clock = [boot |-> 1, mono |-> 0, drift |-> 0]
  /\ lease = [l \in Leases |-> Marked(Reservation(CHOOSE i \in Managed : TRUE, 0), "absent", NoStop)]
  /\ storage = {}
  /\ renewed = {}

Held(l) == lease[l].state \notin {"absent", "released"}

HeldOn(i) == {l \in Leases : Held(l) /\ lease[l].inst = i}

(* time_state: the deadline is believed only on the clock it was set on, and as
   long as both clocks of the host have advanced by the same, up to Tolerance. *)
Elsewhere(issued) == clock.boot # issued.boot \/ clock.mono < issued.mono

Parted(issued) ==
  \/ clock.drift - issued.drift > Tolerance
  \/ issued.drift - clock.drift > Tolerance

TimeStateTrusting(row) ==
  IF Elsewhere(row.issued) THEN "clock-uncertain"
  ELSE IF clock.mono >= row.deadline THEN "expired" ELSE "active"

TimeState(row) ==
  IF Elsewhere(row.issued) \/ Parted(row.issued) THEN "clock-uncertain"
  ELSE IF clock.mono >= row.deadline THEN "expired" ELSE "active"

(* usage, of a set of instances: what their leases take, and their disks, unit by unit. *)
LeasedUnits(S) == UNION {{l} \X (1..Cost[lease[l].inst]) : l \in {k \in Leases : Held(k) /\ lease[k].inst \in S}}
DiskUnits(S) == UNION {{i} \X (1..Disk[i]) : i \in storage \cap S}
InUse(S) == Cardinality(LeasedUnits(S))
Stored(S) == Cardinality(DiskUnits(S))
OwnedBy(p) == {i \in Managed : Owner[i] = p}

(* fits: with a further instance running, and with its disk if that is new,
   the pool and the owner stay within their limits. *)
FitsPool(i, cost, disk) ==
  /\ InUse(Managed) + cost <= Capacity
  /\ Stored(Managed) + disk <= Capacity

Fits(i, cost, disk) ==
  /\ FitsPool(i, cost, disk)
  /\ InUse(OwnedBy(Owner[i])) + cost <= Limit[Owner[i]]
  /\ Stored(OwnedBy(Owner[i])) + disk <= Limit[Owner[i]]

NewDisk(i) == IF i \in storage THEN 0 ELSE Disk[i]

(* acquire_locked; a repeated request is answered from the ledger. *)
Acquire(l, i, ttl) ==
  /\ lease[l].state = "absent"
  /\ HeldOn(i) = {}
  /\ Fits(i, Cost[i], NewDisk(i))
  /\ lease' = [lease EXCEPT ![l] = Reservation(i, ttl)]
  /\ storage' = storage \cup {i}
  /\ UNCHANGED <<renewed, clock>>

(* admit_locked: the lease entitles its holder to run the instance now. *)
Admitted(l, i) ==
  /\ lease[l].inst = i
  /\ lease[l].state = "reserved"
  /\ TimeState(lease[l]) = "active"
  /\ Fits(i, 0, 0)

Extended(row, deadline) ==
  [state |-> row.state, inst |-> row.inst, issued |-> row.issued,
   deadline |-> IF deadline > row.deadline THEN deadline ELSE row.deadline, stop |-> row.stop]

(* renew_locked: a renewal counts once and can only extend. *)
Renew(l, r, ttl) ==
  /\ r \notin renewed
  /\ Admitted(l, lease[l].inst)
  /\ lease' = [lease EXCEPT ![l] = Extended(@, clock.mono + ttl)]
  /\ renewed' = renewed \cup {r}
  /\ UNCHANGED <<storage, clock>>

(* save, with a new state and stop request. *)
Save(l, state, stop) ==
  /\ lease' = [lease EXCEPT ![l] = Marked(@, state, stop)]
  /\ UNCHANGED <<storage, renewed, clock>>

(* release: processors and memory are given back, the disk is not. *)
Release(l) ==
  /\ Held(l)
  /\ Save(l, "released", lease[l].stop)

-----------------------------------------------------------------------------
(* The clocks of the host: time passes, the host sleeps, the wall clock is set,
   the host is booted again. *)
Tick ==
  /\ clock.mono < MaxMono
  /\ clock' = [clock EXCEPT !.mono = @ + 1]
  /\ UNCHANGED <<lease, storage, renewed>>

Sleep ==
  /\ clock.drift < MaxDrift
  /\ clock' = [clock EXCEPT !.drift = @ + 1]
  /\ UNCHANGED <<lease, storage, renewed>>

SetClock(drift) ==
  /\ clock' = [clock EXCEPT !.drift = drift]
  /\ UNCHANGED <<lease, storage, renewed>>

Boot ==
  /\ clock.boot < MaxBoot
  /\ clock' = [boot |-> clock.boot + 1, mono |-> 0, drift |-> clock.drift]
  /\ UNCHANGED <<lease, storage, renewed>>

-----------------------------------------------------------------------------
(* The ledger on its own: leases of all instances, whatever their callers
   find out about the instances. *)
Transaction ==
  \E l \in Leases :
    \/ \E i \in Managed, ttl \in Ttls : Acquire(l, i, ttl)
    \/ \E r \in Renewals, ttl \in Ttls : Renew(l, r, ttl)
    \/ Held(l) /\ \E state \in {"attention", "stop-intent", "stop-submitted"} :
                    Save(l, state, lease[l].stop)
    \/ Release(l)

LeaseNext == Transaction \/ Tick \/ Sleep \/ Boot \/ \E drift \in Drifts : SetClock(drift)
=============================================================================
