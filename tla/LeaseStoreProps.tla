--------------------------- MODULE LeaseStoreProps ---------------------------
(* What the lease ledger promises, measured against the time that really
   passes, which no clock of the host shows. *)
EXTENDS LeaseStore

VARIABLES real,  \* history: the time that has passed
          due,   \* history: the time until which a lease has been granted
          byHand \* history: how far the wall clock has been set forward since, less how far back

timedVars == <<leaseVars, real, due, byHand>>

TimedInit ==
  /\ LeaseInit
  /\ real = 0 /\ due = [l \in Leases |-> 0] /\ byHand = [l \in Leases |-> 0]

Granted(l) == lease[l].state = "absent" /\ lease'[l].state # "absent"

TimedTransaction ==
  /\ Transaction
  /\ due' = [l \in Leases |->
               IF Granted(l) \/ lease'[l].deadline # lease[l].deadline
               THEN real + (lease'[l].deadline - clock.mono) ELSE due[l]]
  /\ byHand' = [l \in Leases |-> IF Granted(l) THEN 0 ELSE byHand[l]]
  /\ UNCHANGED real

(* Time passes with the monotonic clock, while the host sleeps and, however
   long, while it boots, but not when somebody sets the wall clock. *)
TimedClock ==
  /\ \/ Tick /\ real' = real + 1 /\ UNCHANGED byHand
     \/ Sleep /\ real' = real + 1 /\ UNCHANGED byHand
     \/ Boot /\ real' \in {real, real + 1} /\ UNCHANGED byHand
     \/ \E drift \in Drifts :
          /\ SetClock(drift)
          /\ byHand' = [l \in Leases |-> byHand[l] + (drift - clock.drift)]
          /\ UNCHANGED real
  /\ UNCHANGED due

TimedNext == TimedTransaction \/ TimedClock

TimedSpec == TimedInit /\ [][TimedNext]_timedVars

LeaseTypeOK ==
  /\ lease \in [Leases -> Row]
  /\ storage \subseteq Managed
  /\ renewed \subseteq Renewals
  /\ clock \in Clock

(* No instance is leased twice, whatever state its lease is left in: what is
   kept for an administrator still blocks the instance. *)
OneLeasePerInstance ==
  \A l, m \in Leases : Held(l) /\ Held(m) /\ lease[l].inst = lease[m].inst => l = m

(* What is leased and what is stored never exceeds the pool, nor the share of
   any principal. *)
WithinLimits ==
  /\ InUse(Managed) <= Capacity /\ Stored(Managed) <= Capacity
  /\ \A p \in {Owner[i] : i \in Managed} :
       InUse(OwnedBy(p)) <= Limit[p] /\ Stored(OwnedBy(p)) <= Limit[p]

(* The files of an instance stay accounted for after its leases have ended. *)
DiskStaysReserved ==
  \A l \in Leases : lease[l].state # "absent" => lease[l].inst \in storage

(* A lease entitles nobody for longer after the time that it was granted for
   than Tolerance, though the host may have slept or been booted again in
   between; setting the wall clock back can add what it was set back by. *)
EntitledOnlyInTime ==
  \A l \in Leases : Admitted(l, lease[l].inst) => real < due[l] + Tolerance - byHand[l]

(* Behind these: a lease was issued in this boot or an earlier one.  In this
   one, what the clocks have parted by since, less what was set by hand, is how
   long the host has slept, and nothing else makes the deadline late. *)
Slept(l) == clock.drift - lease[l].issued.drift - byHand[l]

IssuedBefore == \A l \in Leases : lease[l].issued.boot <= clock.boot

LateBySleep ==
  \A l \in Leases :
    lease[l].state # "absent" /\ lease[l].issued.boot = clock.boot =>
      /\ Slept(l) >= 0
      /\ real - due[l] <= clock.mono - lease[l].deadline + Slept(l)

TimedInv ==
  /\ LeaseTypeOK /\ real \in Nat /\ due \in [Leases -> Int] /\ byHand \in [Leases -> Int]
  /\ OneLeasePerInstance /\ DiskStaysReserved /\ IssuedBefore /\ LateBySleep

(* The time granted to a lease is never cut short, and a released lease never
   comes back. *)
GrantsStand ==
  [][\A l \in Leases :
       /\ Held(l) => lease'[l].deadline >= lease[l].deadline
       /\ lease[l].state = "released" => lease'[l] = lease[l]]_timedVars
=============================================================================
