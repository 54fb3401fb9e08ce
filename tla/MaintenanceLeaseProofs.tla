----------------------- MODULE MaintenanceLeaseProofs -----------------------
(***************************************************************************)
(* For every set of invocations, every lease duration and every skew of    *)
(* the clocks: the variables keep their types, reads that can still be     *)
(* used tell the truth, and, when renewals are timely, the lock excludes.  *)
(***************************************************************************)
EXTENDS MaintenanceLease, TLAPS

LEMMA TypeInit == Init => TypeOK
<1>1. Init => since \in [Requests -> 0 .. MaxFlight]
  BY LeaseAssumption DEF Init
<1>2. QED
  BY <1>1, LeaseAssumption DEF Init, TypeOK, Absent, Leases, Oldest, Pcs

LEMMA WriteType ==
  ASSUME NEW value \in Leases, Write(value)
  PROVE  /\ lease' \in Leases
         /\ current' \subseteq Requests
  BY DEF Write

LEMMA LeaseValues ==
  ASSUME NEW p \in Procs
  PROVE  /\ \A age \in 0 .. MaxFlight : Renewed(p, age) \in Leases
         /\ Released(p) \in Leases
  BY LeaseAssumption DEF Renewed, Released, Leases, Oldest

LEMMA RequestTypes ==
  ASSUME NEW p \in Procs
  PROVE  /\ Main(p) \in Requests /\ Main(p)[1] = p
         /\ Renewal(p) \in Requests /\ Renewal(p)[1] = p
  BY DEF Main, Renewal, Requests

(* A write that lands is stamped with an age no greater than MaxFlight.    *)
LEMMA StampedWrite ==
  ASSUME TypeOK, NEW r \in Requests, WriteStamped(r)
  PROVE  \E age \in 0 .. MaxFlight : Write(Renewed(r[1], age))
<1>1. PICK age \in 0 .. since[r] : Write(Renewed(r[1], age))
  BY DEF WriteStamped
<1>2. age \in 0 .. MaxFlight
  BY LeaseAssumption DEF TypeOK
<1>3. QED
  BY <1>1, <1>2

LEMMA StampedType ==
  ASSUME TypeOK, NEW r \in Requests, WriteStamped(r)
  PROVE  lease' \in Leases /\ current' \subseteq Requests
<1>1. PICK age \in 0 .. MaxFlight : Write(Renewed(r[1], age))
  BY StampedWrite
<1>2. Renewed(r[1], age) \in Leases
  BY LeaseValues DEF Requests
<1>3. QED
  BY <1>1, <1>2, WriteType

LEMMA ClockType ==
  ASSUME TypeOK, NEW r \in Requests, StartClock(r)
  PROVE  since' \in [Requests -> 0 .. MaxFlight]
  BY LeaseAssumption DEF TypeOK, StartClock

LEMMA TypeStep == TypeOK /\ [Next]_vars => TypeOK'
<1> SUFFICES ASSUME TypeOK, [Next]_vars PROVE TypeOK'
  OBVIOUS
<1> USE DEF TypeOK
<1>1. CASE UNCHANGED vars
  BY <1>1 DEF vars
<1>2. CASE Tick
  <2>1. lease' \in Leases
    BY <1>2, LeaseAssumption DEF Tick, Leases, Oldest
  <2>2. wait' \in [Procs -> 0 .. MaxDelay + 1]
    BY <1>2, LeaseAssumption DEF Tick
  <2>3. since' \in [Requests -> 0 .. MaxFlight]
    BY <1>2, LeaseAssumption DEF Tick
  <2>4. QED
    BY <1>2, <2>1, <2>2, <2>3 DEF Tick
<1>3. ASSUME NEW p \in Procs, Call(p) PROVE TypeOK'
  BY <1>3, LeaseAssumption DEF Call, Goto, Pcs
<1>4. ASSUME NEW p \in Procs, Proceed(p) PROVE TypeOK'
  <2>1. CASE Read(p)
    <3>1. current' \subseteq Requests
      BY <2>1, RequestTypes DEF Read
    <3>2. pc' \in [Procs -> Pcs]
      BY <2>1 DEF Read, Goto, Pcs
    <3>3. since' \in [Requests -> 0 .. MaxFlight]
      BY <2>1, RequestTypes, ClockType DEF Read
    <3>4. QED
      BY <2>1, <3>1, <3>2, <3>3 DEF Read
  <2>2. CASE GiveUp(p)
    BY <2>2 DEF GiveUp, Goto, Pcs
  <2>3. CASE Acquire(p)
    <3>1. lease' \in Leases /\ current' \subseteq Requests
      BY <2>3, RequestTypes, StampedType DEF Acquire
    <3>2. QED
      BY <2>3, <3>1, LeaseAssumption DEF Acquire, Goto, Pcs
  <2>4. CASE AcquireLost(p)
    <3>1. lease' \in Leases /\ current' \subseteq Requests
      BY <2>4, RequestTypes, StampedType DEF AcquireLost
    <3>2. QED
      BY <2>4, <3>1 DEF AcquireLost, Goto, Pcs
  <2>5. CASE AcquireRefused(p)
    BY <2>5 DEF AcquireRefused, Goto, Pcs
  <2>6. CASE Exit(p)
    BY <2>6 DEF Exit, Goto, Pcs
  <2>7. CASE ReleaseRead(p)
    <3>1. current' \subseteq Requests
      BY <2>7, RequestTypes DEF ReleaseRead
    <3>2. pc' \in [Procs -> Pcs]
      BY <2>7 DEF ReleaseRead, Goto, Pcs
    <3>3. QED
      BY <2>7, <3>1, <3>2 DEF ReleaseRead
  <2>8. CASE ReleaseWrite(p)
    <3>1. lease' \in Leases /\ current' \subseteq Requests
      BY <2>8, LeaseValues, WriteType DEF ReleaseWrite
    <3>2. QED
      BY <2>8, <3>1 DEF ReleaseWrite, Goto, Pcs
  <2>9. QED
    BY <1>4, <2>1, <2>2, <2>3, <2>4, <2>5, <2>6, <2>7, <2>8 DEF Proceed
<1>5. ASSUME NEW p \in Procs, Renew(p) PROVE TypeOK'
  <2>1. CASE RenewRead(p)
    <3>1. since' \in [Requests -> 0 .. MaxFlight]
      BY <2>1, RequestTypes, ClockType DEF RenewRead
    <3>2. QED
      BY <2>1, <3>1, RequestTypes DEF RenewRead
  <2>2. CASE RenewWrite(p)
    <3>1. lease' \in Leases /\ current' \subseteq Requests
      BY <2>2, RequestTypes, StampedType DEF RenewWrite
    <3>2. QED
      BY <2>2, <3>1, LeaseAssumption DEF RenewWrite
  <2>3. CASE RenewFail(p)
    <3>1. lease' \in Leases /\ current' \subseteq Requests
      BY <2>3, RequestTypes, StampedType DEF RenewFail
    <3>2. QED
      BY <2>3, <3>1 DEF RenewFail
  <2>4. QED
    BY <1>5, <2>1, <2>2, <2>3 DEF Renew
<1>6. ASSUME NEW p \in Procs, Crash(p) PROVE TypeOK'
  BY <1>6 DEF Crash, Goto, Pcs
<1>7. QED
  BY <1>1, <1>2, <1>3, <1>4, <1>5, <1>6 DEF Next

(* The variables of the lock stay within their types, in every behaviour.  *)
THEOREM TypeCorrect == Spec => []TypeOK
  BY TypeInit, TypeStep, PTL DEF Spec
-----------------------------------------------------------------------------
(* A read that may still be used for a replace saw what the lease still    *)
(* is: nobody wrote it since, and an expired lease stays expired.          *)

LEMMA ReadsInit == Init => CurrentReadsAreTrue
  BY DEF Init, CurrentReadsAreTrue

LEMMA WriteEndsReads ==
  ASSUME NEW value, Write(value) PROVE CurrentReadsAreTrue'
  BY DEF Write, CurrentReadsAreTrue

LEMMA StampEndsReads ==
  ASSUME NEW r, WriteStamped(r) PROVE CurrentReadsAreTrue'
  BY WriteEndsReads DEF WriteStamped

LEMMA ReadersDiffer ==
  ASSUME NEW p, NEW q
  PROVE  /\ Main(p) # Renewal(q)
         /\ Main(p) = Main(q) => p = q
         /\ Renewal(p) = Renewal(q) => p = q
  BY DEF Main, Renewal

LEMMA ReadsStep == TypeOK /\ CurrentReadsAreTrue /\ [Next]_vars => CurrentReadsAreTrue'
<1> SUFFICES ASSUME TypeOK, CurrentReadsAreTrue, [Next]_vars
             PROVE  CurrentReadsAreTrue'
  OBVIOUS
<1>1. CASE UNCHANGED vars
  BY <1>1 DEF vars, CurrentReadsAreTrue, ActiveFor
<1>2. CASE Tick
  <2>1. ASSUME NEW p \in Procs, lease.exists, ~ActiveFor(p)
        PROVE  lease'.exists /\ ~ActiveFor(p)'
    BY <1>2, <2>1, LeaseAssumption DEF Tick, ActiveFor, TypeOK, Leases, Oldest
  <2>2. lease'.holder = lease.holder /\ lease'.exists = lease.exists
    BY <1>2 DEF Tick, TypeOK, Leases
  <2>3. QED
    BY <1>2, <2>1, <2>2 DEF Tick, CurrentReadsAreTrue
<1>3. ASSUME NEW p \in Procs, Call(p) PROVE CurrentReadsAreTrue'
  BY <1>3 DEF Call, Goto, CurrentReadsAreTrue, TypeOK, ActiveFor
<1>4. ASSUME NEW p \in Procs, Proceed(p) PROVE CurrentReadsAreTrue'
  <2>1. CASE Read(p)
    <3> SUFFICES ASSUME NEW q \in Procs
                 PROVE  /\ pc'[q] = "replace" /\ Main(q) \in current' =>
                               lease.exists /\ ~ActiveFor(q)
                        /\ pc'[q] = "release_put" /\ Main(q) \in current' =>
                               lease.holder = q
                        /\ Renewal(q) \in current' =>
                               lease.holder = q /\ lease.exists
      BY <2>1 DEF Read, CurrentReadsAreTrue, ActiveFor
    <3>1. /\ Renewal(q) \in current' => Renewal(q) \in current
          /\ q # p /\ Main(q) \in current' => Main(q) \in current
      BY <2>1, ReadersDiffer DEF Read
    <3>2. q # p => pc'[q] = pc[q]
      BY <2>1 DEF Read, Goto, TypeOK
    <3>3. /\ pc'[p] # "release_put"
          /\ pc'[p] = "replace" => lease.exists /\ ~ActiveFor(p)
      BY <2>1 DEF Read, Goto, TypeOK
    <3>4. QED
      BY <3>1, <3>2, <3>3 DEF CurrentReadsAreTrue
  <2>2. CASE GiveUp(p) \/ AcquireRefused(p) \/ Exit(p)
    BY <2>2 DEF GiveUp, AcquireRefused, Exit, Goto, CurrentReadsAreTrue,
                TypeOK, ActiveFor
  <2>3. CASE Acquire(p) \/ AcquireLost(p)
    BY <2>3, StampEndsReads DEF Acquire, AcquireLost
  <2>4. CASE ReleaseRead(p)
    <3> SUFFICES ASSUME NEW q \in Procs
                 PROVE  /\ pc'[q] = "replace" /\ Main(q) \in current' =>
                               lease.exists /\ ~ActiveFor(q)
                        /\ pc'[q] = "release_put" /\ Main(q) \in current' =>
                               lease.holder = q
                        /\ Renewal(q) \in current' =>
                               lease.holder = q /\ lease.exists
      BY <2>4 DEF ReleaseRead, CurrentReadsAreTrue, ActiveFor
    <3>1. /\ Renewal(q) \in current' => Renewal(q) \in current
          /\ q # p /\ Main(q) \in current' => Main(q) \in current
      BY <2>4, ReadersDiffer DEF ReleaseRead
    <3>2. q # p => pc'[q] = pc[q]
      BY <2>4 DEF ReleaseRead, Goto, TypeOK
    <3>3. /\ pc'[p] # "replace"
          /\ pc'[p] = "release_put" => lease.holder = p
      BY <2>4 DEF ReleaseRead, Goto, TypeOK
    <3>4. QED
      BY <3>1, <3>2, <3>3 DEF CurrentReadsAreTrue
  <2>5. CASE ReleaseWrite(p)
    <3>1. CASE Write(Released(p))
      BY <3>1, WriteEndsReads
    <3>2. CASE UNCHANGED <<lease, current>>
      BY <2>5, <3>2 DEF ReleaseWrite, Goto, CurrentReadsAreTrue, TypeOK, ActiveFor
    <3>3. QED
      BY <2>5, <3>1, <3>2 DEF ReleaseWrite
  <2>6. QED
    BY <1>4, <2>1, <2>2, <2>3, <2>4, <2>5 DEF Proceed
<1>5. ASSUME NEW p \in Procs, Renew(p) PROVE CurrentReadsAreTrue'
  <2>1. CASE RenewRead(p)
    BY <2>1 DEF RenewRead, CurrentReadsAreTrue, TypeOK, ActiveFor, Main, Renewal
  <2>2. CASE RenewWrite(p)
    BY <2>2, StampEndsReads DEF RenewWrite
  <2>3. CASE RenewFail(p)
    <3>1. CASE WriteStamped(Renewal(p))
      BY <3>1, StampEndsReads
    <3>2. CASE UNCHANGED <<lease, current>>
      BY <2>3, <3>2 DEF RenewFail, CurrentReadsAreTrue, ActiveFor
    <3>3. QED
      BY <2>3, <3>1, <3>2 DEF RenewFail
  <2>4. QED
    BY <1>5, <2>1, <2>2, <2>3 DEF Renew
<1>6. ASSUME NEW p \in Procs, Crash(p) PROVE CurrentReadsAreTrue'
  BY <1>6 DEF Crash, Goto, CurrentReadsAreTrue, TypeOK, ActiveFor
<1>7. QED
  BY <1>1, <1>2, <1>3, <1>4, <1>5, <1>6 DEF Next

(* The reads that guard a replace are never out of date.                   *)
THEOREM ReadsTrue == Spec => []CurrentReadsAreTrue
<1>1. Spec => [](TypeOK /\ CurrentReadsAreTrue)
  BY TypeInit, TypeStep, ReadsInit, ReadsStep, PTL DEF Spec
<1>2. QED
  BY <1>1, PTL
-----------------------------------------------------------------------------
(* Mutual exclusion.  TimelyRenewals is what it takes: a lease whose       *)
(* renewTime was MaxFlight ticks old when it landed, and that is not       *)
(* renewed for MaxDelay ticks and a part of one, is still active for the   *)
(* fastest clock.                                                          *)

TimelyRenewals == Timely /\ MaxFlight + MaxDelay + 1 + MaxSkew < LeaseDuration

LockInv == TypeOK /\ CurrentReadsAreTrue /\ HealthyOwnsLease

LEMMA HolderIsSafe ==
  ASSUME TimelyRenewals, LockInv, NEW p \in Procs, Healthy(p),
         NEW q \in Procs
  PROVE  lease.exists /\ lease.holder = p /\ ActiveFor(q)
  BY LeaseAssumption DEF TimelyRenewals, LockInv, TypeOK, Leases, Oldest,
     HealthyOwnsLease, ActiveFor

(* So nobody else can write the lease.                                     *)
LEMMA OnlyHolderWrites ==
  ASSUME TimelyRenewals, LockInv, NEW p \in Procs, Healthy(p),
         NEW q \in Procs, q # p
  PROVE  /\ ~MayAcquire(q)
         /\ Renewal(q) \notin current
         /\ ~(pc[q] = "release_put" /\ Main(q) \in current)
<1>1. lease.exists /\ lease.holder = p /\ ActiveFor(q)
  BY HolderIsSafe
<1>2. QED
  BY <1>1 DEF LockInv, CurrentReadsAreTrue, MayAcquire

LEMMA OwnsStep ==
  ASSUME TimelyRenewals
  PROVE  LockInv /\ [Next]_vars => HealthyOwnsLease'
<1> SUFFICES ASSUME LockInv, [Next]_vars, NEW p \in Procs, Healthy(p)'
             PROVE  /\ lease'.exists
                    /\ lease'.holder = p
                    /\ lease'.skew = Skew[p]
                    /\ thread'[p] # "none"
                    /\ lease'.age <= MaxFlight + wait'[p]
  BY DEF HealthyOwnsLease
<1> DEFINE Owns == /\ lease.exists
                   /\ lease.holder = p
                   /\ lease.skew = Skew[p]
                   /\ thread[p] # "none"
                   /\ lease.age <= MaxFlight + wait[p]
<1>0. Healthy(p) => Owns
  BY DEF LockInv, HealthyOwnsLease
<1>t. TypeOK
  BY DEF LockInv
<1>1. CASE UNCHANGED vars
  BY <1>0, <1>1 DEF vars, Healthy
<1>2. CASE Tick
  <2>1. Owns
    BY <1>0, <1>2 DEF Tick, Healthy
  <2>2. Running(p) /\ wait[p] <= MaxDelay
    BY <1>2, <2>1 DEF Tick, Healthy, Running, TimelyRenewals
  <2>3. wait'[p] = wait[p] + 1
    BY <1>2, <2>2 DEF Tick
  <2>4. lease'.age <= lease.age + 1 /\ lease'.holder = lease.holder
        /\ lease'.exists = lease.exists /\ lease'.skew = lease.skew
    BY <1>2, <1>t, LeaseAssumption DEF Tick, TypeOK, Leases, Oldest
  <2>5. lease.age \in Int /\ lease'.age \in Int /\ wait[p] \in Int
    BY <1>2, <1>t, LeaseAssumption DEF Tick, TypeOK, Leases, Oldest
  <2>6. lease'.age <= MaxFlight + wait'[p]
    BY <2>1, <2>3, <2>4, <2>5, LeaseAssumption
  <2>7. QED
    BY <1>2, <2>1, <2>4, <2>6 DEF Tick
<1>3. ASSUME NEW q \in Procs, Call(q) PROVE Owns'
  <2>1. q # p
    BY <1>3, <1>t DEF Call, Goto, Healthy, TypeOK
  <2>2. QED
    BY <1>0, <1>3, <1>t, <2>1 DEF Call, Goto, Healthy, TypeOK
<1>4. ASSUME NEW q \in Procs, Acquire(q) PROVE Owns'
  <2>1. CASE q = p
    <3>1. PICK age \in 0 .. MaxFlight : Write(Renewed(p, age))
      BY <1>4, <1>t, <2>1, RequestTypes, StampedWrite DEF Acquire
    <3>2. QED
      BY <1>4, <1>t, <2>1, <3>1, LeaseAssumption DEF Acquire, Write, Renewed, TypeOK
  <2>2. CASE q # p
    <3>1. Healthy(p)
      BY <1>4, <1>t, <2>2 DEF Acquire, Goto, Healthy, TypeOK
    <3>2. QED
      BY <1>4, <2>2, <3>1, OnlyHolderWrites DEF Acquire
  <2>3. QED
    BY <2>1, <2>2
<1>5. ASSUME NEW q \in Procs, AcquireLost(q) PROVE Owns'
  <2>1. q # p /\ Healthy(p)
    BY <1>5, <1>t DEF AcquireLost, Goto, Healthy, TypeOK
  <2>2. QED
    BY <1>5, <2>1, OnlyHolderWrites DEF AcquireLost
<1>6. ASSUME NEW q \in Procs,
             Read(q) \/ GiveUp(q) \/ AcquireRefused(q) \/ Exit(q) \/ ReleaseRead(q)
      PROVE  Owns'
  <2>1. q # p \/ pc'[p] = pc[p]
    BY <1>6, <1>t DEF Read, GiveUp, AcquireRefused, Exit, ReleaseRead, Goto,
                      Healthy, TypeOK
  <2>2. Healthy(p)
    BY <1>6, <1>t, <2>1 DEF Read, GiveUp, AcquireRefused, Exit, ReleaseRead,
                            Goto, Healthy, TypeOK
  <2>3. q # p \/ ~Exit(q)
    BY <1>6, <1>t, <2>2 DEF Exit, Goto, Healthy, TypeOK
  <2>4. thread'[p] = thread[p] /\ UNCHANGED <<lease, wait>>
    BY <1>6, <1>t, <2>3 DEF Read, GiveUp, AcquireRefused, Exit, ReleaseRead, TypeOK
  <2>5. QED
    BY <1>0, <2>2, <2>4
<1>7. ASSUME NEW q \in Procs, ReleaseWrite(q) PROVE Owns'
  <2>1. q # p /\ Healthy(p)
    BY <1>7, <1>t DEF ReleaseWrite, Goto, Healthy, TypeOK
  <2>2. UNCHANGED lease
    BY <1>7, <2>1, OnlyHolderWrites DEF ReleaseWrite
  <2>3. QED
    BY <1>0, <1>7, <2>1, <2>2 DEF ReleaseWrite
<1>8. ASSUME NEW q \in Procs, RenewRead(q) PROVE Owns'
  BY <1>0, <1>8, <1>t DEF RenewRead, Healthy, TypeOK
<1>9. ASSUME NEW q \in Procs, RenewWrite(q) PROVE Owns'
  <2>1. Healthy(p)
    BY <1>9 DEF RenewWrite, Healthy
  <2>2. q = p
    BY <1>9, <2>1, OnlyHolderWrites DEF RenewWrite
  <2>3. PICK age \in 0 .. MaxFlight : Write(Renewed(p, age))
    BY <1>9, <1>t, <2>2, RequestTypes, StampedWrite DEF RenewWrite
  <2>4. QED
    BY <1>9, <1>t, <2>1, <2>2, <2>3, LeaseAssumption
       DEF RenewWrite, Write, Renewed, Healthy, TypeOK
<1>10. ASSUME NEW q \in Procs, RenewFail(q) PROVE Owns'
  <2>1. q # p /\ Healthy(p)
    BY <1>10, <1>t DEF RenewFail, Healthy, TypeOK
  <2>2. UNCHANGED lease
    BY <1>10, <2>1, OnlyHolderWrites DEF RenewFail
  <2>3. QED
    BY <1>0, <1>10, <1>t, <2>1, <2>2 DEF RenewFail, TypeOK
<1>11. ASSUME NEW q \in Procs, Crash(q) PROVE Owns'
  <2>1. q # p /\ Healthy(p)
    BY <1>11, <1>t DEF Crash, Goto, Healthy, TypeOK
  <2>2. QED
    BY <1>0, <1>11, <1>t, <2>1 DEF Crash, TypeOK
<1>12. QED
  BY <1>1, <1>2, <1>3, <1>4, <1>5, <1>6, <1>7, <1>8, <1>9, <1>10, <1>11
     DEF Next, Proceed, Renew

LEMMA OwnsExcludes == LockInv => HealthyExclusion
  BY LeaseAssumption DEF LockInv, HealthyOwnsLease, HealthyExclusion

(* At most one invocation is inside the lock with a healthy lease, for     *)
(* every lease duration longer than the delays and skews it has to cover.  *)
THEOREM Exclusion ==
  ASSUME TimelyRenewals PROVE Spec => []HealthyExclusion
<1>1. Init => LockInv
  BY TypeInit, ReadsInit DEF Init, LockInv, HealthyOwnsLease, Healthy
<1>2. LockInv /\ [Next]_vars => LockInv'
  BY TypeStep, ReadsStep, OwnsStep DEF LockInv
<1>3. QED
  BY <1>1, <1>2, OwnsExcludes, PTL DEF Spec

(* An invocation inside the lock that thinks its lease healthy is the one  *)
(* the Lease object names, with a renewTime no older than the flight of    *)
(* its last write and the time since it landed.                            *)
THEOREM Ownership ==
  ASSUME TimelyRenewals PROVE Spec => []HealthyOwnsLease
<1>1. Init => LockInv
  BY TypeInit, ReadsInit DEF Init, LockInv, HealthyOwnsLease, Healthy
<1>2. LockInv /\ [Next]_vars => LockInv'
  BY TypeStep, ReadsStep, OwnsStep DEF LockInv
<1>3. LockInv => HealthyOwnsLease
  BY DEF LockInv
<1>4. QED
  BY <1>1, <1>2, <1>3, PTL DEF Spec
-----------------------------------------------------------------------------
(* With synchronous clocks the Lease object, its resourceVersion and the   *)
(* renewal threads implement the abstract lock: only a lease that ran out  *)
(* is taken over, and only a holder extends or releases one.               *)

Live == lease.exists /\ lease.age < LeaseDuration

LEMMA LockInitRefined == Init => Lock!LockInit
  BY LeaseAssumption DEF Init, Absent, Lock!LockInit, Inside

LEMMA InsideUnchanged ==
  ASSUME TypeOK, NEW p \in Procs, NEW l \in Pcs, Goto(p, l),
         pc[p] \in {"inside", "release_get", "release_put"}
             <=> l \in {"inside", "release_get", "release_put"}
  PROVE  Inside' = Inside
  BY DEF TypeOK, Goto, Inside

LEMMA InsideLeft ==
  ASSUME TypeOK, NEW p \in Procs, Goto(p, "idle")
  PROVE  Inside' = Inside \ {p}
  BY DEF TypeOK, Goto, Inside

LEMMA LockStepRefined ==
  ASSUME MaxSkew = 0
  PROVE  TypeOK /\ CurrentReadsAreTrue /\ [Next]_vars => [Lock!LockNext]_(Lock!lockVars)
<1> SUFFICES ASSUME TypeOK, CurrentReadsAreTrue, [Next]_vars
             PROVE  [Lock!LockNext]_(Lock!lockVars)
  OBVIOUS
<1> USE DEF Lock!LockNext, Lock!lockVars
<1>0. \A p \in Procs : lease.exists /\ ~ActiveFor(p) => ~Live
  BY LeaseAssumption DEF TypeOK, Leases, Oldest, ActiveFor, Live
<1>1. CASE UNCHANGED vars
  BY <1>1 DEF vars, Inside
<1>2. CASE Tick
  <2>1. lease'.holder = lease.holder /\ Inside' = Inside /\ (Live' => Live)
    BY <1>2, LeaseAssumption DEF Tick, TypeOK, Leases, Oldest, Live, Inside
  <2>2. QED
    BY <2>1 DEF Lock!Lapse, Live
<1>3. ASSUME NEW p \in Procs, Call(p) PROVE [Lock!LockNext]_(Lock!lockVars)
  <2>1. Inside' = Inside
    BY <1>3, InsideUnchanged DEF Call, Pcs
  <2>2. QED
    BY <1>3, <2>1 DEF Call
<1>4. ASSUME NEW p \in Procs,
             Read(p) \/ GiveUp(p) \/ AcquireRefused(p) \/ Exit(p)
      PROVE  [Lock!LockNext]_(Lock!lockVars)
  <2>1. Inside' = Inside
    BY <1>4, InsideUnchanged DEF Read, GiveUp, AcquireRefused, Exit, Pcs
  <2>2. QED
    BY <1>4, <2>1 DEF Read, GiveUp, AcquireRefused, Exit
<1>5. ASSUME NEW p \in Procs, Acquire(p) PROVE Lock!Enter(p)
  <2>1. ~Live
    BY <1>0, <1>5 DEF Acquire, MayAcquire, CurrentReadsAreTrue, Live
  <2>2. lease'.holder = p
    BY <1>5, RequestTypes, StampedWrite DEF Acquire, Write, Renewed
  <2>3. p \notin Inside /\ Inside' = Inside \cup {p}
    BY <1>5 DEF Acquire, MayAcquire, Goto, TypeOK, Inside
  <2>4. QED
    BY <2>1, <2>2, <2>3 DEF Lock!Enter, Live
<1>6. ASSUME NEW p \in Procs, AcquireLost(p) PROVE Lock!Strand(p)
  <2>1. ~Live
    BY <1>0, <1>6 DEF AcquireLost, MayAcquire, CurrentReadsAreTrue, Live
  <2>2. lease'.holder = p
    BY <1>6, RequestTypes, StampedWrite DEF AcquireLost, Write, Renewed
  <2>3. Inside' = Inside
    BY <1>6, InsideUnchanged DEF AcquireLost, MayAcquire, Pcs
  <2>4. QED
    BY <2>1, <2>2, <2>3 DEF Lock!Strand, Live
<1>7. ASSUME NEW p \in Procs, Renew(p) PROVE [Lock!LockNext]_(Lock!lockVars)
  <2>1. Inside' = Inside
    BY <1>7 DEF Renew, RenewRead, RenewWrite, RenewFail, Inside
  <2>2. UNCHANGED lease \/ (Renewal(p) \in current /\ WriteStamped(Renewal(p)))
    BY <1>7 DEF Renew, RenewRead, RenewWrite, RenewFail
  <2>3. CASE UNCHANGED lease
    BY <2>1, <2>3
  <2>4. CASE Renewal(p) \in current /\ WriteStamped(Renewal(p))
    <3>1. lease.holder = p /\ lease'.holder = p
      BY <2>4, RequestTypes, StampedWrite DEF CurrentReadsAreTrue, Write, Renewed
    <3>2. QED
      BY <2>1, <3>1 DEF Lock!Extend, Lock!Lapse, Live
  <2>5. QED
    BY <2>2, <2>3, <2>4
<1>8. ASSUME NEW p \in Procs, ReleaseRead(p) PROVE [Lock!LockNext]_(Lock!lockVars)
  <2>1. UNCHANGED lease /\ (Inside' = Inside \/ Inside' = Inside \ {p})
    BY <1>8, InsideUnchanged, InsideLeft DEF ReleaseRead, Pcs
  <2>2. QED
    BY <2>1 DEF Lock!Leave
<1>9. ASSUME NEW p \in Procs, ReleaseWrite(p) PROVE [Lock!LockNext]_(Lock!lockVars)
  <2>1. Inside' = Inside \ {p}
    BY <1>9, InsideLeft DEF ReleaseWrite
  <2>2. CASE UNCHANGED lease
    BY <2>1, <2>2 DEF Lock!Leave
  <2>3. CASE Main(p) \in current /\ Write(Released(p))
    <3>1. lease.holder = p /\ lease'.holder = Nobody /\ ~Live'
      BY <1>9, <2>3, LeaseAssumption
         DEF ReleaseWrite, CurrentReadsAreTrue, Write, Released, Live
    <3>2. QED
      BY <2>1, <3>1 DEF Lock!Release, Live
  <2>4. QED
    BY <1>9, <2>2, <2>3 DEF ReleaseWrite
<1>10. ASSUME NEW p \in Procs, Crash(p) PROVE [Lock!LockNext]_(Lock!lockVars)
  <2>1. UNCHANGED lease /\ Inside' = Inside \ {p}
    BY <1>10, InsideLeft DEF Crash
  <2>2. QED
    BY <2>1 DEF Lock!Leave
<1>11. QED
  BY <1>1, <1>2, <1>3, <1>4, <1>5, <1>6, <1>7, <1>8, <1>9, <1>10
     DEF Next, Proceed

(* MaintenanceLease implements BeginLock.                                  *)
THEOREM Refinement ==
  ASSUME MaxSkew = 0 PROVE Spec => LockRefined
<1>1. Spec => [](TypeOK /\ CurrentReadsAreTrue)
  BY TypeInit, TypeStep, ReadsInit, ReadsStep, PTL DEF Spec
<1>2. QED
  BY <1>1, LockInitRefined, LockStepRefined, PTL DEF Spec, LockRefined, Lock!LockSpec
=============================================================================
