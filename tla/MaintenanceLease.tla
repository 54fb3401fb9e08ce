-------------------------- MODULE MaintenanceLease --------------------------
(***************************************************************************)
(* KubernetesBeginLock of scripts/cluster-maintenance: mutual exclusion of *)
(* "begin" and "probe" by a Lease object that every invocation reads and   *)
(* replaces through kubectl, with a thread that renews it meanwhile.       *)
(*                                                                         *)
(* Time is counted in ticks and relative to now, so that no clock bounds   *)
(* the behaviours: the lease carries the age of its renewTime.  renewTime  *)
(* is read off the clock of the writer before kubectl is launched, so it   *)
(* has an age already when it lands, and is compared with the clock of the *)
(* reader; Skew[p] is how far the clock of p runs ahead.  A                *)
(* resourceVersion is abstracted to the reads that nothing has been        *)
(* written since (current).                                                *)
(***************************************************************************)
EXTENDS Integers, FiniteSets

CONSTANTS Procs,          \* invocations of the command, by lease identity
          Nobody,         \* the holder of an absent or released lease
          LeaseDuration,  \* LEASE_DURATION_SECONDS, in ticks
          Interval,       \* LEASE_RENEW_INTERVAL_SECONDS, in ticks
          Skew,           \* ticks by which the clock of each host is ahead
          MaxSkew,        \* bound on the skews
          MaxFlight,      \* ticks a renewTime may be old when it lands
                          \*      (the greatest value is no bound: expired)
          Timely,         \* TRUE iff no renewal lands later than MaxDelay
          MaxDelay        \*      ticks (and a part of one) after the last

ASSUME LeaseAssumption == /\ Nobody \notin Procs
                          /\ LeaseDuration \in Nat \ {0}
                          /\ Interval \in Nat
                          /\ MaxFlight \in 0 .. LeaseDuration + MaxSkew
                          /\ MaxSkew \in Nat
                          /\ Skew \in [Procs -> 0 .. MaxSkew]
                          /\ Timely \in BOOLEAN
                          /\ MaxDelay \in Nat

VARIABLES lease,    \* the Lease object: its holder and the age of renewTime
          pc,       \* where each invocation is in __enter__ or __exit__
          current,  \* the reads since which nobody has written the object
          since,    \* ticks since the read a write under way rests on
          late,     \* TRUE iff the 15 s deadline of __enter__ has passed
          thread,   \* the renewal thread of each invocation
          wait,     \* ticks since the last write of p landed
          failed    \* renewal_error is set

vars == <<lease, pc, current, since, late, thread, wait, failed>>
-----------------------------------------------------------------------------
(* Ages from Oldest on are expired for every clock.                        *)
Oldest == LeaseDuration + MaxSkew
Leases == [holder : Procs \cup {Nobody}, age : 0 .. Oldest,
           skew : 0 .. MaxSkew, exists : BOOLEAN]

Absent == [holder |-> Nobody, age |-> Oldest, skew |-> 0, exists |-> FALSE]
Renewed(p, age) == [holder |-> p, age |-> age, skew |-> Skew[p], exists |-> TRUE]
Released(p) == [holder |-> Nobody, age |-> LeaseDuration, skew |-> Skew[p],
                exists |-> TRUE]

(* Broken: a lease that is never over.                                     *)
ActiveForever(p) == lease.exists /\ lease.holder # Nobody

(* What p computes from the object: renewTime + duration > utc_now().      *)
ActiveFor(p) == lease.exists /\ lease.age + Skew[p] - lease.skew < LeaseDuration

Main(p)     == <<p, "main">>
Renewal(p)  == <<p, "renewal">>
Requests    == Procs \X {"main", "renewal"}
UnderWay(r) == \/ r[2] = "main" /\ pc[r[1]] \in {"create", "replace"}
               \/ r[2] = "renewal" /\ thread[r[1]] = "read"

(* A successful create or replace changes the resourceVersion: no earlier  *)
(* read can be used for a replace any more.                                *)
Write(value) == lease' = value /\ current' = {}

(* The write of request r lands.  Its renewTime was taken at some moment   *)
(* since the read: manifest() is evaluated before run_kubectl, and so is   *)
(* the renewTime of a renewal.                                             *)
WriteStamped(r) == \E age \in 0 .. since[r] :
                       Write(Renewed(r[1], age))

StartClock(r) == since' = [since EXCEPT ![r] = 0]
Goto(p, l)  == pc' = [pc EXCEPT ![p] = l]
Pcs         == {"idle", "get", "create", "replace", "inside",
                "release_get", "release_put"}
Inside      == {p \in Procs : pc[p] \in {"inside", "release_get", "release_put"}}
-----------------------------------------------------------------------------
Init == /\ lease = Absent
        /\ pc = [p \in Procs |-> "idle"]
        /\ current = {}
        /\ since = [r \in Requests |-> 0]
        /\ late = [p \in Procs |-> FALSE]
        /\ thread = [p \in Procs |-> "none"]
        /\ wait = [p \in Procs |-> 0]
        /\ failed = [p \in Procs |-> FALSE]

(* A new invocation enters the lock; it has no renewal error yet.          *)
Call(p) == /\ pc[p] = "idle"
           /\ Goto(p, "get")
           /\ late' = [late EXCEPT ![p] = FALSE]
           /\ thread' = [thread EXCEPT ![p] = "none"]
           /\ wait' = [wait EXCEPT ![p] = 0]
           /\ failed' = [failed EXCEPT ![p] = FALSE]
           /\ current' = current \ {Main(p), Renewal(p)}
           /\ UNCHANGED <<lease, since>>

(* One turn of the acquisition loop reads the object and decides: create   *)
(* an absent lease, fail on an active one, replace one that ran out.       *)
Read(p) == /\ pc[p] = "get"
           /\ ~late[p]
           /\ \/ /\ ~lease.exists
                 /\ Goto(p, "create")
                 /\ UNCHANGED current
              \/ /\ ActiveFor(p)
                 /\ Goto(p, "idle")
                 /\ UNCHANGED current
              \/ /\ lease.exists
                 /\ ~ActiveFor(p)
                 /\ Goto(p, "replace")
                 /\ current' = current \cup {Main(p)}
           /\ StartClock(Main(p))
           /\ UNCHANGED <<lease, late, thread, wait, failed>>

(* The deadline passed, or kubectl failed for another reason.              *)
GiveUp(p) == /\ pc[p] \in {"get", "create", "replace"}
             /\ Goto(p, "idle")
             /\ UNCHANGED <<lease, current, since, late, thread, wait, failed>>

(* Broken: the resourceVersion is not sent.                                *)
MayAcquireStale(p) == pc[p] \in {"create", "replace"}

(* create needs an absent object, replace a current read.                  *)
MayAcquire(p) == \/ pc[p] = "create" /\ ~lease.exists
                 \/ pc[p] = "replace" /\ Main(p) \in current

Acquire(p) == /\ MayAcquire(p)
              /\ WriteStamped(Main(p))
              /\ Goto(p, "inside")
              /\ thread' = [thread EXCEPT ![p] = "waiting"]
              /\ wait' = [wait EXCEPT ![p] = 0]
              /\ UNCHANGED <<since, late, failed>>

(* The write is applied and its answer is lost (kubectl times out after    *)
(* 30 s): acquired stays FALSE, so nobody will release the lease.          *)
AcquireLost(p) == /\ MayAcquire(p)
                  /\ WriteStamped(Main(p))
                  /\ Goto(p, "idle")
                  /\ UNCHANGED <<since, late, thread, wait, failed>>

(* AlreadyExists or Conflict: the loop reads again.                        *)
AcquireRefused(p) == /\ pc[p] \in {"create", "replace"}
                     /\ ~MayAcquire(p)
                     /\ Goto(p, "get")
                     /\ UNCHANGED <<lease, current, since, late, thread, wait, failed>>
-----------------------------------------------------------------------------
(* The renewal thread: after each interval it reads the object, and        *)
(* replaces it if it still names its own identity, until stop_renewal.     *)
RenewRead(p) == /\ thread[p] = "waiting"
                /\ wait[p] >= Interval
                /\ lease.exists
                /\ lease.holder = p
                /\ thread' = [thread EXCEPT ![p] = "read"]
                /\ current' = current \cup {Renewal(p)}
                /\ StartClock(Renewal(p))
                /\ UNCHANGED <<lease, pc, late, wait, failed>>

RenewWrite(p) == /\ thread[p] = "read"
                 /\ Renewal(p) \in current
                 /\ WriteStamped(Renewal(p))
                 /\ thread' = [thread EXCEPT ![p] =
                                  IF pc[p] = "inside" THEN "waiting" ELSE "none"]
                 /\ wait' = [wait EXCEPT ![p] = 0]
                 /\ UNCHANGED <<pc, since, late, failed>>

(* Broken: the thread ends without recording an error.                     *)
RenewFailSilently(p) == /\ \/ thread[p] = "waiting" /\ wait[p] >= Interval
                           \/ thread[p] = "read"
                        /\ thread' = [thread EXCEPT ![p] = "none"]
                        /\ UNCHANGED <<lease, current, since, pc, late, wait, failed>>

(* The lease was lost, the replace conflicts, or kubectl fails (a replace  *)
(* may fail and be applied all the same): the thread records the error and *)
(* ends.                                                                   *)
RenewFail(p) == /\ \/ thread[p] = "waiting" /\ wait[p] >= Interval
                   \/ thread[p] = "read"
                /\ \/ UNCHANGED <<lease, current>>
                   \/ Renewal(p) \in current /\ thread[p] = "read" /\ WriteStamped(Renewal(p))
                /\ thread' = [thread EXCEPT ![p] = "none"]
                /\ failed' = [failed EXCEPT ![p] = TRUE]
                /\ UNCHANGED <<pc, since, late, wait>>
-----------------------------------------------------------------------------
(* __exit__ stops the thread.  One that is waiting ends at once; one in    *)
(* the middle of a renewal is waited for at most 5 s, so it may still be   *)
(* running while the lease is released, and after that.                    *)
Exit(p) == /\ pc[p] = "inside"
           /\ Goto(p, "release_get")
           /\ thread' = [thread EXCEPT ![p] = IF @ = "waiting" THEN "none" ELSE @]
           /\ UNCHANGED <<lease, current, since, late, wait, failed>>

(* Broken: the holder is not compared with the caller's identity.          *)
ReleaseReadAnyone(p) == /\ pc[p] = "release_get"
                        /\ Goto(p, "release_put")
                        /\ current' = current \cup {Main(p)}
                        /\ UNCHANGED <<lease, since, late, thread, wait, failed>>

ReleaseRead(p) == /\ pc[p] = "release_get"
                  /\ \/ /\ lease.exists
                        /\ lease.holder = p
                        /\ Goto(p, "release_put")
                        /\ current' = current \cup {Main(p)}
                     \/ /\ Goto(p, "idle")        \* not ours, or unreadable
                        /\ UNCHANGED current
                  /\ UNCHANGED <<lease, since, late, thread, wait, failed>>

(* The release is a replace too: a conflict only prints a warning.         *)
ReleaseWrite(p) == /\ pc[p] = "release_put"
                   /\ \/ Main(p) \in current /\ Write(Released(p))
                      \/ UNCHANGED <<lease, current>>
                   /\ Goto(p, "idle")
                   /\ UNCHANGED <<since, late, thread, wait, failed>>

(* The process ends, or is killed anywhere; its thread dies with it.       *)
Crash(p) == /\ pc[p] # "idle" \/ thread[p] # "none"
            /\ Goto(p, "idle")
            /\ thread' = [thread EXCEPT ![p] = "none"]
            /\ UNCHANGED <<lease, current, since, late, wait, failed>>

Running(p) == pc[p] = "inside" /\ thread[p] # "none"

Tick == /\ Timely => \A p \in Procs : Running(p) => wait[p] <= MaxDelay
        /\ lease' = [lease EXCEPT !.age = IF @ < Oldest THEN @ + 1 ELSE @]
        /\ since' = [r \in Requests |-> IF ~UnderWay(r) THEN 0
                                        ELSE IF since[r] < MaxFlight THEN since[r] + 1
                                        ELSE since[r]]
        /\ late' = [p \in Procs |-> late[p] \/ pc[p] \in {"get", "create", "replace"}]
        /\ wait' = [p \in Procs |-> IF Running(p) /\ wait[p] <= MaxDelay
                                    THEN wait[p] + 1 ELSE wait[p]]
        /\ UNCHANGED <<pc, current, thread, failed>>

Proceed(p) == \/ Read(p) \/ GiveUp(p) \/ Acquire(p) \/ AcquireLost(p)
              \/ AcquireRefused(p) \/ Exit(p) \/ ReleaseRead(p) \/ ReleaseWrite(p)
Renew(p)   == RenewRead(p) \/ RenewWrite(p) \/ RenewFail(p)

Next == \/ Tick
        \/ \E p \in Procs : Call(p) \/ Proceed(p) \/ Renew(p) \/ Crash(p)

Spec == Init /\ [][Next]_vars

(* Time passes, and an invocation that is not killed runs on.  Nothing     *)
(* makes a user invoke the command, and a renewal thread may be starved.   *)
Fairness == WF_vars(Tick) /\ \A p \in Procs : WF_vars(Proceed(p))
FairSpec == Spec /\ Fairness
-----------------------------------------------------------------------------
TypeOK == /\ lease \in Leases
          /\ pc \in [Procs -> Pcs]
          /\ current \subseteq Requests
          /\ since \in [Requests -> 0 .. MaxFlight]
          /\ late \in [Procs -> BOOLEAN]
          /\ thread \in [Procs -> {"none", "waiting", "read"}]
          /\ wait \in [Procs -> 0 .. MaxDelay + 1]
          /\ failed \in [Procs -> BOOLEAN]

(* What assert_healthy() tells the operation inside the lock: no renewal   *)
(* has failed so far.                                                      *)
Healthy(p) == pc[p] = "inside" /\ ~failed[p]

(* The lock excludes.  When every host's clock is within MaxSkew, a write  *)
(* lands within MaxFlight ticks of its renewTime and a renewal within      *)
(* MaxDelay ticks of the last one, and MaxFlight + MaxDelay + 1 + MaxSkew  *)
(* < LeaseDuration, at most one invocation is inside the lock with         *)
(* assert_healthy() passing - whatever kubectl loses, whoever crashes, and *)
(* however releases and renewals interleave.                               *)
HealthyExclusion == \A p, q \in Procs : Healthy(p) /\ Healthy(q) => p = q

(* Why: a healthy holder's lease is in its name, and its renewTime is not  *)
(* older than the flight of the last write and the time since it landed,   *)
(* so that it is in force for everyone; a read that will be used for a     *)
(* replace saw what the lease still is.                                    *)
HealthyOwnsLease ==
    \A p \in Procs : Healthy(p) =>
        /\ lease.exists
        /\ lease.holder = p
        /\ lease.skew = Skew[p]
        /\ thread[p] # "none"
        /\ lease.age <= MaxFlight + wait[p]

CurrentReadsAreTrue ==
    \A p \in Procs :
        /\ pc[p] = "replace" /\ Main(p) \in current =>
               lease.exists /\ ~ActiveFor(p)
        /\ pc[p] = "release_put" /\ Main(p) \in current => lease.holder = p
        /\ Renewal(p) \in current => lease.holder = p /\ lease.exists

(* A lease left behind by a crash, a lost answer or a failed release does  *)
(* not shut everybody out for ever: again and again somebody is inside the *)
(* lock, or would find the lease expired or released.                      *)
LeaseRunsOut == []<>(Inside # {} \/ \E p \in Procs : ~ActiveFor(p))

(* The lock that begin() relies on.  With synchronous clocks the lease is  *)
(* an implementation of it, however late the threads are.                  *)
Lock == INSTANCE BeginLock WITH
            holder <- lease.holder,
            live   <- lease.exists /\ lease.age < LeaseDuration,
            inside <- Inside
LockRefined == Lock!LockSpec
=============================================================================
