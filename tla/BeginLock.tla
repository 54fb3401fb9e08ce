----------------------------- MODULE BeginLock -----------------------------
(***************************************************************************)
(* What scripts/cluster-maintenance expects of the lock a "begin" or a     *)
(* "probe" runs under (begin_lock(), used as "with begin_lock() as lock"). *)
(* The lock is a lease: it has a holder, and it is live for as long as     *)
(* nobody may take it away from that holder.  A lease that was not renewed *)
(* in time lapses; whoever is still inside then is inside without it.      *)
(*                                                                         *)
(* MaintenanceLease implements this specification with a Kubernetes Lease  *)
(* object and a renewal thread; Maintenance builds the life of a           *)
(* maintenance window on it.                                               *)
(***************************************************************************)
CONSTANTS Procs,   \* invocations of the command, by lease identity
          Nobody   \* the holder of an absent or released lease

VARIABLES holder,  \* the identity the lease object names
          live,    \* TRUE while the lease has not run out
          inside   \* the invocations inside the "with" block

lockVars == <<holder, live, inside>>

LockTypeOK == /\ holder \in Procs \cup {Nobody}
              /\ live \in BOOLEAN
              /\ inside \subseteq Procs

LockInit == /\ holder = Nobody
            /\ live = FALSE
            /\ inside = {}

(* A lease that ran out, was released or never existed is taken over.  The *)
(* caller is held up between naming its term and taking the lease, and may *)
(* find the term over.                                                     *)
Enter(p) == /\ p \notin inside
            /\ ~live
            /\ holder' = p
            /\ live' \in BOOLEAN
            /\ inside' = inside \cup {p}

(* The same write, whose answer was lost: the caller gives up, and the     *)
(* lease stays in its name until it runs out.                              *)
Strand(p) == /\ ~live
             /\ holder' = p
             /\ live' \in BOOLEAN
             /\ UNCHANGED inside

(* The renewal thread of the holder extends the lease, also one that has   *)
(* already run out and that nobody has taken since.                        *)
Extend(p) == /\ holder = p
             /\ live' = TRUE
             /\ UNCHANGED <<holder, inside>>

Lapse == /\ live
         /\ live' = FALSE
         /\ UNCHANGED <<holder, inside>>

(* Leaving expires the lease only if it is still in the caller's name; a   *)
(* release that fails leaves it to run out.                                *)
Release(p) == /\ holder = p
              /\ holder' = Nobody
              /\ live' = FALSE
              /\ inside' = inside \ {p}

Leave(p) == /\ inside' = inside \ {p}
            /\ UNCHANGED <<holder, live>>

LockNext == \/ Lapse
            \/ \E p \in Procs : \/ Enter(p) \/ Strand(p) \/ Extend(p)
                                \/ Release(p) \/ Leave(p)

LockSpec == LockInit /\ [][LockNext]_lockVars
=============================================================================
