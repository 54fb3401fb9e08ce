---------------------------- MODULE Maintenance ----------------------------
(***************************************************************************)
(* The life of a maintenance window in scripts/cluster-maintenance:        *)
(* begin, renew, end and repair, run by several invocations at once        *)
(* against the members of an Alertmanager cluster, a status page and the   *)
(* state files.  Every call of the program that another actor can come     *)
(* between is a step of its own, and may fail, or be applied without an    *)
(* answer; an invocation may be killed anywhere.                           *)
(*                                                                         *)
(* Silences and recorded ends are kept as the ticks they have left, so     *)
(* that no clock bounds the behaviours.  Members are written through the   *)
(* first one (cluster.primary) and the others follow by gossip.            *)
(***************************************************************************)
EXTENDS Integers, FiniteSets

CONSTANTS Procs,     \* invocations of the command
          Nobody,    \* the holder of a free lock
          Members,   \* Alertmanager members
          Primary,   \* cluster.members[0], which takes the writes
          Ids,       \* silence identifiers
          NoId,
          Notices,   \* notices of the status page
          NoNotice,
          Files,     \* state files (MAINTENANCE_STATE_FILE)
          FileOf,    \* the state file an invocation uses
          Scopes,    \* maintenance scopes
          ScopeOf,   \* the scope an invocation begins with
          Unrelated, \* <<s, t>>: t's namespaces are all unrelated to s
          Duration,  \* ticks a window is asked to last
          Ops        \* the subcommands each invocation's user runs

ASSUME MaintenanceAssumption ==
    /\ Nobody \notin Procs
    /\ Primary \in Members
    /\ NoId \notin Ids
    /\ NoNotice \notin Notices
    /\ FileOf \in [Procs -> Files]
    /\ ScopeOf \in [Procs -> Scopes]
    /\ Unrelated \subseteq Scopes \X Scopes
    /\ Duration \in Nat \ {0}
    /\ Ops \in [Procs -> SUBSET {"begin", "renew", "end", "repair"}]

VARIABLES
    holder, live,  \* the lock of begin(), as in BeginLock
    lost,          \* renewal_error: a renewal of p's lease has failed
    view,          \* what each member knows of each silence
    scope,         \* the scope in a silence's comment
    posted,        \* the notices that are open on the status page
    file,          \* the contents of the state files
    pc,            \* where each invocation is
    mine,          \* the state an invocation has built or loaded
    fate,          \* history: how a silence got out of everybody's hands
    unlocked,      \* history: silences created without holding the lock
    leaked         \* history: notices nobody will resolve any more

lock    == <<holder, live, lost>>
members == <<view, scope>>
history == <<fate, unlocked, leaked>>
vars    == <<lock, members, posted, file, pc, mine, history>>
-----------------------------------------------------------------------------
(* Ticks left of a silence on a member: 0 is expired, Gone is a 404.       *)
Gone == -1

(* The state file: silenceId, noticeId, endsAt, alertmanagerEndedAt.       *)
States  == [id : Ids \cup {NoId}, note : Notices \cup {NoNotice},
            till : 0 .. Duration, ended : BOOLEAN]
NoState == [id |-> NoId, note |-> NoNotice, till |-> 0, ended |-> FALSE]

File(p)      == file[FileOf[p]]
SaveTo(p, s) == file' = [file EXCEPT ![FileOf[p]] = s]
Goto(p, l)   == pc' = [pc EXCEPT ![p] = l]
Hold(p, s)   == mine' = [mine EXCEPT ![p] = s]

ActiveOn(m, i)  == view[m][i] > 0
ActiveIds       == {i \in Ids : \E m \in Members : ActiveOn(m, i)}
EveryActive(i)  == \A m \in Members : ActiveOn(m, i)
EveryExpired(i) == \A m \in Members : view[m][i] = 0
EveryGone(i)    == \A m \in Members : view[m][i] = Gone
Converged(i)    == \A m \in Members : view[m][i] = view[Primary][i]

(* An identifier Alertmanager may give out: nothing refers to it.          *)
Fresh(i) == /\ EveryGone(i)
            /\ \A f \in Files : file[f].id # i
            /\ \A p \in Procs : mine[p].id # i
FreshNotice(n) == /\ n \notin posted \cup leaked
                  /\ \A f \in Files : file[f].note # n
                  /\ \A p \in Procs : mine[p].note # n

PutOnPrimary(i, t) == view' = [view EXCEPT ![Primary][i] = t]

LockedPcs == {"scan", "put", "verify", "undo", "undo_wait", "unlock", "unlock_fail"}
BeginPcs  == LockedPcs \cup {"notice", "lock", "save", "unsave", "unsave_wait", "unpost"}
RenewPcs  == {"r_put", "r_verify", "r_undo", "r_undo_wait", "r_save"}
EndPcs    == {"e_status", "e_delete", "e_wait", "e_save", "p_save", "e_notice", "e_clear"}
Pcs       == {"idle"} \cup BeginPcs \cup RenewPcs \cup EndPcs
Inside    == {p \in Procs : pc[p] \in LockedPcs}
-----------------------------------------------------------------------------
Init == /\ holder = Nobody
        /\ live = FALSE
        /\ lost = [p \in Procs |-> FALSE]
        /\ view = [m \in Members |-> [i \in Ids |-> Gone]]
        /\ scope \in [Ids -> Scopes]
        /\ posted = {}
        /\ file = [f \in Files |-> NoState]
        /\ pc = [p \in Procs |-> "idle"]
        /\ mine = [p \in Procs |-> NoState]
        /\ fate = [i \in Ids |-> "tracked"]
        /\ unlocked = {}
        /\ leaked = {}

(* The command returns, with a result or with an error.                    *)
Return(p) == Goto(p, "idle") /\ Hold(p, NoState)

(* A silence leaves everybody's hands while a member still applies it.     *)
LoseTrack(i, how) ==
    fate' = [fate EXCEPT ![i] = IF \E m \in Members : view'[m][i] > 0
                                THEN how ELSE @]
-----------------------------------------------------------------------------
(* coordinated_begin: no state may exist; then the notice, then begin().   *)
BeginStart(p) ==
    /\ "begin" \in Ops[p]
    /\ pc[p] = "idle"
    /\ File(p) = NoState
    /\ \/ Goto(p, "lock") \/ Goto(p, "notice")
    /\ UNCHANGED <<lock, members, posted, file, mine, history>>

PostNotice(p) ==
    /\ pc[p] = "notice"
    /\ \/ \E n \in Notices :
            /\ FreshNotice(n)
            /\ posted' = posted \cup {n}
            /\ \/ Goto(p, "lock") /\ Hold(p, [mine[p] EXCEPT !.note = n]) /\ UNCHANGED leaked
               \/ Return(p) /\ leaked' = leaked \cup {n}  \* answer lost
       \/ Return(p) /\ UNCHANGED <<posted, leaked>>
    /\ UNCHANGED <<lock, members, file, fate, unlocked>>

LockEnter(p) ==
    /\ pc[p] = "lock"
    /\ ~live
    /\ holder' = p
    /\ live' \in BOOLEAN    \* FALSE: the lease was out of date when it landed
    /\ Goto(p, "scan")
    /\ UNCHANGED <<lost, members, posted, file, mine, history>>

(* The lock is taken, cannot be read, or is acquired without an answer.    *)
LockFail(p) ==
    /\ pc[p] = "lock"
    /\ \/ UNCHANGED <<holder, live>>
       \/ ~live /\ holder' = p /\ live' \in BOOLEAN
    /\ Goto(p, "unpost")
    /\ UNCHANGED <<lost, members, posted, file, mine, history>>

(* Broken: only the silences of the primary are looked at.                 *)
AdmissibleOnPrimary(p) ==
    \A i \in ActiveIds : ActiveOn(Primary, i) =>
        <<ScopeOf[p], scope[i]>> \in Unrelated /\ EveryActive(i) /\ Converged(i)

(* Admission: other windows only if they are unrelated to this scope and   *)
(* the same on every member.  An active alert can refuse it at any time.   *)
Admissible(p) == \A i \in ActiveIds : /\ <<ScopeOf[p], scope[i]>> \in Unrelated
                                      /\ EveryActive(i)
                                      /\ Converged(i)
Admit(p) ==
    /\ pc[p] = "scan"
    /\ \/ Admissible(p) /\ Goto(p, "put")
       \/ Goto(p, "unlock_fail")
    /\ UNCHANGED <<lock, members, posted, file, mine, history>>

NewSilence(i, t, s) == /\ Fresh(i)
                       /\ PutOnPrimary(i, t)
                       /\ scope' = [scope EXCEPT ![i] = s]

(* put_silence is outside the try block that undoes a failed begin.        *)
Put(p) ==
    /\ pc[p] = "put"
    /\ \/ \E i \in Ids, t \in 1 .. Duration :
            /\ NewSilence(i, t, ScopeOf[p])
            /\ unlocked' = IF holder = p THEN unlocked ELSE unlocked \cup {i}
            /\ \/ Goto(p, "verify") /\ Hold(p, [mine[p] EXCEPT !.id = i]) /\ UNCHANGED fate
               \/ /\ Goto(p, "unlock_fail")               \* answer lost
                  /\ LoseTrack(i, "unanswered")
                  /\ UNCHANGED mine
       \/ Goto(p, "unlock_fail") /\ UNCHANGED <<members, mine, fate, unlocked>>
    /\ UNCHANGED <<lock, posted, file, leaked>>

(* verify_coverage on every member, then lock.assert_healthy().            *)
Verify(p) ==
    /\ pc[p] = "verify"
    /\ \/ /\ EveryActive(mine[p].id) /\ Converged(mine[p].id) /\ ~lost[p]
          /\ Goto(p, "unlock")
          /\ Hold(p, [mine[p] EXCEPT !.till = view[Primary][mine[p].id]])
       \/ Goto(p, "undo") /\ UNCHANGED mine
    /\ UNCHANGED <<lock, members, posted, file, history>>

(* expire_silence: DELETE on the primary, then wait for every member; both *)
(* may fail.  A silence that is not active cannot be deleted.              *)
Delete(p, next, fail) ==
    \/ /\ ActiveOn(Primary, mine[p].id)
       /\ PutOnPrimary(mine[p].id, 0)
       /\ Goto(p, next) \/ Goto(p, fail)
    \/ Goto(p, fail) /\ UNCHANGED view

(* The cleanup of a begin swallows what goes wrong in it.                  *)
Undo(p) ==
    /\ \/ pc[p] = "undo" /\ Delete(p, "undo_wait", "unlock_fail")
       \/ pc[p] = "undo_wait" /\ Goto(p, "unlock_fail") /\ UNCHANGED view
       \/ pc[p] = "unsave" /\ Delete(p, "unsave_wait", "unpost")
       \/ pc[p] = "unsave_wait" /\ Goto(p, "unpost") /\ UNCHANGED view
    /\ IF pc'[p] \in {"unlock_fail", "unpost"}
       THEN LoseTrack(mine[p].id, "undo_failed") /\ Hold(p, [mine[p] EXCEPT !.id = NoId])
       ELSE UNCHANGED <<fate, mine>>
    /\ UNCHANGED <<lock, scope, posted, file, unlocked, leaked>>

(* What a begin goes on with.  A verified window is lost when kubectl      *)
(* times out during the release: __exit__ then raises, and the caller of   *)
(* begin() never learns of the silence.                                    *)
LeaveLock(p) ==
    /\ lost' = [lost EXCEPT ![p] = FALSE]
    /\ \/ pc[p] = "unlock" /\ Goto(p, "save") /\ UNCHANGED <<mine, fate>>
       \/ pc[p] = "unlock_fail" /\ Goto(p, "unpost") /\ UNCHANGED <<mine, fate>>
       \/ /\ pc[p] = "unlock"
          /\ Goto(p, "unpost")
          /\ Hold(p, [mine[p] EXCEPT !.id = NoId])
          /\ LoseTrack(mine[p].id, "unreleased")

(* Broken: the lock is released whoever holds it.                          *)
UnlockAnyone(p) ==
    /\ UNCHANGED <<members, posted, file, unlocked, leaked>>
    /\ holder' = Nobody /\ live' = FALSE
    /\ LeaveLock(p)

(* __exit__ of the lock, which releases it only if it is still p's; other  *)
(* failures of the release are only warned about.                          *)
Unlock(p) ==
    /\ UNCHANGED <<members, posted, file, unlocked, leaked>>
    /\ \/ holder = p /\ holder' = Nobody /\ live' = FALSE
       \/ UNCHANGED <<holder, live>>
    /\ LeaveLock(p)

(* Broken: a failed write is not followed by a cleanup ...                 *)
SaveWithoutCleanup(p) ==
    /\ pc[p] = "save"
    /\ \/ SaveTo(p, mine[p]) /\ Return(p)
       \/ Goto(p, "unpost") /\ Hold(p, [mine[p] EXCEPT !.id = NoId]) /\ UNCHANGED file
    /\ UNCHANGED <<lock, members, posted, history>>

(* ... or leaves the new state behind.                                     *)
SaveInPlace(p) ==
    /\ pc[p] = "save"
    /\ SaveTo(p, mine[p])
    /\ \/ Return(p)
       \/ Goto(p, "unsave") /\ UNCHANGED mine
    /\ UNCHANGED <<lock, members, posted, history>>

Save(p) ==
    /\ pc[p] = "save"
    /\ \/ SaveTo(p, mine[p]) /\ Return(p)
       \/ Goto(p, "unsave") /\ UNCHANGED <<file, mine>>
    /\ UNCHANGED <<lock, members, posted, history>>

(* The last step of a failed begin: resolve the notice, if there is one.   *)
Unpost(p) ==
    /\ pc[p] = "unpost"
    /\ \/ posted' = posted \ {mine[p].note} /\ UNCHANGED leaked
       \/ UNCHANGED posted /\ leaked' = leaked \cup (posted \cap {mine[p].note})
    /\ Return(p)
    /\ UNCHANGED <<lock, members, file, fate, unlocked>>
-----------------------------------------------------------------------------
(* coordinated_renew, which takes no lock.                                 *)
RenewStart(p) ==
    /\ "renew" \in Ops[p]
    /\ pc[p] = "idle"
    /\ File(p).id # NoId
    /\ EveryActive(File(p).id)
    /\ Goto(p, "r_put")
    /\ Hold(p, File(p))
    /\ UNCHANGED <<lock, members, posted, file, history>>

(* Alertmanager extends an active silence.  For one that has expired since *)
(* it was read it makes a new silence, whose identifier is not looked at.  *)
RenewPut(p) ==
    /\ pc[p] = "r_put"
    /\ \/ /\ \/ Goto(p, "r_verify") /\ UNCHANGED mine
             \/ Return(p)                                   \* answer lost
          /\ \E t \in 1 .. Duration :
                \/ /\ ActiveOn(Primary, mine[p].id)
                   /\ PutOnPrimary(mine[p].id, t)
                   /\ UNCHANGED <<scope, fate, unlocked>>
                \/ /\ view[Primary][mine[p].id] = 0
                   /\ \E i \in Ids : /\ NewSilence(i, t, scope[mine[p].id])
                                     /\ LoseTrack(i, IF pc'[p] = "idle" THEN "unanswered"
                                                     ELSE "late")
                                     /\ unlocked' = unlocked \cup {i}
       \/ Return(p) /\ UNCHANGED <<members, fate, unlocked>>
    /\ UNCHANGED <<lock, posted, file, leaked>>

RenewVerify(p) ==
    /\ pc[p] = "r_verify"
    /\ \/ /\ EveryActive(mine[p].id) /\ Converged(mine[p].id)
          /\ Goto(p, "r_save")
          /\ Hold(p, [mine[p] EXCEPT !.till = view[Primary][mine[p].id]])
       \/ Goto(p, "r_undo") /\ UNCHANGED mine
    /\ UNCHANGED <<lock, members, posted, file, history>>

RenewUndo(p) ==
    /\ \/ pc[p] = "r_undo" /\ Delete(p, "r_undo_wait", "idle")
       \/ pc[p] = "r_undo_wait" /\ Goto(p, "idle") /\ UNCHANGED view
    /\ IF pc'[p] = "idle" THEN Hold(p, NoState) ELSE UNCHANGED mine
    /\ UNCHANGED <<lock, scope, posted, file, history>>

RenewSave(p) ==
    /\ pc[p] = "r_save"
    /\ SaveTo(p, mine[p]) \/ UNCHANGED file
    /\ Return(p)
    /\ UNCHANGED <<lock, members, posted, history>>
-----------------------------------------------------------------------------
(* coordinated_end, once no alert is left to prevent it: the silence, the  *)
(* state, the notice, and the state file last.                             *)
EndStart(p) ==
    /\ "end" \in Ops[p]
    /\ pc[p] = "idle"
    /\ File(p).id # NoId
    /\ Goto(p, "e_status")
    /\ Hold(p, File(p))
    /\ UNCHANGED <<lock, members, posted, file, history>>

EndStatus(p) ==
    /\ pc[p] = "e_status"
    /\ \/ EveryActive(mine[p].id) /\ Goto(p, "e_delete") /\ UNCHANGED mine
       \/ EveryExpired(mine[p].id) /\ Goto(p, "e_save") /\ UNCHANGED mine
       \/ Return(p)
    /\ UNCHANGED <<lock, members, posted, file, history>>

EndDelete(p) ==
    /\ pc[p] = "e_delete"
    /\ Delete(p, "e_wait", "idle")
    /\ IF pc'[p] = "idle" THEN Hold(p, NoState) ELSE UNCHANGED mine
    /\ UNCHANGED <<lock, scope, posted, file, history>>

(* Broken: only the primary is waited for.                                 *)
EndWaitPrimary(p) ==
    /\ pc[p] = "e_wait"
    /\ \/ view[Primary][mine[p].id] = 0 /\ Goto(p, "e_save") /\ UNCHANGED mine
       \/ Return(p)
    /\ UNCHANGED <<lock, members, posted, file, history>>

EndWait(p) ==
    /\ pc[p] = "e_wait"
    /\ \/ EveryExpired(mine[p].id) /\ Goto(p, "e_save") /\ UNCHANGED mine
       \/ Return(p)
    /\ UNCHANGED <<lock, members, posted, file, history>>

Ended(p) == [mine[p] EXCEPT !.ended = TRUE]

EndSave(p) ==
    /\ pc[p] = "e_save" \/ (pc[p] = "p_save" /\ ~mine[p].ended)
    /\ \/ SaveTo(p, Ended(p)) /\ Goto(p, "e_notice") /\ Hold(p, Ended(p))
       \/ Return(p) /\ UNCHANGED file
    /\ UNCHANGED <<lock, members, posted, history>>

EndNotice(p) ==
    /\ pc[p] = "e_notice"
    /\ \/ /\ posted' = posted \ {mine[p].note}
          /\ Goto(p, "e_clear") /\ UNCHANGED mine
       \/ /\ mine[p].note # NoNotice
          /\ posted' \in {posted, posted \ {mine[p].note}}
          /\ Return(p)
    /\ UNCHANGED <<lock, members, file, history>>

EndClear(p) ==
    /\ pc[p] = "e_clear"
    /\ \/ File(p).id = mine[p].id /\ SaveTo(p, NoState)
       \/ UNCHANGED file
    /\ Return(p)
    /\ UNCHANGED <<lock, members, posted, history>>

(* Broken: a window the members have forgotten cannot be repaired.         *)
RepairKnown(p) ==
    /\ "repair" \in Ops[p]
    /\ pc[p] = "idle"
    /\ File(p).id # NoId
    /\ EveryExpired(File(p).id)
    /\ Goto(p, "p_save")
    /\ Hold(p, File(p))
    /\ UNCHANGED <<lock, members, posted, file, history>>

(* coordinated_repair: only for a window that is over everywhere, or that  *)
(* the members have forgotten after its recorded end.                      *)
RepairStart(p) ==
    /\ "repair" \in Ops[p]
    /\ pc[p] = "idle"
    /\ File(p).id # NoId
    /\ \/ EveryExpired(File(p).id)
       \/ EveryGone(File(p).id) /\ (File(p).ended \/ File(p).till = 0)
    /\ Goto(p, "p_save")
    /\ Hold(p, File(p))
    /\ UNCHANGED <<lock, members, posted, file, history>>

RepairSkip(p) ==
    /\ pc[p] = "p_save"
    /\ mine[p].ended
    /\ Goto(p, "e_notice")
    /\ UNCHANGED <<lock, members, posted, file, mine, history>>
-----------------------------------------------------------------------------
(* The command is killed: by hand, by the 120 s limit of the fast-update   *)
(* runner, or with its host.  What a begin had not yet saved is lost.      *)
Crash(p) ==
    /\ pc[p] # "idle"
    /\ Return(p)
    /\ IF pc[p] \in BeginPcs /\ mine[p].id # NoId
       THEN fate' = [fate EXCEPT ![mine[p].id] = IF mine[p].id \in ActiveIds
                                                 THEN "crashed" ELSE @]
       ELSE UNCHANGED fate
    /\ leaked' = IF pc[p] \in BeginPcs THEN leaked \cup (posted \cap {mine[p].note})
                 ELSE leaked
    /\ lost' = [lost EXCEPT ![p] = FALSE]
    /\ UNCHANGED <<holder, live, members, posted, file, unlocked>>

(* The lease runs out, is renewed, or a renewal fails.                     *)
Lease ==
    /\ \/ live /\ live' = FALSE /\ UNCHANGED lost
       \/ \E p \in Inside : /\ holder = p /\ ~lost[p]
                            /\ live' = TRUE /\ UNCHANGED lost
       \/ \E p \in Inside : lost' = [lost EXCEPT ![p] = TRUE] /\ UNCHANGED live
    /\ UNCHANGED <<holder, members, posted, file, pc, mine, history>>

Gossip(m, i) ==
    /\ view[Primary][i] # Gone
    /\ view[m][i] # view[Primary][i]
    /\ view' = [view EXCEPT ![m][i] = view[Primary][i]]
    /\ UNCHANGED <<lock, scope, posted, file, pc, mine, history>>

(* A member forgets an expired silence after its retention.                *)
Collect(m, i) ==
    /\ view[m][i] = 0
    /\ view' = [view EXCEPT ![m][i] = Gone]
    /\ IF \A n \in Members \ {m} : view[n][i] = Gone
       THEN /\ fate' = [fate EXCEPT ![i] = "tracked"]
            /\ unlocked' = unlocked \ {i}
       ELSE UNCHANGED <<fate, unlocked>>
    /\ UNCHANGED <<lock, scope, posted, file, pc, mine, leaked>>

Less(t) == IF t > 0 THEN t - 1 ELSE t
Tick == /\ view' = [m \in Members |-> [i \in Ids |-> Less(view[m][i])]]
        /\ file' = [f \in Files |-> [file[f] EXCEPT !.till = Less(@)]]
        /\ mine' = [p \in Procs |-> [mine[p] EXCEPT !.till = Less(@)]]
        /\ UNCHANGED <<lock, scope, posted, pc, history>>

Begin(p) == \/ PostNotice(p) \/ LockEnter(p) \/ LockFail(p) \/ Admit(p) \/ Put(p)
            \/ Verify(p) \/ Undo(p) \/ Unlock(p) \/ Save(p) \/ Unpost(p)
Renew(p) == RenewPut(p) \/ RenewVerify(p) \/ RenewUndo(p) \/ RenewSave(p)
End(p)   == \/ EndStatus(p) \/ EndDelete(p) \/ EndWait(p) \/ EndSave(p)
            \/ RepairSkip(p) \/ EndNotice(p) \/ EndClear(p)
Start(p) == BeginStart(p) \/ RenewStart(p) \/ EndStart(p) \/ RepairStart(p)

Next == \/ \E p \in Procs : \/ Start(p) \/ Begin(p) \/ Renew(p) \/ End(p)
                            \/ Crash(p)
        \/ \E m \in Members, i \in Ids : Gossip(m, i) \/ Collect(m, i)
        \/ Lease \/ Tick

Spec == Init /\ [][Next]_vars

(* Time passes, and an invocation that is not killed runs on.  Nobody has  *)
(* to run the command.                                                     *)
Fairness == /\ WF_vars(Tick)
            /\ \A p \in Procs : WF_vars(Begin(p) \/ Renew(p) \/ End(p))
FairSpec == Spec /\ Fairness
-----------------------------------------------------------------------------
Fates == {"tracked", "unanswered", "undo_failed", "unreleased", "crashed", "late"}

TypeOK == /\ holder \in Procs \cup {Nobody}
          /\ live \in BOOLEAN
          /\ lost \in [Procs -> BOOLEAN]
          /\ view \in [Members -> [Ids -> -1 .. Duration]]
          /\ scope \in [Ids -> Scopes]
          /\ posted \subseteq Notices
          /\ file \in [Files -> States]
          /\ pc \in [Procs -> Pcs]
          /\ mine \in [Procs -> States]
          /\ fate \in [Ids -> Fates]
          /\ unlocked \subseteq Ids
          /\ leaked \subseteq Notices

(* Maintenance windows do not overlap: of two active windows, one was      *)
(* admitted with a scope that declares the other one unrelated.  The only  *)
(* exceptions are silences created without the lock: by a begin whose      *)
(* lease was taken over before its PUT, and by a renewal that came too     *)
(* late.                                                                   *)
Compatible(i, j) == \/ <<scope[i], scope[j]>> \in Unrelated
                    \/ <<scope[j], scope[i]>> \in Unrelated
NoOverlap == \A i, j \in ActiveIds \ unlocked : i = j \/ Compatible(i, j)

(* Why: what begin() saw when it admitted the window still holds when it   *)
(* creates the silence, for as long as the lease has not been taken over.  *)
AdmissionHolds ==
    \A p \in Procs : pc[p] = "put" /\ holder = p =>
        \A i \in ActiveIds \ unlocked : <<ScopeOf[p], scope[i]>> \in Unrelated

(* Nothing is lost: a silence that is active, and a notice that is posted, *)
(* is recorded in a state file, or in the hands of a running invocation,   *)
(* or its loss has one of the five known causes - an answer that did not   *)
(* come, a cleanup that failed, a release that timed out, a crash, a       *)
(* renewal that came too late.                                             *)
Tracked ==
    /\ \A i \in ActiveIds : \/ fate[i] # "tracked"
                             \/ \E f \in Files : file[f].id = i
                             \/ \E p \in Procs : mine[p].id = i
    /\ \A n \in posted : \/ n \in leaked
                          \/ \E f \in Files : file[f].note = n
                          \/ \E p \in Procs : mine[p].note = n

(* A state file is given up only when its silence is over on every member  *)
(* and its notice is resolved.                                             *)
ClearedWhenOver ==
    [][\A f \in Files : file[f].id # NoId /\ file'[f].id # file[f].id =>
           file[f].id \notin ActiveIds /\ file[f].note \notin posted]_vars

(* A window is never stuck.  If the operator goes on trying to end or to   *)
(* repair it, and a call that is tried again and again works in the end,   *)
(* its state file is cleared - also after crashes between any two steps,   *)
(* and when the members disagree or have forgotten the silence.            *)
Advance(p, l) == End(p) /\ pc[p] = l /\ pc'[p] # "idle"
Clear(p)      == EndClear(p) /\ File(p) # NoState /\ file' # file
Retried == \A p \in Procs :
    /\ SF_vars(EndStart(p)) /\ SF_vars(RepairStart(p))
    /\ SF_vars(Advance(p, "e_status")) /\ SF_vars(Advance(p, "e_delete"))
    /\ SF_vars(Advance(p, "e_wait")) /\ SF_vars(Advance(p, "e_save"))
    /\ SF_vars(Advance(p, "p_save")) /\ SF_vars(Advance(p, "e_notice"))
    /\ SF_vars(Clear(p))
Replicated == \A m \in Members, i \in Ids :
    SF_vars(Gossip(m, i)) /\ WF_vars(Collect(m, i))
RetrySpec == FairSpec /\ Retried /\ Replicated
NeverStuck == \A f \in Files : file[f].id # NoId ~> file[f].id = NoId

(* A silence nobody keeps track of runs out by itself.                     *)
StraysEnd == \A i \in Ids : fate[i] # "tracked" ~> i \notin ActiveIds

-----------------------------------------------------------------------------
(* Seen from its lock, a begin does what BeginLock allows.                 *)
Lock == INSTANCE BeginLock WITH inside <- Inside
LockUsed == Lock!LockSpec
=============================================================================
