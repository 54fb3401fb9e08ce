------------------------- MODULE MaintenanceProofs -------------------------
(***************************************************************************)
(* For every number of invocations, members, silences and scopes, and for  *)
(* every way of sharing state files: the variables keep their types, and   *)
(* windows do not overlap unless a silence was created without the lock.   *)
(* Where every invocation has a state file of its own, no window and no    *)
(* notice is lost, and a file is given up only when its window is over.    *)
(***************************************************************************)
EXTENDS Maintenance, TLAPS

Left == -1 .. Duration   \* what a member knows of a silence

USE MaintenanceAssumption

(* Whoever is past its PUT, or has loaded the state file, has a silence.   *)
HandPcs == {"verify", "undo", "undo_wait", "unlock", "save", "unsave", "unsave_wait"}
               \cup RenewPcs \cup EndPcs
InHand  == \A p \in Procs : pc[p] \in HandPcs => mine[p].id \in Ids
TypeInv == TypeOK /\ InHand

LEMMA NoStateType == NoState \in States
  BY DEF NoState, States

LEMMA PutType ==
  ASSUME TypeOK, NEW i, NEW t \in Left, PutOnPrimary(i, t)
  PROVE  view' \in [Members -> [Ids -> Left]]
  BY DEF TypeOK, PutOnPrimary, Left

LEMMA DeleteType ==
  ASSUME TypeOK, NEW p, NEW next, NEW fail, Delete(p, next, fail)
  PROVE  /\ view' \in [Members -> [Ids -> Left]]
         /\ Goto(p, next) \/ Goto(p, fail)
<1>1. UNCHANGED view => view' \in [Members -> [Ids -> Left]]
  BY DEF TypeOK, Left
<1>2. 0 \in Left
  BY DEF Left
<1>3. PutOnPrimary(mine[p].id, 0) => view' \in [Members -> [Ids -> Left]]
  BY <1>2, PutType
<1>4. QED
  BY <1>1, <1>3 DEF Delete

LEMMA SilenceType ==
  ASSUME TypeOK, NEW i \in Ids, NEW t \in 1 .. Duration, NEW s \in Scopes,
         NewSilence(i, t, s)
  PROVE  view' \in [Members -> [Ids -> Left]] /\ scope' \in [Ids -> Scopes]
<1>1. PutOnPrimary(i, t) /\ t \in Left
  BY DEF NewSilence, Left
<1>2. QED
  BY <1>1, PutType DEF NewSilence, TypeOK

(* A field of a state in hand is replaced.                                  *)
LEMMA NoteType ==
  ASSUME NEW s \in States, NEW n \in Notices \cup {NoNotice}
  PROVE  [s EXCEPT !.note = n] \in States /\ [s EXCEPT !.note = n].id = s.id
  BY DEF States

LEMMA IdType ==
  ASSUME NEW s \in States, NEW i \in Ids \cup {NoId}
  PROVE  [s EXCEPT !.id = i] \in States /\ [s EXCEPT !.id = i].id = i
  BY DEF States

LEMMA TillType ==
  ASSUME NEW s \in States, NEW t \in 0 .. Duration
  PROVE  [s EXCEPT !.till = t] \in States /\ [s EXCEPT !.till = t].id = s.id
  BY DEF States

LEMMA EndedType ==
  ASSUME NEW s \in States
  PROVE  [s EXCEPT !.ended = TRUE] \in States /\ [s EXCEPT !.ended = TRUE].id = s.id
  BY DEF States

LEMMA GotoType ==
  ASSUME TypeOK, NEW p \in Procs, NEW l \in Pcs, Goto(p, l)
  PROVE  pc' \in [Procs -> Pcs]
  BY DEF TypeOK, Goto

LEMMA ReturnType ==
  ASSUME TypeOK, NEW p \in Procs, Return(p)
  PROVE  pc' \in [Procs -> Pcs] /\ mine' \in [Procs -> States]
  BY NoStateType DEF TypeOK, Return, Goto, Hold, Pcs

LEMMA SaveType ==
  ASSUME TypeOK, NEW p \in Procs, NEW s \in States, SaveTo(p, s)
  PROVE  file' \in [Files -> States]
  BY DEF TypeOK, SaveTo

LEMMA LoseType ==
  ASSUME TypeOK, NEW i, NEW how \in Fates, LoseTrack(i, how)
  PROVE  fate' \in [Ids -> Fates]
  BY DEF TypeOK, LoseTrack

LEMMA FileType == TypeOK => \A p \in Procs : File(p) \in States
  BY DEF TypeOK, File

LEMMA TypeInit == Init => TypeOK
<1> SUFFICES ASSUME Init PROVE TypeOK
  OBVIOUS
<1>1. view \in [Members -> [Ids -> -1 .. Duration]]
  BY DEF Init, Gone
<1>2. file \in [Files -> States] /\ mine \in [Procs -> States]
  BY NoStateType DEF Init
<1>3. pc \in [Procs -> Pcs] /\ fate \in [Ids -> Fates]
  BY DEF Init, Pcs, Fates
<1>4. QED
  BY <1>1, <1>2, <1>3 DEF Init, TypeOK

LEMMA TypeInvInit == Init => TypeInv
  BY TypeInit DEF TypeInv, InHand, Init, HandPcs, RenewPcs, EndPcs

(* Most steps move one invocation and leave its state in hand alone.       *)
LEMMA HandMove ==
  ASSUME TypeInv, NEW p \in Procs, NEW l \in Pcs, Goto(p, l),
         l \in HandPcs => pc[p] \in HandPcs, UNCHANGED mine
  PROVE  InHand'
  BY DEF TypeInv, TypeOK, InHand, Goto

LEMMA HandReturn ==
  ASSUME TypeInv, NEW p \in Procs, Return(p)
  PROVE  InHand'
  BY DEF TypeInv, TypeOK, InHand, Return, Goto, Hold, HandPcs, RenewPcs, EndPcs

LEMMA HandHold ==
  ASSUME TypeInv, NEW p \in Procs, NEW l \in Pcs, NEW s \in States,
         Goto(p, l), Hold(p, s), l \in HandPcs => s.id \in Ids
  PROVE  InHand' /\ mine' \in [Procs -> States] /\ pc' \in [Procs -> Pcs]
  BY DEF TypeInv, TypeOK, InHand, Goto, Hold

(* What the commands that load the state file have in hand.                *)
LEMMA HandLoad ==
  ASSUME TypeInv, NEW p \in Procs, NEW l \in Pcs, Goto(p, l), Hold(p, File(p)),
         File(p).id # NoId
  PROVE  InHand' /\ mine' \in [Procs -> States] /\ pc' \in [Procs -> Pcs]
<1>1. File(p) \in States /\ File(p).id \in Ids
  BY FileType DEF TypeInv, States
<1>2. QED
  BY <1>1, HandHold

LEMMA BeginType ==
  ASSUME TypeInv, NEW p \in Procs, Begin(p)
  PROVE  TypeInv'
<1> USE DEF TypeInv
<1>1. CASE PostNotice(p)
  <2>1. CASE Return(p)
    BY <1>1, <2>1, ReturnType, HandReturn DEF PostNotice, TypeOK, lock, members
  <2>2. ASSUME NEW n \in Notices, posted' = posted \cup {n}, Goto(p, "lock"),
               Hold(p, [mine[p] EXCEPT !.note = n]), UNCHANGED leaked
        PROVE  TypeInv'
    <3>1. [mine[p] EXCEPT !.note = n] \in States
      BY NoteType DEF TypeOK
    <3>2. InHand' /\ mine' \in [Procs -> States] /\ pc' \in [Procs -> Pcs]
      BY <2>2, <3>1, HandHold DEF Pcs, BeginPcs, LockedPcs, HandPcs, RenewPcs, EndPcs
    <3>3. QED
      BY <1>1, <2>2, <3>2 DEF PostNotice, TypeOK, lock, members
  <2>3. QED
    BY <1>1, <2>1, <2>2 DEF PostNotice
<1>2. CASE LockEnter(p)
  <2>1. pc' \in [Procs -> Pcs] /\ InHand'
    BY <1>2, GotoType, HandMove
       DEF LockEnter, Pcs, BeginPcs, LockedPcs, HandPcs, RenewPcs, EndPcs
  <2>2. QED
    BY <1>2, <2>1 DEF LockEnter, TypeOK, members, history
<1>3. CASE LockFail(p)
  <2>1. pc' \in [Procs -> Pcs] /\ InHand'
    BY <1>3, GotoType, HandMove DEF LockFail, Pcs, BeginPcs, HandPcs, RenewPcs, EndPcs
  <2>2. QED
    BY <1>3, <2>1 DEF LockFail, TypeOK, members, history
<1>4. CASE Admit(p)
  <2>1. pc' \in [Procs -> Pcs] /\ InHand'
    BY <1>4, GotoType, HandMove
       DEF Admit, Pcs, BeginPcs, LockedPcs, HandPcs, RenewPcs, EndPcs
  <2>2. QED
    BY <1>4, <2>1 DEF Admit, TypeOK, members, history, lock
<1>5. CASE Put(p)
  <2>1. CASE Goto(p, "unlock_fail") /\ UNCHANGED <<members, mine, fate, unlocked>>
    <3>1. pc' \in [Procs -> Pcs] /\ InHand'
      BY <2>1, GotoType, HandMove DEF Pcs, BeginPcs, LockedPcs, HandPcs, RenewPcs, EndPcs
    <3>2. QED
      BY <1>5, <2>1, <3>1 DEF Put, TypeOK, lock, members
  <2>2. ASSUME NEW i \in Ids, NEW t \in 1 .. Duration, NewSilence(i, t, ScopeOf[p]),
               unlocked' = IF holder = p THEN unlocked ELSE unlocked \cup {i},
               \/ /\ Goto(p, "verify")
                  /\ Hold(p, [mine[p] EXCEPT !.id = i])
                  /\ UNCHANGED fate
               \/ /\ Goto(p, "unlock_fail")
                  /\ LoseTrack(i, "unanswered")
                  /\ UNCHANGED mine
        PROVE  TypeInv'
    <3>1. view' \in [Members -> [Ids -> Left]] /\ scope' \in [Ids -> Scopes]
      BY <2>2, SilenceType
    <3>2. fate' \in [Ids -> Fates]
      BY <2>2, LoseType DEF TypeOK, Fates
    <3>3. /\ [mine[p] EXCEPT !.id = i] \in States
          /\ [mine[p] EXCEPT !.id = i].id = i
      BY IdType DEF TypeOK
    <3>4. InHand' /\ mine' \in [Procs -> States] /\ pc' \in [Procs -> Pcs]
      <4>1. CASE Goto(p, "verify") /\ Hold(p, [mine[p] EXCEPT !.id = i])
        BY <4>1, <3>3, HandHold DEF Pcs, BeginPcs, LockedPcs
      <4>2. CASE Goto(p, "unlock_fail") /\ UNCHANGED mine
        BY <4>2, GotoType, HandMove
           DEF TypeOK, Pcs, BeginPcs, LockedPcs, HandPcs, RenewPcs, EndPcs
      <4>3. QED
        BY <2>2, <4>1, <4>2
    <3>5. QED
      BY <1>5, <2>2, <3>1, <3>2, <3>4 DEF Put, TypeOK, lock, Left
  <2>3. QED
    BY <1>5, <2>1, <2>2 DEF Put
<1>6. CASE Verify(p)
  <2>1. mine' \in [Procs -> States] /\ pc' \in [Procs -> Pcs] /\ InHand'
    <3>1. CASE Goto(p, "undo") /\ UNCHANGED mine
      BY <1>6, <3>1, GotoType, HandMove DEF Verify, TypeOK, Pcs, BeginPcs, LockedPcs, HandPcs
    <3>2. CASE /\ EveryActive(mine[p].id)
               /\ Goto(p, "unlock")
               /\ Hold(p, [mine[p] EXCEPT !.till = view[Primary][mine[p].id]])
      <4>1. mine[p].id \in Ids
        BY <1>6 DEF Verify, InHand, HandPcs
      <4>2. view[Primary][mine[p].id] \in 0 .. Duration
        BY <3>2, <4>1 DEF EveryActive, ActiveOn, TypeOK
      <4>3. /\ [mine[p] EXCEPT !.till = view[Primary][mine[p].id]] \in States
            /\ [mine[p] EXCEPT !.till = view[Primary][mine[p].id]].id \in Ids
        BY <4>1, <4>2, TillType DEF TypeOK
      <4>4. QED
        BY <3>2, <4>3, HandHold DEF Pcs, BeginPcs, LockedPcs
    <3>3. QED
      BY <1>6, <3>1, <3>2 DEF Verify
  <2>2. QED
    BY <1>6, <2>1 DEF Verify, TypeOK, lock, members, history
<1>7. CASE Undo(p)
  <2>1. view' \in [Members -> [Ids -> Left]]
    <3>1. CASE UNCHANGED view
      BY <3>1 DEF TypeOK, Left
    <3>2. QED
      BY <1>7, <3>1, DeleteType DEF Undo
  <2>2. fate' \in [Ids -> Fates]
    BY <1>7, LoseType DEF Undo, TypeOK, Fates
  <2>3. mine' \in [Procs -> States]
    <3>1. [mine[p] EXCEPT !.id = NoId] \in States
      BY IdType DEF TypeOK
    <3>2. QED
      BY <1>7, <3>1 DEF Undo, TypeOK, Hold
  <2>4. /\ pc[p] \in HandPcs
        /\ \E l \in {"undo_wait", "unlock_fail", "unsave_wait", "unpost"} : Goto(p, l)
    BY <1>7 DEF Undo, Delete, HandPcs
  <2>5. pc' \in [Procs -> Pcs]
    BY <2>4, GotoType DEF Pcs, BeginPcs, LockedPcs
  <2>6. InHand'
    <3>1. pc'[p] \in {"unlock_fail", "unpost"} \/ UNCHANGED mine
      BY <1>7 DEF Undo
    <3>2. \A q \in Procs : q # p => pc'[q] = pc[q] /\ mine'[q] = mine[q]
      BY <1>7, <2>4 DEF Undo, TypeOK, Goto, Hold
    <3>3. QED
      BY <2>4, <3>1, <3>2 DEF InHand, HandPcs, RenewPcs, EndPcs
  <2>7. QED
    BY <1>7, <2>1, <2>2, <2>3, <2>5, <2>6 DEF Undo, TypeOK, lock, Left
<1>8. CASE Unlock(p)
  <2>1. CASE UNCHANGED <<mine, fate>>
    <3>1. (Goto(p, "save") /\ pc[p] = "unlock") \/ Goto(p, "unpost")
      BY <1>8 DEF Unlock, LeaveLock
    <3>2. pc' \in [Procs -> Pcs] /\ InHand'
      BY <2>1, <3>1, GotoType, HandMove DEF Pcs, BeginPcs, HandPcs, RenewPcs, EndPcs
    <3>3. QED
      BY <1>8, <2>1, <3>2 DEF Unlock, LeaveLock, TypeOK, members
  <2>2. CASE /\ Goto(p, "unpost")
             /\ Hold(p, [mine[p] EXCEPT !.id = NoId])
             /\ LoseTrack(mine[p].id, "unreleased")
    <3>1. [mine[p] EXCEPT !.id = NoId] \in States
      BY IdType DEF TypeOK
    <3>2. InHand' /\ mine' \in [Procs -> States] /\ pc' \in [Procs -> Pcs]
      BY <2>2, <3>1, HandHold DEF Pcs, BeginPcs, HandPcs, RenewPcs, EndPcs
    <3>3. fate' \in [Ids -> Fates]
      BY <2>2, LoseType DEF Fates
    <3>4. QED
      BY <1>8, <3>2, <3>3 DEF Unlock, LeaveLock, TypeOK, members
  <2>3. QED
    BY <1>8, <2>1, <2>2 DEF Unlock, LeaveLock
<1>9. CASE Save(p)
  <2>1. CASE SaveTo(p, mine[p]) /\ Return(p)
    BY <1>9, <2>1, SaveType, ReturnType, HandReturn DEF Save, TypeOK, lock, members, history
  <2>2. CASE Goto(p, "unsave") /\ UNCHANGED <<file, mine>>
    BY <1>9, <2>2, GotoType, HandMove
       DEF Save, TypeOK, lock, members, history, Pcs, BeginPcs, HandPcs
  <2>3. QED
    BY <1>9, <2>1, <2>2 DEF Save
<1>10. CASE Unpost(p)
  BY <1>10, ReturnType, HandReturn DEF Unpost, TypeOK, lock, members
<1>11. QED
  BY <1>1, <1>2, <1>3, <1>4, <1>5, <1>6, <1>7, <1>8, <1>9, <1>10 DEF Begin

LEMMA RenewType ==
  ASSUME TypeInv, NEW p \in Procs, Renew(p)
  PROVE  TypeInv'
<1> USE DEF TypeInv
<1>1. CASE RenewPut(p)
  <2>1. CASE Return(p) /\ UNCHANGED <<members, fate, unlocked>>
    BY <1>1, <2>1, ReturnType, HandReturn DEF RenewPut, TypeOK, lock, members
  <2>2. ASSUME \/ Goto(p, "r_verify") /\ UNCHANGED mine
               \/ Return(p),
               NEW t \in 1 .. Duration,
               \/ /\ PutOnPrimary(mine[p].id, t)
                  /\ UNCHANGED <<scope, fate, unlocked>>
               \/ \E i \in Ids : /\ NewSilence(i, t, scope[mine[p].id])
                                 /\ LoseTrack(i, IF pc'[p] = "idle" THEN "unanswered"
                                                 ELSE "late")
                                 /\ unlocked' = unlocked \cup {i}
        PROVE  TypeInv'
    <3>1. mine[p].id \in Ids
      BY <1>1 DEF RenewPut, InHand, HandPcs, RenewPcs
    <3>2. pc' \in [Procs -> Pcs] /\ mine' \in [Procs -> States] /\ InHand'
      <4>1. CASE Return(p)
        BY <4>1, ReturnType, HandReturn
      <4>2. CASE Goto(p, "r_verify") /\ UNCHANGED mine
        BY <1>1, <4>2, GotoType, HandMove DEF RenewPut, TypeOK, Pcs, HandPcs, RenewPcs
      <4>3. QED
        BY <2>2, <4>1, <4>2
    <3>3. /\ view' \in [Members -> [Ids -> Left]]
          /\ scope' \in [Ids -> Scopes]
          /\ fate' \in [Ids -> Fates]
          /\ unlocked' \subseteq Ids
      <4>1. CASE PutOnPrimary(mine[p].id, t) /\ UNCHANGED <<scope, fate, unlocked>>
        <5>1. t \in Left
          BY DEF Left
        <5>2. QED
          BY <4>1, <5>1, PutType DEF TypeOK
      <4>2. ASSUME NEW i \in Ids, NewSilence(i, t, scope[mine[p].id]),
                   LoseTrack(i, IF pc'[p] = "idle" THEN "unanswered" ELSE "late"),
                   unlocked' = unlocked \cup {i}
            PROVE  /\ view' \in [Members -> [Ids -> Left]]
                   /\ scope' \in [Ids -> Scopes]
                   /\ fate' \in [Ids -> Fates]
                   /\ unlocked' \subseteq Ids
        <5>1. scope[mine[p].id] \in Scopes
          BY <3>1 DEF TypeOK
        <5>2. (IF pc'[p] = "idle" THEN "unanswered" ELSE "late") \in Fates
          BY DEF Fates
        <5>3. QED
          BY <4>2, <5>1, <5>2, SilenceType, LoseType DEF TypeOK
      <4>3. QED
        BY <2>2, <4>1, <4>2
    <3>4. QED
      BY <1>1, <3>2, <3>3 DEF RenewPut, TypeOK, lock, Left
  <2>3. QED
    BY <1>1, <2>1, <2>2 DEF RenewPut
<1>2. CASE RenewVerify(p)
  <2>1. mine' \in [Procs -> States] /\ pc' \in [Procs -> Pcs] /\ InHand'
    <3>1. CASE Goto(p, "r_undo") /\ UNCHANGED mine
      BY <1>2, <3>1, GotoType, HandMove DEF RenewVerify, TypeOK, Pcs, RenewPcs, HandPcs
    <3>2. CASE /\ EveryActive(mine[p].id)
               /\ Goto(p, "r_save")
               /\ Hold(p, [mine[p] EXCEPT !.till = view[Primary][mine[p].id]])
      <4>1. mine[p].id \in Ids
        BY <1>2 DEF RenewVerify, InHand, HandPcs, RenewPcs
      <4>2. view[Primary][mine[p].id] \in 0 .. Duration
        BY <3>2, <4>1 DEF EveryActive, ActiveOn, TypeOK
      <4>3. /\ [mine[p] EXCEPT !.till = view[Primary][mine[p].id]] \in States
            /\ [mine[p] EXCEPT !.till = view[Primary][mine[p].id]].id \in Ids
        BY <4>1, <4>2, TillType DEF TypeOK
      <4>4. QED
        BY <3>2, <4>3, HandHold DEF Pcs, RenewPcs
    <3>3. QED
      BY <1>2, <3>1, <3>2 DEF RenewVerify
  <2>2. QED
    BY <1>2, <2>1 DEF RenewVerify, TypeOK, lock, members, history
<1>3. CASE RenewUndo(p)
  <2>1. view' \in [Members -> [Ids -> Left]]
    <3>1. CASE UNCHANGED view
      BY <3>1 DEF TypeOK, Left
    <3>2. QED
      BY <1>3, <3>1, DeleteType DEF RenewUndo
  <2>2. mine' \in [Procs -> States] /\ pc' \in [Procs -> Pcs] /\ InHand'
    <3>1. CASE Return(p)
      BY <3>1, ReturnType, HandReturn
    <3>2. CASE Goto(p, "r_undo_wait") /\ UNCHANGED mine
      BY <1>3, <3>2, GotoType, HandMove DEF RenewUndo, TypeOK, Pcs, RenewPcs, HandPcs
    <3>3. Goto(p, "r_undo_wait") \/ Goto(p, "idle")
      BY <1>3, DeleteType DEF RenewUndo
    <3>4. Goto(p, "r_undo_wait") => pc'[p] = "r_undo_wait"
      BY DEF Goto, TypeOK
    <3>5. Goto(p, "idle") => pc'[p] = "idle"
      BY DEF Goto, TypeOK
    <3>6. QED
      BY <1>3, <3>1, <3>2, <3>3, <3>4, <3>5 DEF RenewUndo, Return
  <2>3. QED
    BY <1>3, <2>1, <2>2 DEF RenewUndo, TypeOK, lock, history, Left
<1>4. CASE RenewSave(p)
  <2>1. file' \in [Files -> States]
    BY <1>4, SaveType DEF RenewSave, TypeOK
  <2>2. QED
    BY <1>4, <2>1, ReturnType, HandReturn DEF RenewSave, TypeOK, lock, members, history
<1>5. QED
  BY <1>1, <1>2, <1>3, <1>4 DEF Renew

LEMMA EndType ==
  ASSUME TypeInv, NEW p \in Procs, End(p)
  PROVE  TypeInv'
<1> USE DEF TypeInv
<1>1. CASE EndStatus(p)
  <2>1. mine' \in [Procs -> States] /\ pc' \in [Procs -> Pcs] /\ InHand'
    <3>1. CASE Return(p)
      BY <3>1, ReturnType, HandReturn
    <3>2. ASSUME NEW l \in {"e_delete", "e_save"}, Goto(p, l), UNCHANGED mine
          PROVE  mine' \in [Procs -> States] /\ pc' \in [Procs -> Pcs] /\ InHand'
      BY <1>1, <3>2, GotoType, HandMove DEF EndStatus, TypeOK, Pcs, EndPcs, HandPcs
    <3>3. QED
      BY <1>1, <3>1, <3>2 DEF EndStatus
  <2>2. QED
    BY <1>1, <2>1 DEF EndStatus, TypeOK, lock, members, history
<1>2. CASE EndDelete(p)
  <2>1. view' \in [Members -> [Ids -> Left]]
    BY <1>2, DeleteType DEF EndDelete
  <2>2. mine' \in [Procs -> States] /\ pc' \in [Procs -> Pcs] /\ InHand'
    <3>1. CASE Return(p)
      BY <3>1, ReturnType, HandReturn
    <3>2. CASE Goto(p, "e_wait") /\ UNCHANGED mine
      BY <1>2, <3>2, GotoType, HandMove DEF EndDelete, TypeOK, Pcs, EndPcs, HandPcs
    <3>3. Goto(p, "e_wait") \/ Goto(p, "idle")
      BY <1>2, DeleteType DEF EndDelete
    <3>4. Goto(p, "e_wait") => pc'[p] = "e_wait"
      BY DEF Goto, TypeOK
    <3>5. Goto(p, "idle") => pc'[p] = "idle"
      BY DEF Goto, TypeOK
    <3>6. QED
      BY <1>2, <3>1, <3>2, <3>3, <3>4, <3>5 DEF EndDelete, Return
  <2>3. QED
    BY <1>2, <2>1, <2>2 DEF EndDelete, TypeOK, lock, history, Left
<1>3. CASE EndWait(p)
  <2>1. mine' \in [Procs -> States] /\ pc' \in [Procs -> Pcs] /\ InHand'
    <3>1. CASE Return(p)
      BY <3>1, ReturnType, HandReturn
    <3>2. CASE Goto(p, "e_save") /\ UNCHANGED mine
      BY <1>3, <3>2, GotoType, HandMove DEF EndWait, TypeOK, Pcs, EndPcs, HandPcs
    <3>3. QED
      BY <1>3, <3>1, <3>2 DEF EndWait
  <2>2. QED
    BY <1>3, <2>1 DEF EndWait, TypeOK, lock, members, history
<1>4. CASE EndSave(p)
  <2>1. CASE Return(p) /\ UNCHANGED file
    BY <1>4, <2>1, ReturnType, HandReturn DEF EndSave, TypeOK, lock, members, history
  <2>2. CASE SaveTo(p, Ended(p)) /\ Goto(p, "e_notice") /\ Hold(p, Ended(p))
    <3>1. mine[p].id \in Ids
      BY <1>4 DEF EndSave, InHand, HandPcs, EndPcs
    <3>2. Ended(p) \in States /\ Ended(p).id \in Ids
      BY <3>1, EndedType DEF Ended, TypeOK
    <3>3. mine' \in [Procs -> States] /\ pc' \in [Procs -> Pcs] /\ InHand'
      BY <2>2, <3>2, HandHold DEF Pcs, EndPcs
    <3>4. file' \in [Files -> States]
      BY <2>2, <3>2, SaveType
    <3>5. QED
      BY <1>4, <3>3, <3>4 DEF EndSave, TypeOK, lock, members, history
  <2>3. QED
    BY <1>4, <2>1, <2>2 DEF EndSave
<1>5. CASE RepairSkip(p)
  <2>1. pc' \in [Procs -> Pcs] /\ InHand'
    BY <1>5, GotoType, HandMove DEF RepairSkip, Pcs, EndPcs, HandPcs
  <2>2. QED
    BY <1>5, <2>1 DEF RepairSkip, TypeOK, lock, members, history
<1>6. CASE EndNotice(p)
  <2>1. mine' \in [Procs -> States] /\ pc' \in [Procs -> Pcs] /\ InHand'
    <3>1. CASE Return(p)
      BY <3>1, ReturnType, HandReturn
    <3>2. CASE Goto(p, "e_clear") /\ UNCHANGED mine
      BY <1>6, <3>2, GotoType, HandMove DEF EndNotice, TypeOK, Pcs, EndPcs, HandPcs
    <3>3. QED
      BY <1>6, <3>1, <3>2 DEF EndNotice
  <2>2. QED
    BY <1>6, <2>1 DEF EndNotice, TypeOK, lock, members, history
<1>7. CASE EndClear(p)
  <2>1. file' \in [Files -> States]
    BY <1>7, SaveType, NoStateType DEF EndClear, TypeOK
  <2>2. QED
    BY <1>7, <2>1, ReturnType, HandReturn DEF EndClear, TypeOK, lock, members, history
<1>8. QED
  BY <1>1, <1>2, <1>3, <1>4, <1>5, <1>6, <1>7 DEF End

LEMMA StartType ==
  ASSUME TypeInv, NEW p \in Procs, Start(p)
  PROVE  TypeInv'
<1> USE DEF TypeInv
<1>1. CASE BeginStart(p)
  <2>1. pc' \in [Procs -> Pcs] /\ InHand'
    BY <1>1, GotoType, HandMove
       DEF BeginStart, Pcs, BeginPcs, HandPcs, RenewPcs, EndPcs
  <2>2. QED
    BY <1>1, <2>1 DEF BeginStart, TypeOK, lock, members, history
<1>2. ASSUME NEW l \in {"r_put", "e_status", "p_save"}, Goto(p, l),
             Hold(p, File(p)), File(p).id # NoId,
             UNCHANGED <<lock, members, posted, file, history>>
      PROVE  TypeInv'
  <2>1. mine' \in [Procs -> States] /\ pc' \in [Procs -> Pcs] /\ InHand'
    BY <1>2, HandLoad DEF Pcs, RenewPcs, EndPcs
  <2>2. QED
    BY <1>2, <2>1 DEF TypeOK, lock, members, history
<1>3. QED
  BY <1>1, <1>2 DEF Start, RenewStart, EndStart, RepairStart

LEMMA CrashType ==
  ASSUME TypeInv, NEW p \in Procs, Crash(p)
  PROVE  TypeInv'
<1> USE DEF TypeInv
<1>1. fate' \in [Ids -> Fates]
  BY DEF Crash, TypeOK, Fates
<1>2. leaked' \subseteq Notices /\ lost' \in [Procs -> BOOLEAN]
  BY DEF Crash, TypeOK
<1>3. QED
  BY <1>1, <1>2, ReturnType, HandReturn DEF Crash, TypeOK, members

LEMMA TickType ==
  ASSUME TypeInv, Tick
  PROVE  TypeInv'
<1> USE DEF TypeInv
<1>1. \A t \in Left : Less(t) \in Left
  BY DEF Less, Left
<1>2. \A s \in States : /\ [s EXCEPT !.till = Less(@)] \in States
                        /\ [s EXCEPT !.till = Less(@)].id = s.id
  BY DEF Less, States
<1>3. view' \in [Members -> [Ids -> Left]]
  BY <1>1 DEF Tick, TypeOK, Left
<1>4. file' \in [Files -> States]
  BY <1>2 DEF Tick, TypeOK
<1>5. mine' \in [Procs -> States] /\ InHand'
  BY <1>2 DEF Tick, TypeOK, InHand
<1>6. QED
  BY <1>3, <1>4, <1>5 DEF Tick, TypeOK, lock, history, Left

LEMMA WorldType ==
  ASSUME TypeInv, \/ \E m \in Members, i \in Ids : Gossip(m, i) \/ Collect(m, i)
                  \/ Lease
  PROVE  TypeInv'
<1> USE DEF TypeInv
<1>1. ASSUME NEW m \in Members, NEW i \in Ids, Gossip(m, i) PROVE TypeInv'
  <2>1. view' \in [Members -> [Ids -> Left]]
    BY <1>1 DEF Gossip, TypeOK, Left
  <2>2. QED
    BY <1>1, <2>1 DEF Gossip, TypeOK, InHand, lock, history, Left
<1>2. ASSUME NEW m \in Members, NEW i \in Ids, Collect(m, i) PROVE TypeInv'
  <2>1. view' \in [Members -> [Ids -> Left]]
    BY <1>2 DEF Collect, TypeOK, Left, Gone
  <2>2. fate' \in [Ids -> Fates] /\ unlocked' \subseteq Ids
    BY <1>2 DEF Collect, TypeOK, Fates
  <2>3. QED
    BY <1>2, <2>1, <2>2 DEF Collect, TypeOK, InHand, lock, Left
<1>3. CASE Lease
  BY <1>3 DEF Lease, TypeOK, InHand, members, history
<1>4. QED
  BY <1>1, <1>2, <1>3

LEMMA TypeStep == TypeInv /\ [Next]_vars => TypeInv'
<1> SUFFICES ASSUME TypeInv, [Next]_vars PROVE TypeInv'
  OBVIOUS
<1>1. CASE UNCHANGED vars
  BY <1>1 DEF TypeInv, TypeOK, InHand, vars, lock, members, history
<1>2. CASE Next
  BY <1>2, BeginType, RenewType, EndType, StartType, CrashType, TickType, WorldType DEF Next
<1>3. QED
  BY <1>1, <1>2

(* Every variable of the commands keeps its type.                          *)
THEOREM TypeCorrect == Spec => []TypeOK
<1>1. TypeInv => TypeOK
  BY DEF TypeInv
<1>2. QED
  BY <1>1, TypeInvInit, TypeStep, PTL DEF Spec
-----------------------------------------------------------------------------
(* No overlap.  The windows that count are the active ones created under   *)
(* the lock; all steps but three leave fewer of them, and let nobody reach *)
(* its PUT.                                                                *)
Locked   == ActiveIds \ unlocked
Fewer    == \A i \in Locked' : i \in Locked /\ scope'[i] = scope[i]
NoneAtPut == \A q \in Procs : pc'[q] = "put" /\ holder' = q => pc[q] = "put" /\ holder = q
Disjoint == TypeInv /\ NoOverlap /\ AdmissionHolds

LEMMA FewerKeep ==
  ASSUME Disjoint, Fewer, NoneAtPut
  PROVE  NoOverlap' /\ AdmissionHolds'
<1>1. NoOverlap'
  BY DEF Disjoint, NoOverlap, Compatible, Fewer, Locked
<1>2. AdmissionHolds'
  BY DEF Disjoint, AdmissionHolds, Fewer, NoneAtPut, Locked
<1>3. QED
  BY <1>1, <1>2

LEMMA MoveKeeps ==
  ASSUME TypeInv, NEW p \in Procs, NEW l, Goto(p, l), l # "put",
         holder' \in {holder, p, Nobody}
  PROVE  NoneAtPut
  BY DEF TypeInv, TypeOK, Goto, NoneAtPut

LEMMA SameMembers ==
  ASSUME UNCHANGED <<view, scope, unlocked>>
  PROVE  Fewer
  BY DEF Fewer, Locked, ActiveIds, ActiveOn

LEMMA FewerActive ==
  ASSUME TypeInv, UNCHANGED <<scope, unlocked>>,
         \A m \in Members, i \in Ids :
             view'[m][i] > 0 => \E n \in Members : view[n][i] > 0
  PROVE  Fewer
  BY DEF Fewer, Locked, ActiveIds, ActiveOn

LEMMA DeleteFewer ==
  ASSUME TypeInv, NEW p \in Procs, NEW next, NEW fail, Delete(p, next, fail),
         UNCHANGED <<scope, unlocked>>
  PROVE  Fewer
<1>1. CASE UNCHANGED view
  BY <1>1, FewerActive
<1>2. CASE PutOnPrimary(mine[p].id, 0)
  <2>1. \A m \in Members, i \in Ids : view'[m][i] > 0 => view[m][i] > 0
    BY <1>2 DEF PutOnPrimary, TypeInv, TypeOK
  <2>2. QED
    BY <2>1, FewerActive
<1>3. QED
  BY <1>1, <1>2 DEF Delete

(* Nothing refers to a new silence, and only it gets a new scope.          *)
LEMMA SilenceOnly ==
  ASSUME TypeInv, NEW i \in Ids, NEW t, NEW s, NewSilence(i, t, s)
  PROVE  /\ scope'[i] = s
         /\ i \notin ActiveIds
         /\ \A j \in ActiveIds' : j # i => j \in ActiveIds /\ scope'[j] = scope[j]
<1>1. i \notin ActiveIds
  BY DEF NewSilence, Fresh, EveryGone, Gone, ActiveIds, ActiveOn
<1>2. \A j \in Ids : j # i => scope'[j] = scope[j] /\ \A m \in Members : view'[m][j] = view[m][j]
  BY DEF NewSilence, PutOnPrimary, TypeInv, TypeOK
<1>3. QED
  BY <1>1, <1>2 DEF ActiveIds, ActiveOn, NewSilence, TypeInv, TypeOK

LEMMA AdmitDisjoint ==
  ASSUME Disjoint, NEW p \in Procs, Admit(p)
  PROVE  NoOverlap' /\ AdmissionHolds'
<1>1. UNCHANGED <<holder, view, scope, unlocked>>
  BY DEF Admit, lock, members, history
<1>2. CASE Goto(p, "unlock_fail")
  BY <1>1, <1>2, SameMembers, MoveKeeps, FewerKeep DEF Disjoint
<1>3. CASE Admissible(p) /\ Goto(p, "put")
  <2>1. NoOverlap'
    BY <1>1, FewerKeep DEF Disjoint, NoOverlap, Compatible, ActiveIds, ActiveOn
  <2>2. \A q \in Procs : q # p => pc'[q] = pc[q]
    BY <1>3 DEF Goto, Disjoint, TypeInv, TypeOK
  <2>3. \A i \in ActiveIds : <<ScopeOf[p], scope[i]>> \in Unrelated
    BY <1>3 DEF Admissible
  <2>4. AdmissionHolds'
    BY <1>1, <2>2, <2>3 DEF Disjoint, AdmissionHolds, ActiveIds, ActiveOn
  <2>5. QED
    BY <2>1, <2>4
<1>4. QED
  BY <1>2, <1>3 DEF Admit

LEMMA PutDisjoint ==
  ASSUME Disjoint, NEW p \in Procs, Put(p)
  PROVE  NoOverlap' /\ AdmissionHolds'
<1>1. PICK l \in {"verify", "unlock_fail"} : Goto(p, l)
  BY DEF Put
<1>2. UNCHANGED holder
  BY DEF Put, lock
<1>3. NoneAtPut
  BY <1>1, <1>2, MoveKeeps DEF Disjoint
<1>4. CASE UNCHANGED <<members, mine, fate, unlocked>>
  BY <1>3, <1>4, SameMembers, FewerKeep DEF members
<1>5. ASSUME NEW i \in Ids, NEW t \in 1 .. Duration, NewSilence(i, t, ScopeOf[p]),
             unlocked' = IF holder = p THEN unlocked ELSE unlocked \cup {i}
      PROVE  NoOverlap' /\ AdmissionHolds'
  <2>1. /\ scope'[i] = ScopeOf[p]
        /\ \A j \in ActiveIds' : j # i => j \in ActiveIds /\ scope'[j] = scope[j]
    BY <1>5, SilenceOnly DEF Disjoint
  <2>2. CASE holder # p
    <3>1. Fewer
      BY <1>5, <2>1, <2>2 DEF Fewer, Locked
    <3>2. QED
      BY <1>3, <3>1, FewerKeep
  <2>3. CASE holder = p
    <3>1. \A j \in Locked' : j # i => j \in Locked /\ scope'[j] = scope[j]
      BY <1>5, <2>1, <2>3 DEF Locked
    <3>2. \A j \in Locked : <<ScopeOf[p], scope[j]>> \in Unrelated
      BY <2>3 DEF Disjoint, AdmissionHolds, Locked, Put
    <3>3. NoOverlap'
      BY <2>1, <3>1, <3>2 DEF Disjoint, NoOverlap, Compatible, Locked
    <3>4. pc'[p] # "put" /\ holder' = p
      BY <1>1, <1>2, <2>3 DEF Goto, Disjoint, TypeInv, TypeOK
    <3>5. AdmissionHolds'
      BY <3>4 DEF AdmissionHolds
    <3>6. QED
      BY <3>3, <3>5
  <2>4. QED
    BY <2>2, <2>3
<1>6. QED
  BY <1>4, <1>5 DEF Put

(* Whatever else an invocation does.                                       *)
LEMMA BeginDisjoint ==
  ASSUME Disjoint, NEW p \in Procs, Begin(p)
  PROVE  NoOverlap' /\ AdmissionHolds'
<1> USE DEF Disjoint
<1>1. ASSUME NEW l, Goto(p, l), l # "put", holder' \in {holder, p, Nobody},
             UNCHANGED <<view, scope, unlocked>>
      PROVE  NoOverlap' /\ AdmissionHolds'
  BY <1>1, SameMembers, MoveKeeps, FewerKeep
<1>2. CASE PostNotice(p)
  BY <1>1, <1>2 DEF PostNotice, Return, lock, members
<1>3. CASE LockEnter(p)
  BY <1>1, <1>3 DEF LockEnter, members, history
<1>4. CASE LockFail(p)
  BY <1>1, <1>4 DEF LockFail, members, history
<1>5. CASE Verify(p)
  BY <1>1, <1>5 DEF Verify, lock, members, history
<1>6. CASE Undo(p)
  <2>1. PICK l \in {"undo_wait", "unlock_fail", "unsave_wait", "unpost"} : Goto(p, l)
    BY <1>6 DEF Undo, Delete
  <2>2. UNCHANGED <<holder, scope, unlocked>>
    BY <1>6 DEF Undo, lock
  <2>3. Fewer
    BY <1>6, <2>2, DeleteFewer, FewerActive DEF Undo
  <2>4. QED
    BY <2>1, <2>2, <2>3, MoveKeeps, FewerKeep
<1>7. CASE Unlock(p)
  BY <1>1, <1>7 DEF Unlock, LeaveLock, members
<1>8. CASE Save(p)
  BY <1>1, <1>8 DEF Save, Return, lock, members, history
<1>9. CASE Unpost(p)
  BY <1>1, <1>9 DEF Unpost, Return, lock, members
<1>10. QED
  BY <1>2, <1>3, <1>4, <1>5, <1>6, <1>7, <1>8, <1>9, AdmitDisjoint, PutDisjoint DEF Begin

LEMMA RenewDisjoint ==
  ASSUME Disjoint, NEW p \in Procs, Renew(p)
  PROVE  NoOverlap' /\ AdmissionHolds'
<1> USE DEF Disjoint
<1>1. PICK l \in {"idle", "r_verify", "r_undo", "r_undo_wait", "r_save"} : Goto(p, l)
  BY DEF Renew, RenewPut, RenewVerify, RenewUndo, RenewSave, Return, Delete
<1>2. UNCHANGED holder
  BY DEF Renew, RenewPut, RenewVerify, RenewUndo, RenewSave, lock
<1>3. NoneAtPut
  BY <1>1, <1>2, MoveKeeps
<1>4. CASE RenewVerify(p) \/ RenewSave(p)
  BY <1>3, <1>4, SameMembers, FewerKeep DEF RenewVerify, RenewSave, members, history
<1>5. CASE RenewUndo(p)
  <2>1. Fewer
    BY <1>5, DeleteFewer, FewerActive DEF RenewUndo, history
  <2>2. QED
    BY <1>3, <2>1, FewerKeep
<1>6. CASE RenewPut(p)
  <2>1. CASE UNCHANGED <<members, fate, unlocked>>
    BY <1>3, <2>1, SameMembers, FewerKeep DEF members
  <2>2. ASSUME NEW t \in 1 .. Duration, ActiveOn(Primary, mine[p].id),
               PutOnPrimary(mine[p].id, t), UNCHANGED <<scope, fate, unlocked>>
        PROVE  NoOverlap' /\ AdmissionHolds'
    <3>1. \A m \in Members, i \in Ids :
              view'[m][i] > 0 => \E n \in Members : view[n][i] > 0
      BY <2>2 DEF ActiveOn, PutOnPrimary, TypeInv, TypeOK
    <3>2. QED
      BY <1>3, <2>2, <3>1, FewerActive, FewerKeep
  <2>3. ASSUME NEW t \in 1 .. Duration, NEW i \in Ids,
               NewSilence(i, t, scope[mine[p].id]), unlocked' = unlocked \cup {i}
        PROVE  NoOverlap' /\ AdmissionHolds'
    <3>1. \A j \in ActiveIds' : j # i => j \in ActiveIds /\ scope'[j] = scope[j]
      BY <2>3, SilenceOnly
    <3>2. Fewer
      BY <2>3, <3>1 DEF Fewer, Locked
    <3>3. QED
      BY <1>3, <3>2, FewerKeep
  <2>4. QED
    BY <1>6, <2>1, <2>2, <2>3 DEF RenewPut
<1>7. QED
  BY <1>4, <1>5, <1>6 DEF Renew

LEMMA EndDisjoint ==
  ASSUME Disjoint, NEW p \in Procs, End(p) \/ Start(p) \/ Crash(p)
  PROVE  NoOverlap' /\ AdmissionHolds'
<1> USE DEF Disjoint
<1>1. PICK l : Goto(p, l) /\ l # "put"
  BY DEF End, EndStatus, EndDelete, EndWait, EndSave, RepairSkip, EndNotice, EndClear,
         Start, BeginStart, RenewStart, EndStart, RepairStart, Crash, Return, Delete
<1>2. UNCHANGED <<holder, scope, unlocked>>
  BY DEF End, EndStatus, EndDelete, EndWait, EndSave, RepairSkip, EndNotice, EndClear,
         Start, BeginStart, RenewStart, EndStart, RepairStart, Crash,
         lock, members, history
<1>3. NoneAtPut
  BY <1>1, <1>2, MoveKeeps
<1>4. CASE EndDelete(p)
  BY <1>2, <1>3, <1>4, DeleteFewer, FewerKeep DEF EndDelete
<1>5. CASE UNCHANGED view
  BY <1>2, <1>3, <1>5, SameMembers, FewerKeep
<1>6. QED
  BY <1>4, <1>5
     DEF End, EndStatus, EndWait, EndSave, RepairSkip, EndNotice, EndClear,
         Start, BeginStart, RenewStart, EndStart, RepairStart, Crash, members

LEMMA WorldDisjoint ==
  ASSUME Disjoint, \/ \E m \in Members, i \in Ids : Gossip(m, i) \/ Collect(m, i)
                   \/ Lease \/ Tick
  PROVE  NoOverlap' /\ AdmissionHolds'
<1> USE DEF Disjoint
<1>1. UNCHANGED <<holder, pc, scope>>
  BY DEF Gossip, Collect, Lease, Tick, lock, members
<1>2. NoneAtPut
  BY <1>1 DEF NoneAtPut
<1>3. ASSUME NEW m \in Members, NEW i \in Ids, Gossip(m, i) PROVE Fewer
  <2>1. \A n \in Members, j \in Ids :
            view'[n][j] > 0 => view[n][j] > 0 \/ view[Primary][j] > 0
    BY <1>3 DEF Gossip, TypeInv, TypeOK
  <2>2. QED
    BY <1>1, <1>3, <2>1, FewerActive DEF Gossip, history
<1>4. ASSUME NEW m \in Members, NEW i \in Ids, Collect(m, i) PROVE Fewer
  <2>1. \A n \in Members, j \in Ids : view'[n][j] > 0 => view[n][j] > 0
    BY <1>4 DEF Collect, Gone, TypeInv, TypeOK
  <2>2. ActiveIds' \subseteq ActiveIds
    BY <2>1 DEF ActiveIds, ActiveOn
  <2>3. unlocked' = unlocked \/ (unlocked' = unlocked \ {i} /\ i \notin ActiveIds')
    <3>1. CASE \A n \in Members \ {m} : view[n][i] = Gone
      <4>1. \A n \in Members : view'[n][i] = Gone
        BY <1>4, <3>1 DEF Collect, TypeInv, TypeOK
      <4>2. QED
        BY <1>4, <3>1, <4>1 DEF Collect, ActiveIds, ActiveOn, Gone
    <3>2. QED
      BY <1>4, <3>1 DEF Collect
  <2>4. QED
    BY <1>1, <2>2, <2>3 DEF Fewer, Locked, ActiveIds
<1>5. ASSUME Lease PROVE Fewer
  BY <1>5, SameMembers DEF Lease, members, history
<1>6. ASSUME Tick PROVE Fewer
  <2>1. \A m \in Members, i \in Ids : view'[m][i] > 0 => view[m][i] > 0
    BY <1>6 DEF Tick, Less, TypeInv, TypeOK
  <2>2. QED
    BY <1>6, <2>1, FewerActive DEF Tick, history
<1>7. Fewer
  BY <1>3, <1>4, <1>5, <1>6
<1>8. QED
  BY <1>2, <1>7, FewerKeep

LEMMA DisjointStep == Disjoint /\ [Next]_vars => Disjoint'
<1> SUFFICES ASSUME Disjoint, [Next]_vars PROVE NoOverlap' /\ AdmissionHolds'
  BY TypeStep DEF Disjoint
<1>1. CASE UNCHANGED vars
  BY <1>1 DEF Disjoint, NoOverlap, AdmissionHolds, Compatible, ActiveIds, ActiveOn,
              vars, lock, members, history
<1>2. CASE Next
  BY <1>2, BeginDisjoint, RenewDisjoint, EndDisjoint, WorldDisjoint DEF Next
<1>3. QED
  BY <1>1, <1>2

LEMMA DisjointInit == Init => Disjoint
<1> SUFFICES ASSUME Init PROVE NoOverlap /\ AdmissionHolds
  BY TypeInvInit DEF Disjoint
<1>1. ActiveIds = {}
  BY DEF Init, ActiveIds, ActiveOn, Gone
<1>2. QED
  BY <1>1 DEF NoOverlap, AdmissionHolds

(* Two active windows are compatible unless one of them was created        *)
(* without the lock, however many invocations, members and scopes there    *)
(* are, and however they are killed.                                       *)
THEOREM Overlap == Spec => []NoOverlap
<1>1. Disjoint => NoOverlap
  BY DEF Disjoint
<1>2. QED
  BY <1>1, DisjointInit, DisjointStep, PTL DEF Spec

(* What a begin saw when it was admitted still holds at its PUT.           *)
THEOREM Admission == Spec => []AdmissionHolds
<1>1. Disjoint => AdmissionHolds
  BY DEF Disjoint
<1>2. QED
  BY <1>1, DisjointInit, DisjointStep, PTL DEF Spec
-----------------------------------------------------------------------------
(* Nothing is lost, as long as no two invocations use one state file.  The *)
(* command asks for that (cluster-maintenance:1516, "requires a separate   *)
(* MAINTENANCE_STATE_FILE"; the fast-update runner sets one of its own): a *)
(* file is neither locked nor compared before it is written, so that two   *)
(* of them could overwrite each other's window.                            *)
OwnFiles == \A p, q \in Procs : FileOf[p] = FileOf[q] => p = q

(* An invocation holds no silence before its PUT and after its cleanup,    *)
(* begins only where there is no state, and then works on a copy of its    *)
(* file; at the places of OverPcs the silence is over on every member.     *)
EmptyPcs == {"idle", "notice", "lock", "scan", "put", "unlock_fail", "unpost"}
OverPcs  == {"e_save", "p_save", "e_notice", "e_clear"}

EmptyAt(p) == /\ pc[p] \in EmptyPcs => mine[p].id = NoId
              /\ pc[p] \in {"idle", "notice"} => mine[p].note = NoNotice
CopyAt(p)  == /\ pc[p] \in BeginPcs => File(p).id = NoId /\ File(p).note = NoNotice
              /\ pc[p] \in RenewPcs \cup EndPcs => /\ File(p).id = mine[p].id
                                                   /\ File(p).note = mine[p].note
OverAt(p)  == /\ pc[p] \in OverPcs => mine[p].id \notin ActiveIds
              /\ pc[p] = "e_clear" => mine[p].note \notin posted

Control == \A p \in Procs : EmptyAt(p) /\ CopyAt(p) /\ OverAt(p)
Kept    == TypeInv /\ Control /\ Tracked

(* What a step of p must show: it moves only p and p's file, brings up     *)
(* only what nobody refers to, and leaves nothing behind.                  *)
OnlyOf(p) == /\ \A q \in Procs : q # p => pc'[q] = pc[q] /\ mine'[q] = mine[q]
             /\ \A f \in Files : f # FileOf[p] => file'[f] = file[f]
NewOnly == /\ \A i \in ActiveIds' : i \in ActiveIds \/ Fresh(i)
           /\ \A n \in posted' : n \in posted \/ FreshNotice(n)
NoneLeft(p) ==
    /\ \A i \in ActiveIds' : \/ fate'[i] # "tracked"
                              \/ i \in {mine'[p].id, File(p)'.id}
                              \/ /\ i \in ActiveIds /\ fate[i] = "tracked"
                                 /\ i \notin {mine[p].id, File(p).id}
    /\ \A n \in posted' : \/ n \in leaked'
                           \/ n \in {mine'[p].note, File(p)'.note}
                           \/ /\ n \in posted \ leaked
                              /\ n \notin {mine[p].note, File(p).note}

LEMMA OnePreserves ==
  ASSUME Kept, OwnFiles, NEW p \in Procs, OnlyOf(p), NewOnly, NoneLeft(p),
         EmptyAt(p)', CopyAt(p)', OverAt(p)'
  PROVE  Control' /\ Tracked'
<1>1. ASSUME NEW q \in Procs, q # p PROVE EmptyAt(q)' /\ CopyAt(q)' /\ OverAt(q)'
  <2>1. EmptyAt(q) /\ CopyAt(q) /\ OverAt(q)
    BY DEF Kept, Control
  <2>2. pc'[q] = pc[q] /\ mine'[q] = mine[q] /\ File(q)' = File(q)
    BY <1>1 DEF OnlyOf, OwnFiles, File
  <2>3. EmptyAt(q)' /\ CopyAt(q)'
    BY <2>1, <2>2 DEF EmptyAt, CopyAt
  <2>4. mine[q].id \notin ActiveIds => mine'[q].id \notin ActiveIds'
    BY <2>2 DEF NewOnly, Fresh
  <2>5. mine[q].note \notin posted => mine'[q].note \notin posted'
    BY <2>2 DEF NewOnly, FreshNotice
  <2>6. OverAt(q)'
    BY <2>1, <2>2, <2>4, <2>5 DEF OverAt
  <2>7. QED
    BY <2>3, <2>6
<1>2. Control'
  BY <1>1 DEF Control
<1>3. ASSUME NEW i \in ActiveIds'
      PROVE  \/ fate'[i] # "tracked"
             \/ \E f \in Files : file'[f].id = i
             \/ \E q \in Procs : mine'[q].id = i
  <2>1. CASE fate'[i] # "tracked" \/ i \in {mine'[p].id, File(p)'.id}
    BY <2>1 DEF File
  <2>2. CASE i \in ActiveIds /\ fate[i] = "tracked" /\ i \notin {mine[p].id, File(p).id}
    <3>1. (\E f \in Files : file[f].id = i) \/ \E q \in Procs : mine[q].id = i
      BY <2>2 DEF Kept, Tracked
    <3>2. QED
      BY <2>2, <3>1 DEF OnlyOf, File
  <2>3. QED
    BY <1>3, <2>1, <2>2 DEF NoneLeft
<1>4. ASSUME NEW n \in posted'
      PROVE  \/ n \in leaked'
             \/ \E f \in Files : file'[f].note = n
             \/ \E q \in Procs : mine'[q].note = n
  <2>1. CASE n \in leaked' \/ n \in {mine'[p].note, File(p)'.note}
    BY <2>1 DEF File
  <2>2. CASE n \in posted \ leaked /\ n \notin {mine[p].note, File(p).note}
    <3>1. (\E f \in Files : file[f].note = n) \/ \E q \in Procs : mine[q].note = n
      BY <2>2 DEF Kept, Tracked
    <3>2. QED
      BY <2>2, <3>1 DEF OnlyOf, File
  <2>3. QED
    BY <1>4, <2>1, <2>2 DEF NoneLeft
<1>5. QED
  BY <1>2, <1>3, <1>4 DEF Tracked

(* What a step leaves of p's own variables.                                *)
LEMMA Moves ==
  ASSUME TypeInv, NEW p \in Procs, NEW l, Goto(p, l)
  PROVE  pc'[p] = l /\ \A q \in Procs : q # p => pc'[q] = pc[q]
  BY DEF TypeInv, TypeOK, Goto

LEMMA Holds ==
  ASSUME TypeInv, NEW p \in Procs, NEW s, Hold(p, s)
  PROVE  mine'[p] = s /\ \A q \in Procs : q # p => mine'[q] = mine[q]
  BY DEF TypeInv, TypeOK, Hold

LEMMA Saves ==
  ASSUME TypeInv, NEW p \in Procs, NEW s, SaveTo(p, s)
  PROVE  File(p)' = s /\ \A f \in Files : f # FileOf[p] => file'[f] = file[f]
  BY DEF TypeInv, TypeOK, SaveTo, File

LEMMA MoveOnly ==
  ASSUME TypeInv, NEW p \in Procs, \E l : Goto(p, l),
         UNCHANGED mine \/ \E s : Hold(p, s),
         UNCHANGED file \/ \E s : SaveTo(p, s)
  PROVE  OnlyOf(p)
<1>1. \A q \in Procs : q # p => pc'[q] = pc[q]
  BY Moves
<1>2. \A q \in Procs : q # p => mine'[q] = mine[q]
  BY Holds
<1>3. \A f \in Files : f # FileOf[p] => file'[f] = file[f]
  BY Saves
<1>4. QED
  BY <1>1, <1>2, <1>3 DEF OnlyOf

(* A step that brings up nothing loses nothing if p still has what it had. *)
LEMMA Lossless ==
  ASSUME Kept, NEW p \in Procs,
         ActiveIds' \subseteq ActiveIds, posted' \subseteq posted,
         \A i \in ActiveIds' : fate[i] # "tracked" => fate'[i] # "tracked",
         \A i \in ActiveIds' : i \in {mine[p].id, File(p).id} =>
             fate'[i] # "tracked" \/ i \in {mine'[p].id, File(p)'.id},
         leaked \subseteq leaked',
         \A n \in posted' : n \in {mine[p].note, File(p).note} =>
             n \in leaked' \/ n \in {mine'[p].note, File(p)'.note}
  PROVE  NewOnly /\ NoneLeft(p)
  BY DEF NewOnly, NoneLeft

LEMMA SameActive ==
  ASSUME UNCHANGED view
  PROVE  ActiveIds' = ActiveIds
  BY DEF ActiveIds, ActiveOn

LEMMA DeleteActive ==
  ASSUME TypeInv, NEW p \in Procs, NEW next, NEW fail, Delete(p, next, fail)
  PROVE  ActiveIds' \subseteq ActiveIds
<1>1. CASE UNCHANGED view
  BY <1>1, SameActive
<1>2. CASE PutOnPrimary(mine[p].id, 0)
  BY <1>2 DEF PutOnPrimary, ActiveIds, ActiveOn, TypeInv, TypeOK
<1>3. QED
  BY <1>1, <1>2 DEF Delete

LEMMA RealOnly ==
  ASSUME TypeInv
  PROVE  NoId \notin ActiveIds /\ NoNotice \notin posted
  BY DEF TypeInv, TypeOK, ActiveIds

(* The fields of a state that is replaced but for one.                     *)
LEMMA Fields ==
  ASSUME NEW s \in States, NEW x
  PROVE  /\ [s EXCEPT !.id = x].id = x /\ [s EXCEPT !.id = x].note = s.note
         /\ [s EXCEPT !.note = x].id = s.id /\ [s EXCEPT !.note = x].note = x
         /\ [s EXCEPT !.till = x].id = s.id /\ [s EXCEPT !.till = x].note = s.note
         /\ [s EXCEPT !.ended = x].id = s.id /\ [s EXCEPT !.ended = x].note = s.note
         /\ NoState.id = NoId /\ NoState.note = NoNotice
  BY DEF States, NoState

(* One field of what p has in hand is replaced.                            *)
LEMMA HoldField ==
  ASSUME TypeInv, NEW p \in Procs, NEW x
  PROVE  /\ Hold(p, [mine[p] EXCEPT !.id = x]) =>
                mine'[p].id = x /\ mine'[p].note = mine[p].note
         /\ Hold(p, [mine[p] EXCEPT !.note = x]) =>
                mine'[p].id = mine[p].id /\ mine'[p].note = x
         /\ Hold(p, [mine[p] EXCEPT !.till = x]) =>
                mine'[p].id = mine[p].id /\ mine'[p].note = mine[p].note
<1>1. mine[p] \in States
  BY DEF TypeInv, TypeOK
<1>2. ASSUME Hold(p, [mine[p] EXCEPT !.id = x])
      PROVE  mine'[p].id = x /\ mine'[p].note = mine[p].note
  BY <1>1, <1>2 DEF Hold, States, TypeInv, TypeOK
<1>3. ASSUME Hold(p, [mine[p] EXCEPT !.note = x])
      PROVE  mine'[p].id = mine[p].id /\ mine'[p].note = x
  BY <1>1, <1>3 DEF Hold, States, TypeInv, TypeOK
<1>4. ASSUME Hold(p, [mine[p] EXCEPT !.till = x])
      PROVE  mine'[p].id = mine[p].id /\ mine'[p].note = mine[p].note
  BY <1>1, <1>4 DEF Hold, States, TypeInv, TypeOK
<1>5. QED
  BY <1>2, <1>3, <1>4

(* A begin moves on, with what it has in hand.                             *)
LEMMA BeginMoves ==
  ASSUME Kept, OwnFiles, NEW p \in Procs, NEW l \in BeginPcs, Goto(p, l),
         pc[p] \in BeginPcs \cup {"idle"}, UNCHANGED <<view, posted, file, fate, leaked>>,
         UNCHANGED mine \/ \E s : Hold(p, s),
         pc[p] = "idle" => File(p).id = NoId /\ File(p).note = NoNotice,
         mine'[p].id = mine[p].id, mine'[p].note = mine[p].note,
         l \in EmptyPcs => mine[p].id = NoId,
         l = "notice" => mine[p].note = NoNotice
  PROVE  Control' /\ Tracked'
<1>1. OnlyOf(p) /\ pc'[p] = l /\ File(p)' = File(p)
  BY MoveOnly, Moves DEF Kept, File
<1>2. NewOnly /\ NoneLeft(p)
  BY <1>1, SameActive, Lossless
<1>3. CopyAt(p)
  BY DEF Kept, Control
<1>4. EmptyAt(p)' /\ CopyAt(p)' /\ OverAt(p)'
  BY <1>1, <1>3 DEF EmptyAt, CopyAt, OverAt, BeginPcs, LockedPcs, RenewPcs, EndPcs, OverPcs
<1>5. QED
  BY <1>1, <1>2, <1>4, OnePreserves

(* A command returns from a place where the file holds all it has in hand, *)
(* or where it has nothing left to lose.                                   *)
LEMMA ReturnKeeps ==
  ASSUME Kept, OwnFiles, NEW p \in Procs, Return(p),
         UNCHANGED file \/ \E s : SaveTo(p, s),
         ActiveIds' \subseteq ActiveIds, posted' \subseteq posted,
         \A i \in ActiveIds' : fate[i] # "tracked" => fate'[i] # "tracked",
         \A i \in ActiveIds' : i \in {mine[p].id, File(p).id} =>
             fate'[i] # "tracked" \/ i = File(p)'.id,
         leaked \subseteq leaked',
         \A n \in posted' : n \in {mine[p].note, File(p).note} =>
             n \in leaked' \/ n = File(p)'.note
  PROVE  Control' /\ Tracked'
<1>1. OnlyOf(p) /\ pc'[p] = "idle" /\ mine'[p] = NoState
  BY MoveOnly, Moves, Holds DEF Kept, Return
<1>2. NewOnly /\ NoneLeft(p)
  BY Lossless
<1>3. mine'[p].id = NoId /\ mine'[p].note = NoNotice
  BY <1>1 DEF NoState
<1>4. EmptyAt(p)' /\ CopyAt(p)' /\ OverAt(p)'
  BY <1>1, <1>3
     DEF EmptyAt, CopyAt, OverAt, BeginPcs, LockedPcs, RenewPcs, EndPcs, OverPcs
<1>5. QED
  BY <1>1, <1>2, <1>4, OnePreserves

LEMMA NoticeKeeps ==
  ASSUME Kept, OwnFiles, NEW p \in Procs, PostNotice(p)
  PROVE  Control' /\ Tracked'
<1>1. /\ EmptyAt(p) /\ CopyAt(p)
      /\ UNCHANGED <<view, file, fate>>
      /\ pc[p] = "notice"
  BY DEF Kept, Control, PostNotice, members
<1>2. /\ mine[p].id = NoId /\ mine[p].note = NoNotice
      /\ File(p).id = NoId /\ File(p).note = NoNotice
  BY <1>1 DEF EmptyAt, EmptyPcs, CopyAt, BeginPcs
<1>3. ActiveIds' = ActiveIds /\ NoId \notin ActiveIds
  BY <1>1, SameActive, RealOnly DEF Kept
<1>4. CASE Return(p) /\ UNCHANGED <<posted, leaked>>
  BY <1>1, <1>2, <1>3, <1>4, ReturnKeeps, RealOnly DEF Kept
<1>5. ASSUME NEW n \in Notices, FreshNotice(n), posted' = posted \cup {n},
             \/ /\ Goto(p, "lock")
                /\ Hold(p, [mine[p] EXCEPT !.note = n])
                /\ UNCHANGED leaked
             \/ Return(p) /\ leaked' = leaked \cup {n}
      PROVE  Control' /\ Tracked'
  <2>1. OnlyOf(p) /\ NewOnly /\ File(p)' = File(p)
    BY <1>1, <1>3, <1>5, MoveOnly DEF Kept, Return, NewOnly, File
  <2>2. \A i \in ActiveIds' : i \in ActiveIds /\ fate'[i] = fate[i]
                                /\ i \notin {mine[p].id, File(p).id}
    BY <1>1, <1>2, <1>3
  <2>3. \A m \in posted : m \notin {mine[p].note, File(p).note}
    BY <1>2, RealOnly DEF Kept
  <2>4. CASE Return(p) /\ leaked' = leaked \cup {n}
    <3>1. pc'[p] = "idle" /\ mine'[p].id = NoId /\ mine'[p].note = NoNotice
      BY <2>4, Moves, Holds DEF Kept, Return, NoState
    <3>2. EmptyAt(p)' /\ CopyAt(p)' /\ OverAt(p)'
      BY <3>1
         DEF EmptyAt, CopyAt, OverAt, BeginPcs, LockedPcs, RenewPcs, EndPcs, OverPcs
    <3>3. NoneLeft(p)
      BY <1>5, <2>2, <2>3, <2>4 DEF NoneLeft
    <3>4. QED
      BY <2>1, <3>2, <3>3, OnePreserves
  <2>5. CASE /\ Goto(p, "lock")
             /\ Hold(p, [mine[p] EXCEPT !.note = n])
             /\ UNCHANGED leaked
    <3>1. pc'[p] = "lock" /\ mine'[p].id = NoId /\ mine'[p].note = n
      BY <1>2, <2>5, Moves, HoldField DEF Kept
    <3>2. EmptyAt(p)' /\ CopyAt(p)' /\ OverAt(p)'
      BY <1>2, <2>1, <3>1
         DEF EmptyAt, CopyAt, OverAt, BeginPcs, LockedPcs, RenewPcs, EndPcs, OverPcs
    <3>3. NoneLeft(p)
      BY <1>5, <2>2, <2>3, <2>5, <3>1 DEF NoneLeft
    <3>4. QED
      BY <2>1, <3>2, <3>3, OnePreserves
  <2>6. QED
    BY <1>5, <2>4, <2>5
<1>6. QED
  BY <1>4, <1>5 DEF PostNotice

LEMMA PutKeeps ==
  ASSUME Kept, OwnFiles, NEW p \in Procs, Put(p)
  PROVE  Control' /\ Tracked'
<1>1. EmptyAt(p) /\ CopyAt(p) /\ pc[p] = "put" /\ UNCHANGED <<posted, file, leaked>>
  BY DEF Kept, Control, Put
<1>2. mine[p].id = NoId /\ File(p).id = NoId /\ File(p).note = NoNotice
  BY <1>1 DEF EmptyAt, EmptyPcs, CopyAt, BeginPcs, LockedPcs
<1>3. CASE Goto(p, "unlock_fail") /\ UNCHANGED <<members, mine, fate, unlocked>>
  BY <1>1, <1>2, <1>3, BeginMoves DEF BeginPcs, LockedPcs, members
<1>4. ASSUME NEW i \in Ids, NEW t \in 1 .. Duration, NewSilence(i, t, ScopeOf[p]),
             \/ /\ Goto(p, "verify")
                /\ Hold(p, [mine[p] EXCEPT !.id = i])
                /\ UNCHANGED fate
             \/ /\ Goto(p, "unlock_fail")
                /\ LoseTrack(i, "unanswered")
                /\ UNCHANGED mine
      PROVE  Control' /\ Tracked'
  <2>1. \A j \in ActiveIds' : j # i => j \in ActiveIds
    BY <1>4, SilenceOnly DEF Kept
  <2>2. OnlyOf(p) /\ NewOnly /\ File(p)' = File(p)
    BY <1>1, <1>4, <2>1, MoveOnly DEF Kept, NewOnly, NewSilence, File
  <2>3. \A j \in ActiveIds : j \notin {mine[p].id, File(p).id}
    BY <1>2, RealOnly DEF Kept
  <2>4. mine'[p].note = mine[p].note
    BY <1>4, HoldField DEF Kept
  <2>5. \A n \in posted' : n \in {mine[p].note, File(p).note} =>
                               n \in {mine'[p].note, File(p)'.note}
    BY <2>2, <2>4
  <2>6. CASE Goto(p, "verify") /\ Hold(p, [mine[p] EXCEPT !.id = i]) /\ UNCHANGED fate
    <3>1. pc'[p] = "verify" /\ mine'[p].id = i
      BY <2>6, Moves, HoldField DEF Kept
    <3>2. EmptyAt(p)' /\ CopyAt(p)' /\ OverAt(p)'
      BY <1>2, <2>2, <3>1
         DEF EmptyAt, EmptyPcs, CopyAt, OverAt, RenewPcs, EndPcs, OverPcs
    <3>3. NoneLeft(p)
      BY <1>1, <2>1, <2>3, <2>5, <2>6, <3>1 DEF NoneLeft
    <3>4. QED
      BY <2>2, <3>2, <3>3, OnePreserves
  <2>7. CASE Goto(p, "unlock_fail") /\ LoseTrack(i, "unanswered") /\ UNCHANGED mine
    <3>1. pc'[p] = "unlock_fail"
      BY <2>7, Moves DEF Kept
    <3>2. EmptyAt(p)' /\ CopyAt(p)' /\ OverAt(p)'
      BY <1>2, <2>2, <2>7, <3>1 DEF EmptyAt, CopyAt, OverAt, RenewPcs, EndPcs, OverPcs
    <3>3. \A j \in Ids : j # i => fate'[j] = fate[j]
      BY <2>7 DEF LoseTrack, Kept, TypeInv, TypeOK
    <3>4. i \in ActiveIds' => fate'[i] # "tracked"
      BY <2>7 DEF LoseTrack, Kept, TypeInv, TypeOK, ActiveIds, ActiveOn
    <3>5. NoneLeft(p)
      BY <1>1, <2>1, <2>3, <2>5, <3>3, <3>4 DEF NoneLeft, ActiveIds
    <3>6. QED
      BY <2>2, <3>2, <3>5, OnePreserves
  <2>8. QED
    BY <1>4, <2>6, <2>7
<1>5. QED
  BY <1>3, <1>4 DEF Put

(* A begin gives up its silence: the loss is recorded if it is active.     *)
LEMMA GiveUpKeeps ==
  ASSUME Kept, OwnFiles, NEW p \in Procs, NEW how \in Fates \ {"tracked"},
         NEW l \in {"unlock_fail", "unpost"}, Goto(p, l), pc[p] \in BeginPcs,
         LoseTrack(mine[p].id, how), Hold(p, [mine[p] EXCEPT !.id = NoId]),
         ActiveIds' \subseteq ActiveIds, UNCHANGED <<posted, file, leaked>>
  PROVE  Control' /\ Tracked'
<1>1. OnlyOf(p) /\ pc'[p] = l /\ File(p)' = File(p) /\ CopyAt(p)
  BY MoveOnly, Moves DEF Kept, Control, File
<1>2. mine'[p].id = NoId /\ mine'[p].note = mine[p].note
  BY HoldField DEF Kept
<1>3. \A i \in ActiveIds' : fate[i] # "tracked" => fate'[i] # "tracked"
  BY DEF LoseTrack, Kept, TypeInv, TypeOK, ActiveIds, Fates
<1>4. \A i \in ActiveIds' : i = mine[p].id => fate'[i] # "tracked"
  BY DEF LoseTrack, Kept, TypeInv, TypeOK, ActiveIds, ActiveOn, Fates
<1>5. NewOnly /\ NoneLeft(p)
  BY <1>1, <1>2, <1>3, <1>4, Lossless
<1>6. EmptyAt(p)' /\ CopyAt(p)' /\ OverAt(p)'
  BY <1>1, <1>2 DEF EmptyAt, CopyAt, OverAt, BeginPcs, LockedPcs, RenewPcs, EndPcs, OverPcs
<1>7. QED
  BY <1>1, <1>5, <1>6, OnePreserves

LEMMA BeginKeeps ==
  ASSUME Kept, OwnFiles, NEW p \in Procs, Begin(p) \/ BeginStart(p)
  PROVE  Control' /\ Tracked'
<1>0. TypeInv /\ EmptyAt(p) /\ CopyAt(p)
  BY DEF Kept, Control
<1>1. ASSUME NEW l \in BeginPcs, Goto(p, l), l # "notice", pc[p] \in BeginPcs,
             l \in EmptyPcs => pc[p] \in EmptyPcs,
             UNCHANGED <<view, posted, file, mine, fate, leaked>>
      PROVE  Control' /\ Tracked'
  <2>1. l \in EmptyPcs => mine[p].id = NoId
    BY <1>0, <1>1 DEF EmptyAt
  <2>2. mine'[p].id = mine[p].id /\ mine'[p].note = mine[p].note /\ pc[p] # "idle"
    BY <1>1 DEF BeginPcs, LockedPcs
  <2>3. QED
    BY <1>1, <2>1, <2>2, BeginMoves
<1>2. CASE BeginStart(p)
  <2>1. File(p).id = NoId /\ File(p).note = NoNotice
    BY <1>2 DEF BeginStart, NoState
  <2>2. mine[p].id = NoId /\ mine[p].note = NoNotice
    BY <1>0, <1>2 DEF BeginStart, EmptyAt, EmptyPcs
  <2>3. PICK l \in {"lock", "notice"} : Goto(p, l)
    BY <1>2 DEF BeginStart
  <2>4. l \in BeginPcs
    BY DEF BeginPcs
  <2>5. QED
    BY <1>2, <2>1, <2>2, <2>3, <2>4, BeginMoves DEF BeginStart, members, history
<1>3. CASE LockEnter(p) \/ LockFail(p) \/ Admit(p)
  BY <1>1, <1>3
     DEF LockEnter, LockFail, Admit, members, history, BeginPcs, LockedPcs, EmptyPcs
<1>4. CASE Verify(p)
  <2>1. CASE Goto(p, "undo") /\ UNCHANGED mine
    BY <1>1, <1>4, <2>1 DEF Verify, members, history, BeginPcs, LockedPcs, EmptyPcs
  <2>2. CASE /\ Goto(p, "unlock")
             /\ Hold(p, [mine[p] EXCEPT !.till = view[Primary][mine[p].id]])
    <3>1. mine'[p].id = mine[p].id /\ mine'[p].note = mine[p].note
      BY <1>0, <2>2, HoldField
    <3>2. QED
      BY <1>4, <2>2, <3>1, BeginMoves
         DEF Verify, members, history, BeginPcs, LockedPcs, EmptyPcs
  <2>3. QED
    BY <1>4, <2>1, <2>2 DEF Verify
<1>5. CASE Undo(p)
  <2>1. /\ pc[p] \in {"undo", "undo_wait", "unsave", "unsave_wait"}
        /\ UNCHANGED <<posted, file, leaked>>
    BY <1>5 DEF Undo
  <2>2. ActiveIds' \subseteq ActiveIds
    BY <1>0, <1>5, DeleteActive, SameActive DEF Undo
  <2>3. PICK l \in {"undo_wait", "unlock_fail", "unsave_wait", "unpost"} : Goto(p, l)
    BY <1>5 DEF Undo, Delete
  <2>4. pc'[p] = l
    BY <1>0, <2>3, Moves
  <2>5. CASE l \in {"unlock_fail", "unpost"}
    <3>1. LoseTrack(mine[p].id, "undo_failed") /\ Hold(p, [mine[p] EXCEPT !.id = NoId])
      BY <1>5, <2>4, <2>5 DEF Undo
    <3>2. "undo_failed" \in Fates \ {"tracked"} /\ pc[p] \in BeginPcs
      BY <2>1 DEF Fates, BeginPcs, LockedPcs
    <3>3. QED
      BY <2>1, <2>2, <2>3, <2>5, <3>1, <3>2, GiveUpKeeps
  <2>6. CASE l \in {"undo_wait", "unsave_wait"}
    <3>1. UNCHANGED <<fate, mine>>
      BY <1>5, <2>4, <2>6 DEF Undo
    <3>2. OnlyOf(p) /\ File(p)' = File(p)
      BY <1>0, <2>1, <2>3, <3>1, MoveOnly DEF File
    <3>3. NewOnly /\ NoneLeft(p)
      BY <2>1, <2>2, <3>1, <3>2, Lossless
    <3>4. EmptyAt(p)' /\ CopyAt(p)' /\ OverAt(p)'
      BY <1>0, <2>1, <2>4, <2>6, <3>2
         DEF EmptyAt, EmptyPcs, CopyAt, OverAt, BeginPcs, LockedPcs, RenewPcs, EndPcs,
             OverPcs
    <3>5. QED
      BY <3>2, <3>3, <3>4, OnePreserves
  <2>7. QED
    BY <2>5, <2>6
<1>6. CASE Unlock(p)
  <2>1. UNCHANGED <<view, posted, file, leaked>> /\ pc[p] \in {"unlock", "unlock_fail"}
    BY <1>6 DEF Unlock, LeaveLock, members
  <2>2. CASE \/ pc[p] = "unlock" /\ Goto(p, "save") /\ UNCHANGED <<mine, fate>>
             \/ pc[p] = "unlock_fail" /\ Goto(p, "unpost") /\ UNCHANGED <<mine, fate>>
    BY <1>1, <2>1, <2>2 DEF BeginPcs, LockedPcs, EmptyPcs
  <2>3. CASE /\ Goto(p, "unpost")
             /\ Hold(p, [mine[p] EXCEPT !.id = NoId])
             /\ LoseTrack(mine[p].id, "unreleased")
    <3>1. "unreleased" \in Fates \ {"tracked"} /\ pc[p] \in BeginPcs
      BY <2>1 DEF Fates, BeginPcs, LockedPcs
    <3>2. QED
      BY <2>1, <2>3, <3>1, SameActive, GiveUpKeeps
  <2>4. QED
    BY <1>6, <2>2, <2>3 DEF Unlock, LeaveLock
<1>7. CASE Save(p)
  <2>1. UNCHANGED <<view, posted, fate, leaked>> /\ pc[p] = "save"
    BY <1>7 DEF Save, members, history
  <2>2. CASE Goto(p, "unsave") /\ UNCHANGED <<file, mine>>
    BY <1>1, <2>1, <2>2 DEF BeginPcs, EmptyPcs
  <2>3. CASE SaveTo(p, mine[p]) /\ Return(p)
    <3>1. File(p)' = mine[p] /\ File(p).id = NoId /\ File(p).note = NoNotice
      BY <1>0, <2>1, <2>3, Saves DEF CopyAt, BeginPcs
    <3>2. QED
      BY <1>0, <2>1, <2>3, <3>1, SameActive, RealOnly, ReturnKeeps
  <2>4. QED
    BY <1>7, <2>2, <2>3 DEF Save
<1>8. CASE Unpost(p)
  <2>1. /\ UNCHANGED <<view, file, fate>> /\ pc[p] = "unpost" /\ Return(p)
        /\ \/ posted' = posted \ {mine[p].note} /\ UNCHANGED leaked
           \/ UNCHANGED posted /\ leaked' = leaked \cup (posted \cap {mine[p].note})
    BY <1>8 DEF Unpost, members
  <2>2. mine[p].id = NoId /\ File(p).id = NoId /\ File(p).note = NoNotice
    BY <1>0, <2>1 DEF EmptyAt, EmptyPcs, CopyAt, BeginPcs
  <2>3. QED
    BY <1>0, <2>1, <2>2, SameActive, RealOnly, ReturnKeeps
<1>9. QED
  BY <1>2, <1>3, <1>4, <1>5, <1>6, <1>7, <1>8, NoticeKeeps, PutKeeps DEF Begin

(* The commands that start from a state file load it, and return without   *)
(* having changed its identifiers; only the last step of an end clears it. *)
LEMMA LoadKeeps ==
  ASSUME Kept, OwnFiles, NEW p \in Procs, NEW l \in RenewPcs \cup EndPcs, Goto(p, l),
         pc[p] = "idle", Hold(p, File(p)), l \in OverPcs => File(p).id \notin ActiveIds,
         l # "e_clear", UNCHANGED <<view, posted, file, fate, leaked>>
  PROVE  Control' /\ Tracked'
<1>1. OnlyOf(p) /\ pc'[p] = l /\ mine'[p] = File(p) /\ File(p)' = File(p)
  BY MoveOnly, Moves, Holds DEF Kept, File
<1>2. mine[p].id = NoId /\ mine[p].note = NoNotice
  BY DEF Kept, Control, EmptyAt, EmptyPcs
<1>3. ActiveIds' = ActiveIds
  BY SameActive
<1>4. NewOnly /\ NoneLeft(p)
  BY <1>1, <1>2, <1>3, RealOnly, Lossless DEF Kept
<1>5. EmptyAt(p)' /\ CopyAt(p)' /\ OverAt(p)'
  BY <1>1, <1>3
     DEF EmptyAt, EmptyPcs, CopyAt, OverAt, BeginPcs, LockedPcs, RenewPcs, EndPcs
<1>6. QED
  BY <1>1, <1>4, <1>5, OnePreserves

LEMMA WorkKeeps ==
  ASSUME Kept, OwnFiles, NEW p \in Procs, NEW l \in RenewPcs \cup EndPcs, Goto(p, l),
         pc[p] \in RenewPcs \cup EndPcs,
         UNCHANGED mine \/ \E s : Hold(p, s), UNCHANGED file \/ \E s : SaveTo(p, s),
         mine'[p].id = mine[p].id, mine'[p].note = mine[p].note,
         File(p)'.id = File(p).id, File(p)'.note = File(p).note,
         ActiveIds' \subseteq ActiveIds, posted' \subseteq posted,
         l \in OverPcs => mine[p].id \notin ActiveIds,
         l = "e_clear" => mine[p].note \notin posted',
         UNCHANGED <<fate, leaked>>
  PROVE  Control' /\ Tracked'
<1>1. OnlyOf(p) /\ pc'[p] = l /\ CopyAt(p)
  BY MoveOnly, Moves DEF Kept, Control
<1>2. NewOnly /\ NoneLeft(p)
  BY Lossless
<1>3. EmptyAt(p)' /\ CopyAt(p)' /\ OverAt(p)'
  BY <1>1 DEF EmptyAt, EmptyPcs, CopyAt, OverAt, BeginPcs, LockedPcs, RenewPcs, EndPcs
<1>4. QED
  BY <1>1, <1>2, <1>3, OnePreserves

LEMMA GiveBackKeeps ==
  ASSUME Kept, OwnFiles, NEW p \in Procs, Return(p), pc[p] \in RenewPcs \cup EndPcs,
         UNCHANGED file \/ \E s : SaveTo(p, s),
         File(p)'.id = File(p).id, File(p)'.note = File(p).note,
         ActiveIds' \subseteq ActiveIds, posted' \subseteq posted,
         UNCHANGED <<fate, leaked>>
  PROVE  Control' /\ Tracked'
<1>1. File(p).id = mine[p].id /\ File(p).note = mine[p].note
  BY DEF Kept, Control, CopyAt
<1>2. QED
  BY <1>1, ReturnKeeps

LEMMA RenewPutKeeps ==
  ASSUME Kept, OwnFiles, NEW p \in Procs, RenewPut(p)
  PROVE  Control' /\ Tracked'
<1>1. /\ UNCHANGED <<posted, file, leaked>> /\ File(p)' = File(p)
      /\ pc[p] = "r_put" /\ pc[p] \in RenewPcs
  BY DEF RenewPut, RenewPcs, File
<1>2. TypeInv /\ CopyAt(p)
  BY DEF Kept, Control
<1>3. File(p).id = mine[p].id /\ File(p).note = mine[p].note
  BY <1>1, <1>2 DEF CopyAt
<1>4. CASE Return(p) /\ UNCHANGED <<members, fate, unlocked>>
  BY <1>1, <1>4, SameActive, GiveBackKeeps DEF members
<1>5. ASSUME (Goto(p, "r_verify") /\ UNCHANGED mine) \/ Return(p),
             NEW t \in 1 .. Duration, ActiveOn(Primary, mine[p].id),
             PutOnPrimary(mine[p].id, t), UNCHANGED fate
      PROVE  Control' /\ Tracked'
  <2>1. ActiveIds' \subseteq ActiveIds
    BY <1>2, <1>5 DEF PutOnPrimary, ActiveIds, ActiveOn, TypeInv, TypeOK
  <2>2. "r_verify" \in RenewPcs /\ "r_verify" \notin OverPcs
    BY DEF RenewPcs, OverPcs
  <2>3. QED
    BY <1>1, <1>5, <2>1, <2>2, WorkKeeps, GiveBackKeeps
<1>6. ASSUME (Goto(p, "r_verify") /\ UNCHANGED mine) \/ Return(p),
             NEW t \in 1 .. Duration, NEW i \in Ids, NEW how \in Fates \ {"tracked"},
             NewSilence(i, t, scope[mine[p].id]), LoseTrack(i, how)
      PROVE  Control' /\ Tracked'
  <2>1. \A j \in ActiveIds' : j # i => j \in ActiveIds
    BY <1>2, <1>6, SilenceOnly
  <2>2. OnlyOf(p) /\ NewOnly
    BY <1>1, <1>2, <1>6, <2>1, MoveOnly DEF Return, NewOnly, NewSilence
  <2>3. \A j \in Ids : j # i => fate'[j] = fate[j]
    BY <1>6 DEF LoseTrack, Kept, TypeInv, TypeOK
  <2>4. i \in ActiveIds' => fate'[i] # "tracked"
    BY <1>6 DEF LoseTrack, Kept, TypeInv, TypeOK, ActiveIds, ActiveOn, Fates
  <2>5. NoneLeft(p)
    BY <1>1, <1>3, <2>1, <2>3, <2>4 DEF NoneLeft, ActiveIds
  <2>6. CASE Goto(p, "r_verify") /\ UNCHANGED mine
    <3>1. pc'[p] = "r_verify"
      BY <1>2, <2>6, Moves
    <3>2. EmptyAt(p)' /\ CopyAt(p)' /\ OverAt(p)'
      BY <1>1, <1>3, <2>6, <3>1
         DEF EmptyAt, EmptyPcs, CopyAt, OverAt, BeginPcs, LockedPcs, OverPcs
    <3>3. QED
      BY <2>2, <2>5, <3>2, OnePreserves
  <2>7. CASE Return(p)
    <3>1. pc'[p] = "idle" /\ mine'[p].id = NoId /\ mine'[p].note = NoNotice
      BY <1>2, <2>7, Moves, Holds DEF Return, NoState
    <3>2. EmptyAt(p)' /\ CopyAt(p)' /\ OverAt(p)'
      BY <3>1 DEF EmptyAt, CopyAt, OverAt, BeginPcs, LockedPcs, RenewPcs, EndPcs, OverPcs
    <3>3. QED
      BY <2>2, <2>5, <3>2, OnePreserves
  <2>8. QED
    BY <1>6, <2>6, <2>7
<1>7. {"unanswered", "late"} \subseteq Fates \ {"tracked"}
  BY DEF Fates
<1>8. QED
  BY <1>4, <1>5, <1>6, <1>7 DEF RenewPut

LEMMA RenewKeeps ==
  ASSUME Kept, OwnFiles, NEW p \in Procs, Renew(p)
  PROVE  Control' /\ Tracked'
<1>0. TypeInv /\ CopyAt(p)
  BY DEF Kept, Control
<1>1. {"r_verify", "r_undo", "r_undo_wait", "r_save"} \subseteq RenewPcs \ OverPcs
  BY DEF RenewPcs, OverPcs
<1>2. CASE RenewVerify(p)
  <2>1. PICK l \in {"r_save", "r_undo"} : Goto(p, l)
    BY <1>2 DEF RenewVerify
  <2>2. /\ mine'[p].id = mine[p].id /\ mine'[p].note = mine[p].note
        /\ UNCHANGED mine \/ \E s : Hold(p, s)
    BY <1>0, <1>2, HoldField DEF RenewVerify
  <2>3. /\ UNCHANGED <<view, posted, file, fate, leaked>>
        /\ pc[p] = "r_verify" /\ File(p)' = File(p)
    BY <1>2 DEF RenewVerify, members, history, File
  <2>4. QED
    BY <1>1, <2>1, <2>2, <2>3, SameActive, WorkKeeps
<1>3. CASE RenewUndo(p)
  <2>1. /\ UNCHANGED <<posted, file, fate, leaked>>
        /\ pc[p] \in {"r_undo", "r_undo_wait"} /\ File(p)' = File(p)
    BY <1>3 DEF RenewUndo, history, File
  <2>2. ActiveIds' \subseteq ActiveIds
    BY <1>0, <1>3, DeleteActive, SameActive DEF RenewUndo
  <2>3. PICK l \in {"r_undo_wait", "idle"} : Goto(p, l)
    BY <1>3 DEF RenewUndo, Delete
  <2>4. pc'[p] = l
    BY <1>0, <2>3, Moves
  <2>5. CASE l = "idle"
    <3>1. Return(p)
      BY <1>3, <2>3, <2>4, <2>5 DEF RenewUndo, Return
    <3>2. QED
      BY <1>1, <2>1, <2>2, <3>1, GiveBackKeeps
  <2>6. CASE l = "r_undo_wait"
    <3>1. UNCHANGED mine
      BY <1>3, <2>4, <2>6 DEF RenewUndo
    <3>2. QED
      BY <1>1, <2>1, <2>2, <2>3, <2>6, <3>1, WorkKeeps
  <2>7. QED
    BY <2>5, <2>6
<1>4. CASE RenewSave(p)
  <2>1. UNCHANGED <<view, posted, fate, leaked>> /\ pc[p] = "r_save" /\ Return(p)
    BY <1>4 DEF RenewSave, members, history
  <2>2. File(p).id = mine[p].id /\ File(p).note = mine[p].note
    BY <1>0, <1>1, <2>1 DEF CopyAt
  <2>3. File(p)' = mine[p] \/ File(p)' = File(p)
    BY <1>0, <1>4, Saves DEF RenewSave, File
  <2>4. QED
    BY <1>1, <1>4, <2>1, <2>2, <2>3, SameActive, GiveBackKeeps DEF RenewSave
<1>5. QED
  BY <1>2, <1>3, <1>4, RenewPutKeeps DEF Renew

LEMMA EndKeeps ==
  ASSUME Kept, OwnFiles, NEW p \in Procs, End(p)
  PROVE  Control' /\ Tracked'
<1>0. TypeInv /\ CopyAt(p) /\ OverAt(p)
  BY DEF Kept, Control
<1>1. pc[p] \in EndPcs
  BY DEF End, EndStatus, EndDelete, EndWait, EndSave, RepairSkip, EndNotice, EndClear, EndPcs
<1>2. File(p).id = mine[p].id /\ File(p).note = mine[p].note
  BY <1>0, <1>1 DEF CopyAt
<1>3. EveryExpired(mine[p].id) => mine[p].id \notin ActiveIds
  BY DEF EveryExpired, ActiveIds, ActiveOn
<1>4. CASE UNCHANGED file /\ Return(p) /\ ~EndDelete(p)
  <2>1. UNCHANGED <<view, fate, leaked>> /\ posted' \subseteq posted
    BY <1>4 DEF End, EndStatus, EndWait, EndSave, RepairSkip, EndNotice, EndClear,
                members, history
  <2>2. QED
    BY <1>1, <1>4, <2>1, SameActive, GiveBackKeeps DEF File
<1>5. ASSUME NEW l \in {"e_delete", "e_save", "e_notice", "e_clear"}, Goto(p, l),
             UNCHANGED <<view, file, mine, fate, leaked>>, posted' \subseteq posted,
             l # "e_delete" => mine[p].id \notin ActiveIds,
             l = "e_clear" => mine[p].note \notin posted'
      PROVE  Control' /\ Tracked'
  <2>1. l \in EndPcs /\ (l \in OverPcs => l # "e_delete") /\ File(p)' = File(p)
    BY <1>5 DEF EndPcs, OverPcs, File
  <2>2. QED
    BY <1>1, <1>5, <2>1, SameActive, WorkKeeps
<1>6. CASE EndStatus(p) \/ EndWait(p)
  BY <1>3, <1>4, <1>5, <1>6 DEF EndStatus, EndWait, EndDelete, members, history
<1>7. CASE EndDelete(p)
  <2>1. UNCHANGED <<posted, file, fate, leaked>> /\ File(p)' = File(p)
    BY <1>7 DEF EndDelete, history, File
  <2>2. ActiveIds' \subseteq ActiveIds
    BY <1>0, <1>7, DeleteActive DEF EndDelete
  <2>3. PICK l \in {"e_wait", "idle"} : Goto(p, l)
    BY <1>7 DEF EndDelete, Delete
  <2>4. pc'[p] = l
    BY <1>0, <2>3, Moves
  <2>5. CASE l = "idle"
    <3>1. Return(p)
      BY <1>7, <2>3, <2>4, <2>5 DEF EndDelete, Return
    <3>2. QED
      BY <1>1, <2>1, <2>2, <3>1, GiveBackKeeps
  <2>6. CASE l = "e_wait"
    <3>1. UNCHANGED mine /\ l \in EndPcs /\ l \notin OverPcs
      BY <1>7, <2>4, <2>6 DEF EndDelete, EndPcs, OverPcs
    <3>2. QED
      BY <1>1, <2>1, <2>2, <2>3, <2>6, <3>1, WorkKeeps
  <2>7. QED
    BY <2>5, <2>6
<1>8. CASE EndSave(p)
  <2>1. CASE UNCHANGED file /\ Return(p)
    BY <1>4, <1>8, <2>1 DEF EndSave, EndDelete
  <2>2. CASE SaveTo(p, Ended(p)) /\ Goto(p, "e_notice") /\ Hold(p, Ended(p))
    <3>1. Ended(p).id = mine[p].id /\ Ended(p).note = mine[p].note
      BY <1>0 DEF Ended, States, TypeInv, TypeOK
    <3>2. File(p)' = Ended(p) /\ mine'[p] = Ended(p)
      BY <1>0, <2>2, Saves, Holds
    <3>3. mine[p].id \notin ActiveIds /\ UNCHANGED <<view, posted, fate, leaked>>
      BY <1>0, <1>8 DEF EndSave, OverAt, OverPcs, members, history
    <3>4. "e_notice" \in EndPcs
      BY DEF EndPcs
    <3>5. QED
      BY <1>1, <1>2, <2>2, <3>1, <3>2, <3>3, <3>4, SameActive, WorkKeeps
  <2>3. QED
    BY <1>8, <2>1, <2>2 DEF EndSave
<1>9. CASE RepairSkip(p)
  BY <1>0, <1>5, <1>9 DEF RepairSkip, OverAt, OverPcs, members, history
<1>10. CASE EndNotice(p)
  <2>1. mine[p].id \notin ActiveIds
    BY <1>0, <1>10 DEF EndNotice, OverAt, OverPcs
  <2>2. QED
    BY <1>4, <1>5, <1>10, <2>1 DEF EndNotice, EndDelete, members, history
<1>11. CASE EndClear(p)
  <2>1. CASE UNCHANGED file
    BY <1>4, <1>11, <2>1 DEF EndClear, EndDelete
  <2>2. CASE SaveTo(p, NoState)
    <3>1. mine[p].id \notin ActiveIds /\ mine[p].note \notin posted
      BY <1>0, <1>11 DEF EndClear, OverAt, OverPcs
    <3>2. UNCHANGED <<view, posted, fate, leaked>> /\ Return(p)
      BY <1>11 DEF EndClear, members, history
    <3>3. QED
      BY <1>2, <2>2, <3>1, <3>2, SameActive, ReturnKeeps
  <2>3. QED
    BY <1>11, <2>1, <2>2 DEF EndClear
<1>12. QED
  BY <1>6, <1>7, <1>8, <1>9, <1>10, <1>11 DEF End

LEMMA StartKeeps ==
  ASSUME Kept, OwnFiles, NEW p \in Procs, RenewStart(p) \/ EndStart(p) \/ RepairStart(p)
  PROVE  Control' /\ Tracked'
<1>1. /\ UNCHANGED <<view, posted, file, fate, leaked>>
      /\ pc[p] = "idle" /\ Hold(p, File(p))
  BY DEF RenewStart, EndStart, RepairStart, members, history
<1>2. CASE RenewStart(p) \/ EndStart(p)
  <2>1. PICK l \in {"r_put", "e_status"} : Goto(p, l)
    BY <1>2 DEF RenewStart, EndStart
  <2>2. l \in RenewPcs \cup EndPcs /\ l \notin OverPcs /\ l # "e_clear"
    BY DEF RenewPcs, EndPcs, OverPcs
  <2>3. QED
    BY <1>1, <2>1, <2>2, LoadKeeps
<1>3. CASE RepairStart(p)
  <2>1. EveryExpired(File(p).id) \/ EveryGone(File(p).id)
    BY <1>3 DEF RepairStart
  <2>2. File(p).id \notin ActiveIds
    BY <2>1 DEF EveryExpired, EveryGone, Gone, ActiveIds, ActiveOn
  <2>3. "p_save" \in EndPcs
    BY DEF EndPcs
  <2>4. Goto(p, "p_save")
    BY <1>3 DEF RepairStart
  <2>5. QED
    BY <1>1, <2>2, <2>3, <2>4, LoadKeeps
<1>4. QED
  BY <1>2, <1>3

LEMMA CrashKeeps ==
  ASSUME Kept, OwnFiles, NEW p \in Procs, Crash(p)
  PROVE  Control' /\ Tracked'
<1>1. TypeInv /\ CopyAt(p)
  BY DEF Kept, Control
<1>2. UNCHANGED <<view, posted, file>> /\ Return(p) /\ File(p)' = File(p)
  BY DEF Crash, members, File
<1>3. ActiveIds' = ActiveIds
  BY <1>2, SameActive
<1>4. \A i \in ActiveIds' : fate[i] # "tracked" => fate'[i] # "tracked"
  BY <1>1 DEF Crash, TypeInv, TypeOK, ActiveIds
<1>5. leaked \subseteq leaked'
  BY DEF Crash
<1>6. CASE pc[p] \in BeginPcs
  <2>1. File(p).id = NoId /\ File(p).note = NoNotice
    BY <1>1, <1>6 DEF CopyAt
  <2>2. \A i \in ActiveIds' : i = mine[p].id => fate'[i] # "tracked"
    BY <1>1, <1>3, <1>6, RealOnly DEF Crash, TypeInv, TypeOK, ActiveIds
  <2>3. \A n \in posted' : n = mine[p].note => n \in leaked'
    BY <1>2, <1>6 DEF Crash
  <2>4. QED
    BY <1>1, <1>2, <1>3, <1>4, <1>5, <2>1, <2>2, <2>3, RealOnly, ReturnKeeps
<1>7. CASE pc[p] \notin BeginPcs
  <2>1. pc[p] \in RenewPcs \cup EndPcs
    BY <1>1, <1>7 DEF Crash, TypeInv, TypeOK, Pcs
  <2>2. File(p).id = mine[p].id /\ File(p).note = mine[p].note
    BY <1>1, <2>1 DEF CopyAt
  <2>3. QED
    BY <1>2, <1>3, <1>4, <1>5, <2>2, ReturnKeeps
<1>8. QED
  BY <1>6, <1>7

(* What no invocation does leaves every state as it is, but for its end,   *)
(* and brings up nothing.                                                  *)
LEMMA OthersKeep ==
  ASSUME Kept, ActiveIds' \subseteq ActiveIds, UNCHANGED <<pc, posted, leaked>>,
         \A p \in Procs : mine'[p].id = mine[p].id /\ mine'[p].note = mine[p].note,
         \A f \in Files : file'[f].id = file[f].id /\ file'[f].note = file[f].note,
         \A i \in ActiveIds' : fate'[i] = fate[i]
  PROVE  Control' /\ Tracked'
<1>1. ASSUME NEW p \in Procs PROVE EmptyAt(p)' /\ CopyAt(p)' /\ OverAt(p)'
  <2>1. EmptyAt(p) /\ CopyAt(p) /\ OverAt(p)
    BY DEF Kept, Control
  <2>2. File(p)'.id = File(p).id /\ File(p)'.note = File(p).note
    BY DEF File
  <2>3. QED
    BY <2>1, <2>2 DEF EmptyAt, CopyAt, OverAt
<1>2. Control'
  BY <1>1 DEF Control
<1>3. Tracked'
  BY DEF Kept, Tracked
<1>4. QED
  BY <1>2, <1>3

LEMMA WorldKeeps ==
  ASSUME Kept, \/ \E m \in Members, i \in Ids : Gossip(m, i) \/ Collect(m, i)
               \/ Lease \/ Tick
  PROVE  Control' /\ Tracked'
<1>1. TypeInv
  BY DEF Kept
<1>2. ASSUME NEW m \in Members, NEW i \in Ids, Gossip(m, i) PROVE Control' /\ Tracked'
  <2>1. ActiveIds' \subseteq ActiveIds
    BY <1>1, <1>2 DEF Gossip, ActiveIds, ActiveOn, TypeInv, TypeOK
  <2>2. QED
    BY <1>2, <2>1, OthersKeep DEF Gossip, history
<1>3. ASSUME NEW m \in Members, NEW i \in Ids, Collect(m, i) PROVE Control' /\ Tracked'
  <2>1. \A n \in Members, j \in Ids : view'[n][j] > 0 => view[n][j] > 0
    BY <1>1, <1>3 DEF Collect, Gone, TypeInv, TypeOK
  <2>2. ActiveIds' \subseteq ActiveIds
    BY <2>1 DEF ActiveIds, ActiveOn
  <2>3. \A j \in ActiveIds' : fate'[j] = fate[j]
    <3>1. CASE \A n \in Members \ {m} : view[n][i] = Gone
      <4>1. \A n \in Members : view'[n][i] = Gone
        BY <1>1, <1>3, <3>1 DEF Collect, TypeInv, TypeOK
      <4>2. i \notin ActiveIds'
        BY <4>1 DEF ActiveIds, ActiveOn, Gone
      <4>3. QED
        BY <1>1, <1>3, <3>1, <4>2 DEF Collect, TypeInv, TypeOK, ActiveIds
    <3>2. QED
      BY <1>3, <3>1 DEF Collect
  <2>4. QED
    BY <1>3, <2>2, <2>3, OthersKeep DEF Collect
<1>4. CASE Lease
  BY <1>4, SameActive, OthersKeep DEF Lease, members, history
<1>5. CASE Tick
  <2>1. \A m \in Members, i \in Ids : view'[m][i] > 0 => view[m][i] > 0
    BY <1>1, <1>5 DEF Tick, Less, TypeInv, TypeOK
  <2>2. ActiveIds' \subseteq ActiveIds
    BY <2>1 DEF ActiveIds, ActiveOn
  <2>3. \A p \in Procs : mine'[p].id = mine[p].id /\ mine'[p].note = mine[p].note
    BY <1>1, <1>5 DEF Tick, States, TypeInv, TypeOK
  <2>4. \A f \in Files : file'[f].id = file[f].id /\ file'[f].note = file[f].note
    BY <1>1, <1>5 DEF Tick, States, TypeInv, TypeOK
  <2>5. QED
    BY <1>5, <2>2, <2>3, <2>4, OthersKeep DEF Tick, history
<1>6. QED
  BY <1>2, <1>3, <1>4, <1>5

LEMMA KeptStep == OwnFiles /\ Kept /\ [Next]_vars => Kept'
<1> SUFFICES ASSUME OwnFiles, Kept, [Next]_vars PROVE Control' /\ Tracked'
  BY TypeStep DEF Kept
<1>1. CASE UNCHANGED vars
  BY <1>1, SameActive, OthersKeep DEF vars, members, history
<1>2. CASE Next
  BY <1>2, BeginKeeps, RenewKeeps, EndKeeps, StartKeeps, CrashKeeps, WorldKeeps
     DEF Next, Start
<1>3. QED
  BY <1>1, <1>2

LEMMA KeptInit == Init => Kept
<1> SUFFICES ASSUME Init PROVE Control /\ Tracked
  BY TypeInvInit DEF Kept
<1>1. ActiveIds = {} /\ posted = {}
  BY DEF Init, ActiveIds, ActiveOn, Gone
<1>2. Control
  BY <1>1 DEF Init, NoState, Control, EmptyAt, CopyAt, OverAt, BeginPcs, LockedPcs,
              RenewPcs, EndPcs, OverPcs
<1>3. QED
  BY <1>1, <1>2 DEF Tracked

LEMMA KeptAlways == OwnFiles => (Spec => []Kept)
<1> SUFFICES ASSUME OwnFiles PROVE Spec => []Kept
  OBVIOUS
<1>1. Kept /\ [Next]_vars => Kept'
  BY KeptStep
<1>2. QED
  BY <1>1, KeptInit, PTL DEF Spec

(* No window and no notice is lost: what is active or posted is in a state *)
(* file, in the hands of a running invocation, or was lost for one of the  *)
(* five known causes - for every number of invocations with state files of *)
(* their own, of members and of silences, wherever they are killed.        *)
THEOREM NothingLost == OwnFiles => (Spec => []Tracked)
<1> SUFFICES ASSUME OwnFiles PROVE Spec => []Tracked
  OBVIOUS
<1>1. Kept => Tracked
  BY DEF Kept
<1>2. QED
  BY <1>1, KeptAlways, PTL

(* Only the last step of an end takes a silence out of a state file.       *)
LEMMA OnlyEndClears ==
  ASSUME Kept, OwnFiles, Next, NEW f \in Files, file[f].id # NoId,
         file'[f].id # file[f].id
  PROVE  \E p \in Procs : FileOf[p] = f /\ EndClear(p)
<1> DEFINE Same == file'[f].id = file[f].id
<1>1. ASSUME NEW p \in Procs, Start(p) \/ Begin(p) PROVE Same
  <2>1. CASE Save(p) /\ SaveTo(p, mine[p])
    <3>1. File(p).id = NoId /\ pc[p] = "save"
      BY <2>1 DEF Kept, Control, CopyAt, Save, BeginPcs
    <3>2. FileOf[p] # f
      BY <3>1 DEF File
    <3>3. QED
      BY <2>1, <3>2, Saves DEF Kept
  <2>2. UNCHANGED file \/ (Save(p) /\ SaveTo(p, mine[p]))
    BY <1>1 DEF Start, BeginStart, RenewStart, EndStart, RepairStart, Begin, PostNotice,
                LockEnter, LockFail, Admit, Put, Verify, Undo, Unlock, Save, Unpost
  <2>3. QED
    BY <2>1, <2>2
<1>2. ASSUME NEW p \in Procs, Renew(p) PROVE Same
  <2>1. CASE RenewSave(p) /\ SaveTo(p, mine[p])
    <3>1. File(p).id = mine[p].id
      BY <2>1 DEF Kept, Control, CopyAt, RenewSave, RenewPcs
    <3>2. QED
      BY <2>1, <3>1, Saves DEF Kept, File
  <2>2. UNCHANGED file \/ (RenewSave(p) /\ SaveTo(p, mine[p]))
    BY <1>2 DEF Renew, RenewPut, RenewVerify, RenewUndo, RenewSave
  <2>3. QED
    BY <2>1, <2>2
<1>3. ASSUME NEW p \in Procs, End(p), FileOf[p] # f \/ ~EndClear(p) PROVE Same
  <2>1. CASE EndSave(p) /\ SaveTo(p, Ended(p))
    <3>1. File(p).id = mine[p].id
      BY <2>1 DEF Kept, Control, CopyAt, EndSave, EndPcs
    <3>2. Ended(p).id = mine[p].id
      BY DEF Ended, States, Kept, TypeInv, TypeOK
    <3>3. QED
      BY <2>1, <3>1, <3>2, Saves DEF Kept, File
  <2>2. CASE EndClear(p) /\ SaveTo(p, NoState)
    BY <1>3, <2>2, Saves DEF Kept
  <2>3. \/ UNCHANGED file
        \/ EndSave(p) /\ SaveTo(p, Ended(p))
        \/ EndClear(p) /\ SaveTo(p, NoState)
    BY <1>3 DEF End, EndStatus, EndDelete, EndWait, EndSave, RepairSkip, EndNotice, EndClear
  <2>4. QED
    BY <2>1, <2>2, <2>3
<1>4. ASSUME NEW p \in Procs, Crash(p) PROVE Same
  BY <1>4 DEF Crash
<1>5. ASSUME Tick PROVE Same
  BY <1>5 DEF Tick, States, Kept, TypeInv, TypeOK
<1>6. ASSUME \/ \E m \in Members, i \in Ids : Gossip(m, i) \/ Collect(m, i)
             \/ Lease
      PROVE  Same
  BY <1>6 DEF Gossip, Collect, Lease
<1>7. QED
  BY <1>1, <1>2, <1>3, <1>4, <1>5, <1>6 DEF Next

(* A state file is given up only when its silence is over on every member  *)
(* and its notice is resolved, whatever failed on the way.                 *)
THEOREM ClearedLast == OwnFiles => (Spec => ClearedWhenOver)
<1> DEFINE Rule == \A f \in Files : file[f].id # NoId /\ file'[f].id # file[f].id =>
                       file[f].id \notin ActiveIds /\ file[f].note \notin posted
<1> SUFFICES ASSUME OwnFiles PROVE Spec => ClearedWhenOver
  OBVIOUS
<1>1. ASSUME Kept, [Next]_vars PROVE [Rule]_vars
  <2> SUFFICES ASSUME Next, NEW f \in Files, file[f].id # NoId, file'[f].id # file[f].id
               PROVE  file[f].id \notin ActiveIds /\ file[f].note \notin posted
    BY <1>1
  <2>1. PICK p \in Procs : FileOf[p] = f /\ EndClear(p)
    BY <1>1, OnlyEndClears
  <2>2. CopyAt(p) /\ OverAt(p) /\ pc[p] = "e_clear"
    BY <1>1, <2>1 DEF Kept, Control, EndClear
  <2>3. QED
    BY <2>1, <2>2 DEF CopyAt, OverAt, OverPcs, EndPcs, File
<1>2. QED
  BY <1>1, KeptAlways, PTL DEF ClearedWhenOver, Spec
-----------------------------------------------------------------------------
(* The lock.  A step that moves between the locked places, or between the  *)
(* others, leaves those inside alone; one that leads out of them lets one  *)
(* invocation leave.                                                       *)
LEMMA InsideMove ==
  ASSUME TypeInv, NEW p \in Procs, NEW l, Goto(p, l)
  PROVE  /\ l \in LockedPcs => Inside' = Inside \cup {p}
         /\ l \notin LockedPcs => Inside' = Inside \ {p}
  BY DEF TypeInv, TypeOK, Goto, Inside

LEMMA InsideStutter ==
  ASSUME TypeInv, NEW p \in Procs, NEW l, Goto(p, l), UNCHANGED <<holder, live>>,
         l \in LockedPcs => pc[p] \in LockedPcs
  PROVE  [Lock!LockNext]_Lock!lockVars
<1>1. CASE l \in LockedPcs
  <2>1. Inside' = Inside
    BY <1>1, InsideMove DEF Inside
  <2>2. QED
    BY <2>1 DEF Lock!lockVars
<1>2. CASE l \notin LockedPcs
  <2>1. Lock!Leave(p)
    BY <1>2, InsideMove DEF Lock!Leave
  <2>2. QED
    BY <2>1 DEF Lock!LockNext
<1>3. QED
  BY <1>1, <1>2

LEMMA BeginLocks ==
  ASSUME TypeInv, NEW p \in Procs, Begin(p)
  PROVE  [Lock!LockNext]_Lock!lockVars
<1>1. CASE LockEnter(p)
  <2>1. p \notin Inside /\ Inside' = Inside \cup {p}
    BY <1>1, InsideMove DEF LockEnter, Inside, LockedPcs
  <2>2. Lock!Enter(p)
    BY <1>1, <2>1 DEF LockEnter, Lock!Enter
  <2>3. QED
    BY <2>2 DEF Lock!LockNext
<1>2. CASE LockFail(p)
  <2>1. Inside' = Inside
    BY <1>2, InsideMove DEF LockFail, Inside, LockedPcs
  <2>2. Lock!Strand(p) \/ UNCHANGED Lock!lockVars
    BY <1>2, <2>1 DEF LockFail, Lock!Strand, Lock!lockVars
  <2>3. QED
    BY <2>2 DEF Lock!LockNext
<1>3. CASE Unlock(p)
  <2>1. Inside' = Inside \ {p}
    BY <1>3, InsideMove DEF Unlock, LeaveLock, LockedPcs
  <2>2. Lock!Release(p) \/ Lock!Leave(p)
    BY <1>3, <2>1 DEF Unlock, Lock!Release, Lock!Leave
  <2>3. QED
    BY <2>2 DEF Lock!LockNext
<1>4. CASE PostNotice(p) \/ Save(p) \/ Unpost(p)
  <2>1. PICK l \in {"idle", "lock", "unsave"} : Goto(p, l)
    BY <1>4 DEF PostNotice, Save, Unpost, Return
  <2>2. UNCHANGED <<holder, live>>
    BY <1>4 DEF PostNotice, Save, Unpost, lock
  <2>3. QED
    BY <2>1, <2>2, InsideStutter DEF LockedPcs
<1>5. CASE Admit(p) \/ Put(p) \/ Verify(p)
  <2>1. PICK l : Goto(p, l)
    BY <1>5 DEF Admit, Put, Verify
  <2>2. pc[p] \in LockedPcs /\ UNCHANGED <<holder, live>>
    BY <1>5 DEF Admit, Put, Verify, lock, LockedPcs
  <2>3. QED
    BY <2>1, <2>2, InsideStutter
<1>6. CASE Undo(p)
  <2>1. CASE pc[p] \in LockedPcs
    <3>1. PICK l : Goto(p, l)
      BY <1>6 DEF Undo, Delete
    <3>2. QED
      BY <1>6, <2>1, <3>1, InsideStutter DEF Undo, lock
  <2>2. CASE pc[p] \notin LockedPcs
    <3>1. PICK l \in {"unsave_wait", "unpost"} : Goto(p, l)
      BY <1>6, <2>2 DEF Undo, Delete, LockedPcs
    <3>2. QED
      BY <1>6, <3>1, InsideStutter DEF Undo, lock, LockedPcs
  <2>3. QED
    BY <2>1, <2>2
<1>7. QED
  BY <1>1, <1>2, <1>3, <1>4, <1>5, <1>6 DEF Begin

LEMMA OthersLock ==
  ASSUME TypeInv, NEW p \in Procs, Renew(p) \/ End(p) \/ Start(p) \/ Crash(p)
  PROVE  [Lock!LockNext]_Lock!lockVars
<1>1. PICK l : Goto(p, l) /\ l \notin LockedPcs
  BY DEF Renew, RenewPut, RenewVerify, RenewUndo, RenewSave,
         End, EndStatus, EndDelete, EndWait, EndSave, RepairSkip, EndNotice, EndClear,
         Start, BeginStart, RenewStart, EndStart, RepairStart, Crash, Return, Delete,
         LockedPcs
<1>2. UNCHANGED <<holder, live>>
  BY DEF Renew, RenewPut, RenewVerify, RenewUndo, RenewSave,
         End, EndStatus, EndDelete, EndWait, EndSave, RepairSkip, EndNotice, EndClear,
         Start, BeginStart, RenewStart, EndStart, RepairStart, Crash, lock
<1>3. QED
  BY <1>1, <1>2, InsideStutter

LEMMA WorldLocks ==
  ASSUME TypeInv, \/ \E m \in Members, i \in Ids : Gossip(m, i) \/ Collect(m, i)
                  \/ Lease \/ Tick
  PROVE  [Lock!LockNext]_Lock!lockVars
<1>1. Inside' = Inside
  BY DEF Gossip, Collect, Lease, Tick, Inside
<1>2. CASE Lease
  <2>1. \/ Lock!Lapse
        \/ \E p \in Procs : Lock!Extend(p)
        \/ UNCHANGED Lock!lockVars
    BY <1>1, <1>2 DEF Lease, Inside, Lock!Lapse, Lock!Extend, Lock!lockVars
  <2>2. QED
    BY <2>1 DEF Lock!LockNext
<1>3. CASE UNCHANGED lock
  BY <1>1, <1>3 DEF lock, Lock!lockVars
<1>4. QED
  BY <1>2, <1>3 DEF Gossip, Collect, Tick

(* What a begin does with its lock is what an abstract lease lock allows,  *)
(* and what an abstract lease lock allows is all that the Kubernetes lease *)
(* does (Refinement in MaintenanceLeaseProofs).                            *)
THEOREM LockRefinement == Spec => LockUsed
<1>1. Init => Lock!LockInit
  BY DEF Init, Lock!LockInit, Inside, LockedPcs
<1>2. TypeInv /\ [Next]_vars => [Lock!LockNext]_Lock!lockVars
  <2> SUFFICES ASSUME TypeInv, [Next]_vars PROVE [Lock!LockNext]_Lock!lockVars
    OBVIOUS
  <2>1. CASE UNCHANGED vars
    BY <2>1 DEF vars, lock, Lock!lockVars, Inside
  <2>2. CASE Next
    BY <2>2, BeginLocks, OthersLock, WorldLocks DEF Next
  <2>3. QED
    BY <2>1, <2>2
<1>3. QED
  BY <1>1, <1>2, TypeInvInit, TypeStep, PTL DEF Spec, LockUsed, Lock!LockSpec
=============================================================================
