-------------------------- MODULE NativeFenceProofs --------------------------
(* What the fence of Grimmory promises, for any clients, hold, checks, kills  *)
(* and lost waits.  The inductive invariant says what the one pending file    *)
(* that acquire and the supervisor share can hold at each of their steps, and *)
(* that a granted token which has not expired is still the request, with the  *)
(* supervisor holding the writer or gone with it.                             *)
EXTENDS NativeFence, TLAPS

AcquireSteps == {"exam", "write", "place", "await"}
Entered == {"write", "place", "await"}
Places == AcquireSteps \cup {"idle", "held", "same", "stopped", "token", "remove"}
SupSteps == {"new", "boot", "clear", "name", "named", "run", "stop", "recheck", "write", "move",
             "hold", "lift", "cont", "exit", "kill"}

Switches == /\ child \in BOOLEAN /\ fenced \in BOOLEAN /\ clean \in BOOLEAN
            /\ overtaken \in BOOLEAN

Steps == /\ sup \in SupSteps /\ java \in {"dead", "runs", "stopping", "stopped"}
         /\ lock \in Clients \cup {None} /\ at \in [Clients -> Places]

Numbers ==
  /\ issued \in Nat /\ issued <= MaxAcquires
  /\ accepted \in Nat /\ request \in Nat /\ active \in Nat /\ pending \in Int
  /\ accepted <= issued /\ request <= issued /\ active <= issued /\ pending <= issued
  /\ pending >= -1

Grants == /\ left \in [Tokens -> 0..MaxHold] /\ tok \in [Clients -> Nat] /\ wrote \subseteq Tokens
          /\ \A c \in Clients : tok[c] <= issued

Promises == promise \in [Clients -> (0..MaxAcquires) \X (0..MaxHold)]

FenceType == Switches /\ Steps /\ Numbers /\ Grants /\ Promises

(* Who is in acquire, and that a request is placed where there is none.       *)
LockInv ==
  \A c \in Clients : /\ at[c] \in AcquireSteps <=> lock = c
                     /\ at[c] \in AcquireSteps \cup {"idle"} <=> tok[c] = None
                     /\ at[c] \in {"write", "place"} => request = None

(* A container that starts runs no command that has found its child.          *)
StartInv ==
  /\ sup = "new" => \A c \in Clients : at[c] \in {"idle", "held"}
  /\ sup \in {"boot", "clear", "name", "named"} => ~child /\ \A c \in Clients : at[c] \notin Entered
  /\ pending = -1 /\ sup # "new" =>
       sup \in {"named", "exit", "kill"} /\ ~child /\ \A c \in Clients : at[c] \notin Entered
  /\ sup \in {"new", "boot", "clear"} => java = "dead"
  /\ sup \in {"recheck", "write", "move", "hold", "lift", "cont"} => java = "stopped"

(* What the shared pending file can hold, and what comes of it.               *)
FileInv ==
  /\ active # None => sup \in {"hold", "exit", "new"}
  /\ active # None /\ sup # "new" => accepted \notin {None, pending}
  /\ sup \in {"stop", "recheck", "write", "move", "hold"} => accepted # None
  /\ pending > 0 /\ sup # "new" /\ pending # accepted => request = None
  /\ pending > 0 /\ pending = accepted => sup \in {"move", "exit", "kill"}
  /\ sup = "hold" /\ active # accepted => /\ request = None \/ request > active
                                          /\ pending = None \/ pending > active

(* A token that was granted is not requested or activated a second time.      *)
GrantInv ==
  /\ pending > 0 => \A c \in Clients : tok[c] # pending
  /\ sup \in {"stop", "recheck", "write", "move"} => \A c \in Clients : tok[c] # accepted
  /\ sup \in {"name", "named", "run", "stop", "recheck", "write", "move", "cont"} /\ request # None
       => \A c \in Clients : tok[c] # request
  /\ \A c \in Clients : tok[c] # None /\ active = tok[c] => tok[c] \notin wrote

(* While a granted token runs, nobody else's does and the writer does not.    *)
Live(c) == tok[c] # None /\ left[tok[c]] > 0 /\ ~overtaken

LiveInv ==
  \A c \in Clients : Live(c) =>
    /\ request = tok[c]
    /\ \/ sup = "hold" /\ accepted = request
       \/ sup \in {"exit", "kill"} /\ java # "runs"
       \/ sup \in {"new", "boot"}
    /\ \A d \in Clients : at[d] \notin Entered /\ (tok[d] = tok[c] => c = d)

PromiseInv ==
  \A c \in Clients : promise[c][2] > 0 =>
    /\ promise[c][1] = tok[c] /\ tok[c] # None /\ promise[c][2] <= left[tok[c]]
    /\ at[c] # "remove"

FenceInv == /\ FenceType /\ LockInv /\ StartInv /\ FileInv /\ GrantInv /\ LiveInv /\ PromiseInv
            /\ clean

LEMMA FenceInit == Init => FenceInv
<1> SUFFICES ASSUME Init PROVE FenceInv
  OBVIOUS
<1> USE DEF Init, None
<1>1. Switches /\ Steps
  BY FenceAssumption DEF Switches, Steps, SupSteps, Places
<1>2. Numbers
  BY FenceAssumption DEF Numbers
<1>3. Grants /\ Promises
  BY FenceAssumption DEF Grants, Promises, Tokens, NoPromise
<1>4. LockInv /\ StartInv /\ FileInv /\ GrantInv
  BY FenceAssumption DEF LockInv, StartInv, FileInv, GrantInv, AcquireSteps, Entered
<1>5. LiveInv /\ PromiseInv
  BY DEF LiveInv, Live, PromiseInv, NoPromise
<1>6. QED
  BY <1>1, <1>2, <1>3, <1>4, <1>5 DEF FenceInv, FenceType

SupFrame == UNCHANGED <<left, client, promise, clean, overtaken, kills>>

LEMMA StartStep ==
  FenceInv /\ SupFrame /\ (Fresh \/ StartupHold \/ Launch \/ WriteChild \/ MoveChild) => FenceInv'
<1> SUFFICES ASSUME FenceInv, SupFrame, Fresh \/ StartupHold \/ Launch \/ WriteChild \/ MoveChild
             PROVE  FenceInv'
  OBVIOUS
<1> USE FenceAssumption DEF FenceInv, FenceType
<1>1. CASE Fresh
  <2> USE DEF None, Tokens, SupFrame, client, Sup, Fresh
  <2>1. Switches' /\ Steps'
    BY <1>1 DEF Switches, Steps, SupSteps, Places, AcquireSteps
  <2>2. Numbers'
    BY <1>1 DEF Numbers, StartInv, Steps, Entered, AcquireSteps
  <2>3. Grants' /\ Promises'
    BY <1>1 DEF Grants, Promises, Numbers
  <2>4. LockInv'
    BY <1>1 DEF LockInv, Switches, Steps, Numbers, Grants, Promises, AcquireSteps, Places
  <2>5. StartInv'
    <3>1. sup = "new" /\ sup' = "boot" /\ pending' = None /\ child' = FALSE /\ java' = java
          /\ at' = at
      BY <1>1
    <3>2. QED
      BY <3>1 DEF StartInv, Entered
  <2>6. FileInv'
    BY <1>1 DEF FileInv, StartInv, LockInv, GrantInv, Switches, Steps, Numbers, Grants, Promises,
       AcquireSteps, Entered
  <2>7. GrantInv'
    BY <1>1 DEF GrantInv, FileInv, StartInv, LockInv, Switches, Steps, Numbers, Grants, Promises,
       AcquireSteps, Entered
  <2>8. LiveInv'
    BY <1>1 DEF LiveInv, Live, GrantInv, FileInv, StartInv, LockInv, Switches, Steps, Numbers,
       Grants, Promises, AcquireSteps, Entered
  <2>9. PromiseInv'
    BY <1>1 DEF PromiseInv, LiveInv, Live, LockInv, Switches, Steps, Numbers, Grants, Promises,
       AcquireSteps, Entered
  <2>10. clean'
    BY <1>1 DEF Switches, Steps, Numbers, Grants, LockInv, FileInv, GrantInv
  <2>11. QED
    BY <2>1, <2>2, <2>3, <2>4, <2>5, <2>6, <2>7, <2>8, <2>9, <2>10
<1>2. CASE StartupHold
  BY <1>2 DEF None, Tokens, SupFrame, client, Sup, StartupHold, ReadRequest, files, LockInv,
     StartInv, FileInv, GrantInv, LiveInv, Live, PromiseInv, Switches, Steps, Numbers, Grants,
     Promises, SupSteps, Places, AcquireSteps, Entered
<1>3. CASE Launch
  BY <1>3 DEF None, Tokens, SupFrame, client, Sup, Launch, Writing, LockInv, StartInv, FileInv,
     GrantInv, LiveInv, Live, PromiseInv, Switches, Steps, Numbers, Grants, Promises, SupSteps,
     Places, AcquireSteps, Entered
<1>4. CASE WriteChild
  BY <1>4 DEF None, Tokens, SupFrame, client, Sup, WriteChild, LockInv, StartInv, FileInv,
     GrantInv, LiveInv, Live, PromiseInv, Switches, Steps, Numbers, Grants, Promises, SupSteps,
     Places, AcquireSteps, Entered
<1>5. CASE MoveChild
  <2> USE DEF None, Tokens, SupFrame, client, Sup, MoveChild
  <2>1. Switches' /\ Steps'
    BY <1>5 DEF Switches, Steps, SupSteps, Places, AcquireSteps
  <2>2. Numbers'
    BY <1>5 DEF Numbers, StartInv, Steps, Entered, AcquireSteps
  <2>3. Grants' /\ Promises'
    BY <1>5 DEF Grants, Promises, Numbers
  <2>4. LockInv'
    BY <1>5 DEF LockInv, Switches, Steps, Numbers, Grants, Promises, AcquireSteps, Places
  <2>5. StartInv'
    BY <1>5 DEF StartInv, LockInv, Switches, Steps, Numbers, Grants, Promises, AcquireSteps,
       Entered
  <2>6. FileInv'
    BY <1>5 DEF FileInv, StartInv, LockInv, GrantInv, Switches, Steps, Numbers, Grants, Promises,
       AcquireSteps, Entered
  <2>7. GrantInv'
    BY <1>5 DEF GrantInv, FileInv, StartInv, LockInv, Switches, Steps, Numbers, Grants, Promises,
       AcquireSteps, Entered
  <2>8. LiveInv'
    BY <1>5 DEF LiveInv, Live, GrantInv, FileInv, StartInv, LockInv, Switches, Steps, Numbers,
       Grants, Promises, AcquireSteps, Entered
  <2>9. PromiseInv'
    BY <1>5 DEF PromiseInv, LiveInv, Live, LockInv, Switches, Steps, Numbers, Grants, Promises,
       AcquireSteps, Entered
  <2>10. clean'
    BY <1>5 DEF Switches, Steps, Numbers, Grants, LockInv, FileInv, GrantInv
  <2>11. QED
    BY <2>1, <2>2, <2>3, <2>4, <2>5, <2>6, <2>7, <2>8, <2>9, <2>10
<1>6. QED
  BY <1>1, <1>2, <1>3, <1>4, <1>5

LEMMA StopStep ==
  FenceInv /\ SupFrame /\ (Accept \/ AwaitStopped \/ Recheck \/ WriteActive \/ MoveActive)
    => FenceInv'
<1> SUFFICES ASSUME FenceInv, SupFrame,
                    Accept \/ AwaitStopped \/ Recheck \/ WriteActive \/ MoveActive
             PROVE  FenceInv'
  OBVIOUS
<1> USE FenceAssumption DEF FenceInv, FenceType
<1>1. CASE Accept
  BY <1>1 DEF None, Tokens, SupFrame, client, Sup, Accept, ReadRequest, files, LockInv, StartInv,
     FileInv, GrantInv, LiveInv, Live, PromiseInv, Switches, Steps, Numbers, Grants, Promises,
     SupSteps, Places, AcquireSteps, Entered
<1>2. CASE AwaitStopped
  <2> USE DEF None, Tokens, SupFrame, client, Sup, AwaitStopped, StoppedGroup, files
  <2>1. Switches' /\ Steps'
    BY <1>2 DEF Switches, Steps, SupSteps, Places, AcquireSteps
  <2>2. Numbers'
    BY <1>2 DEF Numbers, StartInv, Steps, Entered, AcquireSteps
  <2>3. Grants' /\ Promises'
    BY <1>2 DEF Grants, Promises, Numbers
  <2>4. LockInv'
    BY <1>2 DEF LockInv, Switches, Steps, Numbers, Grants, Promises, AcquireSteps, Places
  <2>5. StartInv'
    BY <1>2 DEF StartInv, LockInv, Switches, Steps, Numbers, Grants, Promises, AcquireSteps,
       Entered
  <2>6. FileInv'
    BY <1>2 DEF FileInv, StartInv, LockInv, GrantInv, Switches, Steps, Numbers, Grants, Promises,
       AcquireSteps, Entered
  <2>7. GrantInv'
    BY <1>2 DEF GrantInv, FileInv, StartInv, LockInv, Switches, Steps, Numbers, Grants, Promises,
       AcquireSteps, Entered
  <2>8. LiveInv'
    BY <1>2 DEF LiveInv, Live, GrantInv, FileInv, StartInv, LockInv, Switches, Steps, Numbers,
       Grants, Promises, AcquireSteps, Entered
  <2>9. PromiseInv'
    BY <1>2 DEF PromiseInv, LiveInv, Live, LockInv, Switches, Steps, Numbers, Grants, Promises,
       AcquireSteps, Entered
  <2>10. clean'
    BY <1>2 DEF Switches, Steps, Numbers, Grants, LockInv, FileInv, GrantInv
  <2>11. QED
    BY <2>1, <2>2, <2>3, <2>4, <2>5, <2>6, <2>7, <2>8, <2>9, <2>10
<1>3. CASE Recheck
  BY <1>3 DEF None, Tokens, SupFrame, client, Sup, Recheck, files, LockInv, StartInv, FileInv,
     GrantInv, LiveInv, Live, PromiseInv, Switches, Steps, Numbers, Grants, Promises, SupSteps,
     Places, AcquireSteps, Entered
<1>4. CASE WriteActive
  BY <1>4 DEF None, Tokens, SupFrame, client, Sup, WriteActive, LockInv, StartInv, FileInv,
     GrantInv, LiveInv, Live, PromiseInv, Switches, Steps, Numbers, Grants, Promises, SupSteps,
     Places, AcquireSteps, Entered
<1>5. CASE MoveActive
  <2> USE DEF None, Tokens, SupFrame, client, Sup, MoveActive
  <2>1. Switches' /\ Steps'
    BY <1>5 DEF Switches, Steps, SupSteps, Places, AcquireSteps
  <2>2. Numbers'
    BY <1>5 DEF Numbers, StartInv, Steps, Entered, AcquireSteps
  <2>3. Grants' /\ Promises'
    BY <1>5 DEF Grants, Promises, Numbers
  <2>4. LockInv'
    BY <1>5 DEF LockInv, Switches, Steps, Numbers, Grants, Promises, AcquireSteps, Places
  <2>5. StartInv'
    BY <1>5 DEF StartInv, LockInv, Switches, Steps, Numbers, Grants, Promises, AcquireSteps,
       Entered
  <2>6. FileInv'
    <3>1. CASE pending = None
      BY <1>5, <3>1 DEF FileInv, Numbers
    <3>2. CASE pending # None
      <4>1. pending > 0
        BY <1>5, <3>2 DEF StartInv, Numbers
      <4>2. QED
        BY <1>5, <4>1 DEF FileInv, Numbers
    <3>3. QED
      BY <3>1, <3>2
  <2>7. GrantInv'
    BY <1>5 DEF GrantInv, FileInv, StartInv, LockInv, Switches, Steps, Numbers, Grants, Promises,
       AcquireSteps, Entered
  <2>8. LiveInv'
    BY <1>5 DEF LiveInv, Live, GrantInv, FileInv, StartInv, LockInv, Switches, Steps, Numbers,
       Grants, Promises, AcquireSteps, Entered
  <2>9. PromiseInv'
    BY <1>5 DEF PromiseInv, LiveInv, Live, LockInv, Switches, Steps, Numbers, Grants, Promises,
       AcquireSteps, Entered
  <2>10. clean'
    BY <1>5 DEF Switches, Steps, Numbers, Grants, LockInv, FileInv, GrantInv
  <2>11. QED
    BY <2>1, <2>2, <2>3, <2>4, <2>5, <2>6, <2>7, <2>8, <2>9, <2>10
<1>6. QED
  BY <1>1, <1>2, <1>3, <1>4, <1>5

LEMMA LiftStep ==
  FenceInv /\ SupFrame /\ (LiftActive \/ LiftRequest \/ Continue \/ CleanupFiles) => FenceInv'
<1> SUFFICES ASSUME FenceInv, SupFrame, LiftActive \/ LiftRequest \/ Continue \/ CleanupFiles
             PROVE  FenceInv'
  OBVIOUS
<1> USE FenceAssumption DEF FenceInv, FenceType
<1>1. CASE LiftActive
  BY <1>1 DEF None, Tokens, SupFrame, client, Sup, LiftActive, Holding, ReadRequest, LockInv,
     StartInv, FileInv, GrantInv, LiveInv, Live, PromiseInv, Switches, Steps, Numbers, Grants,
     Promises, SupSteps, Places, AcquireSteps, Entered
<1>2. CASE LiftRequest
  BY <1>2 DEF None, Tokens, SupFrame, client, Sup, LiftRequest, LockInv, StartInv, FileInv,
     GrantInv, LiveInv, Live, PromiseInv, Switches, Steps, Numbers, Grants, Promises, SupSteps,
     Places, AcquireSteps, Entered
<1>3. CASE Continue
  BY <1>3 DEF None, Tokens, SupFrame, client, Sup, Continue, Writing, files, LockInv, StartInv,
     FileInv, GrantInv, LiveInv, Live, PromiseInv, Switches, Steps, Numbers, Grants, Promises,
     SupSteps, Places, AcquireSteps, Entered
<1>4. CASE CleanupFiles
  <2> USE DEF None, Tokens, SupFrame, client, Sup, CleanupFiles
  <2>1. Switches' /\ Steps'
    BY <1>4 DEF Switches, Steps, SupSteps, Places, AcquireSteps
  <2>2. Numbers'
    BY <1>4 DEF Numbers, StartInv, Steps, Entered, AcquireSteps
  <2>3. Grants' /\ Promises'
    BY <1>4 DEF Grants, Promises, Numbers
  <2>4. LockInv'
    BY <1>4 DEF LockInv, Switches, Steps, Numbers, Grants, Promises, AcquireSteps, Places
  <2>5. StartInv'
    BY <1>4 DEF StartInv, LockInv, Switches, Steps, Numbers, Grants, Promises, AcquireSteps,
       Entered
  <2>6. FileInv'
    BY <1>4 DEF FileInv, StartInv, LockInv, GrantInv, Switches, Steps, Numbers, Grants, Promises,
       AcquireSteps, Entered
  <2>7. GrantInv'
    BY <1>4 DEF GrantInv, FileInv, StartInv, LockInv, Switches, Steps, Numbers, Grants, Promises,
       AcquireSteps, Entered
  <2>8. LiveInv'
    BY <1>4 DEF LiveInv, Live, GrantInv, FileInv, StartInv, LockInv, Switches, Steps, Numbers,
       Grants, Promises, AcquireSteps, Entered
  <2>9. PromiseInv'
    BY <1>4 DEF PromiseInv, LiveInv, Live, LockInv, Switches, Steps, Numbers, Grants, Promises,
       AcquireSteps, Entered
  <2>10. clean'
    BY <1>4 DEF Switches, Steps, Numbers, Grants, LockInv, FileInv, GrantInv
  <2>11. QED
    BY <2>1, <2>2, <2>3, <2>4, <2>5, <2>6, <2>7, <2>8, <2>9, <2>10
<1>5. QED
  BY <1>1, <1>2, <1>3, <1>4

LEMMA EndStep ==
  FenceInv /\ (CleanupKill \/ Stops \/ Terminated \/ Killed) => FenceInv'
<1> SUFFICES ASSUME FenceInv, CleanupKill \/ Stops \/ Terminated \/ Killed PROVE FenceInv'
  OBVIOUS
<1> USE FenceAssumption DEF FenceInv, FenceType
<1>1. CASE CleanupKill
  <2> USE DEF None, Tokens, CleanupKill, Ends, files
  <2>1. Switches' /\ Steps'
    BY <1>1 DEF Switches, Steps, SupSteps, Places, AcquireSteps
  <2>2. Numbers'
    BY <1>1 DEF Numbers, StartInv, Steps, Entered, AcquireSteps
  <2>3. Grants' /\ Promises'
    BY <1>1 DEF Grants, Promises, Numbers
  <2>4. LockInv'
    BY <1>1 DEF LockInv, Switches, Steps, Numbers, Grants, Promises, AcquireSteps, Places
  <2>5. StartInv'
    BY <1>1 DEF StartInv, LockInv, Switches, Steps, Numbers, Grants, Promises, AcquireSteps,
       Entered
  <2>6. FileInv'
    BY <1>1 DEF FileInv, StartInv, LockInv, GrantInv, Switches, Steps, Numbers, Grants, Promises,
       AcquireSteps, Entered
  <2>7. GrantInv'
    BY <1>1 DEF GrantInv, FileInv, StartInv, LockInv, Switches, Steps, Numbers, Grants, Promises,
       AcquireSteps, Entered
  <2>8. LiveInv'
    BY <1>1 DEF LiveInv, Live, GrantInv, FileInv, StartInv, LockInv, Switches, Steps, Numbers,
       Grants, Promises, AcquireSteps, Entered
  <2>9. PromiseInv'
    BY <1>1 DEF PromiseInv, LiveInv, Live, LockInv, Switches, Steps, Numbers, Grants, Promises,
       AcquireSteps, Entered
  <2>10. clean'
    BY <1>1 DEF Switches, Steps, Numbers, Grants, LockInv, FileInv, GrantInv
  <2>11. QED
    BY <2>1, <2>2, <2>3, <2>4, <2>5, <2>6, <2>7, <2>8, <2>9, <2>10
<1>2. CASE Stops
  BY <1>2 DEF None, Tokens, Stops, files, client, history, LockInv, StartInv, FileInv, GrantInv,
     LiveInv, Live, PromiseInv, Switches, Steps, Numbers, Grants, Promises, SupSteps, Places,
     AcquireSteps, Entered
<1>3. CASE Terminated
  BY <1>3 DEF None, Tokens, Terminated, files, client, history, LockInv, StartInv, FileInv,
     GrantInv, LiveInv, Live, PromiseInv, Switches, Steps, Numbers, Grants, Promises, SupSteps,
     Places, AcquireSteps, Entered
<1>4. CASE Killed
  <2> USE DEF None, Tokens, Killed, Ends, files, history
  <2>1. Switches' /\ Steps'
    BY <1>4 DEF Switches, Steps, SupSteps, Places, AcquireSteps
  <2>2. Numbers'
    BY <1>4 DEF Numbers, StartInv, Steps, Entered, AcquireSteps
  <2>3. Grants' /\ Promises'
    BY <1>4 DEF Grants, Promises, Numbers
  <2>4. LockInv'
    BY <1>4 DEF LockInv, Switches, Steps, Numbers, Grants, Promises, AcquireSteps, Places
  <2>5. StartInv'
    BY <1>4 DEF StartInv, LockInv, Switches, Steps, Numbers, Grants, Promises, AcquireSteps,
       Entered
  <2>6. FileInv'
    BY <1>4 DEF FileInv, StartInv, LockInv, GrantInv, Switches, Steps, Numbers, Grants, Promises,
       AcquireSteps, Entered
  <2>7. GrantInv'
    BY <1>4 DEF GrantInv, FileInv, StartInv, LockInv, Switches, Steps, Numbers, Grants, Promises,
       AcquireSteps, Entered
  <2>8. LiveInv'
    BY <1>4 DEF LiveInv, Live, GrantInv, FileInv, StartInv, LockInv, Switches, Steps, Numbers,
       Grants, Promises, AcquireSteps, Entered
  <2>9. PromiseInv'
    BY <1>4 DEF PromiseInv, LiveInv, Live, LockInv, Switches, Steps, Numbers, Grants, Promises,
       AcquireSteps, Entered
  <2>10. clean'
    BY <1>4 DEF Switches, Steps, Numbers, Grants, LockInv, FileInv, GrantInv
  <2>11. QED
    BY <2>1, <2>2, <2>3, <2>4, <2>5, <2>6, <2>7, <2>8, <2>9, <2>10
<1>5. QED
  BY <1>1, <1>2, <1>3, <1>4

LEMMA AcquireStep ==
  ASSUME FenceInv, sup # "new", UNCHANGED supervisor, NEW c \in Clients,
         Acquire(c) \/ Examine(c) \/ WriteRequest(c) \/ MoveRequest(c) \/ AwaitActive(c)
  PROVE  FenceInv'
<1> USE FenceAssumption DEF FenceInv, FenceType
<1>1. CASE Acquire(c)
  <2> USE DEF None, Tokens, supervisor, Acquire, Go, files, history
  <2>1. Switches' /\ Steps'
    BY <1>1 DEF Switches, Steps, SupSteps, Places, AcquireSteps
  <2>2. Numbers'
    BY <1>1 DEF Numbers, StartInv, Steps, Entered, AcquireSteps
  <2>3. Grants' /\ Promises'
    BY <1>1 DEF Grants, Promises, Numbers
  <2>4. LockInv'
    BY <1>1 DEF LockInv, Switches, Steps, Numbers, Grants, Promises, AcquireSteps, Places
  <2>5. StartInv'
    BY <1>1 DEF StartInv, LockInv, Switches, Steps, Numbers, Grants, Promises, AcquireSteps,
       Entered
  <2>6. FileInv'
    BY <1>1 DEF FileInv, StartInv, LockInv, GrantInv, Switches, Steps, Numbers, Grants, Promises,
       AcquireSteps, Entered
  <2>7. GrantInv'
    BY <1>1 DEF GrantInv, FileInv, StartInv, LockInv, Switches, Steps, Numbers, Grants, Promises,
       AcquireSteps, Entered
  <2>8. LiveInv'
    BY <1>1 DEF LiveInv, Live, GrantInv, FileInv, StartInv, LockInv, Switches, Steps, Numbers,
       Grants, Promises, AcquireSteps, Entered
  <2>9. PromiseInv'
    BY <1>1 DEF PromiseInv, LiveInv, Live, LockInv, Switches, Steps, Numbers, Grants, Promises,
       AcquireSteps, Entered
  <2>10. clean'
    BY <1>1 DEF Switches, Steps, Numbers, Grants, LockInv, FileInv, GrantInv
  <2>11. QED
    BY <2>1, <2>2, <2>3, <2>4, <2>5, <2>6, <2>7, <2>8, <2>9, <2>10
<1>2. CASE Examine(c)
  <2> USE DEF None, Tokens, supervisor, Examine, Reject, files, history
  <2>1. Switches' /\ Steps'
    BY <1>2 DEF Switches, Steps, SupSteps, Places, AcquireSteps
  <2>2. Numbers'
    BY <1>2 DEF Numbers, StartInv, Steps, Entered, AcquireSteps
  <2>3. Grants' /\ Promises'
    BY <1>2 DEF Grants, Promises, Numbers
  <2>4. LockInv'
    BY <1>2 DEF LockInv, Switches, Steps, Numbers, Grants, Promises, AcquireSteps, Places
  <2>5. StartInv'
    BY <1>2 DEF StartInv, LockInv, Switches, Steps, Numbers, Grants, Promises, AcquireSteps,
       Entered
  <2>6. FileInv'
    BY <1>2 DEF FileInv, StartInv, LockInv, GrantInv, Switches, Steps, Numbers, Grants, Promises,
       AcquireSteps, Entered
  <2>7. GrantInv'
    BY <1>2 DEF GrantInv, FileInv, StartInv, LockInv, Switches, Steps, Numbers, Grants, Promises,
       AcquireSteps, Entered
  <2>8. LiveInv'
    BY <1>2 DEF LiveInv, Live, GrantInv, FileInv, StartInv, LockInv, Switches, Steps, Numbers,
       Grants, Promises, AcquireSteps, Entered
  <2>9. PromiseInv'
    BY <1>2 DEF PromiseInv, LiveInv, Live, LockInv, Switches, Steps, Numbers, Grants, Promises,
       AcquireSteps, Entered
  <2>10. clean'
    BY <1>2 DEF Switches, Steps, Numbers, Grants, LockInv, FileInv, GrantInv
  <2>11. QED
    BY <2>1, <2>2, <2>3, <2>4, <2>5, <2>6, <2>7, <2>8, <2>9, <2>10
<1>3. CASE WriteRequest(c)
  <2> USE DEF None, Tokens, supervisor, WriteRequest, Reject, history
  <2>1. Switches' /\ Steps'
    BY <1>3 DEF Switches, Steps, SupSteps, Places, AcquireSteps
  <2>2. Numbers'
    BY <1>3 DEF Numbers, StartInv, Steps, Entered, AcquireSteps
  <2>3. Grants' /\ Promises'
    <3>1. issued + 1 \in Tokens \/ UNCHANGED <<left, issued>>
      BY <1>3 DEF Numbers
    <3>2. left' \in [Tokens -> 0..MaxHold]
      BY <1>3 DEF Grants
    <3>3. issued' \in {issued, issued + 1}
      BY <1>3
    <3>4. QED
      BY <1>3, <3>2, <3>3 DEF Grants, Promises, Numbers
  <2>4. LockInv'
    BY <1>3 DEF LockInv, Switches, Steps, Numbers, Grants, Promises, AcquireSteps, Places
  <2>5. StartInv'
    BY <1>3 DEF StartInv, LockInv, Switches, Steps, Numbers, Grants, Promises, AcquireSteps,
       Entered
  <2>6. FileInv'
    BY <1>3 DEF FileInv, StartInv, LockInv, GrantInv, Switches, Steps, Numbers, Grants, Promises,
       AcquireSteps, Entered
  <2>7. GrantInv'
    BY <1>3 DEF GrantInv, FileInv, StartInv, LockInv, Switches, Steps, Numbers, Grants, Promises,
       AcquireSteps, Entered
  <2>8. LiveInv'
    <3>1. ASSUME NEW d \in Clients, Live(d)' PROVE Live(d)
      <4>1. tok[d] \in Tokens /\ tok[d] <= issued
        BY <1>3, <3>1 DEF Live, Grants, Numbers
      <4>2. left'[tok[d]] = left[tok[d]]
        BY <1>3, <4>1 DEF Grants, Numbers
      <4>3. QED
        BY <1>3, <3>1, <4>2 DEF Live
    <3>2. at[c] \in Entered
      BY <1>3 DEF Entered
    <3>3. QED
      BY <3>1, <3>2 DEF LiveInv
  <2>9. PromiseInv'
    <3> SUFFICES ASSUME NEW d \in Clients, promise[d][2] > 0
                 PROVE  /\ promise[d][1] = tok[d] /\ tok[d] # None
                        /\ promise[d][2] <= left'[tok[d]] /\ at'[d] # "remove"
      BY <1>3 DEF PromiseInv
    <3>1. left'[tok[d]] = left[tok[d]]
      BY <1>3 DEF Grants, Numbers, PromiseInv
    <3>2. at'[d] # "remove"
      BY <1>3 DEF PromiseInv, Steps
    <3>3. QED
      BY <3>1, <3>2 DEF PromiseInv
  <2>10. clean'
    BY <1>3 DEF Switches, Steps, Numbers, Grants, LockInv, FileInv, GrantInv
  <2>11. QED
    BY <2>1, <2>2, <2>3, <2>4, <2>5, <2>6, <2>7, <2>8, <2>9, <2>10
<1>4. CASE MoveRequest(c)
  <2> USE DEF None, Tokens, supervisor, MoveRequest, Reject, history
  <2>1. Switches' /\ Steps'
    BY <1>4 DEF Switches, Steps, SupSteps, Places, AcquireSteps
  <2>2. Numbers'
    BY <1>4 DEF Numbers, StartInv, Steps, Entered, AcquireSteps
  <2>3. Grants' /\ Promises'
    BY <1>4 DEF Grants, Promises, Numbers
  <2>4. LockInv'
    BY <1>4 DEF LockInv, Switches, Steps, Numbers, Grants, Promises, AcquireSteps, Places
  <2>5. StartInv'
    BY <1>4 DEF StartInv, LockInv, Switches, Steps, Numbers, Grants, Promises, AcquireSteps,
       Entered
  <2>6. FileInv'
    <3>1. CASE pending = None
      BY <1>4, <3>1 DEF FileInv, Numbers
    <3>2. CASE pending # None
      <4>1. pending > 0
        BY <1>4, <3>2 DEF StartInv, Steps, Entered, Numbers
      <4>2. QED
        BY <1>4, <4>1 DEF FileInv, Numbers
    <3>3. QED
      BY <3>1, <3>2
  <2>7. GrantInv'
    BY <1>4 DEF GrantInv, FileInv, StartInv, LockInv, Switches, Steps, Numbers, Grants, Promises,
       AcquireSteps, Entered
  <2>8. LiveInv'
    BY <1>4 DEF LiveInv, Live, GrantInv, FileInv, StartInv, LockInv, Switches, Steps, Numbers,
       Grants, Promises, AcquireSteps, Entered
  <2>9. PromiseInv'
    BY <1>4 DEF PromiseInv, LiveInv, Live, LockInv, Switches, Steps, Numbers, Grants, Promises,
       AcquireSteps, Entered
  <2>10. clean'
    BY <1>4 DEF Switches, Steps, Numbers, Grants, LockInv, FileInv, GrantInv
  <2>11. QED
    BY <2>1, <2>2, <2>3, <2>4, <2>5, <2>6, <2>7, <2>8, <2>9, <2>10
<1>5. CASE AwaitActive(c)
  <2> USE DEF None, Tokens, supervisor, AwaitActive, Reject, Admitted, ReadRequest, StoppedGroup
  <2>1. Switches' /\ Steps'
    BY <1>5 DEF Switches, Steps, SupSteps, Places, AcquireSteps
  <2>2. Numbers'
    BY <1>5 DEF Numbers, StartInv, Steps, Entered, AcquireSteps
  <2>3. Grants' /\ Promises'
    <3>1. CASE UNCHANGED <<tok, promise, wrote>>
      BY <1>5, <3>1 DEF Grants, Promises
    <3>2. CASE /\ Admitted /\ tok' = [tok EXCEPT ![c] = active] /\ wrote' = wrote \ {active}
               /\ promise' = [promise EXCEPT ![c] = <<active, left[active]>>]
      <4>1. active \in Tokens /\ left[active] \in 0..MaxHold
        BY <3>2 DEF Numbers, Grants
      <4>2. QED
        BY <1>5, <3>2, <4>1 DEF Grants, Promises, Numbers
    <3>3. QED
      BY <1>5, <3>1, <3>2
  <2>4. LockInv'
    BY <1>5 DEF LockInv, Switches, Steps, Numbers, Grants, Promises, AcquireSteps, Places
  <2>5. StartInv'
    BY <1>5 DEF StartInv, LockInv, Switches, Steps, Numbers, Grants, Promises, AcquireSteps,
       Entered
  <2>6. FileInv'
    BY <1>5 DEF FileInv, StartInv, LockInv, GrantInv, Switches, Steps, Numbers, Grants, Promises,
       AcquireSteps, Entered
  <2>7. GrantInv'
    BY <1>5 DEF GrantInv, FileInv, StartInv, LockInv, Switches, Steps, Numbers, Grants, Promises,
       AcquireSteps, Entered
  <2>8. LiveInv'
    <3>1. at[c] \in Entered
      BY <1>5 DEF Entered
    <3>2. \A d \in Clients : ~Live(d)
      BY <3>1 DEF LiveInv
    <3>3. CASE ~Admitted
      BY <1>5, <3>2, <3>3 DEF LiveInv, Live
    <3>4. CASE Admitted
      <4>1. active \in Tokens /\ left[active] > 0 /\ request = active
        BY <3>4 DEF Numbers, Grants
      <4>2. \/ sup = "hold" /\ accepted = active
            \/ sup \in {"exit", "kill"} /\ java # "runs"
        BY <1>5, <3>4, <4>1 DEF FileInv, Numbers
      <4>3. UNCHANGED <<sup, accepted, request, java, left, overtaken>>
            /\ tok' = [tok EXCEPT ![c] = active] /\ at' = [at EXCEPT ![c] = "held"]
        BY <1>5, <3>4
      <4>4. \A d \in Clients : at'[d] \notin Entered
        BY <1>5, <4>3 DEF LockInv, Steps, AcquireSteps, Entered
      <4>5. \A d \in Clients : tok[d] = active => overtaken
        BY <3>2, <4>1 DEF Live
      <4>6. \A d \in Clients : d # c => tok'[d] = tok[d]
        BY <4>3 DEF Grants
      <4>7. tok'[c] = active
        BY <4>3 DEF Grants
      <4>8. \A d \in Clients : Live(d)' => d = c
        BY <3>2, <4>3, <4>6 DEF Live
      <4>9. QED
        BY <4>1, <4>2, <4>3, <4>4, <4>5, <4>6, <4>7, <4>8 DEF LiveInv, Live
    <3>5. QED
      BY <3>3, <3>4
  <2>9. PromiseInv'
    BY <1>5 DEF PromiseInv, LiveInv, Live, LockInv, Switches, Steps, Numbers, Grants, Promises,
       AcquireSteps, Entered
  <2>10. clean'
    BY <1>5 DEF Switches, Steps, Numbers, Grants, LockInv, FileInv, GrantInv
  <2>11. QED
    BY <2>1, <2>2, <2>3, <2>4, <2>5, <2>6, <2>7, <2>8, <2>9, <2>10
<1>6. QED
  BY <1>1, <1>2, <1>3, <1>4, <1>5

LEMMA HolderStep ==
  ASSUME FenceInv, sup # "new", UNCHANGED supervisor, NEW c \in Clients,
         \/ CheckRequest(c) \/ CheckSame(c) \/ CheckStopped(c) \/ CheckToken(c)
         \/ Release(c) \/ Remove(c)
  PROVE  FenceInv'
<1> USE FenceAssumption DEF FenceInv, FenceType
<1>1. CASE CheckRequest(c) \/ CheckSame(c) \/ CheckStopped(c)
  <2> USE DEF None, Tokens, supervisor, CheckRequest, CheckSame, CheckStopped, CheckRead, files,
     history
  <2>1. Switches' /\ Steps'
    BY <1>1 DEF Switches, Steps, SupSteps, Places, AcquireSteps
  <2>2. Numbers'
    BY <1>1 DEF Numbers, StartInv, Steps, Entered, AcquireSteps
  <2>3. Grants' /\ Promises'
    BY <1>1 DEF Grants, Promises, Numbers
  <2>4. LockInv'
    BY <1>1 DEF LockInv, Switches, Steps, Numbers, Grants, Promises, AcquireSteps, Places
  <2>5. StartInv'
    BY <1>1 DEF StartInv, LockInv, Switches, Steps, Numbers, Grants, Promises, AcquireSteps,
       Entered
  <2>6. FileInv'
    BY <1>1 DEF FileInv, StartInv, LockInv, GrantInv, Switches, Steps, Numbers, Grants, Promises,
       AcquireSteps, Entered
  <2>7. GrantInv'
    BY <1>1 DEF GrantInv, FileInv, StartInv, LockInv, Switches, Steps, Numbers, Grants, Promises,
       AcquireSteps, Entered
  <2>8. LiveInv'
    <3>1. ASSUME NEW d \in Clients PROVE at'[d] \in Entered => at[d] \in Entered
      BY <1>1 DEF Steps, Entered
    <3>2. ASSUME NEW d \in Clients PROVE Live(d)' => Live(d)
      BY <1>1 DEF Live
    <3>3. UNCHANGED <<request, sup, accepted, java, tok>>
      BY <1>1
    <3>4. QED
      BY <3>1, <3>2, <3>3 DEF LiveInv
  <2>9. PromiseInv'
    BY <1>1 DEF PromiseInv, LiveInv, Live, LockInv, Switches, Steps, Numbers, Grants, Promises,
       AcquireSteps, Entered
  <2>10. clean'
    BY <1>1 DEF Switches, Steps, Numbers, Grants, LockInv, FileInv, GrantInv
  <2>11. QED
    BY <2>1, <2>2, <2>3, <2>4, <2>5, <2>6, <2>7, <2>8, <2>9, <2>10
<1>2. CASE CheckToken(c)
  <2> USE DEF None, Tokens, supervisor, CheckToken, Go, files
  <2>1. Switches' /\ Steps'
    BY <1>2 DEF Switches, Steps, SupSteps, Places, AcquireSteps
  <2>2. Numbers'
    BY <1>2 DEF Numbers, StartInv, Steps, Entered, AcquireSteps
  <2>3. Grants' /\ Promises'
    <3>1. UNCHANGED <<left, tok, wrote, issued>>
      BY <1>2
    <3>2. tok[c] \in Tokens
      BY <1>2 DEF LockInv, Grants, Numbers, AcquireSteps
    <3>3. <<tok[c], left[tok[c]]>> \in (0..MaxAcquires) \X (0..MaxHold)
      BY <3>2 DEF Grants, Numbers
    <3>4. Promises'
      BY <1>2, <3>3 DEF Promises
    <3>5. QED
      BY <3>1, <3>4 DEF Grants
  <2>4. LockInv'
    BY <1>2 DEF LockInv, Switches, Steps, Numbers, Grants, Promises, AcquireSteps, Places
  <2>5. StartInv'
    BY <1>2 DEF StartInv, LockInv, Switches, Steps, Numbers, Grants, Promises, AcquireSteps,
       Entered
  <2>6. FileInv'
    BY <1>2 DEF FileInv, StartInv, LockInv, GrantInv, Switches, Steps, Numbers, Grants, Promises,
       AcquireSteps, Entered
  <2>7. GrantInv'
    BY <1>2 DEF GrantInv, FileInv, StartInv, LockInv, Switches, Steps, Numbers, Grants, Promises,
       AcquireSteps, Entered
  <2>8. LiveInv'
    BY <1>2 DEF LiveInv, Live, GrantInv, FileInv, StartInv, LockInv, Switches, Steps, Numbers,
       Grants, Promises, AcquireSteps, Entered
  <2>9. PromiseInv'
    <3> SUFFICES ASSUME NEW d \in Clients, promise'[d][2] > 0
                 PROVE  /\ promise'[d][1] = tok[d] /\ tok[d] # None
                        /\ promise'[d][2] <= left[tok[d]] /\ at'[d] # "remove"
      BY <1>2 DEF PromiseInv
    <3>1. at'[d] # "remove"
      BY <1>2 DEF PromiseInv, Steps, Promises
    <3>2. CASE promise'[d] = promise[d]
      BY <3>1, <3>2 DEF PromiseInv
    <3>3. CASE d = c /\ promise'[d] = <<tok[c], left[tok[c]]>>
      <4>1. tok[c] \in Tokens
        BY <1>2 DEF LockInv, Grants, Numbers, AcquireSteps
      <4>2. left[tok[c]] \in Nat
        BY <4>1 DEF Grants
      <4>3. QED
        BY <3>1, <3>3, <4>1, <4>2
    <3>4. QED
      BY <1>2, <3>2, <3>3 DEF Promises
  <2>10. clean'
    <3>1. active = tok[c] => tok[c] \notin wrote
      BY <1>2 DEF LockInv, GrantInv, AcquireSteps
    <3>2. CASE active = tok[c]
      <4>1. clean' = (clean /\ tok[c] \notin wrote)
        BY <1>2, <3>2
      <4>2. QED
        BY <3>1, <3>2, <4>1
    <3>3. CASE active # tok[c]
      BY <1>2, <3>3
    <3>4. QED
      BY <3>2, <3>3
  <2>11. QED
    BY <2>1, <2>2, <2>3, <2>4, <2>5, <2>6, <2>7, <2>8, <2>9, <2>10
<1>3. CASE Release(c)
  <2> USE DEF None, Tokens, supervisor, Release, files, NoPromise
  <2>1. Switches' /\ Steps'
    BY <1>3 DEF Switches, Steps, SupSteps, Places, AcquireSteps
  <2>2. Numbers'
    BY <1>3 DEF Numbers, StartInv, Steps, Entered, AcquireSteps
  <2>3. Grants' /\ Promises'
    BY <1>3 DEF Grants, Promises, Numbers
  <2>4. LockInv'
    BY <1>3 DEF LockInv, Switches, Steps, Numbers, Grants, Promises, AcquireSteps, Places
  <2>5. StartInv'
    BY <1>3 DEF StartInv, LockInv, Switches, Steps, Numbers, Grants, Promises, AcquireSteps,
       Entered
  <2>6. FileInv'
    BY <1>3 DEF FileInv, StartInv, LockInv, GrantInv, Switches, Steps, Numbers, Grants, Promises,
       AcquireSteps, Entered
  <2>7. GrantInv'
    <3>1. ASSUME NEW d \in Clients PROVE tok'[d] \in {tok[d], None}
      BY <1>3 DEF Grants
    <3>2. UNCHANGED <<pending, sup, accepted, request, active, wrote>>
      BY <1>3
    <3>3. QED
      BY <3>1, <3>2 DEF GrantInv, FileInv
  <2>8. LiveInv'
    BY <1>3 DEF LiveInv, Live, GrantInv, FileInv, StartInv, LockInv, Switches, Steps, Numbers,
       Grants, Promises, AcquireSteps, Entered
  <2>9. PromiseInv'
    BY <1>3 DEF PromiseInv, LiveInv, Live, LockInv, Switches, Steps, Numbers, Grants, Promises,
       AcquireSteps, Entered
  <2>10. clean'
    BY <1>3 DEF Switches, Steps, Numbers, Grants, LockInv, FileInv, GrantInv
  <2>11. QED
    BY <2>1, <2>2, <2>3, <2>4, <2>5, <2>6, <2>7, <2>8, <2>9, <2>10
<1>4. CASE Remove(c)
  <2> USE DEF None, Tokens, supervisor, Remove, Go
  <2>1. Switches' /\ Steps'
    BY <1>4 DEF Switches, Steps, SupSteps, Places, AcquireSteps
  <2>2. Numbers'
    BY <1>4 DEF Numbers, StartInv, Steps, Entered, AcquireSteps
  <2>3. Grants' /\ Promises'
    BY <1>4 DEF Grants, Promises, Numbers
  <2>4. LockInv'
    BY <1>4 DEF LockInv, Switches, Steps, Numbers, Grants, Promises, AcquireSteps, Places
  <2>5. StartInv'
    BY <1>4 DEF StartInv, LockInv, Switches, Steps, Numbers, Grants, Promises, AcquireSteps,
       Entered
  <2>6. FileInv'
    BY <1>4 DEF FileInv, StartInv, LockInv, GrantInv, Switches, Steps, Numbers, Grants, Promises,
       AcquireSteps, Entered
  <2>7. GrantInv'
    <3>1. ASSUME NEW d \in Clients PROVE tok'[d] \in {tok[d], None}
      BY <1>4 DEF Grants
    <3>2. UNCHANGED <<pending, sup, accepted, active, wrote>> /\ request' = None
      BY <1>4
    <3>3. QED
      BY <3>1, <3>2 DEF GrantInv, FileInv
  <2>8. LiveInv'
    <3> SUFFICES ASSUME NEW d \in Clients, Live(d)' PROVE FALSE
      BY DEF LiveInv
    <3>1. d # c /\ tok[d] # None /\ left[tok[d]] > 0
      BY <1>4 DEF Live, Grants
    <3>2. ~overtaken /\ request \in {None, tok[c]}
      BY <1>4, Zenon DEF Live
    <3>3. request = tok[d] /\ (tok[c] = tok[d] => c = d)
      BY <3>1, <3>2 DEF Live, LiveInv
    <3>4. QED
      BY <3>1, <3>2, <3>3
  <2>9. PromiseInv'
    BY <1>4 DEF PromiseInv, LiveInv, Live, LockInv, Switches, Steps, Numbers, Grants, Promises,
       AcquireSteps, Entered
  <2>10. clean'
    BY <1>4 DEF Switches, Steps, Numbers, Grants, LockInv, FileInv, GrantInv
  <2>11. QED
    BY <2>1, <2>2, <2>3, <2>4, <2>5, <2>6, <2>7, <2>8, <2>9, <2>10
<1>5. QED
  BY <1>1, <1>2, <1>3, <1>4

LEMMA WorldStep == FenceInv /\ (Tick \/ \E c \in Clients : Lost(c)) => FenceInv'
<1> SUFFICES ASSUME FenceInv, Tick \/ \E c \in Clients : Lost(c) PROVE FenceInv'
  OBVIOUS
<1> USE FenceAssumption DEF FenceInv, FenceType
<1>1. CASE Tick
  <2> USE DEF None, Tokens, Tick, Less, supervisor, files, client
  <2>1. Switches' /\ Steps'
    BY <1>1 DEF Switches, Steps, SupSteps, Places, AcquireSteps
  <2>2. Numbers'
    BY <1>1 DEF Numbers, StartInv, Steps, Entered, AcquireSteps
  <2>3. Grants' /\ Promises'
    BY <1>1 DEF Grants, Promises, Numbers
  <2>4. LockInv'
    BY <1>1 DEF LockInv, Switches, Steps, Numbers, Grants, Promises, AcquireSteps, Places
  <2>5. StartInv'
    BY <1>1 DEF StartInv, LockInv, Switches, Steps, Numbers, Grants, Promises, AcquireSteps,
       Entered
  <2>6. FileInv'
    BY <1>1 DEF FileInv, StartInv, LockInv, GrantInv, Switches, Steps, Numbers, Grants, Promises,
       AcquireSteps, Entered
  <2>7. GrantInv'
    BY <1>1 DEF GrantInv, FileInv, StartInv, LockInv, Switches, Steps, Numbers, Grants, Promises,
       AcquireSteps, Entered
  <2>8. LiveInv'
    BY <1>1 DEF LiveInv, Live, GrantInv, FileInv, StartInv, LockInv, Switches, Steps, Numbers,
       Grants, Promises, AcquireSteps, Entered
  <2>9. PromiseInv'
    BY <1>1 DEF PromiseInv, LiveInv, Live, LockInv, Switches, Steps, Numbers, Grants, Promises,
       AcquireSteps, Entered
  <2>10. clean'
    BY <1>1 DEF Switches, Steps, Numbers, Grants, LockInv, FileInv, GrantInv
  <2>11. QED
    BY <2>1, <2>2, <2>3, <2>4, <2>5, <2>6, <2>7, <2>8, <2>9, <2>10
<1>2. ASSUME NEW c \in Clients, Lost(c) PROVE FenceInv'
  BY <1>2 DEF None, Tokens, Lost, Reject, supervisor, files, history, LockInv, StartInv, FileInv,
     GrantInv, LiveInv, Live, PromiseInv, Switches, Steps, Numbers, Grants, Promises, SupSteps,
     Places, AcquireSteps, Entered
<1>3. QED
  BY <1>1, <1>2

LEMMA FenceStep == FenceInv /\ [Next]_vars => FenceInv'
<1> SUFFICES ASSUME FenceInv, [Next]_vars PROVE FenceInv'
  OBVIOUS
<1>1. CASE UNCHANGED vars
  <2> USE <1>1 DEF vars, supervisor, files, client, history, FenceInv
  <2>1. FenceType'
    BY DEF FenceType, Switches, Steps, Numbers, Grants, Promises
  <2>2. LockInv' /\ StartInv' /\ FileInv'
    BY DEF LockInv, StartInv, FileInv
  <2>3. GrantInv' /\ LiveInv' /\ PromiseInv'
    BY DEF GrantInv, LiveInv, PromiseInv, Live
  <2>4. QED
    BY <2>1, <2>2, <2>3
<1>2. CASE SupStep
  BY <1>2, StartStep, StopStep, LiftStep, EndStep DEF SupStep, Supervise, SupFrame
<1>3. CASE Terminated \/ Killed
  BY <1>3, EndStep
<1>4. CASE Tick \/ \E c \in Clients : Lost(c)
  BY <1>4, WorldStep
<1>5. ASSUME NEW c \in Clients, Command(c) PROVE FenceInv'
  BY <1>5, AcquireStep, HolderStep DEF Command
<1>6. QED
  BY <1>1, <1>2, <1>3, <1>4, <1>5 DEF Next

LEMMA FenceAlways == Spec => []FenceInv
  BY FenceInit, FenceStep, PTL DEF Spec

(* A promise that has not run out is backed by a token that has not.          *)
LEMMA Backed == ASSUME FenceInv, ~overtaken, NEW c \in Clients, promise[c][2] > 0 PROVE Live(c)
<1>1. tok[c] \in Tokens /\ left[tok[c]] \in Nat /\ promise[c][2] \in Nat
  BY FenceAssumption DEF FenceInv, FenceType, Numbers, Grants, Promises, PromiseInv, Tokens, None
<1>2. QED
  BY <1>1 DEF FenceInv, PromiseInv, Live

(* The bounds of the model.                                                   *)
Counted == kills \in 0..MaxKills /\ faults \in 0..MaxFaults

LEMMA CountedAlways == Spec => []Counted
<1> USE FenceAssumption DEF Counted
<1>1. Init => Counted
  BY DEF Init
<1>2. ASSUME Counted, [Next]_vars PROVE Counted'
  <2>1. \/ UNCHANGED kills
        \/ kills < MaxKills /\ kills' = kills + 1
    BY <1>2 DEF vars, Next, SupStep, Supervise, CleanupKill, Stops, Terminated, Killed, Kill, Tick,
       Command, Lost
  <2>2. \/ UNCHANGED faults
        \/ faults < MaxFaults /\ faults' = faults + 1
    <3>1. CASE Supervise
      BY <3>1 DEF Supervise, Fresh, StartupHold, Launch, WriteChild, MoveChild, Accept,
         AwaitStopped, Recheck, WriteActive, MoveActive, LiftActive, LiftRequest, Continue,
         CleanupFiles, Fault
    <3>2. ASSUME NEW c \in Clients, Command(c)
          PROVE  \/ UNCHANGED faults
                 \/ faults < MaxFaults /\ faults' = faults + 1
      <4>1. CASE AwaitActive(c)
        BY <4>1 DEF AwaitActive, Fault
      <4>2. CASE \/ Acquire(c) \/ Examine(c) \/ WriteRequest(c) \/ MoveRequest(c) \/ Release(c)
                 \/ Remove(c)
        BY <4>2 DEF Acquire, Examine, WriteRequest, MoveRequest, Release, Remove
      <4>3. CASE \/ CheckRequest(c) \/ CheckSame(c) \/ CheckStopped(c) \/ CheckToken(c)
        BY <4>3 DEF CheckRequest, CheckSame, CheckStopped, CheckRead, CheckToken
      <4>4. QED
        BY <3>2, <4>1, <4>2, <4>3 DEF Command
    <3>3. QED
      BY <1>2, <3>1, <3>2 DEF vars, Next, SupStep, CleanupKill, Stops, Terminated, Killed, Tick,
         Lost
  <2>3. QED
    BY <1>2, <2>1, <2>2
<1>3. QED
  BY <1>1, <1>2, PTL DEF Spec

(* Every variable keeps its type: a file that acquire or the supervisor has   *)
(* moved into place is one whole request (fence.sh's pending and mv).         *)
THEOREM TypeCorrect == Spec => []TypeOK
<1>1. FenceInv /\ Counted => TypeOK
  <2> SUFFICES ASSUME FenceInv, Counted PROVE TypeOK
    OBVIOUS
  <2> USE FenceAssumption DEF FenceInv, FenceType
  <2>1. fenced \in BOOLEAN /\ child \in BOOLEAN /\ clean \in BOOLEAN /\ overtaken \in BOOLEAN
    BY DEF Switches
  <2>2. /\ accepted \in {None} \cup Tokens /\ {request, active} \subseteq {None} \cup Tokens
        /\ pending \in {-1, None} \cup Tokens /\ issued \in 0..MaxAcquires
    BY DEF Numbers, Tokens, None
  <2>3. tok \in [Clients -> {None} \cup Tokens]
    BY DEF Numbers, Grants, Tokens, None
  <2>4. promise \in [Clients -> ({None} \cup Tokens) \X (0..MaxHold)]
    <3>1. 0..MaxAcquires = {None} \cup Tokens
      BY DEF Tokens, None
    <3>2. QED
      BY <3>1 DEF Promises
  <2>5. QED
    BY <2>1, <2>2, <2>3, <2>4 DEF TypeOK, Steps, SupSteps, Places, AcquireSteps, Grants, Counted
<1>2. QED
  BY FenceAlways, CountedAlways, <1>1, PTL

(* From a check that passed until the deadline it saw, or the client's own    *)
(* release, the writer does not run, in whatever container (check, hold,      *)
(* cleanup and the startup hold).                                             *)
THEOREM PromiseTheorem == Spec => []PromiseKept
<1>1. FenceInv => PromiseKept
  BY Backed DEF FenceInv, PromiseKept, LiveInv, StartInv
<1>2. QED
  BY FenceAlways, <1>1, PTL

(* No two clients hold a promise at once: acquire's lock and its look at the  *)
(* request and the active file leave one of them.                             *)
THEOREM ExclusionTheorem == Spec => []Exclusive
<1>1. FenceInv => Exclusive
  <2> SUFFICES ASSUME FenceInv, ~overtaken, NEW c \in Clients, NEW d \in Clients,
                      promise[c][2] > 0, promise[d][2] > 0
               PROVE  c = d
    BY DEF Exclusive
  <2>1. Live(c) /\ Live(d)
    BY Backed
  <2>2. QED
    BY <2>1 DEF FenceInv, LiveInv
<1>2. QED
  BY FenceAlways, <1>1, PTL

(* A check whose four reads pass proves that the application has not run      *)
(* since the token was granted, however the reads lie to the supervisor.      *)
THEOREM EvidenceTheorem == Spec => []Undisturbed
<1>1. FenceInv => Undisturbed
  BY DEF FenceInv, Undisturbed
<1>2. QED
  BY FenceAlways, <1>1, PTL
=============================================================================
