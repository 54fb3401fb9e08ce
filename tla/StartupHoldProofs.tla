--------------------------- MODULE StartupHoldProofs ---------------------------
(* For any deadlines, kills, restarts, rollouts and steps of the wall clock:  *)
(* what a check promises a capture, and for every order of a drill's          *)
(* questions, PID 1 and the ticks: what the drill may report of the holder.   *)
(* A string a proof compares with "" goes through Silent: the SMT translation *)
(* has no name for the empty string.                                          *)
EXTENDS StartupHold, TLAPS

Stamps == [start : Starts, end : Nat]

(* There is always another start to tell apart: a random nonce and a boot.    *)
Plenty == /\ None \notin Starts \cup Stamps
          /\ \A a, b, c, d, e, f : \E s \in Starts : s \notin {a, b, c, d, e, f}

LEMMA FreshStart ==
  ASSUME Plenty
  PROVE  /\ Fresh \in Starts /\ Fresh \notin {start, known, first, promise.start}
         /\ marker # None => Fresh # marker.start
         /\ got # None => Fresh # got.start
<1>1. \E s \in Starts : /\ s \notin {start, known, first, promise.start}
                        /\ marker # None => s # marker.start
                        /\ got # None => s # got.start
  <2>1. PICK s \in Starts : s \notin {start, known, first, promise.start, marker.start, got.start}
    BY DEF Plenty
  <2>2. QED
    BY <2>1
<1>2. QED
  BY <1>1 DEF Fresh

Left == {"clean", "exec", "native"}

HoldType ==
  /\ pid1 \in {"down", "new", "clear", "make", "hold", "clean", "exec", "native"}
  /\ start \in Starts /\ due \in Int /\ end \in Nat
  /\ marker # None => marker \in Stamps
  /\ got # None => got \in Stamps
  /\ promise \in [start : Starts \cup {None}, left : Nat]
  /\ wrote \in BOOLEAN /\ clean \in BOOLEAN /\ revived \in BOOLEAN

(* Where a command under way stands.                                          *)
AskInv ==
  /\ stage = "idle" => got = None
  /\ stage \in {"read", "same"} => got # None
  /\ stage = "same" => got.start = start
  /\ pid1 = "down" => stage = "idle"

(* A marker of this start shows the end that PID 1 waits for.                 *)
MarkerInv ==
  /\ marker # None /\ marker.start = start =>
       pid1 \in {"hold", "clean", "down"} /\ marker.end = end
  /\ got # None /\ got.start = start =>
       pid1 \in {"hold"} \cup Left /\ got.end = end

(* PID 1 leaves a hold only when it has ended.                                *)
EndInv ==
  ~revived => /\ pid1 \in {"clean", "exec"} => due <= 0 \/ end <= 0
              /\ got # None /\ got.start = start /\ pid1 \in Left => due <= 0 \/ end <= 0

(* A promise ends before the hold does.                                       *)
PromiseInv ==
  ~revived /\ promise.left > 0 /\ promise.start = start =>
    pid1 \in {"hold", "down"} /\ promise.left <= due /\ promise.left <= end

(* The start that evidence was taken of has not become the writer before.     *)
KnownInv ==
  known = start => /\ pid1 \in {"hold", "down"} \cup Left
                   /\ wrote => pid1 \in {"native", "down"}

HoldInv == HoldType /\ AskInv /\ MarkerInv /\ EndInv /\ PromiseInv /\ KnownInv
CaptureInv == /\ Capturing => HoldInv /\ (revived \/ clean)
              /\ ~Capturing => promise = NoPromise /\ clean

LEMMA HoldInit == Plenty /\ Init => CaptureInv
<1> SUFFICES ASSUME Plenty, Init PROVE CaptureInv
  OBVIOUS
<1>1. start \in Starts /\ start # None
  BY DEF Init, Plenty
<1>2. Capturing => due \in Int
  BY HoldAssumption DEF Init
<1>3. QED
  BY <1>1, <1>2 DEF Init, CaptureInv, HoldInv, HoldType, AskInv, MarkerInv, EndInv, PromiseInv,
     KnownInv, NoPromise, Left

LEMMA DrillKeeps == Drill => ~Capturing /\ UNCHANGED <<client, history, bounds>>
<1> USE DEF At, Drilling, history
<1>1. DrillCreate \/ DrillStart \/ DrillKill => ~Capturing /\ UNCHANGED <<client, history, bounds>>
  BY DEF DrillCreate, DrillStart, DrillKill
<1>2. DrillAsks => ~Capturing /\ UNCHANGED <<client, history, bounds>>
  BY DEF DrillAsks, Asking
<1>3. DrillAwait \/ DrillTake \/ DrillDiffers \/ DrillProbe \/ DrillStale =>
        ~Capturing /\ UNCHANGED <<client, history, bounds>>
  BY DEF DrillAwait, DrillTake, DrillDiffers, DrillProbe, DrillStale
<1>4. DrillAbsent \/ DrillWatch \/ DrillLooked \/ DrillPoll \/ DrillGone \/ DrillReady =>
        ~Capturing /\ UNCHANGED <<client, history, bounds>>
  BY DEF DrillAbsent, DrillWatch, DrillLooked, DrillPoll, DrillGone, DrillReady
<1>5. DrillMonitor \/ DrillCleanup \/ DrillFault =>
        ~Capturing /\ UNCHANGED <<client, history, bounds>>
  BY DEF DrillMonitor, DrillCleanup, DrillFault
<1>6. QED
  BY <1>1, <1>2, <1>3, <1>4, <1>5 DEF Drill

LEMMA OthersIdle ==
  /\ Terminate \/ Kill \/ Restart \/ Rollout \/ StepClock \/ Capture => Capturing
  /\ Next => UNCHANGED client
<1>1. Terminate \/ Kill \/ Restart \/ Rollout \/ StepClock \/ Capture =>
        Capturing /\ UNCHANGED client
  BY DEF Terminate, Kill, Restart, Rollout, StepClock, Capture, CaptureReads, CaptureStatus,
     CaptureCheck, CaptureGoesOn
<1>2. Pid1 \/ Tick => UNCHANGED client
  BY DEF Pid1, Tick
<1>3. QED
  BY <1>1, <1>2, DrillKeeps DEF Next

LEMMA Pid1Step == HoldInv /\ Pid1 => HoldInv'
<1> SUFFICES ASSUME HoldInv, Pid1 PROVE HoldInv'
  OBVIOUS
<1> USE DEF HoldInv, HoldType, AskInv, MarkerInv, EndInv, PromiseInv, KnownInv, Left
<1>0. UNCHANGED <<client, stage, got, reply, known, promise, clean, reviewed, revived>>
  BY DEF Pid1, command, drill, bounds
<1>1. CASE Clear
  BY <1>0, <1>1 DEF Clear, RemoveMarker
<1>2. CASE Judge
  <2>1. CASE pid1' = "make" /\ end' = due /\ 0 < due /\ UNCHANGED wrote
    BY <1>0, <1>2, <2>1 DEF Judge
  <2>2. CASE Native /\ UNCHANGED end
    BY <1>0, <1>2, <2>2 DEF Judge, Native
  <2>3. QED
    BY <1>2, <2>1, <2>2 DEF Judge
<1>3. CASE Publish
  <2>1. marker' \in Stamps /\ marker'.start = start /\ marker'.end = end
    BY <1>3 DEF Publish, Stamps
  <2>2. QED
    BY <1>0, <1>3, <2>1 DEF Publish
<1>4. CASE Expire
  BY <1>0, <1>4 DEF Expire
<1>5. CASE Release
  BY <1>0, <1>5 DEF Release, RemoveMarker
<1>6. CASE Exec
  BY <1>0, <1>6 DEF Exec, Native
<1>7. QED
  BY <1>1, <1>2, <1>3, <1>4, <1>5, <1>6 DEF Pid1

LEMMA OutsideStep ==
  HoldInv /\ Plenty /\ (Terminate \/ Kill \/ Restart \/ Rollout) => HoldInv'
<1> SUFFICES ASSUME HoldInv, Plenty, Terminate \/ Kill \/ Restart \/ Rollout PROVE HoldInv'
  OBVIOUS
<1> USE DEF HoldInv, HoldType, AskInv, MarkerInv, EndInv, PromiseInv, KnownInv, Left
<1>1. CASE Terminate
  BY <1>1 DEF Terminate, RemoveMarker, Gone, history
<1>2. CASE Kill
  BY <1>2 DEF Kill, Gone, history
<1>3. CASE Restart
  BY <1>3, FreshStart DEF Restart, command, history
<1>4. CASE Rollout
  <2>1. due' \in Int
    BY <1>4, HoldAssumption DEF Rollout
  <2>2. QED
    BY <1>4, <2>1, FreshStart DEF Rollout
<1>5. QED
  BY <1>1, <1>2, <1>3, <1>4

LEMMA StampPasses ==
  ASSUME Plenty, NEW m, m # None => m \in Stamps
  PROVE  /\ Pass(m) = None <=> m = None
         /\ m # None => /\ Pass(m) \in Stamps /\ Pass(m).start = m.start
                        /\ Pass(m).end = Lower(m.end, 0)
<1>1. CASE m = None
  BY <1>1 DEF Pass
<1>2. CASE m # None
  <2>1. Pass(m) = [m EXCEPT !.end = Lower(@, 0)] /\ m \in Stamps
    BY <1>2 DEF Pass
  <2>2. Lower(m.end, 0) \in Nat
    BY <2>1 DEF Lower, Stamps
  <2>3. Pass(m) \in Stamps /\ Pass(m).start = m.start /\ Pass(m).end = Lower(m.end, 0)
    BY <2>1, <2>2 DEF Stamps
  <2>4. QED
    BY <1>2, <2>3 DEF Plenty
<1>3. QED
  BY <1>1, <1>2

LEMMA StepBack ==
  HoldInv /\ StepClock => /\ due' \in Int /\ revived' \in BOOLEAN /\ (revived => revived')
                          /\ ~revived' /\ due <= 0 => due' <= 0
<1> SUFFICES ASSUME HoldInv, StepClock
             PROVE  /\ due' \in Int /\ revived' \in BOOLEAN /\ (revived => revived')
                    /\ ~revived' /\ due <= 0 => due' <= 0
  OBVIOUS
<1>1. due' \in Int /\ (due' > 0 \/ due' <= 0)
  BY DEF HoldInv, HoldType, StepClock
<1>2. revived' = (revived \/ (due <= 0 /\ due' > 0))
  BY DEF StepClock
<1>3. QED
  BY <1>1, <1>2, Zenon

LEMMA TimeStep == Plenty /\ HoldInv /\ (Tick \/ StepClock) => HoldInv'
<1> SUFFICES ASSUME Plenty, HoldInv, Tick \/ StepClock PROVE HoldInv'
  OBVIOUS
<1> USE DEF HoldInv, HoldType, AskInv, MarkerInv, EndInv, PromiseInv, KnownInv, Left
<1>1. CASE Tick
  <2>1. /\ due' \in Int /\ end' \in Nat
        /\ due <= 0 => due' <= 0
        /\ end <= 0 => end' <= 0
        /\ due > 0 => due' = due - 1
        /\ end > 0 => end' = end - 1
    BY <1>1, HoldAssumption DEF Tick, Lower
  <2>2. marker' = Pass(marker) /\ got' = Pass(got)
    BY <1>1 DEF Tick
  <2>3. /\ got' = None <=> got = None
        /\ marker' # None => marker # None /\ marker' \in Stamps /\ marker'.start = marker.start
                             /\ marker'.end = Lower(marker.end, 0)
        /\ got' # None => got # None /\ got' \in Stamps /\ got'.start = got.start
                          /\ got'.end = Lower(got.end, 0)
    BY <2>2, StampPasses
  <2>4. promise' \in [start : Starts \cup {None}, left : Nat] /\ promise'.start = promise.start
        /\ promise'.left = Lower(promise.left, 0)
    BY <1>1 DEF Tick, Lower
  <2>5. end' = Lower(end, 0)
    BY <1>1 DEF Tick
  <2>6. UNCHANGED <<pid1, start, stage, reply, known, wrote, clean, reviewed, revived>>
    BY <1>1 DEF Tick
  <2>7. AskInv' /\ MarkerInv' /\ HoldType'
    BY <2>1, <2>2, <2>3, <2>4, <2>5, <2>6
  <2>8. EndInv' /\ KnownInv'
    BY <2>1, <2>2, <2>3, <2>6
  <2>9. PromiseInv'
    BY <2>1, <2>4, <2>6 DEF Lower
  <2>10. QED
    BY <2>7, <2>8, <2>9
<1>2. CASE StepClock
  <2>1. /\ due' \in Int /\ revived' \in BOOLEAN /\ (revived => revived')
        /\ ~revived' /\ due <= 0 => due' <= 0
        /\ got = None /\ promise.left = 0
    BY <1>2, StepBack DEF StepClock
  <2>2. UNCHANGED <<pid1, start, end, marker, stage, got, reply, known, promise, wrote, clean>>
    BY <1>2 DEF StepClock, command
  <2>3. QED
    BY <2>1, <2>2
<1>3. QED
  BY <1>1, <1>2

LEMMA ValidInHold ==
  ASSUME HoldInv, stage = "same", NEW n \in Nat \ {0}, n <= Remaining(got), ~revived
  PROVE  pid1 = "hold" /\ n <= due /\ n <= end
<1> USE DEF HoldInv, HoldType, AskInv, MarkerInv, EndInv, Left
<1>1. got # None /\ got.start = start /\ got.end = end /\ got \in Stamps
  OBVIOUS
<1>2. n <= due /\ n <= end
  BY <1>1 DEF Remaining
<1>3. QED
  BY <1>1, <1>2

LEMMA CaptureStep == HoldInv /\ (revived \/ clean) /\ Capture => HoldInv' /\ (revived \/ clean)'
<1> SUFFICES ASSUME HoldInv, revived \/ clean, Capture PROVE HoldInv' /\ (revived \/ clean)'
  OBVIOUS
<1> USE DEF HoldInv, HoldType, AskInv, MarkerInv, EndInv, PromiseInv, KnownInv, Left
<1>1. CASE CaptureReads
  BY <1>1 DEF CaptureReads, Running, Read, Identify, Identity, Answer, holder, history
<1>2. CASE CaptureStatus
  <2>1. stage = "same" /\ stage' = "answered" /\ got' = got
        /\ UNCHANGED <<pid1, start, due, end, marker, promise, clean, revived>>
    BY <1>2 DEF CaptureStatus, Status, Answer, holder
  <2>2. CASE reply' = "valid"
    <3>1. known' = got.start /\ wrote' = (pid1 = "native") /\ got.start = start
      BY <1>2, <2>1, <2>2 DEF CaptureStatus
    <3>2. pid1 \in {"hold"} \cup Left
      BY <2>1
    <3>3. QED
      BY <2>1, <3>1, <3>2
  <2>3. CASE reply' # "valid"
    BY <1>2, <2>1, <2>3 DEF CaptureStatus
  <2>4. QED
    BY <2>2, <2>3
<1>3. CASE CaptureCheck
  <2>1. PICK minimum \in Minimums :
          /\ Check(known, minimum)
          /\ IF reply' = "valid" THEN /\ promise' = [start |-> start, left |-> minimum]
                                      /\ clean' = (clean /\ ~wrote)
                                 ELSE UNCHANGED <<promise, clean>>
    BY <1>3 DEF CaptureCheck
  <2>2. stage = "same" /\ stage' = "answered" /\ got' = got
        /\ UNCHANGED <<pid1, start, due, end, marker, known, wrote, revived>>
    BY <1>3, <2>1 DEF CaptureCheck, Check, Answer, holder
  <2>3. CASE reply' = "valid"
    <3>1. minimum \in Nat \ {0} /\ minimum <= Remaining(got) /\ got.start = known
      BY <2>1, <2>3, HoldAssumption DEF Check, Answer
    <3>2. ~revived => pid1 = "hold" /\ minimum <= due /\ minimum <= end
      BY <2>2, <3>1, ValidInHold
    <3>3. ~revived => ~wrote
      BY <2>2, <3>1, <3>2
    <3>4. promise'.start = start /\ promise'.left = minimum
          /\ promise' \in [start : Starts \cup {None}, left : Nat]
      BY <2>1, <2>3, <3>1
    <3>5. clean' = (clean /\ ~wrote)
      BY <2>1, <2>3
    <3>6. QED
      BY <2>2, <3>2, <3>3, <3>4, <3>5
  <2>4. CASE reply' # "valid"
    BY <2>1, <2>2, <2>4
  <2>5. QED
    BY <2>3, <2>4
<1>4. CASE CaptureGoesOn
  BY <1>4 DEF CaptureGoesOn, Done, holder, history
<1>5. QED
  BY <1>1, <1>2, <1>3, <1>4 DEF Capture

LEMMA CleanKept ==
  HoldInv /\ (revived \/ clean)
    /\ (Pid1 \/ Terminate \/ Kill \/ Restart \/ Rollout \/ Tick \/ StepClock) => (revived \/ clean)'
<1>1. Terminate \/ Kill \/ Restart \/ Rollout \/ Pid1 \/ Tick =>
        clean' = clean /\ revived' = revived
  BY DEF Terminate, Kill, Restart, Rollout, Pid1, Tick, history
<1>2. HoldInv /\ StepClock => clean' = clean /\ (revived => revived')
  BY StepBack DEF StepClock
<1>3. QED
  BY <1>1, <1>2

LEMMA HoldStep == Plenty /\ CaptureInv /\ [Next]_vars => CaptureInv'
<1> SUFFICES ASSUME Plenty, CaptureInv, [Next]_vars PROVE CaptureInv'
  OBVIOUS
<1>1. CASE UNCHANGED vars
  BY <1>1 DEF vars, holder, command, drill, history, bounds, CaptureInv, HoldInv, HoldType, AskInv,
     MarkerInv, EndInv, PromiseInv, KnownInv, Capturing
<1>2. ASSUME Next PROVE CaptureInv'
  <2>1. Capturing' = Capturing
    BY <1>2, OthersIdle DEF Capturing
  <2>2. CASE Capturing
    <3>1. HoldInv /\ (revived \/ clean)
      BY <2>2 DEF CaptureInv
    <3>2. HoldInv' /\ (revived \/ clean)'
      BY <1>2, <2>2, <3>1, DrillKeeps, Pid1Step, OutsideStep, TimeStep, CaptureStep, CleanKept
         DEF Next
    <3>3. QED
      BY <2>1, <2>2, <3>2 DEF CaptureInv
  <2>3. CASE ~Capturing
    <3>1. Pid1 \/ Tick \/ Drill
      BY <1>2, <2>3, OthersIdle DEF Next
    <3>2. promise' = NoPromise /\ clean' = clean
      <4>1. CASE Pid1
        BY <2>3, <4>1 DEF CaptureInv, Pid1
      <4>2. CASE Tick
        BY <2>3, <4>2 DEF CaptureInv, Tick, Lower, NoPromise
      <4>3. CASE Drill
        BY <2>3, <4>3, DrillKeeps DEF CaptureInv, history
      <4>4. QED
        BY <3>1, <4>1, <4>2, <4>3
    <3>3. clean
      BY <2>3 DEF CaptureInv
    <3>4. QED
      BY <2>1, <2>3, <3>2, <3>3 DEF CaptureInv
  <2>4. QED
    BY <2>2, <2>3
<1>3. QED
  BY <1>1, <1>2

(* A check that passes keeps its promise.                                     *)
THEOREM PromiseTheorem == ASSUME Plenty PROVE Spec => []PromiseKept
<1>1. Init => CaptureInv
  BY HoldInit
<1>2. CaptureInv /\ [Next]_vars => CaptureInv'
  BY HoldStep
<1>3. CaptureInv => PromiseKept
  BY DEF CaptureInv, HoldInv, PromiseInv, PromiseKept, NoPromise
<1>4. QED
  BY <1>1, <1>2, <1>3, PTL DEF Spec

(* Old evidence is never good again.                                          *)
THEOREM EvidenceTheorem == ASSUME Plenty PROVE Spec => []Undisturbed
<1>1. Init => CaptureInv
  BY HoldInit
<1>2. CaptureInv /\ [Next]_vars => CaptureInv'
  BY HoldStep
<1>3. CaptureInv => Undisturbed
  BY DEF CaptureInv, Undisturbed
<1>4. QED
  BY <1>1, <1>2, <1>3, PTL DEF Spec
-----------------------------------------------------------------------------
(* While the wall clock is not stepped, neither end of a hold comes before    *)
(* the deadline that was rolled out.                                          *)
ReviewedInv ==
  Capturing /\ steps = 0 /\ reviewed =>
    /\ due <= MaxHold
    /\ pid1 \in {"make", "hold"} => due <= end
    /\ pid1 \in Left => due <= 0
DeadlineInv == steps \in Nat /\ ReviewedInv

LEMMA DeadlineInit == Init => DeadlineInv
<1> SUFFICES ASSUME Init PROVE DeadlineInv
  OBVIOUS
<1>1. steps = 0 /\ (reviewed => due <= MaxHold) /\ (Capturing => pid1 = "new")
  BY DEF Init
<1>2. QED
  BY <1>1 DEF DeadlineInv, ReviewedInv, Left

LEMMA DeadlineStep == CaptureInv /\ DeadlineInv /\ [Next]_vars => DeadlineInv'
<1> SUFFICES ASSUME CaptureInv, DeadlineInv, [Next]_vars PROVE DeadlineInv'
  OBVIOUS
<1> USE DEF DeadlineInv, ReviewedInv, Left
<1>1. CASE UNCHANGED vars
  BY <1>1 DEF vars, holder, bounds, history, Capturing
<1>2. ASSUME Next, ~Capturing PROVE DeadlineInv'
  <2>1. ~Capturing'
    BY <1>2, OthersIdle DEF Capturing
  <2>2. Pid1 \/ Tick \/ Drill
    BY <1>2, OthersIdle DEF Next
  <2>3. steps' = steps
    <3>1. Pid1 \/ Tick => steps' = steps
      BY DEF Pid1, Tick, bounds
    <3>2. Drill => steps' = steps
      BY DrillKeeps DEF bounds
    <3>3. QED
      BY <2>2, <3>1, <3>2
  <2>4. QED
    BY <2>1, <2>3
<1>3. ASSUME Capturing, Capturing', Next PROVE DeadlineInv'
  <2>1. HoldInv
    BY <1>3 DEF CaptureInv
  <2>2. CASE Pid1
    <3>1. UNCHANGED <<due, reviewed, steps>>
      BY <2>2 DEF Pid1, bounds, Clear, Judge, Publish, Expire, Release, Exec
    <3>2. pid1' \in {"make", "hold"} =>
            (pid1 \in {"make", "hold"} /\ end' = end) \/ end' = due
      BY <2>2 DEF Pid1, Clear, Judge, Publish, Expire, Release, Exec, Native
    <3>3. pid1' \in Left =>
            \/ pid1 \in Left
            \/ pid1 = "hold" /\ (due <= 0 \/ end <= 0)
            \/ ~(0 < due /\ due <= MaxHold)
      BY <2>2 DEF Pid1, Clear, Judge, Publish, Expire, Release, Exec, Native
    <3>4. due \in Int /\ end \in Nat /\ MaxHold \in Nat
      BY <2>1, HoldAssumption DEF HoldInv, HoldType
    <3>5. QED
      BY <1>3, <3>1, <3>2, <3>3, <3>4
  <2>3. CASE Terminate \/ Kill
    BY <2>3 DEF Terminate, Kill, Gone, history
  <2>4. CASE Restart
    BY <2>4, <1>3 DEF Restart, history, bounds
  <2>5. CASE Rollout
    <3>1. reviewed' = (due' <= MaxHold) /\ pid1' = "new" /\ steps' = steps
      BY <2>5 DEF Rollout
    <3>2. QED
      BY <3>1
  <2>6. CASE Tick
    <3>1. /\ UNCHANGED <<pid1, reviewed, steps>>
          /\ due' = Lower(due, -MaxSteps) /\ end' = Lower(end, 0)
      BY <2>6 DEF Tick, bounds
    <3>2. due \in Int /\ end \in Nat /\ MaxSteps \in Nat /\ MaxHold \in Nat
      BY <2>1, HoldAssumption DEF HoldInv, HoldType
    <3>3. /\ due <= MaxHold => due' <= MaxHold
          /\ due <= 0 => due' <= 0
          /\ due <= end => due' <= end'
      BY <3>1, <3>2 DEF Lower
    <3>4. QED
      BY <1>3, <3>1, <3>3
  <2>7. CASE StepClock
    <3>1. steps' = steps + 1
      BY <2>7 DEF StepClock
    <3>2. QED
      BY <3>1
  <2>8. CASE Capture
    <3>1. UNCHANGED <<pid1, due, end, reviewed, steps>>
      BY <2>8 DEF Capture, CaptureReads, CaptureStatus, CaptureCheck, CaptureGoesOn, holder,
         history, bounds
    <3>2. QED
      BY <1>3, <3>1
  <2>9. QED
    BY <1>3, <2>2, <2>3, <2>4, <2>5, <2>6, <2>7, <2>8, DrillKeeps DEF Next
<1>4. QED
  BY <1>1, <1>2, <1>3, OthersIdle DEF Capturing

(* No kill or restart lets a writer start before a reviewed deadline.         *)
THEOREM DeadlineTheorem == ASSUME Plenty PROVE Spec => []DeadlineHolds
<1>1. Init => CaptureInv
  BY HoldInit
<1>2. CaptureInv /\ [Next]_vars => CaptureInv'
  BY HoldStep
<1>3. DeadlineInv => DeadlineHolds
  BY DEF DeadlineInv, ReviewedInv, DeadlineHolds, Left
<1>4. QED
  BY <1>1, <1>2, <1>3, DeadlineInit, DeadlineStep, PTL DEF Spec
-----------------------------------------------------------------------------
(* The drills.  A drill works against one container, whose holder nobody      *)
(* else disturbs; its place says what it knows of it.                         *)

(* The hold of this start was published and has not ended before its end.     *)
InHold == pid1 \in {"hold"} \cup Left /\ (pid1 \in Left => Expired)

(* A check asked for more than is left.                                       *)
Short == \E m \in Minimums : due < m \/ end < m

(* The drill has not reported anything yet.                                   *)
Silent == outcome = ""

DrillCore ==
  /\ client \in AllClients /\ at \in 0..Len(Steps)
  /\ ~revived /\ HoldType /\ AskInv /\ MarkerInv /\ EndInv /\ due <= MaxHold
  /\ pid1 \in {"hold", "clean"} => marker # None
  /\ pid1 \notin {"new", "down"} /\ marker # None => marker.start = start

(* Begin is six steps; a replacement is killed at the seventh, and is awaited *)
(* at the ninth and known at the eleventh.                                    *)
Replaced(n) == client[2] /\ at > n
Awaited     == at > 3 /\ ~(client[2] /\ at \in {8, 9})
PlaceInv ==
  at > 0 /\ Silent =>
    /\ at <= 4 => known = None /\ first = None
    /\ at > 4 /\ ~Replaced(7) => known = start /\ first = start
    /\ client[2] /\ at \in {8, 9, 10} => known = first /\ first # None
    /\ client[2] /\ at \in {9, 10} => start # first
    /\ Replaced(10) => known = start /\ first # start
    /\ At("await") => pid1 # "down"
    /\ Awaited => InHold /\ (got # None => got.start = start)
    /\ At("stale") /\ (client[2] => at > 12) => Expired

(* What an answer of the holder means at the step that asked.                 *)
AnswerInv ==
  /\ ~Asking => stage = "idle"
  /\ stage = "answered" => reply \in {"absent", "rejected", "valid"}
  /\ stage = "answered" /\ reply = "valid" => got # None /\ got.start = start
  /\ stage = "answered" /\ reply = "absent" /\ Awaited => Expired
  /\ stage = "answered" /\ reply = "rejected" /\ (At("probe") \/ At("poll")) => Short
  /\ stage = "answered" /\ reply = "rejected" /\ At("gone") => Expired
  /\ stage = "answered" /\ At("stale") => reply # "valid"
  /\ stage = "looked" => At("watch") /\ reply \in {"writer", "no writer"}
  /\ stage = "looked" /\ reply = "writer" => Expired

(* What a drill has reported stays true while it cleans up.                   *)
OutcomeInv ==
  ~Silent =>
    /\ at = 0 \/ At("unmonitor") \/ At("cleanup")
    /\ outcome \in {"receipt", "docker", "unread", "take", "probe", "absent"}
    /\ outcome \in {"take", "absent", "probe"} => pid1 \in {"hold", "down"} \cup Left
    /\ outcome \in {"take", "absent"} => Expired
    /\ outcome = "probe" => Short

Sound    == DrillCore /\ PlaceInv /\ AnswerInv /\ OutcomeInv
DrillInv == Drilling => Sound
-----------------------------------------------------------------------------
(* The program of each drill: which step stands where.                        *)
Here(s, i) == i \in 1..Len(Steps) /\ Steps[i] = s
HeadTable ==
  /\ \A i : Here("create", i) => i = 1
  /\ \A i : Here("start", i) => i = 2 \/ (client[2] /\ i = 8)
  /\ \A i : Here("await", i) => i = 3 \/ (client[2] /\ i = 9)
  /\ \A i : Here("take", i) => i = 4 \/ (client[2] /\ i = 10)
  /\ \A i : Here("kill", i) => client[2] /\ i = 7
  /\ \A i : Here("differs", i) => client[2] /\ i = 11
  /\ \A i : Here("probe", i) \/ Here("absent", i) =>
              i > 4 /\ (client[2] => i \in {5, 6, 13, 14})
TailTable ==
  /\ Len(Steps) \in Nat \ {0}
  /\ \A i : Here("stale", i) => i > 6 /\ (client[2] => i > 11)
  /\ \A i : Here("stale", i) /\ (client[2] => i > 12) => Steps[i - 1] \in {"watch", "gone"}
  /\ \A i, s :
       Here(s, i) /\ s \in {"watch", "poll", "gone", "ready", "monitor", "unmonitor", "cleanup"} =>
         i > 6 /\ (client[2] => i > 14)
  /\ \A i : i \in 1..Len(Steps) /\ Steps[i] # "cleanup" => i + 1 \in 1..Len(Steps)
  /\ CleanupStart \in 1..Len(Steps) /\ Steps[CleanupStart] \in {"unmonitor", "cleanup"}
  /\ \A i : Here("unmonitor", i) => Steps[i + 1] = "cleanup"
Table == HeadTable /\ TailTable

LEMMA CwaTable == client[1] = "cwa" /\ client[2] \in BOOLEAN => Table
<1> SUFFICES ASSUME client[1] = "cwa", client[2] \in BOOLEAN PROVE Table
  OBVIOUS
<1>1. CASE client[2]
  <2>1. Len(Steps) = 18
    BY <1>1 DEF Name, Steps, CwaExercise, Begin, Replace
  <2>2. /\ Steps[1] = "create" /\ Steps[2] = "start" /\ Steps[3] = "await" /\ Steps[4] = "take"
        /\ Steps[5] = "probe" /\ Steps[6] = "absent" /\ Steps[7] = "kill" /\ Steps[8] = "start"
        /\ Steps[9] = "await" /\ Steps[10] = "take" /\ Steps[11] = "differs" /\ Steps[12] = "stale"
        /\ Steps[13] = "probe" /\ Steps[14] = "absent" /\ Steps[15] = "watch" /\ Steps[16] = "stale"
        /\ Steps[17] = "ready" /\ Steps[18] = "cleanup"
    BY <1>1 DEF Name, Steps, CwaExercise, Begin, Replace
  <2>3. CleanupStart = 18
    BY <2>1, <2>2 DEF CleanupStart, Index, Name
  <2>4. HeadTable
    BY <1>1, <2>1, <2>2 DEF HeadTable, Here
  <2>5. TailTable
    BY <1>1, <2>1, <2>2, <2>3 DEF TailTable, Here
  <2>6. QED
    BY <2>4, <2>5 DEF Table
<1>2. CASE ~client[2]
  <2>1. Len(Steps) = 12
    BY <1>2 DEF Name, Steps, CwaExercise, Begin, Replace
  <2>2. /\ Steps[1] = "create" /\ Steps[2] = "start" /\ Steps[3] = "await" /\ Steps[4] = "take"
        /\ Steps[5] = "probe" /\ Steps[6] = "absent" /\ Steps[7] = "probe" /\ Steps[8] = "absent"
        /\ Steps[9] = "watch" /\ Steps[10] = "stale" /\ Steps[11] = "ready" /\ Steps[12] = "cleanup"
    BY <1>2 DEF Name, Steps, CwaExercise, Begin, Replace
  <2>3. CleanupStart = 12
    BY <2>1, <2>2 DEF CleanupStart, Index, Name
  <2>4. HeadTable
    BY <1>2, <2>1, <2>2 DEF HeadTable, Here
  <2>5. TailTable
    BY <1>2, <2>1, <2>2, <2>3 DEF TailTable, Here
  <2>6. QED
    BY <2>4, <2>5 DEF Table
<1>3. QED
  BY <1>1, <1>2

LEMMA BdlTable == client[1] = "bdl" /\ client[2] \in BOOLEAN => Table
<1> SUFFICES ASSUME client[1] = "bdl", client[2] \in BOOLEAN PROVE Table
  OBVIOUS
<1>1. CASE client[2]
  <2>1. Len(Steps) = 20
    BY <1>1 DEF Name, Steps, BdlExercise, Begin, Replace
  <2>2. /\ Steps[1] = "create" /\ Steps[2] = "start" /\ Steps[3] = "await" /\ Steps[4] = "take"
        /\ Steps[5] = "probe" /\ Steps[6] = "absent" /\ Steps[7] = "kill" /\ Steps[8] = "start"
        /\ Steps[9] = "await" /\ Steps[10] = "take" /\ Steps[11] = "differs" /\ Steps[12] = "stale"
        /\ Steps[13] = "probe" /\ Steps[14] = "absent" /\ Steps[15] = "watch" /\ Steps[16] = "stale"
        /\ Steps[17] = "ready" /\ Steps[18] = "monitor" /\ Steps[19] = "unmonitor"
        /\ Steps[20] = "cleanup"
    BY <1>1 DEF Name, Steps, BdlExercise, Begin, Replace
  <2>3. CleanupStart = 19
    BY <2>1, <2>2 DEF CleanupStart, Index, Name
  <2>4. HeadTable
    BY <1>1, <2>1, <2>2 DEF HeadTable, Here
  <2>5. TailTable
    BY <1>1, <2>1, <2>2, <2>3 DEF TailTable, Here
  <2>6. QED
    BY <2>4, <2>5 DEF Table
<1>2. CASE ~client[2]
  <2>1. Len(Steps) = 12
    BY <1>2 DEF Name, Steps, BdlExercise, Begin, Replace
  <2>2. /\ Steps[1] = "create" /\ Steps[2] = "start" /\ Steps[3] = "await" /\ Steps[4] = "take"
        /\ Steps[5] = "probe" /\ Steps[6] = "absent" /\ Steps[7] = "watch" /\ Steps[8] = "stale"
        /\ Steps[9] = "ready" /\ Steps[10] = "monitor" /\ Steps[11] = "unmonitor"
        /\ Steps[12] = "cleanup"
    BY <1>2 DEF Name, Steps, BdlExercise, Begin, Replace
  <2>3. CleanupStart = 11
    BY <2>1, <2>2 DEF CleanupStart, Index, Name
  <2>4. HeadTable
    BY <1>2, <2>1, <2>2 DEF HeadTable, Here
  <2>5. TailTable
    BY <1>2, <2>1, <2>2, <2>3 DEF TailTable, Here
  <2>6. QED
    BY <2>4, <2>5 DEF Table
<1>3. QED
  BY <1>1, <1>2

LEMMA ChaptarrTable == client[1] = "chaptarr" /\ client[2] \in BOOLEAN => Table
<1> SUFFICES ASSUME client[1] = "chaptarr", client[2] \in BOOLEAN PROVE Table
  OBVIOUS
<1>1. CASE client[2]
  <2>1. Len(Steps) = 19
    BY <1>1 DEF Name, Steps, ChaptarrExercise, Begin, Replace
  <2>2. /\ Steps[1] = "create" /\ Steps[2] = "start" /\ Steps[3] = "await" /\ Steps[4] = "take"
        /\ Steps[5] = "probe" /\ Steps[6] = "absent" /\ Steps[7] = "kill" /\ Steps[8] = "start"
        /\ Steps[9] = "await" /\ Steps[10] = "take" /\ Steps[11] = "differs" /\ Steps[12] = "stale"
        /\ Steps[13] = "probe" /\ Steps[14] = "absent" /\ Steps[15] = "poll" /\ Steps[16] = "gone"
        /\ Steps[17] = "stale" /\ Steps[18] = "ready" /\ Steps[19] = "cleanup"
    BY <1>1 DEF Name, Steps, ChaptarrExercise, Begin, Replace
  <2>3. CleanupStart = 19
    BY <2>1, <2>2 DEF CleanupStart, Index, Name
  <2>4. HeadTable
    BY <1>1, <2>1, <2>2 DEF HeadTable, Here
  <2>5. TailTable
    BY <1>1, <2>1, <2>2, <2>3 DEF TailTable, Here
  <2>6. QED
    BY <2>4, <2>5 DEF Table
<1>2. CASE ~client[2]
  <2>1. Len(Steps) = 11
    BY <1>2 DEF Name, Steps, ChaptarrExercise, Begin, Replace
  <2>2. /\ Steps[1] = "create" /\ Steps[2] = "start" /\ Steps[3] = "await" /\ Steps[4] = "take"
        /\ Steps[5] = "probe" /\ Steps[6] = "absent" /\ Steps[7] = "poll" /\ Steps[8] = "gone"
        /\ Steps[9] = "stale" /\ Steps[10] = "ready" /\ Steps[11] = "cleanup"
    BY <1>2 DEF Name, Steps, ChaptarrExercise, Begin, Replace
  <2>3. CleanupStart = 11
    BY <2>1, <2>2 DEF CleanupStart, Index, Name
  <2>4. HeadTable
    BY <1>2, <2>1, <2>2 DEF HeadTable, Here
  <2>5. TailTable
    BY <1>2, <2>1, <2>2, <2>3 DEF TailTable, Here
  <2>6. QED
    BY <2>4, <2>5 DEF Table
<1>3. QED
  BY <1>1, <1>2

LEMMA StepTable == client \in AllClients /\ Drilling => Table
<1> SUFFICES ASSUME client \in AllClients, Drilling PROVE Table
  OBVIOUS
<1>1. client # <<"capture", FALSE>>
  <2>1. ASSUME client = <<"capture", FALSE>> PROVE client[1] = "capture"
    BY <2>1
  <2>2. QED
    BY <2>1 DEF Drilling, Capturing
<1>2. client \in {"cwa", "bdl", "chaptarr"} \X BOOLEAN
  BY <1>1 DEF AllClients
<1>3. client[1] \in {"cwa", "bdl", "chaptarr"} /\ client[2] \in BOOLEAN
  BY <1>2
<1>4. QED
  BY <1>3, CwaTable, BdlTable, ChaptarrTable

(* What PID 1 and time do to a hold, whoever the client is.                   *)
LEMMA CorePid1 == Plenty /\ DrillCore /\ Pid1 => DrillCore'
<1> SUFFICES ASSUME Plenty, DrillCore, Pid1 PROVE DrillCore'
  OBVIOUS
<1> USE DEF DrillCore, HoldType, AskInv, MarkerInv, EndInv, Left
<1>0. /\ UNCHANGED <<client, stage, got, reply, known, promise, clean, reviewed, revived, at>>
      /\ UNCHANGED due
  BY DEF Pid1, command, drill, bounds, Clear, Judge, Publish, Expire, Release, Exec
<1>01. Steps' = Steps
  BY <1>0 DEF Steps, Name, CwaExercise, BdlExercise, ChaptarrExercise
<1>1. CASE Clear
  BY <1>0, <1>01, <1>1 DEF Clear, RemoveMarker
<1>2. CASE Judge
  <2>1. CASE pid1' = "make" /\ end' = due /\ 0 < due /\ UNCHANGED wrote
    BY <1>0, <1>01, <1>2, <2>1 DEF Judge
  <2>2. CASE Native /\ UNCHANGED end
    BY <1>0, <1>01, <1>2, <2>2 DEF Judge, Native
  <2>3. QED
    BY <1>2, <2>1, <2>2 DEF Judge
<1>3. CASE Publish
  <2>1. marker' \in Stamps /\ marker'.start = start /\ marker'.end = end
    BY <1>3 DEF Publish, Stamps
  <2>2. marker' # None
    BY <2>1 DEF Plenty
  <2>3. QED
    BY <1>0, <1>01, <1>3, <2>1, <2>2 DEF Publish
<1>4. CASE Expire
  BY <1>0, <1>01, <1>4 DEF Expire
<1>5. CASE Release
  BY <1>0, <1>01, <1>5 DEF Release, RemoveMarker
<1>6. CASE Exec
  BY <1>0, <1>01, <1>6 DEF Exec, Native
<1>7. QED
  BY <1>1, <1>2, <1>3, <1>4, <1>5, <1>6 DEF Pid1

LEMMA CoreTick ==
  Plenty /\ DrillCore /\ Tick => DrillCore' /\ (Expired => Expired') /\ (Short => Short')
<1> SUFFICES ASSUME Plenty, DrillCore, Tick
             PROVE  DrillCore' /\ (Expired => Expired') /\ (Short => Short')
  OBVIOUS
<1> USE DEF DrillCore, HoldType, AskInv, MarkerInv, EndInv, Left
<1>1. /\ due' \in Int /\ end' \in Nat
      /\ due <= 0 => due' <= 0
      /\ end <= 0 => end' <= 0
      /\ due' <= MaxHold
  BY HoldAssumption DEF Tick, Lower
<1>12. ASSUME NEW m \in Minimums PROVE (due < m => due' < m) /\ (end < m => end' < m)
  <2>1. m \in Int /\ m > 0 /\ MaxSteps \in Nat
    BY HoldAssumption
  <2>2. due' = Lower(due, -MaxSteps) /\ end' = Lower(end, 0)
    BY DEF Tick
  <2>3. QED
    BY <2>1, <2>2 DEF Lower
<1>2. marker' = Pass(marker) /\ got' = Pass(got)
  BY DEF Tick
<1>3. /\ got' = None <=> got = None
      /\ marker' = None <=> marker = None
      /\ marker' # None => marker # None /\ marker' \in Stamps /\ marker'.start = marker.start
                           /\ marker'.end = Lower(marker.end, 0)
      /\ got' # None => got # None /\ got' \in Stamps /\ got'.start = got.start
                        /\ got'.end = Lower(got.end, 0)
  BY <1>2, StampPasses
<1>4. promise' \in [start : Starts \cup {None}, left : Nat]
  BY DEF Tick, Lower
<1>5. end' = Lower(end, 0)
  BY DEF Tick
<1>6. UNCHANGED <<client, pid1, start, stage, reply, known, wrote, clean, reviewed, revived, at>>
  BY DEF Tick, drill
<1>7. Steps' = Steps
  BY <1>6 DEF Steps, Name, CwaExercise, BdlExercise, ChaptarrExercise
<1>8. AskInv' /\ MarkerInv' /\ HoldType' /\ EndInv'
  BY <1>1, <1>2, <1>3, <1>4, <1>5, <1>6
<1>9. DrillCore'
  BY <1>1, <1>3, <1>6, <1>7, <1>8
<1>10. (Expired => Expired') /\ (Short => Short')
  BY <1>1, <1>12 DEF Expired, Short
<1>11. QED
  BY <1>9, <1>10

(* A step of a drill that leaves the holder alone and has no command under    *)
(* way afterwards.                                                            *)
Calm == UNCHANGED <<client, holder, history>> /\ stage' = "idle" /\ got' = None

LEMMA SameProgram ==
  ASSUME UNCHANGED client
  PROVE  Steps' = Steps /\ (Drilling' <=> Drilling) /\ Name' = Name
  BY DEF Steps, Name, CwaExercise, BdlExercise, ChaptarrExercise, Drilling, Capturing

LEMMA CalmCore ==
  ASSUME DrillCore, Calm, at' \in 0..Len(Steps)
  PROVE  DrillCore' /\ (Expired' <=> Expired) /\ (Short' <=> Short) /\ (InHold' <=> InHold)
<1>1. Steps' = Steps
  BY SameProgram DEF Calm
<1>2. UNCHANGED <<client, pid1, start, due, end, marker, promise, wrote, clean, reviewed, revived>>
  BY DEF Calm, holder, history
<1>3. HoldType' /\ AskInv' /\ MarkerInv' /\ EndInv'
  BY <1>2 DEF Calm, DrillCore, HoldType, AskInv, MarkerInv, EndInv, Left
<1>4. QED
  BY <1>1, <1>2, <1>3 DEF DrillCore, Expired, Short, InHold, Left

LEMMA CalmAnswers ==
  ASSUME Calm
  PROVE  AnswerInv'
  BY DEF Calm, AnswerInv

(* Where a step that is not one of the cleanup stands.                        *)
LEMMA Silence ==
  /\ Advance /\ Silent => Silent'
  /\ \A why : Abort(why) /\ why \in {"docker", "unread", "take", "probe", "absent"} => ~Silent'
<1>1. Advance /\ Silent => Silent'
  BY Zenon DEF Advance, Silent
<1>2. ASSUME NEW why, Abort(why), why \in {"docker", "unread", "take", "probe", "absent"}
      PROVE  ~Silent'
  BY <1>2, Zenon DEF Abort, Silent
<1>3. QED
  BY <1>1, <1>2, Zenon

LEMMA Working ==
  ASSUME Sound, Drilling, at > 0, Steps[at] \notin {"unmonitor", "cleanup"}
  PROVE  /\ Silent /\ at \in 1..Len(Steps) /\ Table
         /\ at + 1 \in 1..Len(Steps)
<1>1. client \in AllClients /\ at \in 0..Len(Steps)
  BY DEF Sound, DrillCore
<1>2. Table
  BY <1>1, StepTable
<1>3. at \in 1..Len(Steps)
  BY <1>1, <1>2 DEF Table, TailTable
<1>4. Silent
  BY DEF Sound, OutcomeInv, At
<1>5. QED
  BY <1>2, <1>3, <1>4 DEF Table, TailTable

LEMMA AbortSound ==
  ASSUME Sound, Calm, Drilling, NEW why, Abort(why),
         why \in {"docker", "unread", "take", "probe", "absent"},
         why \in {"take", "absent", "probe"} => pid1 \in {"hold"} \cup Left,
         why \in {"take", "absent"} => Expired,
         why = "probe" => Short
  PROVE  Sound'
<1>1. Table /\ at' = CleanupStart /\ outcome' = why /\ ~Silent'
  BY StepTable, Silence DEF Abort, Sound, DrillCore
<1>2. at' \in 1..Len(Steps) /\ Steps[at'] \in {"unmonitor", "cleanup"} /\ Len(Steps) \in Nat
  BY <1>1 DEF Table, TailTable
<1>3. at' \in 0..Len(Steps)
  BY <1>2
<1>4. DrillCore' /\ (Expired' <=> Expired) /\ (Short' <=> Short)
  BY <1>3, CalmCore DEF Sound
<1>5. Steps' = Steps /\ Drilling' /\ at' > 0
  BY <1>2, SameProgram DEF Calm
<1>6. At("unmonitor")' \/ At("cleanup")'
  BY <1>2, <1>5 DEF At
<1>7. UNCHANGED pid1
  BY DEF Calm, holder
<1>8. OutcomeInv'
  BY <1>1, <1>4, <1>6, <1>7 DEF OutcomeInv, Left
<1>9. PlaceInv'
  BY <1>1 DEF PlaceInv
<1>10. QED
  BY <1>4, <1>8, <1>9, CalmAnswers DEF Sound

(* The next step is done, away from the places where what a drill knows       *)
(* changes.                                                                   *)
LEMMA AdvanceSound ==
  ASSUME Sound, Calm, Drilling, at > 0, Advance, UNCHANGED <<known, first>>,
         Steps[at] \in {"differs", "probe", "stale", "absent", "watch", "poll", "gone", "ready",
                        "monitor"},
         Steps[at] \in {"watch", "gone"} => Expired
  PROVE  Sound'
<1>1. Silent /\ at \in 1..Len(Steps) /\ Table /\ at + 1 \in 1..Len(Steps)
  BY Working
<1>2. at' = at + 1 /\ at \in Nat /\ at' \in 0..Len(Steps) /\ at' > 0
  BY <1>1 DEF Advance, Table, TailTable
<1>25. Silent'
  BY <1>1, Silence
<1>3. Here(Steps[at], at)
  BY <1>1 DEF Here
<1>4. at > 4 /\ (client[2] => at \notin {7, 8, 9, 10})
  BY <1>1, <1>2, <1>3 DEF Table, HeadTable, TailTable
<1>5. DrillCore' /\ (Expired' <=> Expired) /\ (InHold' <=> InHold)
  BY <1>2, CalmCore DEF Sound
<1>6. UNCHANGED <<client, pid1, start>> /\ got' = None
  BY DEF Calm, holder
<1>7. Steps' = Steps /\ (Drilling' <=> Drilling)
  BY <1>6, SameProgram
<1>8. Here(Steps[at'], at')
  BY <1>1, <1>2 DEF Here
<1>9. At("await")' => FALSE
  BY <1>1, <1>2, <1>4, <1>7, <1>8 DEF Table, HeadTable, At
<1>10. At("stale")' /\ (client[2] => at' > 12) => Expired
  <2> SUFFICES ASSUME At("stale")', client[2] => at' > 12 PROVE Expired
    OBVIOUS
  <2>1. Here("stale", at')
    BY <1>7, <1>8 DEF At
  <2>2. Steps[at' - 1] \in {"watch", "gone"}
    BY <1>1, <1>2, <2>1 DEF Table, TailTable
  <2>3. at' - 1 = at
    BY <1>2
  <2>4. QED
    BY <2>2, <2>3
<1>11. PlaceInv'
  BY <1>1, <1>2, <1>25, <1>4, <1>5, <1>6, <1>9, <1>10 DEF Sound, PlaceInv, Replaced, Awaited
<1>12. OutcomeInv'
  BY <1>25 DEF OutcomeInv
<1>13. QED
  BY <1>5, <1>11, <1>12, CalmAnswers DEF Sound

(* Where a drill asks the holder.                                             *)
LEMMA AskPlace ==
  ASSUME Sound, Asking
  PROVE  /\ Drilling /\ at > 0 /\ at \in Nat /\ Silent /\ Table
         /\ At("await") \/ Awaited
         /\ Awaited => InHold /\ (got # None => got.start = start)
         /\ pid1 # "down"
         /\ At("probe") \/ At("poll") \/ At("watch") => known = start
         /\ At("stale") => Expired \/ first # start
<1>1. /\ Drilling /\ at > 0
      /\ Steps[at] \in {"await", "take", "probe", "stale", "poll", "gone", "watch"}
  BY DEF Asking, At
<1>2. Silent /\ at \in 1..Len(Steps) /\ Table
  BY <1>1, Working
<1>3. at \in Nat /\ Here(Steps[at], at)
  BY <1>2 DEF Here, Table, TailTable
<1>4. /\ Steps[at] = "await" \/ (at > 3 /\ (client[2] => at \notin {8, 9}))
      /\ Steps[at] \in {"probe", "poll", "watch"} =>
           at > 4 /\ (client[2] => at \in {5, 6} \/ at > 12)
      /\ Steps[at] = "stale" => at > 4 /\ (client[2] => at > 11)
  BY <1>1, <1>2, <1>3 DEF Table, HeadTable, TailTable
<1>5. At("await") \/ Awaited
  BY <1>1, <1>4 DEF At, Awaited
<1>6. Awaited => InHold /\ (got # None => got.start = start)
  BY <1>1, <1>2 DEF Sound, PlaceInv
<1>7. pid1 # "down"
  BY <1>1, <1>2, <1>5, <1>6 DEF Sound, PlaceInv, InHold, Left
<1>8. At("probe") \/ At("poll") \/ At("watch") => known = start
  <2> SUFFICES ASSUME At("probe") \/ At("poll") \/ At("watch") PROVE known = start
    OBVIOUS
  <2>1. at > 4 /\ (client[2] => at \in {5, 6} \/ at > 12)
    BY <1>4 DEF At
  <2>2. QED
    BY <1>1, <1>2, <1>3, <2>1 DEF Sound, PlaceInv, Replaced
<1>9. At("stale") => Expired \/ first # start
  <2> SUFFICES ASSUME At("stale") PROVE Expired \/ first # start
    OBVIOUS
  <2>1. at > 4 /\ (client[2] => at > 11)
    BY <1>4 DEF At
  <2>2. QED
    BY <1>1, <1>2, <1>3, <2>1 DEF Sound, PlaceInv, Replaced
<1>10. QED
  BY <1>1, <1>2, <1>3, <1>5, <1>6, <1>7, <1>8, <1>9

(* What read_marker finds.                                                    *)
LEMMA ReadAnswers ==
  ASSUME Plenty, Sound, Asking, Read \/ Identify,
         UNCHANGED <<client, holder, known, drill, history>>
  PROVE  /\ AskInv' /\ (got' # None => got' \in Stamps)
         /\ got' # None /\ got'.start = start => pid1 \in {"hold"} \cup Left /\ got'.end = end
         /\ got' # None /\ got'.start = start /\ pid1 \in Left => due <= 0 \/ end <= 0
         /\ Awaited => (got' # None => got'.start = start)
         /\ stage' = "answered" => reply' \in {"absent", "rejected"}
         /\ stage' = "answered" /\ Awaited => Expired
         /\ stage' \in {"answered", "read", "same"}
<1>1. pid1 # "down" /\ (Awaited => InHold /\ (got # None => got.start = start))
  BY AskPlace
<1>2. HoldType /\ AskInv /\ MarkerInv /\ EndInv /\ ~revived
      /\ (pid1 \in {"hold", "clean"} => marker # None)
      /\ (pid1 \notin {"new", "down"} /\ marker # None => marker.start = start)
  BY DEF Sound, DrillCore
<1>3. UNCHANGED <<pid1, start, due, end, marker>>
  BY DEF holder
<1>4. CASE Read /\ marker = None
  BY <1>1, <1>2, <1>3, <1>4 DEF Read, Answer, AskInv, InHold, Left
<1>5. CASE Read /\ marker # None
  <2>1. stage' = "read" /\ got' = marker
    BY <1>5 DEF Read
  <2>2. pid1 # "new" /\ pid1 # "down" /\ marker.start = start => pid1 \in {"hold", "clean"}
    BY <1>1, <1>2, <1>5 DEF MarkerInv
  <2>3. Awaited => marker.start = start
    BY <1>1, <1>2, <1>5 DEF InHold, Left
  <2>4. QED
    BY <1>1, <1>2, <1>3, <1>5, <2>1, <2>2, <2>3
       DEF HoldType, AskInv, MarkerInv, EndInv, Left
<1>6. CASE Identify
  <2>1. /\ stage = "read" /\ got' = got /\ got # None
        /\ Identity(got) => stage' = "same"
        /\ ~Identity(got) => stage' = "answered" /\ reply' = "rejected"
    <3>1. stage = "read" /\ got' = got
      BY <1>6 DEF Identify
    <3>2. got # None
      BY <1>2, <3>1 DEF AskInv
    <3>3. CASE Identity(got)
      BY <1>6, <3>1, <3>2, <3>3 DEF Identify
    <3>4. CASE ~Identity(got)
      BY <1>6, <3>1, <3>2, <3>4 DEF Identify, Answer
    <3>5. QED
      BY <3>1, <3>2, <3>3, <3>4
  <2>2. Awaited /\ ~Identity(got) => Expired
    BY <1>1, <2>1 DEF Identity, Held, InHold, Left
  <2>3. QED
    BY <1>1, <1>2, <1>3, <2>1, <2>2 DEF Identity, HoldType, AskInv, MarkerInv, EndInv, Left
<1>7. QED
  BY <1>4, <1>5, <1>6

(* What evidence, status and check answer.                                    *)
LEMMA CheckAnswers ==
  ASSUME Plenty, Minimums # {}, Sound, Asking, UNCHANGED <<client, holder, known, drill, history>>,
         \/ At("stale") /\ Check(first, 1)
         \/ (At("probe") \/ At("poll")) /\ \E minimum \in Minimums : Check(known, minimum)
         \/ (At("await") \/ At("take") \/ At("gone") \/ At("watch"))
              /\ IF Name = "chaptarr" THEN Status ELSE Evidence
  PROVE  /\ stage = "same" /\ stage' = "answered" /\ got' = got /\ reply' \in {"rejected", "valid"}
         /\ reply' = "rejected" /\ (At("probe") \/ At("poll")) => Short
         /\ reply' = "rejected" /\ At("gone") => Expired
         /\ At("stale") => reply' # "valid"
<1>1. HoldType /\ AskInv /\ MarkerInv /\ due <= MaxHold /\ due \in Int /\ end \in Nat
  BY DEF Sound, DrillCore, HoldType
<1>2. stage = "same" /\ stage' = "answered" /\ got' = got
  BY DEF Check, Status, Evidence, Answer
<1>3. got # None /\ got.start = start /\ got.end = end
  BY <1>1, <1>2 DEF AskInv, MarkerInv
<1>4. /\ Remaining(got) \in Int /\ Remaining(got) <= MaxHold
      /\ \A m \in Minimums : ~(m <= Remaining(got)) => due < m \/ end < m
      /\ ~(1 <= Remaining(got)) <=> Expired
  BY <1>1, <1>3, HoldAssumption DEF Remaining, Expired
<1>5. CASE At("stale") /\ Check(first, 1)
  <2>1. Expired \/ first # start
    BY <1>5, AskPlace
  <2>2. reply' = "rejected"
    BY <1>3, <1>4, <1>5, <2>1 DEF Check, Answer
  <2>3. QED
    BY <1>2, <1>5, <2>2 DEF At
<1>6. CASE (At("probe") \/ At("poll")) /\ \E minimum \in Minimums : Check(known, minimum)
  <2>1. PICK m \in Minimums : Check(known, m)
    BY <1>6
  <2>2. known = start
    BY <1>6, AskPlace
  <2>3. reply' \in {"rejected", "valid"} /\ (reply' = "rejected" => ~(m <= Remaining(got)))
    BY <1>3, <1>4, <2>1, <2>2 DEF Check, Answer
  <2>4. reply' = "rejected" => Short
    BY <1>4, <2>3 DEF Short
  <2>5. QED
    BY <1>2, <1>6, <2>3, <2>4 DEF At
<1>7. CASE /\ At("await") \/ At("take") \/ At("gone") \/ At("watch")
           /\ IF Name = "chaptarr" THEN Status ELSE Evidence
  <2>1. reply' \in {"rejected", "valid"} /\ (reply' = "rejected" => Expired)
    BY <1>4, <1>7 DEF Status, Evidence, Answer
  <2>2. QED
    BY <1>2, <1>7, <2>1 DEF At
<1>8. QED
  BY <1>5, <1>6, <1>7

LEMMA AsksSound == Plenty /\ Minimums # {} /\ Sound /\ DrillAsks => Sound'
<1> SUFFICES ASSUME Plenty, Minimums # {}, Sound, DrillAsks PROVE Sound'
  OBVIOUS
<1>1. Asking /\ UNCHANGED <<client, holder, known, drill, history>>
  BY DEF DrillAsks
<1>2. /\ UNCHANGED <<client, pid1, start, due, end, marker, known, first, at, outcome, promise>>
      /\ UNCHANGED <<wrote, clean, reviewed, revived>>
  BY <1>1 DEF holder, drill, history
<1>3. Steps' = Steps /\ (Drilling' <=> Drilling)
  BY <1>2, SameProgram
<1>4. /\ Expired' <=> Expired
      /\ Short' <=> Short
      /\ InHold' <=> InHold
      /\ Awaited' <=> Awaited
      /\ Silent' <=> Silent
  BY <1>2 DEF Expired, Short, InHold, Left, Awaited, Silent
<1>5. /\ At("await")' <=> At("await")
      /\ At("stale")' <=> At("stale")
      /\ At("probe")' <=> At("probe")
      /\ At("poll")' <=> At("poll")
      /\ At("gone")' <=> At("gone")
      /\ Asking' <=> Asking
  BY <1>2, <1>3 DEF At, Asking
<1>6. Silent /\ at > 0 /\ pid1 # "down" /\ (At("await") \/ Awaited)
      /\ (Awaited => InHold /\ (got # None => got.start = start))
  BY <1>1, AskPlace
<1>7. HoldType /\ AskInv /\ MarkerInv /\ EndInv /\ ~revived
  BY DEF Sound, DrillCore
<1>8. \/ Read \/ Identify
      \/ At("stale") /\ Check(first, 1)
      \/ (At("probe") \/ At("poll")) /\ \E minimum \in Minimums : Check(known, minimum)
      \/ (At("await") \/ At("take") \/ At("gone") \/ At("watch"))
           /\ IF Name = "chaptarr" THEN Status ELSE Evidence
  BY DEF DrillAsks
<1>9. /\ AskInv' /\ (got' # None => got' \in Stamps)
      /\ got' # None /\ got'.start = start => pid1 \in {"hold"} \cup Left /\ got'.end = end
      /\ got' # None /\ got'.start = start /\ pid1 \in Left => due <= 0 \/ end <= 0
      /\ Awaited => (got' # None => got'.start = start)
      /\ AnswerInv'
  <2>1. CASE Read \/ Identify
    <3>1. /\ AskInv' /\ (got' # None => got' \in Stamps)
          /\ got' # None /\ got'.start = start => pid1 \in {"hold"} \cup Left /\ got'.end = end
          /\ got' # None /\ got'.start = start /\ pid1 \in Left => due <= 0 \/ end <= 0
          /\ Awaited => (got' # None => got'.start = start)
          /\ stage' = "answered" => reply' \in {"absent", "rejected"}
          /\ stage' = "answered" /\ Awaited => Expired
          /\ stage' \in {"answered", "read", "same"}
      BY <1>1, <2>1, ReadAnswers
    <3>2. Expired => Short
      <4>1. PICK m \in Minimums : TRUE
        OBVIOUS
      <4>2. m \in Int /\ m > 0
        BY HoldAssumption
      <4>3. QED
        BY <1>7, <4>1, <4>2 DEF Expired, Short, HoldType
    <3>3. AnswerInv'
      BY <1>1, <1>3, <1>4, <1>5, <1>6, <3>1, <3>2 DEF AnswerInv, At
    <3>4. QED
      BY <3>1, <3>3
  <2>2. CASE ~(Read \/ Identify)
    <3>1. /\ stage = "same" /\ stage' = "answered" /\ got' = got /\ reply' \in {"rejected", "valid"}
          /\ reply' = "rejected" /\ (At("probe") \/ At("poll")) => Short
          /\ reply' = "rejected" /\ At("gone") => Expired
          /\ At("stale") => reply' # "valid"
      BY <1>1, <1>8, <2>2, CheckAnswers
    <3>2. /\ got # None /\ got.start = start /\ got.end = end /\ got \in Stamps
          /\ pid1 \in {"hold"} \cup Left
          /\ (pid1 \in Left => due <= 0 \/ end <= 0)
      BY <1>7, <3>1 DEF AskInv, MarkerInv, EndInv, HoldType
    <3>3. AnswerInv'
      BY <1>1, <1>2, <1>3, <1>4, <1>5, <1>6, <3>1, <3>2 DEF AnswerInv
    <3>4. AskInv'
      BY <1>2, <1>6, <3>1, <3>2 DEF AskInv
    <3>5. QED
      BY <3>1, <3>2, <3>3, <3>4
  <2>3. QED
    BY <2>1, <2>2
<1>10. HoldType' /\ MarkerInv' /\ EndInv'
  BY <1>2, <1>7, <1>9 DEF HoldType, MarkerInv, EndInv
<1>11. DrillCore'
  BY <1>2, <1>3, <1>9, <1>10 DEF Sound, DrillCore
<1>12. PlaceInv'
  BY <1>2, <1>4, <1>5, <1>6, <1>9 DEF Sound, PlaceInv, Replaced
<1>13. OutcomeInv'
  BY <1>4, <1>6 DEF OutcomeInv
<1>14. QED
  BY <1>9, <1>11, <1>12, <1>13 DEF Sound

(* A drill asks again.                                                        *)
LEMMA StaySound ==
  ASSUME Sound, Calm, UNCHANGED <<at, outcome, known, first>>
  PROVE  Sound'
<1>1. at \in 0..Len(Steps)
  BY DEF Sound, DrillCore
<1>2. DrillCore' /\ (Expired' <=> Expired) /\ (Short' <=> Short) /\ (InHold' <=> InHold)
  BY <1>1, CalmCore DEF Sound
<1>3. UNCHANGED <<client, pid1, start>> /\ got' = None /\ (Silent' <=> Silent)
  BY DEF Calm, holder, Silent
<1>4. Steps' = Steps /\ (Drilling' <=> Drilling)
  BY <1>3, SameProgram
<1>5. /\ At("await")' <=> At("await")
      /\ At("stale")' <=> At("stale")
      /\ At("unmonitor")' <=> At("unmonitor")
      /\ At("cleanup")' <=> At("cleanup")
      /\ Awaited' <=> Awaited
  BY <1>3, <1>4 DEF At, Awaited
<1>6. PlaceInv'
  BY <1>2, <1>3, <1>5 DEF Sound, PlaceInv, Replaced
<1>7. OutcomeInv'
  BY <1>2, <1>3, <1>5 DEF Sound, OutcomeInv
<1>8. QED
  BY <1>2, <1>6, <1>7, CalmAnswers DEF Sound

(* A step that asks nothing has no command under way.                         *)
LEMMA Quiet ==
  ASSUME Sound, ~Asking, UNCHANGED <<client, holder, history>>,
         (stage' = "idle" /\ got' = None) \/ UNCHANGED command
  PROVE  Calm
  BY DEF Sound, DrillCore, AskInv, AnswerInv, Calm, command

LEMMA CreateSound == Sound /\ DrillCreate => Sound'
<1> SUFFICES ASSUME Sound, DrillCreate PROVE Sound'
  OBVIOUS
<1>1. Drilling /\ at > 0 /\ Steps[at] = "create" /\ ~Asking
  BY DEF DrillCreate, At, Asking
<1>2. Calm
  BY <1>1, Quiet DEF DrillCreate
<1>3. Silent /\ at \in 1..Len(Steps) /\ Table /\ at + 1 \in 1..Len(Steps)
  BY <1>1, Working
<1>4. at = 1
  BY <1>1, <1>3 DEF Table, HeadTable, Here
<1>5. at' = 2 /\ at' \in 0..Len(Steps) /\ Silent'
  BY <1>3, <1>4, Silence DEF DrillCreate, Advance
<1>6. DrillCore' /\ UNCHANGED <<client, known, first>>
  BY <1>2, <1>5, CalmCore DEF Sound, Calm, DrillCreate
<1>7. Steps' = Steps /\ Here(Steps[at'], at')
  BY <1>3, <1>4, <1>5, <1>6, SameProgram DEF Here
<1>8. ~At("await")' /\ ~At("stale")'
  BY <1>3, <1>5, <1>7 DEF Table, HeadTable, TailTable, At
<1>9. known = None /\ first = None
  BY <1>3, <1>4 DEF Sound, PlaceInv
<1>10. PlaceInv'
  BY <1>5, <1>6, <1>8, <1>9 DEF PlaceInv, Replaced, Awaited
<1>11. OutcomeInv'
  BY <1>5 DEF OutcomeInv
<1>12. QED
  BY <1>2, <1>6, <1>10, <1>11, CalmAnswers DEF Sound

LEMMA StartSound == Plenty /\ Sound /\ DrillStart => Sound'
<1> SUFFICES ASSUME Plenty, Sound, DrillStart PROVE Sound'
  OBVIOUS
<1>1. Drilling /\ at > 0 /\ Steps[at] = "start" /\ ~Asking
  BY DEF DrillStart, At, Asking
<1>2. stage = "idle" /\ got = None /\ UNCHANGED <<stage, got>>
  BY <1>1 DEF Sound, AnswerInv, DrillCore, AskInv, DrillStart, command
<1>3. Silent /\ at \in 1..Len(Steps) /\ Table /\ at + 1 \in 1..Len(Steps)
  BY <1>1, Working
<1>4. at = 2 \/ (client[2] /\ at = 8)
  BY <1>1, <1>3 DEF Table, HeadTable, Here
<1>5. at' = at + 1 /\ at' \in 0..Len(Steps) /\ Silent'
  BY <1>3, <1>4, Silence DEF DrillStart, Advance
<1>6. /\ start' \in Starts /\ start' # first /\ (marker # None => marker.start # start')
      /\ pid1' = "new" /\ (due' = FixtureHold \/ due' = due)
      /\ UNCHANGED <<client, end, marker, known, first, promise, wrote, clean, revived>>
  BY FreshStart DEF DrillStart, history
<1>7. HoldType /\ due <= MaxHold /\ ~revived
  BY DEF Sound, DrillCore
<1>8. due' \in Int /\ due' <= MaxHold
  BY <1>6, <1>7, HoldAssumption DEF HoldType
<1>9. HoldType' /\ AskInv' /\ MarkerInv' /\ EndInv'
  BY <1>2, <1>6, <1>7, <1>8 DEF HoldType, AskInv, MarkerInv, EndInv, Left
<1>10. Steps' = Steps /\ Here(Steps[at'], at')
  BY <1>3, <1>4, <1>5, <1>6, SameProgram DEF Here
<1>11. DrillCore'
  BY <1>5, <1>6, <1>7, <1>8, <1>9, <1>10 DEF Sound, DrillCore
<1>12. ~At("stale")'
  BY <1>3, <1>4, <1>5, <1>10 DEF Table, TailTable, At
<1>13. at = 2 => known = None /\ first = None
  BY <1>3 DEF Sound, PlaceInv
<1>14. at = 8 /\ client[2] => known = first /\ first # None
  BY <1>3 DEF Sound, PlaceInv
<1>15. PlaceInv'
  BY <1>4, <1>5, <1>6, <1>12, <1>13, <1>14 DEF PlaceInv, Replaced, Awaited
<1>16. OutcomeInv' /\ AnswerInv'
  BY <1>2, <1>5 DEF OutcomeInv, AnswerInv
<1>17. QED
  BY <1>11, <1>15, <1>16 DEF Sound

LEMMA KillSound == Plenty /\ Sound /\ DrillKill => Sound'
<1> SUFFICES ASSUME Plenty, Sound, DrillKill PROVE Sound'
  OBVIOUS
<1>1. Drilling /\ at > 0 /\ Steps[at] = "kill"
  BY DEF DrillKill, At
<1>2. Silent /\ at \in 1..Len(Steps) /\ Table /\ at + 1 \in 1..Len(Steps)
  BY <1>1, Working
<1>3. at = 7 /\ client[2]
  BY <1>1, <1>2 DEF Table, HeadTable, Here
<1>4. at' = 8 /\ at' \in 0..Len(Steps) /\ Silent'
  BY <1>2, <1>3, Silence DEF DrillKill, Advance
<1>5. /\ pid1' = "down" /\ stage' = "idle" /\ got' = None
      /\ UNCHANGED <<client, start, due, end, marker, known, first, promise, wrote, clean, revived>>
  BY DEF DrillKill, Gone, history
<1>6. HoldType' /\ AskInv' /\ MarkerInv' /\ EndInv'
  BY <1>5 DEF Sound, DrillCore, HoldType, AskInv, MarkerInv, EndInv, Left
<1>7. Steps' = Steps /\ Here(Steps[at'], at')
  BY <1>2, <1>3, <1>4, <1>5, SameProgram DEF Here
<1>8. DrillCore'
  BY <1>4, <1>5, <1>6, <1>7 DEF Sound, DrillCore
<1>9. ~At("stale")' /\ ~At("await")'
  BY <1>2, <1>3, <1>4, <1>7 DEF Table, TailTable, HeadTable, At
<1>10. known = start /\ first = start /\ first # None
  BY <1>2, <1>3 DEF Sound, PlaceInv, Replaced, DrillCore, HoldType, Plenty
<1>11. PlaceInv'
  BY <1>3, <1>4, <1>5, <1>9, <1>10 DEF PlaceInv, Replaced, Awaited
<1>12. OutcomeInv' /\ AnswerInv'
  BY <1>4, <1>5 DEF OutcomeInv, AnswerInv
<1>13. QED
  BY <1>8, <1>11, <1>12 DEF Sound

(* What a drill knows when the holder has answered.                           *)
LEMMA Told ==
  ASSUME Plenty, Minimums # {}, Sound, Asking, stage = "answered"
  PROVE  /\ reply \in {"absent", "rejected", "valid"}
         /\ reply = "valid" => got # None /\ got.start = start /\ InHold
         /\ reply = "absent" /\ ~At("await") => Expired
         /\ ~At("await") => InHold
         /\ Expired => Short
<1>1. /\ At("await") \/ Awaited
      /\ Awaited => InHold
  BY AskPlace
<1>2. /\ reply \in {"absent", "rejected", "valid"}
      /\ reply = "valid" => got # None /\ got.start = start
      /\ reply = "absent" /\ Awaited => Expired
  BY DEF Sound, AnswerInv
<1>3. got # None /\ got.start = start => InHold
  BY DEF Sound, DrillCore, MarkerInv, EndInv, InHold, Left, Expired
<1>4. Expired => Short
  <2>1. PICK m \in Minimums : TRUE
    OBVIOUS
  <2>2. m \in Int /\ m > 0 /\ due \in Int /\ end \in Nat
    BY HoldAssumption DEF Sound, DrillCore, HoldType
  <2>3. QED
    BY <2>1, <2>2 DEF Expired, Short
<1>5. QED
  BY <1>1, <1>2, <1>3, <1>4

LEMMA Ends == InHold => pid1 \in {"hold"} \cup Left /\ (pid1 = "native" => Expired)
  BY DEF InHold, Left

LEMMA AwaitSound == Plenty /\ Minimums # {} /\ Sound /\ DrillAwait => Sound'
<1> SUFFICES ASSUME Plenty, Minimums # {}, Sound, DrillAwait PROVE Sound'
  OBVIOUS
<1>1. Drilling /\ at > 0 /\ Steps[at] = "await" /\ Asking /\ stage = "answered"
  BY DEF DrillAwait, At, Asking
<1>2. Calm /\ UNCHANGED <<known, first>>
  BY DEF DrillAwait, Done, Calm
<1>3. CASE reply = "valid" /\ Advance
  <2>1. Silent /\ at \in 1..Len(Steps) /\ Table /\ at + 1 \in 1..Len(Steps)
    BY <1>1, Working
  <2>2. at = 3 \/ (client[2] /\ at = 9)
    BY <1>1, <2>1 DEF Table, HeadTable, Here
  <2>3. at' = at + 1 /\ at' \in 0..Len(Steps) /\ Silent'
    BY <1>3, <2>1, <2>2, Silence DEF Advance
  <2>4. DrillCore' /\ InHold' /\ UNCHANGED <<client, pid1, start>> /\ got' = None
    BY <1>1, <1>2, <1>3, <2>3, CalmCore, Told DEF Sound, Calm, holder
  <2>5. Steps' = Steps /\ Here(Steps[at'], at')
    BY <2>1, <2>2, <2>3, <2>4, SameProgram DEF Here
  <2>6. ~At("await")' /\ ~At("stale")'
    BY <2>1, <2>2, <2>3, <2>5 DEF Table, HeadTable, TailTable, At
  <2>7. at = 3 => known = None /\ first = None
    BY <2>1 DEF Sound, PlaceInv
  <2>8. at = 9 /\ client[2] => known = first /\ first # None /\ start # first
    BY <2>1 DEF Sound, PlaceInv
  <2>9. PlaceInv'
    BY <1>2, <2>2, <2>3, <2>4, <2>6, <2>7, <2>8 DEF PlaceInv, Replaced, Awaited
  <2>10. OutcomeInv'
    BY <2>3 DEF OutcomeInv
  <2>11. QED
    BY <1>2, <2>4, <2>9, <2>10, CalmAnswers DEF Sound
<1>4. CASE UNCHANGED <<at, outcome>>
  BY <1>2, <1>4, StaySound
<1>5. CASE Abort("unread")
  BY <1>1, <1>2, <1>5, AbortSound
<1>6. QED
  BY <1>3, <1>4, <1>5 DEF DrillAwait

LEMMA TakeSound == Plenty /\ Minimums # {} /\ Sound /\ DrillTake => Sound'
<1> SUFFICES ASSUME Plenty, Minimums # {}, Sound, DrillTake PROVE Sound'
  OBVIOUS
<1>1. Drilling /\ at > 0 /\ Steps[at] = "take" /\ Asking /\ stage = "answered" /\ ~At("await")
  BY DEF DrillTake, At, Asking
<1>2. Calm
  BY DEF DrillTake, Done, Calm
<1>3. InHold /\ (reply = "absent" => Expired)
  BY <1>1, Told
<1>4. CASE reply = "valid"
  <2>1. Silent /\ at \in 1..Len(Steps) /\ Table /\ at + 1 \in 1..Len(Steps)
    BY <1>1, Working
  <2>2. at = 4 \/ (client[2] /\ at = 10)
    BY <1>1, <2>1 DEF Table, HeadTable, Here
  <2>3. at' = at + 1 /\ at' \in 0..Len(Steps) /\ Silent'
    BY <1>4, <2>1, <2>2, Silence DEF DrillTake, Advance
  <2>4. DrillCore' /\ InHold' /\ UNCHANGED <<client, pid1, start>> /\ got' = None
    BY <1>2, <1>3, <2>3, CalmCore DEF Sound, Calm, holder
  <2>5. Steps' = Steps /\ Here(Steps[at'], at')
    BY <2>1, <2>2, <2>3, <2>4, SameProgram DEF Here
  <2>6. ~At("await")'
    BY <2>1, <2>2, <2>3, <2>5 DEF Table, HeadTable, At
  <2>7. At("stale")' => ~(client[2] => at' > 12)
    BY <2>1, <2>2, <2>3, <2>5 DEF Table, TailTable, At
  <2>8. known' = start /\ first' = IF first = None THEN start ELSE first
    BY <1>1, <1>4, Told DEF DrillTake
  <2>9. /\ at = 4 => known = None /\ first = None
        /\ client[2] /\ at = 10 => first # None /\ start # first
    BY <2>1 DEF Sound, PlaceInv
  <2>10. PlaceInv'
    BY <2>2, <2>3, <2>4, <2>6, <2>7, <2>8, <2>9 DEF PlaceInv, Replaced, Awaited
  <2>11. OutcomeInv'
    BY <2>3 DEF OutcomeInv
  <2>12. QED
    BY <1>2, <2>4, <2>10, <2>11, CalmAnswers DEF Sound
<1>5. CASE reply # "valid"
  <2>1. (Abort("take") /\ reply = "absent") \/ Abort("unread")
    BY <1>5 DEF DrillTake
  <2>2. QED
    BY <1>1, <1>2, <1>3, <2>1, AbortSound, Ends
<1>6. QED
  BY <1>4, <1>5

(* Away from the first steps and a replacement the holder is the known one.   *)
LEMMA Settled ==
  ASSUME Sound, Drilling, at > 0, Steps[at] \in {"differs", "absent"}
  PROVE  InHold /\ (Steps[at] = "differs" => known # first)
<1>1. Silent /\ at \in 1..Len(Steps) /\ Table /\ at \in Nat
  BY Working DEF Table, TailTable
<1>2. Here(Steps[at], at)
  BY <1>1 DEF Here
<1>3. /\ at > 4 /\ (client[2] => at \in {5, 6, 11, 13, 14})
      /\ Steps[at] = "differs" => client[2] /\ at = 11
  BY <1>1, <1>2 DEF Table, HeadTable
<1>4. InHold
  BY <1>1, <1>3 DEF Sound, PlaceInv, Awaited
<1>5. Steps[at] = "differs" => known # first
  BY <1>1, <1>3 DEF Sound, PlaceInv, Replaced
<1>6. QED
  BY <1>4, <1>5

LEMMA LooksSound == Sound /\ (DrillDiffers \/ DrillAbsent \/ DrillReady \/ DrillMonitor) => Sound'
<1> SUFFICES ASSUME Sound, DrillDiffers \/ DrillAbsent \/ DrillReady \/ DrillMonitor PROVE Sound'
  OBVIOUS
<1>1. /\ Drilling /\ at > 0 /\ ~Asking
      /\ Steps[at] \in {"differs", "absent", "ready", "monitor"}
  BY DEF DrillDiffers, DrillAbsent, DrillReady, DrillMonitor, At, Asking
<1>2. UNCHANGED <<client, holder, command, known, first, history>>
  BY DEF DrillDiffers, DrillAbsent, DrillReady, DrillMonitor
<1>3. Calm
  BY <1>1, <1>2, Quiet
<1>4. CASE Advance
  BY <1>1, <1>2, <1>3, <1>4, AdvanceSound
<1>5. CASE ~Advance
  <2>1. ~(DrillReady \/ DrillMonitor)
    BY <1>5 DEF DrillReady, DrillMonitor
  <2>2. ~DrillDiffers
    <3> SUFFICES ASSUME DrillDiffers PROVE FALSE
      OBVIOUS
    <3>1. Steps[at] = "differs" /\ known = first
      BY <1>5 DEF DrillDiffers, At
    <3>2. QED
      BY <1>1, <3>1, Settled
  <2>3. DrillAbsent /\ Steps[at] = "absent" /\ pid1 = "native" /\ Abort("absent")
    BY <1>5, <2>1, <2>2 DEF DrillAbsent, At
  <2>4. QED
    BY <1>1, <1>3, <2>3, Settled, Ends, AbortSound
<1>6. QED
  BY <1>4, <1>5

LEMMA ProbeSound ==
  Plenty /\ Minimums # {} /\ Sound /\ (DrillProbe \/ DrillStale \/ DrillGone) => Sound'
<1> SUFFICES ASSUME Plenty, Minimums # {}, Sound, DrillProbe \/ DrillStale \/ DrillGone
             PROVE  Sound'
  OBVIOUS
<1>1. /\ Drilling /\ at > 0 /\ Asking /\ stage = "answered" /\ ~At("await")
      /\ Steps[at] \in {"probe", "stale", "gone"}
      /\ UNCHANGED <<known, first>>
  BY DEF DrillProbe, DrillStale, DrillGone, At, Asking
<1>2. Calm
  BY DEF DrillProbe, DrillStale, DrillGone, Done, Calm
<1>3. InHold /\ (reply = "absent" => Expired) /\ (Expired => Short)
      /\ reply \in {"absent", "rejected", "valid"}
  BY <1>1, Told
<1>4. CASE DrillProbe
  <2>1. CASE reply = "valid"
    <3>1. Advance /\ Steps[at] = "probe"
      BY <1>4, <2>1 DEF DrillProbe, At
    <3>2. QED
      BY <1>1, <1>2, <3>1, AdvanceSound
  <2>2. CASE reply # "valid"
    <3>1. Abort("probe")
      BY <1>4, <2>2 DEF DrillProbe
    <3>2. Short
      BY <1>1, <1>3, <1>4, <2>2 DEF Sound, AnswerInv, DrillProbe
    <3>3. QED
      BY <1>1, <1>2, <1>3, <3>1, <3>2, Ends, AbortSound
  <2>3. QED
    BY <2>1, <2>2
<1>5. CASE DrillStale
  <2>1. reply # "valid"
    BY <1>1, <1>5 DEF Sound, AnswerInv, DrillStale
  <2>2. Advance /\ Steps[at] = "stale"
    BY <1>5, <2>1 DEF DrillStale, At
  <2>3. QED
    BY <1>1, <1>2, <2>2, AdvanceSound
<1>6. CASE DrillGone
  <2>1. CASE reply = "valid"
    BY <1>2, <1>1, <1>6, <2>1, StaySound DEF DrillGone
  <2>2. CASE reply # "valid"
    <3>1. Advance
      BY <1>6, <2>2 DEF DrillGone
    <3>2. Expired
      BY <1>1, <1>3, <1>6, <2>2 DEF Sound, AnswerInv, DrillGone
    <3>3. QED
      BY <1>1, <1>2, <3>1, <3>2, AdvanceSound
  <2>3. QED
    BY <2>1, <2>2
<1>7. QED
  BY <1>4, <1>5, <1>6

LEMMA WatchSound == Plenty /\ Minimums # {} /\ Sound /\ DrillWatch => Sound'
<1> SUFFICES ASSUME Plenty, Minimums # {}, Sound, DrillWatch PROVE Sound'
  OBVIOUS
<1>1. /\ Drilling /\ at > 0 /\ Asking /\ stage = "answered" /\ ~At("await") /\ At("watch")
      /\ Steps[at] = "watch" /\ UNCHANGED <<client, holder, known, first, history>>
  BY DEF DrillWatch, At, Asking
<1>2. InHold /\ (reply = "absent" => Expired) /\ Silent /\ known = start
      /\ (reply = "valid" => got # None /\ got.start = start)
  BY <1>1, Told, AskPlace
<1>3. CASE reply = "absent"
  <2>1. Advance /\ Calm
    BY <1>1, <1>2, <1>3 DEF DrillWatch, Done, Calm
  <2>2. QED
    BY <1>1, <1>2, <1>3, <2>1, AdvanceSound
<1>4. CASE reply = "rejected"
  <2>1. Abort("unread") /\ Calm
    BY <1>1, <1>4 DEF DrillWatch, Done, Calm
  <2>2. QED
    BY <1>1, <2>1, AbortSound
<1>5. CASE reply = "valid"
  <2>1. /\ stage' = "looked" /\ UNCHANGED <<got, at, outcome>>
        /\ reply' \in {"writer", "no writer"} /\ (reply' = "writer" => pid1 = "native")
    BY <1>1, <1>2, <1>5 DEF DrillWatch
  <2>2. UNCHANGED <<client, pid1, start, due, end, marker, known, first, promise, wrote, clean,
                    revived>>
    BY <1>1 DEF holder, history
  <2>3. Steps' = Steps /\ (Drilling' <=> Drilling) /\ (Silent' <=> Silent)
    BY <2>1, <2>2, SameProgram DEF Silent
  <2>4. HoldType' /\ AskInv' /\ MarkerInv' /\ EndInv'
    BY <1>1, <1>2, <1>5, <2>1, <2>2
       DEF Sound, DrillCore, HoldType, AskInv, MarkerInv, EndInv, InHold, Left
  <2>5. DrillCore'
    BY <2>1, <2>2, <2>3, <2>4 DEF Sound, DrillCore
  <2>6. /\ At("await")' <=> At("await")
        /\ At("stale")' <=> At("stale")
        /\ At("watch")' <=> At("watch")
        /\ Asking' <=> Asking
        /\ Awaited' <=> Awaited
        /\ InHold' <=> InHold
        /\ Expired' <=> Expired
    BY <2>1, <2>2, <2>3 DEF At, Asking, Awaited, InHold, Left, Expired
  <2>7. PlaceInv'
    BY <2>1, <2>2, <2>3, <2>6 DEF Sound, PlaceInv, Replaced
  <2>8. AnswerInv'
    BY <1>1, <1>2, <2>1, <2>6, Ends DEF AnswerInv
  <2>9. OutcomeInv'
    BY <1>2, <2>3 DEF OutcomeInv
  <2>10. QED
    BY <2>5, <2>7, <2>8, <2>9 DEF Sound
<1>6. QED
  BY <1>3, <1>4, <1>5 DEF DrillWatch

LEMMA PollSound ==
  Plenty /\ Minimums # {} /\ Sound /\ (DrillLooked \/ DrillPoll) => Sound'
<1> SUFFICES ASSUME Plenty, Minimums # {}, Sound, DrillLooked \/ DrillPoll PROVE Sound'
  OBVIOUS
<1>1. UNCHANGED <<known, first>>
  BY DEF DrillLooked, DrillPoll
<1>2. CASE DrillLooked
  <2>1. reply = "no writer" \/ Expired
    BY <1>2 DEF DrillLooked, Sound, AnswerInv
  <2>2. Calm /\ UNCHANGED <<at, outcome>>
    BY <1>2, <2>1 DEF DrillLooked, Done, Calm
  <2>3. QED
    BY <1>1, <2>2, StaySound
<1>3. CASE DrillPoll
  <2>1. Drilling /\ at > 0 /\ Steps[at] = "poll" /\ Asking /\ ~At("await") /\ At("poll")
    BY <1>3 DEF DrillPoll, At, Asking
  <2>2. CASE stage = "idle"
    <3>1. Advance /\ UNCHANGED command
      BY <1>3, <2>2 DEF DrillPoll
    <3>2. Calm
      BY <1>3, <2>2, <3>1 DEF DrillPoll, Calm, command, Sound, DrillCore, AskInv
    <3>3. QED
      BY <1>1, <2>1, <3>1, <3>2, AdvanceSound
  <2>3. CASE stage # "idle"
    <3>1. stage = "answered" /\ Calm
      BY <1>3, <2>3 DEF DrillPoll, Done, Calm
    <3>2. InHold /\ (reply = "absent" => Expired) /\ (Expired => Short)
          /\ reply \in {"absent", "rejected", "valid"}
      BY <2>1, <3>1, Told
    <3>3. CASE reply = "valid" /\ pid1 # "native"
      BY <1>1, <1>3, <2>3, <3>1, <3>3, StaySound DEF DrillPoll
    <3>4. CASE ~(reply = "valid" /\ pid1 # "native")
      <4>1. Abort("probe")
        BY <1>3, <2>3, <3>4 DEF DrillPoll
      <4>2. Short
        BY <2>1, <3>1, <3>2, <3>4, Ends DEF Sound, AnswerInv
      <4>3. QED
        BY <2>1, <3>1, <3>2, <4>1, <4>2, Ends, AbortSound
    <3>5. QED
      BY <3>3, <3>4
  <2>4. QED
    BY <2>2, <2>3
<1>4. QED
  BY <1>2, <1>3

LEMMA CleanupSound == Sound /\ DrillCleanup => Sound'
<1> SUFFICES ASSUME Sound, DrillCleanup PROVE Sound'
  OBVIOUS
<1>1. /\ Drilling /\ at > 0 /\ ~Asking /\ Steps[at] \in {"unmonitor", "cleanup"}
      /\ stage' = "idle" /\ got' = None /\ UNCHANGED <<client, known, first, history>>
  BY DEF DrillCleanup, At, Asking, Done
<1>2. Table /\ at \in 1..Len(Steps) /\ Len(Steps) \in Nat
  BY <1>1, StepTable DEF Sound, DrillCore, Table, TailTable
<1>3. Here(Steps[at], at) /\ at > 6
  BY <1>1, <1>2 DEF Here, Table, TailTable
<1>4. CASE At("unmonitor") /\ Advance /\ UNCHANGED holder
  <2>1. Calm /\ Steps[at] = "unmonitor"
    BY <1>1, <1>4 DEF Calm, At
  <2>2. at' = at + 1 /\ at' \in 1..Len(Steps) /\ Steps[at'] = "cleanup"
    BY <1>2, <1>3, <1>4, <2>1 DEF Advance, Table, TailTable
  <2>3. at' \in 0..Len(Steps)
    BY <2>2
  <2>4. DrillCore' /\ (Expired' <=> Expired) /\ (Short' <=> Short) /\ (InHold' <=> InHold)
    BY <2>1, <2>3, CalmCore DEF Sound
  <2>5. UNCHANGED <<client, pid1, start, outcome>> /\ got' = None
    BY <1>1, <1>4 DEF holder, Advance
  <2>6. Steps' = Steps /\ Drilling' /\ (Silent' <=> Silent)
    BY <1>1, <2>5, SameProgram DEF Silent
  <2>7. At("cleanup")' /\ ~At("await")' /\ ~At("stale")'
    BY <1>2, <2>2, <2>6 DEF At
  <2>8. at > 6 /\ (client[2] => at > 14)
    BY <1>2, <1>3, <2>1 DEF Table, TailTable
  <2>9. PlaceInv'
    BY <1>1, <1>2, <2>2, <2>4, <2>5, <2>6, <2>7, <2>8 DEF Sound, PlaceInv, Replaced, Awaited
  <2>10. OutcomeInv'
    BY <2>4, <2>5, <2>6, <2>7 DEF Sound, OutcomeInv
  <2>11. QED
    BY <2>1, <2>4, <2>9, <2>10, CalmAnswers DEF Sound
<1>5. CASE /\ At("cleanup") /\ at' = 0 /\ outcome' = (IF outcome = "" THEN "receipt" ELSE outcome)
           /\ pid1' = "down" /\ UNCHANGED <<start, due, end, marker>>
  <2>1. /\ at' = 0 /\ pid1' = "down" /\ UNCHANGED <<start, due, end, marker>>
        /\ UNCHANGED <<promise, wrote, clean, revived>>
    BY <1>1, <1>5, Zenon DEF history
  <2>2. (Silent => outcome' = "receipt") /\ (~Silent => outcome' = outcome)
    BY <1>5, Zenon DEF Silent
  <2>3. Steps' = Steps
    BY <1>1, SameProgram
  <2>4. HoldType' /\ AskInv' /\ MarkerInv' /\ EndInv'
    BY <1>1, <2>1 DEF Sound, DrillCore, HoldType, AskInv, MarkerInv, EndInv, Left
  <2>5. DrillCore'
    BY <1>1, <1>2, <2>1, <2>3, <2>4 DEF Sound, DrillCore
  <2>6. (Expired' <=> Expired) /\ (Short' <=> Short)
    BY <2>1 DEF Expired, Short
  <2>7. OutcomeInv'
    BY <2>1, <2>2, <2>6 DEF Sound, OutcomeInv
  <2>8. PlaceInv' /\ AnswerInv'
    BY <1>1, <2>1 DEF PlaceInv, AnswerInv
  <2>9. QED
    BY <2>5, <2>7, <2>8 DEF Sound
<1>6. QED
  BY <1>4, <1>5, Zenon DEF DrillCleanup

LEMMA FaultSound == Sound /\ DrillFault => Sound'
<1> SUFFICES ASSUME Sound, DrillFault PROVE Sound'
  OBVIOUS
<1>1. Drilling /\ at > 0 /\ Calm /\ UNCHANGED <<client, known, first>>
  BY DEF DrillFault, Done, Calm
<1>2. CASE Abort("docker")
  BY <1>1, <1>2, AbortSound
<1>3. CASE /\ outcome' = "docker"
           /\ \/ At("unmonitor") /\ at' = at + 1
              \/ At("cleanup") /\ at' = 0
  <2>1. ~Silent'
    BY <1>3, Zenon DEF Silent
  <2>2. Table /\ Len(Steps) \in Nat
    BY <1>1, StepTable DEF Sound, DrillCore, Table, TailTable
  <2>3. Steps' = Steps /\ Drilling'
    BY <1>1, SameProgram
  <2>4. at' = 0 \/ (at' \in 1..Len(Steps) /\ Steps[at'] = "cleanup")
    <3>1. CASE At("cleanup") /\ at' = 0
      BY <3>1
    <3>2. CASE At("unmonitor") /\ at' = at + 1
      <4>1. at \in 0..Len(Steps) /\ Steps[at] = "unmonitor"
        BY <3>2 DEF Sound, DrillCore, At
      <4>2. at \in 1..Len(Steps) /\ Here("unmonitor", at)
        BY <1>1, <2>2, <4>1 DEF Here
      <4>3. QED
        BY <2>2, <3>2, <4>1, <4>2 DEF Table, TailTable
    <3>3. QED
      BY <1>3, <3>1, <3>2
  <2>5. at' = 0 \/ At("cleanup")'
    BY <2>2, <2>3, <2>4 DEF At
  <2>6. at' \in 0..Len(Steps)
    BY <2>2, <2>4
  <2>7. DrillCore'
    BY <1>1, <2>6, CalmCore DEF Sound
  <2>8. OutcomeInv'
    BY <1>3, <2>5 DEF OutcomeInv
  <2>9. PlaceInv'
    BY <2>1 DEF PlaceInv
  <2>10. QED
    BY <1>1, <2>7, <2>8, <2>9, CalmAnswers DEF Sound
<1>4. QED
  BY <1>2, <1>3 DEF DrillFault

LEMMA DrillStepSound == Plenty /\ Minimums # {} /\ Sound /\ Drill => Sound'
<1> SUFFICES ASSUME Plenty, Minimums # {}, Sound, Drill PROVE Sound'
  OBVIOUS
<1>1. DrillCreate \/ DrillStart \/ DrillKill \/ DrillAsks \/ DrillAwait \/ DrillTake => Sound'
  BY CreateSound, StartSound, KillSound, AsksSound, AwaitSound, TakeSound
<1>2. DrillDiffers \/ DrillProbe \/ DrillStale \/ DrillAbsent \/ DrillWatch \/ DrillLooked => Sound'
  BY LooksSound, ProbeSound, WatchSound, PollSound
<1>3. DrillPoll \/ DrillGone \/ DrillReady \/ DrillMonitor \/ DrillCleanup \/ DrillFault => Sound'
  BY LooksSound, ProbeSound, PollSound, CleanupSound, FaultSound
<1>4. QED
  BY <1>1, <1>2, <1>3 DEF Drill

(* While PID 1 goes on and time passes, what a drill has learnt stays true.   *)
LEMMA OthersSound == Plenty /\ Sound /\ (Pid1 \/ Tick) => Sound'
<1> SUFFICES ASSUME Plenty, Sound, Pid1 \/ Tick PROVE Sound'
  OBVIOUS
<1>1. UNCHANGED <<client, start, stage, reply, known, first, at, outcome>>
  <2>1. CASE Pid1
    BY <2>1 DEF Pid1, Clear, Judge, Publish, Expire, Release, Exec, command, drill
  <2>2. CASE Tick
    BY <2>2 DEF Tick, drill
  <2>3. QED
    BY <2>1, <2>2
<1>2. /\ pid1' = "down" <=> pid1 = "down"
      /\ got' = None <=> got = None
      /\ got # None => got'.start = got.start
  <2>1. CASE Pid1
    <3>1. pid1 # "down" /\ pid1' # "down" /\ got' = got
      BY <2>1 DEF Pid1, Clear, Judge, Publish, Expire, Release, Exec, Native, command
    <3>2. QED
      BY <3>1
  <2>2. CASE Tick
    <3>1. pid1' = pid1 /\ got' = Pass(got) /\ (got # None => got \in Stamps)
      BY <2>2 DEF Tick, Sound, DrillCore, HoldType
    <3>2. QED
      BY <3>1, StampPasses
  <2>3. QED
    BY <2>1, <2>2
<1>3. DrillCore'
  BY CorePid1, CoreTick DEF Sound
<1>4. pid1 \in {"hold", "down"} \cup Left =>
        /\ pid1' \in {"hold", "down"} \cup Left
        /\ Expired => Expired'
        /\ Short => Short'
  <2> SUFFICES ASSUME pid1 \in {"hold", "down"} \cup Left
               PROVE  /\ pid1' \in {"hold", "down"} \cup Left
                      /\ Expired => Expired'
                      /\ Short => Short'
    OBVIOUS
  <2>1. CASE Pid1
    <3>1. UNCHANGED <<due, end>> /\ pid1' \in {"hold", "down"} \cup Left
      BY <2>1 DEF Pid1, Clear, Judge, Publish, Expire, Release, Exec, Native, Left
    <3>2. QED
      BY <3>1 DEF Expired, Short
  <2>2. CASE Tick
    <3>1. pid1' = pid1
      BY <2>2 DEF Tick
    <3>2. QED
      BY <2>2, <3>1, CoreTick DEF Sound
  <2>3. QED
    BY <2>1, <2>2
<1>5. InHold => InHold'
  <2> SUFFICES ASSUME InHold PROVE InHold'
    OBVIOUS
  <2>1. CASE Pid1
    <3>1. UNCHANGED <<due, end>> /\ (pid1' = pid1 \/ (pid1 = "hold" /\ Expired) \/ pid1 \in Left)
          /\ pid1' \in {"hold"} \cup Left
      BY <2>1 DEF Pid1, Clear, Judge, Publish, Expire, Release, Exec, Native, InHold, Left, Expired
    <3>2. QED
      BY <3>1 DEF InHold, Expired
  <2>2. CASE Tick
    <3>1. pid1' = pid1
      BY <2>2 DEF Tick
    <3>2. QED
      BY <2>2, <3>1, CoreTick DEF Sound, InHold, Left
  <2>3. QED
    BY <2>1, <2>2
<1>6. Steps' = Steps /\ (Drilling' <=> Drilling) /\ (Silent' <=> Silent)
  BY <1>1, SameProgram DEF Silent
<1>7. /\ At("await")' <=> At("await")
      /\ At("stale")' <=> At("stale")
      /\ At("probe")' <=> At("probe")
      /\ At("poll")' <=> At("poll")
      /\ At("gone")' <=> At("gone")
      /\ At("watch")' <=> At("watch")
      /\ At("unmonitor")' <=> At("unmonitor")
      /\ At("cleanup")' <=> At("cleanup")
      /\ Asking' <=> Asking
      /\ Awaited' <=> Awaited
  BY <1>1, <1>6 DEF At, Asking, Awaited
<1>8. Asking => /\ At("await") \/ Awaited
                /\ Awaited => InHold
  BY AskPlace
<1>9. InHold => pid1 \in {"hold", "down"} \cup Left
  BY DEF InHold
<1>10. PlaceInv'
  <2>1. At("stale") => Asking /\ ~At("await")
    BY DEF Asking, At
  <2>2. At("stale") /\ Expired => Expired'
    BY <1>4, <1>8, <1>9, <2>1
  <2>3. QED
    BY <1>1, <1>2, <1>5, <1>7, <1>6, <2>2 DEF Sound, PlaceInv, Replaced
<1>11. AnswerInv'
  <2>1. CASE Asking
    <3>1. Awaited => (Expired => Expired') /\ (Short => Short')
      BY <1>4, <1>8, <1>9, <2>1
    <3>2. At("probe") \/ At("poll") \/ At("gone") => Awaited
      BY <1>8 DEF At, Asking
    <3>3. stage = "looked" => Awaited
      BY <1>8 DEF At, Asking, Sound, AnswerInv
    <3>4. QED
      BY <1>1, <1>2, <1>7, <2>1, <3>1, <3>2, <3>3 DEF Sound, AnswerInv
  <2>2. CASE ~Asking
    BY <1>1, <1>7, <2>2 DEF Sound, AnswerInv
  <2>3. QED
    BY <2>1, <2>2
<1>12. OutcomeInv'
  BY <1>1, <1>4, <1>6, <1>7 DEF Sound, OutcomeInv
<1>13. QED
  BY <1>3, <1>10, <1>11, <1>12 DEF Sound

LEMMA DrillInit == Plenty /\ Clients \subseteq AllClients /\ Init => DrillInv
<1> SUFFICES ASSUME Plenty, Clients \subseteq AllClients, Init, Drilling PROVE Sound
  BY DEF DrillInv
<1>1. /\ client \in AllClients /\ at = 1 /\ Silent
      /\ pid1 = "down" /\ due = FixtureHold /\ end = 0 /\ marker = None /\ start \in Starts
      /\ stage = "idle" /\ got = None /\ known = None /\ first = None
      /\ promise = NoPromise /\ wrote \in BOOLEAN /\ clean \in BOOLEAN /\ ~revived
      /\ revived \in BOOLEAN
  <2>1. Silent /\ client \in AllClients /\ at = 1 /\ pid1 = "down" /\ due = FixtureHold
    BY Zenon DEF Init, Silent, Drilling
  <2>2. end = 0 /\ marker = None /\ stage = "idle" /\ got = None /\ known = None /\ first = None
    BY Zenon DEF Init
  <2>3. promise = NoPromise /\ wrote = FALSE /\ clean = TRUE /\ revived = FALSE
    BY Zenon DEF Init
  <2>4. start = CHOOSE s \in Starts : TRUE
    BY Zenon DEF Init
  <2>5. start \in Starts
    BY <2>4 DEF Plenty
  <2>6. QED
    BY <2>1, <2>2, <2>3, <2>5
<1>2. HoldType /\ AskInv /\ MarkerInv /\ EndInv /\ due <= MaxHold
  BY <1>1, HoldAssumption DEF HoldType, AskInv, MarkerInv, EndInv, NoPromise, Left
<1>3. Table
  BY <1>1, StepTable
<1>4. at \in 0..Len(Steps) /\ ~At("await") /\ ~At("stale")
  BY <1>1, <1>3 DEF Table, HeadTable, TailTable, At, Here
<1>5. DrillCore
  BY <1>1, <1>2, <1>4 DEF DrillCore
<1>6. PlaceInv
  BY <1>1, <1>4 DEF PlaceInv, Replaced, Awaited
<1>7. OutcomeInv /\ AnswerInv
  BY <1>1 DEF OutcomeInv, AnswerInv
<1>8. QED
  BY <1>5, <1>6, <1>7 DEF Sound

LEMMA DrillStepAlways ==
  Plenty /\ Minimums # {} /\ DrillInv /\ [Next]_vars => DrillInv'
<1> SUFFICES ASSUME Plenty, Minimums # {}, DrillInv, [Next]_vars, Drilling' PROVE Sound'
  BY DEF DrillInv
<1>1. client' = client
  BY OthersIdle DEF vars
<1>2. Drilling /\ Sound
  BY <1>1 DEF Drilling, Capturing, DrillInv
<1>3. CASE UNCHANGED vars
  <2>1. UNCHANGED <<client, pid1, start, due, end, marker, stage, got, reply, known, first, at,
                    outcome, promise, wrote, clean, revived>>
    BY <1>3 DEF vars, holder, command, drill, history
  <2>2. Steps' = Steps
    BY <1>1, SameProgram
  <2>3. HoldType' /\ AskInv' /\ MarkerInv' /\ EndInv'
    BY <1>2, <2>1 DEF Sound, DrillCore, HoldType, AskInv, MarkerInv, EndInv, Left
  <2>4. DrillCore'
    BY <1>2, <2>1, <2>2, <2>3 DEF Sound, DrillCore
  <2>5. /\ At("await")' <=> At("await")
        /\ At("stale")' <=> At("stale")
        /\ At("probe")' <=> At("probe")
        /\ At("poll")' <=> At("poll")
        /\ At("gone")' <=> At("gone")
        /\ At("watch")' <=> At("watch")
        /\ At("unmonitor")' <=> At("unmonitor")
        /\ At("cleanup")' <=> At("cleanup")
        /\ Asking' <=> Asking
    BY <1>1, <2>1, <2>2 DEF At, Asking, Drilling, Capturing
  <2>6. /\ Expired' <=> Expired
        /\ Short' <=> Short
        /\ InHold' <=> InHold
        /\ Awaited' <=> Awaited
        /\ Silent' <=> Silent
    BY <2>1 DEF Expired, Short, InHold, Left, Awaited, Silent
  <2>7. PlaceInv'
    BY <1>2, <2>1, <2>5, <2>6 DEF Sound, PlaceInv, Replaced
  <2>8. AnswerInv'
    BY <1>2, <2>1, <2>5, <2>6 DEF Sound, AnswerInv
  <2>9. OutcomeInv'
    BY <1>2, <2>1, <2>5, <2>6 DEF Sound, OutcomeInv
  <2>10. QED
    BY <2>4, <2>7, <2>8, <2>9 DEF Sound
<1>4. CASE Next
  <2>1. Pid1 \/ Tick \/ Drill
    BY <1>2, <1>4, OthersIdle DEF Next, Drilling
  <2>2. QED
    BY <1>2, <2>1, DrillStepSound, OthersSound
<1>5. QED
  BY <1>3, <1>4

(* A drill blames no holder that does what it should, however its questions,  *)
(* the ticks, PID 1 and failing Docker operations interleave.  Minimums is    *)
(* not empty: every probe asks for some remaining time.                       *)
THEOREM AlarmTheorem ==
  ASSUME Plenty, Clients \subseteq AllClients, Minimums # {}
  PROVE  Spec => []NoFalseAlarm
<1>1. Init => DrillInv
  BY DrillInit
<1>2. DrillInv /\ [Next]_vars => DrillInv'
  BY DrillStepAlways
<1>3. DrillInv => NoFalseAlarm
  <2> SUFFICES ASSUME DrillInv, Drilling, outcome # ""
               PROVE  /\ outcome \in {"receipt", "docker", "unread", "take", "probe", "absent"}
                      /\ outcome \in {"take", "absent"} => Expired
                      /\ outcome = "probe" => \E m \in Minimums : due < m \/ end < m
    BY Zenon DEF NoFalseAlarm
  <2>1. Sound /\ ~Silent
    BY Zenon DEF DrillInv, Silent
  <2>2. QED
    BY <2>1, Zenon DEF Sound, OutcomeInv, Short
<1>4. QED
  BY <1>1, <1>2, <1>3, PTL DEF Spec
-----------------------------------------------------------------------------
(* Type correctness, for the capture and the drills together.                 *)

(* A command that has got past the marker, or answers "valid", has read one.  *)
CommandInv ==
  /\ stage \in {"read", "same"} => got # None
  /\ stage = "answered" /\ reply = "valid" => got # None

TypesInv == TypeOK /\ CommandInv

HolderType ==
  /\ pid1 \in {"down", "new", "clear", "make", "hold", "clean", "exec", "native"}
  /\ start \in Starts /\ due \in Int /\ end \in 0..MaxHold /\ marker \in Markers
CommandType ==
  /\ got \in Markers /\ stage \in {"idle", "read", "same", "answered", "looked"}
  /\ CommandInv
ClientType ==
  /\ client \in Clients
  /\ known \in Starts \cup {None} /\ first \in Starts \cup {None}
  /\ containers \subseteq {"app", "monitor"} /\ faults \in 0..MaxFaults
HistoryType ==
  /\ promise \in [start : Starts \cup {None}, left : 0..MaxHold]
  /\ wrote \in BOOLEAN /\ clean \in BOOLEAN /\ reviewed \in BOOLEAN /\ revived \in BOOLEAN
BoundsType ==
  /\ steps \in 0..MaxSteps /\ kills \in 0..MaxKills /\ rollouts \in 0..MaxRollouts

LEMMA TypeGroups ==
  /\ TypesInv <=> HolderType /\ CommandType /\ ClientType /\ HistoryType /\ BoundsType
  /\ TypesInv' <=> HolderType' /\ CommandType' /\ ClientType' /\ HistoryType' /\ BoundsType'
  BY DEF TypesInv, TypeOK, HolderType, CommandType, ClientType, HistoryType, BoundsType,
         CommandInv, Markers

LEMMA GroupsKept ==
  /\ HolderType /\ UNCHANGED holder => HolderType'
  /\ CommandType /\ UNCHANGED command => CommandType'
  /\ HistoryType /\ UNCHANGED history => HistoryType'
  /\ BoundsType /\ UNCHANGED bounds => BoundsType'
<1>1. HolderType /\ UNCHANGED holder => HolderType'
  BY DEF HolderType, holder, Markers
<1>2. CommandType /\ UNCHANGED command => CommandType'
  BY DEF CommandType, CommandInv, command, Markers
<1>3. HistoryType /\ UNCHANGED history => HistoryType'
  BY DEF HistoryType, history
<1>4. BoundsType /\ UNCHANGED bounds => BoundsType'
  BY DEF BoundsType, bounds
<1>5. QED
  BY <1>1, <1>2, <1>3, <1>4

LEMMA TypesStart == Plenty /\ Init => TypesInv
<1> SUFFICES ASSUME Plenty, Init PROVE TypesInv
  OBVIOUS
<1>0. IF Capturing THEN pid1 = "new" /\ due \in Deadlines ELSE pid1 = "down" /\ due = FixtureHold
  BY Zenon DEF Init
<1>1. /\ client \in Clients
      /\ start \in {CHOOSE s \in Starts : TRUE} /\ end = 0 /\ marker = None
      /\ stage = "idle" /\ got = None /\ reply = None
      /\ known = None /\ first = None /\ containers = {}
      /\ promise = NoPromise /\ wrote = FALSE /\ clean = TRUE
      /\ reviewed = (due <= MaxHold) /\ revived = FALSE
      /\ steps = 0 /\ kills = 0 /\ rollouts = 0 /\ faults = 0
  BY Zenon DEF Init
<1>2. start \in Starts
  BY <1>1 DEF Plenty
<1>3. HolderType /\ CommandType
  <2>0. 0 \in 0..MaxHold
    BY HoldAssumption
  <2>1. due \in Int /\ pid1 \in {"new", "down"}
    <3>1. CASE Capturing
      BY <1>0, <3>1, HoldAssumption
    <3>2. CASE ~Capturing
      BY <1>0, <3>2, HoldAssumption
    <3>3. QED
      BY <3>1, <3>2
  <2>2. QED
    BY <1>1, <1>2, <2>0, <2>1 DEF HolderType, CommandType, CommandInv, Markers
<1>4. ClientType /\ BoundsType
  BY <1>1, HoldAssumption DEF ClientType, BoundsType
<1>5. HistoryType
  <2>1. reviewed \in BOOLEAN
    BY <1>1
  <2>2. promise \in [start : Starts \cup {None}, left : 0..MaxHold]
    BY <1>1, HoldAssumption DEF NoPromise
  <2>3. QED
    BY <1>1, <2>1, <2>2, Zenon DEF HistoryType
<1>6. QED
  BY <1>3, <1>4, <1>5, TypeGroups

(* The commands, whoever asks.                                                *)
LEMMA CommandTyped ==
  ASSUME HolderType, CommandType,
         \/ Read \/ Identify \/ Evidence \/ Status
         \/ \E e, m : Check(e, m)
         \/ Done
  PROVE  CommandType'
<1>1. CASE Read
  BY <1>1 DEF HolderType, CommandType, CommandInv, Read, Answer
<1>2. CASE Identify
  BY <1>2 DEF CommandType, CommandInv, Identify, Answer
<1>3. CASE Evidence \/ Status \/ \E e, m : Check(e, m)
  <2>1. stage = "same" /\ got' = got /\ stage' = "answered"
    BY <1>3 DEF Evidence, Status, Check, Answer
  <2>2. QED
    BY <2>1 DEF CommandType, CommandInv
<1>4. CASE Done
  BY <1>4 DEF CommandType, CommandInv, Done, Markers
<1>5. QED
  BY <1>1, <1>2, <1>3, <1>4

LEMMA Pid1Typed == TypesInv /\ Pid1 => TypesInv'
<1> SUFFICES ASSUME TypesInv, Pid1 PROVE TypesInv'
  OBVIOUS
<1>1. HolderType /\ CommandType /\ ClientType /\ HistoryType /\ BoundsType
  BY TypeGroups
<1>2. UNCHANGED <<client, command, known, drill, promise, clean, reviewed, revived, bounds>>
  BY DEF Pid1
<1>3. HolderType' /\ wrote' \in BOOLEAN
  <2>1. CASE Clear \/ Expire \/ Release \/ Exec
    BY <1>1, <2>1 DEF Clear, Expire, Release, Exec, RemoveMarker, Native, HolderType, Markers,
                      HistoryType
  <2>2. CASE Judge
    <3>1. CASE 0 < due /\ due <= MaxHold
      <4>1. due \in 0..MaxHold
        BY <1>1, <3>1, HoldAssumption DEF HolderType
      <4>2. QED
        BY <1>1, <2>2, <3>1, <4>1 DEF Judge, HolderType, HistoryType
    <3>2. CASE ~(0 < due /\ due <= MaxHold)
      BY <1>1, <2>2, <3>2 DEF Judge, Native, HolderType
    <3>3. QED
      BY <3>1, <3>2
  <2>3. CASE Publish
    BY <1>1, <2>3 DEF Publish, HolderType, Markers, HistoryType
  <2>4. QED
    BY <2>1, <2>2, <2>3 DEF Pid1
<1>4. HistoryType'
  BY <1>1, <1>2, <1>3 DEF HistoryType
<1>5. ClientType'
  BY <1>1, <1>2 DEF ClientType, drill
<1>6. QED
  BY <1>1, <1>2, <1>3, <1>4, <1>5, GroupsKept, TypeGroups

LEMMA OutsideTyped ==
  Plenty /\ TypesInv /\ (Terminate \/ Kill \/ Restart \/ Rollout) => TypesInv'
<1> SUFFICES ASSUME Plenty, TypesInv, Terminate \/ Kill \/ Restart \/ Rollout PROVE TypesInv'
  OBVIOUS
<1>1. HolderType /\ CommandType /\ ClientType /\ HistoryType /\ BoundsType
  BY TypeGroups
<1>2. ClientType'
  BY <1>1 DEF Terminate, Kill, Restart, Rollout, ClientType, drill
<1>3. CASE Terminate \/ Kill
  <2>1. HolderType' /\ CommandType'
    BY <1>1, <1>3 DEF Terminate, Kill, Gone, RemoveMarker, HolderType, CommandType, CommandInv,
                      Markers
  <2>2. HistoryType' /\ BoundsType'
    <3>1. UNCHANGED <<history, steps, rollouts>> /\ kills < MaxKills /\ kills' = kills + 1
      BY <1>3 DEF Terminate, Kill, Counted
    <3>2. BoundsType'
      BY <1>1, <3>1, HoldAssumption DEF BoundsType
    <3>3. QED
      BY <1>1, <3>1, <3>2, GroupsKept
  <2>3. QED
    BY <1>2, <2>1, <2>2, TypeGroups
<1>4. CASE Restart
  <2>1. HolderType'
    BY <1>1, <1>4, FreshStart DEF Restart, HolderType, Markers
  <2>2. QED
    BY <1>1, <1>2, <1>4, <2>1, GroupsKept, TypeGroups DEF Restart
<1>5. CASE Rollout
  <2>1. HolderType' /\ CommandType'
    BY <1>1, <1>5, FreshStart, HoldAssumption
       DEF Rollout, HolderType, CommandType, CommandInv, Markers
  <2>2. BoundsType'
    BY <1>1, <1>5, HoldAssumption DEF Rollout, BoundsType
  <2>3. HistoryType'
    <3>1. reviewed' = (due' <= MaxHold) /\ UNCHANGED <<promise, wrote, clean, revived>>
      BY <1>5 DEF Rollout
    <3>2. reviewed' \in BOOLEAN
      BY <3>1
    <3>3. QED
      BY <1>1, <3>1, <3>2 DEF HistoryType
  <2>4. QED
    BY <1>2, <2>1, <2>2, <2>3, TypeGroups
<1>6. QED
  BY <1>3, <1>4, <1>5

LEMMA MarkerTyped == ASSUME NEW m \in Markers PROVE Pass(m) \in Markers
<1>1. CASE m = None
  BY <1>1 DEF Pass, Markers
<1>2. CASE m # None
  <2>1. m \in [start : Starts, end : 0..MaxHold]
    BY <1>2 DEF Markers
  <2>2. Lower(m.end, 0) \in 0..MaxHold
    BY <2>1, HoldAssumption DEF Lower
  <2>3. QED
    BY <1>2, <2>1, <2>2 DEF Pass, Markers
<1>3. QED
  BY <1>1, <1>2

LEMMA TimeTyped == Plenty /\ TypesInv /\ (Tick \/ StepClock) => TypesInv'
<1> SUFFICES ASSUME Plenty, TypesInv, Tick \/ StepClock PROVE TypesInv'
  OBVIOUS
<1>1. HolderType /\ CommandType /\ ClientType /\ HistoryType /\ BoundsType
  BY TypeGroups
<1>2. ClientType'
  BY <1>1 DEF Tick, StepClock, ClientType, drill
<1>3. CASE Tick
  <2>1. marker' = Pass(marker) /\ got' = Pass(got)
    BY <1>3 DEF Tick
  <2>2. marker' \in Markers /\ got' \in Markers
    BY <1>1, <2>1, MarkerTyped DEF HolderType, CommandType
  <2>3. got # None => got' # None
    <3>1. ASSUME got # None PROVE Pass(got) # None
      <4>1. got \in Stamps
        BY <1>1, <3>1 DEF CommandType, Markers, Stamps
      <4>2. QED
        BY <3>1, <4>1, StampPasses
    <3>2. QED
      BY <2>1, <3>1
  <2>4. CommandType'
    BY <1>1, <1>3, <2>2, <2>3 DEF Tick, CommandType, CommandInv
  <2>5. HolderType'
    BY <1>1, <1>3, <2>2, HoldAssumption DEF Tick, Lower, HolderType
  <2>6. HistoryType'
    BY <1>1, <1>3, HoldAssumption DEF Tick, Lower, HistoryType
  <2>7. QED
    BY <1>1, <1>2, <1>3, <2>4, <2>5, <2>6, GroupsKept, TypeGroups DEF Tick
<1>4. CASE StepClock
  <2>1. HolderType'
    BY <1>1, <1>4 DEF StepClock, HolderType, Markers
  <2>2. BoundsType'
    BY <1>1, <1>4, HoldAssumption DEF StepClock, BoundsType
  <2>3. HistoryType'
    <3>1. /\ revived' = (revived \/ (due <= 0 /\ due' > 0))
          /\ UNCHANGED <<promise, wrote, clean, reviewed>>
      BY <1>4 DEF StepClock
    <3>2. revived' \in BOOLEAN
      BY <3>1, Zenon
    <3>3. QED
      BY <1>1, <3>1, <3>2 DEF HistoryType
  <2>4. QED
    BY <1>1, <1>2, <1>4, <2>1, <2>2, <2>3, GroupsKept, TypeGroups DEF StepClock
<1>5. QED
  BY <1>3, <1>4

LEMMA CaptureTyped == Plenty /\ TypesInv /\ Capture => TypesInv'
<1> SUFFICES ASSUME Plenty, TypesInv, Capture PROVE TypesInv'
  OBVIOUS
<1>1. HolderType /\ CommandType /\ ClientType /\ HistoryType /\ BoundsType
  BY TypeGroups
<1>2. UNCHANGED <<client, holder, drill, reviewed, revived, bounds>>
  BY DEF Capture, CaptureReads, CaptureStatus, CaptureCheck, CaptureGoesOn, history
<1>3. CommandType'
  BY <1>1, CommandTyped DEF Capture, CaptureReads, CaptureStatus, CaptureCheck, CaptureGoesOn
<1>4. CASE CaptureReads \/ CaptureGoesOn
  <2>1. UNCHANGED <<known, history>>
    BY <1>4 DEF CaptureReads, CaptureGoesOn
  <2>2. ClientType'
    BY <1>1, <1>2, <2>1 DEF ClientType, drill
  <2>3. QED
    BY <1>1, <1>2, <1>3, <2>1, <2>2, GroupsKept, TypeGroups
<1>5. CASE CaptureStatus
  <2>1. got.start \in Starts
    BY <1>1, <1>5 DEF CaptureStatus, Status, CommandType, CommandInv, Markers
  <2>2. ClientType'
    BY <1>1, <1>2, <1>5, <2>1 DEF CaptureStatus, ClientType, drill
  <2>3. HistoryType'
    <3>1. /\ wrote' = IF reply' = "valid" THEN pid1 = "native" ELSE wrote
          /\ UNCHANGED <<promise, clean, reviewed, revived>>
      BY <1>5 DEF CaptureStatus
    <3>2. wrote' \in BOOLEAN
      BY <1>1, <3>1, Zenon DEF HistoryType
    <3>3. QED
      BY <1>1, <3>1, <3>2 DEF HistoryType
  <2>4. QED
    BY <1>1, <1>2, <1>3, <2>2, <2>3, GroupsKept, TypeGroups
<1>6. CASE CaptureCheck
  <2>1. /\ UNCHANGED <<known, wrote>>
        /\ \/ UNCHANGED <<promise, clean>>
           \/ \E m \in Minimums : promise' = [start |-> start, left |-> m]
                                  /\ clean' = (clean /\ ~wrote)
    BY <1>6 DEF CaptureCheck
  <2>2. ClientType'
    BY <1>1, <1>2, <2>1 DEF ClientType, drill
  <2>3. HistoryType'
    <3>1. CASE UNCHANGED <<promise, clean>>
      BY <1>1, <1>2, <2>1, <3>1 DEF HistoryType
    <3>2. CASE \E m \in Minimums : promise' = [start |-> start, left |-> m]
                                   /\ clean' = (clean /\ ~wrote)
      <4>1. clean' \in BOOLEAN
        BY <3>2, Zenon
      <4>2. PICK m \in Minimums : promise' = [start |-> start, left |-> m]
        BY <3>2
      <4>3. m \in 0..MaxHold
        BY HoldAssumption
      <4>4. QED
        BY <1>1, <1>2, <2>1, <4>1, <4>2, <4>3 DEF HistoryType, HolderType
    <3>3. QED
      BY <2>1, <3>1, <3>2
  <2>4. QED
    BY <1>1, <1>2, <1>3, <2>2, <2>3, GroupsKept, TypeGroups
<1>7. QED
  BY <1>4, <1>5, <1>6 DEF Capture

LEMMA DrillTyped == Plenty /\ TypesInv /\ Drill => TypesInv'
<1> SUFFICES ASSUME Plenty, TypesInv, Drill PROVE TypesInv'
  OBVIOUS
<1>1. HolderType /\ CommandType /\ ClientType /\ HistoryType /\ BoundsType
  BY TypeGroups
<1>2. UNCHANGED <<client, history, bounds>>
  BY DrillKeeps
<1>3. HistoryType' /\ BoundsType'
  BY <1>1, <1>2, GroupsKept
<1>4. CASE DrillStart
  <2>1. HolderType'
    BY <1>1, <1>4, FreshStart, HoldAssumption DEF DrillStart, HolderType, Markers
  <2>2. QED
    BY <1>1, <1>2, <1>3, <1>4, <2>1, GroupsKept, TypeGroups DEF DrillStart, ClientType
<1>5. CASE DrillKill \/ DrillCleanup
  <2>1. HolderType' /\ CommandType'
    BY <1>1, <1>5 DEF DrillKill, DrillCleanup, Gone, Done, HolderType, CommandType, CommandInv,
                      Markers, holder
  <2>2. ClientType'
    BY <1>1, <1>2, <1>5 DEF DrillKill, DrillCleanup, ClientType
  <2>3. QED
    BY <1>3, <2>1, <2>2, TypeGroups
<1>6. CASE DrillAsks
  <2>1. CommandType'
    BY <1>1, <1>6, CommandTyped DEF DrillAsks
  <2>2. QED
    BY <1>1, <1>2, <1>3, <1>6, <2>1, GroupsKept, TypeGroups DEF DrillAsks, ClientType, drill
<1>7. CASE DrillTake
  <2>1. CommandType' /\ UNCHANGED holder
    BY <1>1, <1>7, CommandTyped DEF DrillTake
  <2>2. reply = "valid" => got.start \in Starts
    BY <1>1, <1>7 DEF DrillTake, CommandType, CommandInv, Markers
  <2>3. ClientType'
    BY <1>1, <1>2, <1>7, <2>2 DEF DrillTake, ClientType
  <2>4. QED
    BY <1>1, <1>3, <2>1, <2>3, GroupsKept, TypeGroups
<1>8. CASE DrillAwait \/ DrillProbe \/ DrillStale \/ DrillLooked \/ DrillGone
  <2>1. Done /\ UNCHANGED <<holder, known, first, containers, faults>>
    BY <1>8 DEF DrillAwait, DrillProbe, DrillStale, DrillLooked, DrillGone
  <2>2. QED
    BY <1>1, <1>2, <1>3, <2>1, CommandTyped, GroupsKept, TypeGroups DEF ClientType
<1>9. CASE DrillWatch
  <2>1. UNCHANGED <<holder, known, first, containers, faults>>
    BY <1>9 DEF DrillWatch
  <2>2. Done \/ (stage' = "looked" /\ got' = got)
    BY <1>9 DEF DrillWatch
  <2>3. CommandType'
    BY <1>1, <2>2, CommandTyped DEF CommandType, CommandInv
  <2>4. QED
    BY <1>1, <1>2, <1>3, <2>1, <2>3, GroupsKept, TypeGroups DEF ClientType
<1>10. CASE DrillPoll
  <2>1. UNCHANGED <<holder, known, first, containers, faults>> /\ (UNCHANGED command \/ Done)
    BY <1>10 DEF DrillPoll
  <2>2. QED
    BY <1>1, <1>2, <1>3, <2>1, CommandTyped, GroupsKept, TypeGroups DEF ClientType
<1>11. CASE DrillDiffers \/ DrillAbsent \/ DrillReady
  <2>1. UNCHANGED <<holder, command, known, first, containers, faults>>
    BY <1>11 DEF DrillDiffers, DrillAbsent, DrillReady
  <2>2. QED
    BY <1>1, <1>2, <1>3, <2>1, GroupsKept, TypeGroups DEF ClientType
<1>12. CASE DrillCreate \/ DrillMonitor
  <2>1. /\ UNCHANGED <<holder, command, known, first, faults>>
        /\ containers' \subseteq {"app", "monitor"}
    BY <1>1, <1>12 DEF DrillCreate, DrillMonitor, ClientType
  <2>2. QED
    BY <1>1, <1>2, <1>3, <2>1, GroupsKept, TypeGroups DEF ClientType
<1>13. CASE DrillFault
  <2>1. Done /\ UNCHANGED <<holder, known, first>> /\ faults < MaxFaults /\ faults' = faults + 1
    BY <1>13 DEF DrillFault
  <2>2. faults' \in 0..MaxFaults
    BY <1>1, <2>1, HoldAssumption DEF ClientType
  <2>3. containers' \subseteq {"app", "monitor"}
    BY <1>1, <1>13 DEF DrillFault, ClientType
  <2>4. QED
    BY <1>1, <1>2, <1>3, <2>1, <2>2, <2>3, CommandTyped, GroupsKept, TypeGroups DEF ClientType
<1>14. QED
  BY <1>4, <1>5, <1>6, <1>7, <1>8, <1>9, <1>10, <1>11, <1>12, <1>13 DEF Drill

(* The variables of the holder, its clients and the drills keep their types:  *)
(* no hold and no promise is longer than MaxHold, and the bounds hold.        *)
THEOREM TypeCorrect == ASSUME Plenty PROVE Spec => []TypeOK
<1>1. Init => TypesInv
  BY TypesStart
<1>2. TypesInv /\ [Next]_vars => TypesInv'
  <2> SUFFICES ASSUME TypesInv, [Next]_vars PROVE TypesInv'
    OBVIOUS
  <2>1. CASE Next
    BY <2>1, Pid1Typed, OutsideTyped, TimeTyped, CaptureTyped, DrillTyped DEF Next
  <2>2. CASE UNCHANGED vars
    <3>1. HolderType /\ CommandType /\ ClientType /\ HistoryType /\ BoundsType
      BY TypeGroups
    <3>2. UNCHANGED <<client, holder, command, known, drill, history, bounds>>
      BY <2>2 DEF vars
    <3>3. ClientType'
      BY <3>1, <3>2 DEF ClientType, drill
    <3>4. QED
      BY <3>1, <3>2, <3>3, GroupsKept, TypeGroups
  <2>3. QED
    BY <2>1, <2>2
<1>3. TypesInv => TypeOK
  BY DEF TypesInv
<1>4. QED
  BY <1>1, <1>2, <1>3, PTL DEF Spec
=============================================================================
