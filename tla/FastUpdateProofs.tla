-------------------------- MODULE FastUpdateProofs --------------------------
(***************************************************************************)
(* For any set of heads, any number of foreign commits and faults, and all *)
(* limits with MergeLimit + VerifyLimit < MinRemaining: what the lane      *)
(* merges was vetted, every round of the verification begins under the     *)
(* window, and a verified cluster is at the pin.                           *)
(***************************************************************************)
EXTENDS FastUpdate, TLAPS, WellFoundedInduction

(* Counters and their bounds.                                              *)
LEMMA Within ==
  ASSUME NEW n \in Nat, NEW x \in 0..n
  PROVE  /\ 0 \in 0..n /\ n \in 0..n
         /\ (IF x > 0 THEN x - 1 ELSE 0) \in 0..n
         /\ x < n => x + 1 \in 0..n
  OBVIOUS

USE LaneAssumption DEF NoHead, OldPin, OtherPin, Rounds

(* The actions that leave every variable of the run alone.                 *)
World == Land \/ LandLate \/ Push \/ Succeed \/ Commit \/ Flux

Steps == Timed \cup {"off", "pull", "files", "content", "checks", "begin", "manifest", "unwind"}

(* The first revision with a pin is one of main, or there is none.         *)
LEMMA LeastOf ==
  ASSUME NEW I \in SUBSET Nat, I # {}
  PROVE  Min(I) \in I
<1>1. PICK m \in I : \A y \in I : ~(<<y, m>> \in OpToRel(<, Nat))
  BY NatLessThanWellFounded, WFMin, Zenon
<1>2. ASSUME NEW y \in I PROVE m <= y
  <2>1. y < m => <<y, m>> \in {ss \in Nat \X Nat : ss[1] < ss[2]}
    OBVIOUS
  <2>2. y < m => <<y, m>> \in OpToRel(<, Nat)
    BY <2>1, Zenon DEF OpToRel
  <2>3. ~(y < m)
    BY <1>1, <2>2, Zenon
  <2>4. QED
    BY <2>3
<1>3. QED
  BY <1>2 DEF Min

LEMMA FirstRevision ==
  ASSUME NEW s \in Seq(Pins), NEW h \in Pins
  PROVE  SelectInSeq(s, LAMBDA p : p = h) \in 0..Len(s)
<1> DEFINE I == {i \in 1..Len(s) : s[i] = h}
<1>1. I \in SUBSET Nat
  OBVIOUS
<1>2. I # {} => Min(I) \in I
  BY <1>1, LeastOf, Zenon
<1>3. QED
  BY <1>1, <1>2 DEF SelectInSeq

-----------------------------------------------------------------------------
(* What MergedIsVetted rests on.  The four reads of readyPull are of four  *)
(* moments: the files are those of whatever the head is then, not of       *)
(* pr.head.sha.  A head that changes several files gets past ReadFiles     *)
(* only when another head was pushed before, and heads do not come back:   *)
(* GitHub will refuse to merge it.                                         *)
Fit(h) == /\ h \in Heads /\ h <= pull.head
          /\ h \in SeveralFiles => h < pull.head
Vetted(h) == Fit(h) /\ h \in green \ OtherContent

VetInv ==
  /\ pc \in Steps
  /\ pull \in [head : Heads, open : BOOLEAN] /\ green \subseteq Heads
  /\ request = "flying" => pc = "answer"
  /\ pc = "files" => head \in Heads /\ head <= pull.head
  /\ pc = "content" => Fit(head)
  /\ pc = "checks" => Fit(head) /\ head \notin OtherContent
  /\ pc \notin {"off", "pull", "files", "content", "checks"} => Vetted(head)
  /\ late # NoHead => Vetted(late)
  /\ MergedIsVetted

LEMMA VetInit == Init => VetInv
  BY DEF Init, VetInv, MergedIsVetted, Steps

LEMMA VetReads ==
  ASSUME VetInv, Start \/ ReadyPull
  PROVE  VetInv'
<1> USE DEF run, hub, kube
<1>1. CASE Start
  BY <1>1 DEF Start, To, VetInv, Fit, Vetted, MergedIsVetted, Steps
<1>2. CASE ReadyPull
  <2> USE DEF To, Quit, Steps
  <2>1. UNCHANGED <<pull, green, request, late, landed>>
    BY <1>2 DEF ReadyPull
  <2>2. CASE ReadPull
    <3>1. pc' = "off" \/ (pc' = "files" /\ head' = pull.head)
      BY <2>2 DEF ReadPull
    <3>2. pc = "pull" /\ pull.head \in Heads /\ pull.head <= pull.head
      <4>1. pull.head \in Heads
        BY DEF VetInv
      <4>2. pull.head \in Nat
        BY <4>1
      <4>3. QED
        BY <2>2, <4>1, <4>2 DEF ReadPull
    <3>3. QED
      BY <2>1, <3>1, <3>2 DEF VetInv, Fit, Vetted, MergedIsVetted
  <2>3. CASE ReadFiles
    <3>1. /\ pc = "files" /\ head' = head
          /\ pc' = "off" \/ (pc' = "content" /\ pull.head \notin SeveralFiles)
      BY <2>3 DEF ReadFiles, Vet
    <3>2. pc' = "content" => Fit(head)
      <4>1. head \in Heads /\ pull.head \in Heads /\ head <= pull.head
        BY <3>1 DEF VetInv
      <4>2. head \in Nat /\ pull.head \in Nat
        BY <4>1
      <4>3. pull.head \notin SeveralFiles /\ head \in SeveralFiles => head < pull.head
        BY <4>1, <4>2
      <4>4. QED
        BY <3>1, <4>1, <4>3 DEF Fit
    <3>3. QED
      BY <2>1, <3>1, <3>2 DEF VetInv, Fit, Vetted, MergedIsVetted
  <2>4. CASE ReadContent
    BY <2>1, <2>4 DEF ReadContent, Vet, VetInv, Fit, Vetted, MergedIsVetted
  <2>5. CASE ChecksPass
    BY <2>1, <2>5 DEF ChecksPass, Vet, VetInv, Fit, Vetted, MergedIsVetted
  <2>6. QED
    BY <1>2, <2>2, <2>3, <2>4, <2>5 DEF ReadyPull
<1>3. QED
  BY <1>1, <1>2

LEMMA VetRun ==
  ASSUME VetInv,
         \/ Begin \/ Status \/ PutMerge \/ Answer \/ ReadManifest \/ VerifyRollout
         \/ End \/ Unwind \/ ObserveFails \/ Killed
  PROVE  VetInv'
<1> USE DEF run, hub, kube, To, Quit, Steps, Timed
<1>1. UNCHANGED <<head, pull, green, landed>>
  BY DEF Begin, Status, PutMerge, Answer, ReadManifest, VerifyRollout, End, Unwind,
         ObserveFails, Killed
<1>2. pc \notin {"off", "pull", "files", "content", "checks"} \/ Killed
  BY DEF Begin, Status, PutMerge, Answer, ReadManifest, VerifyRollout, End, Unwind,
         ObserveFails, ObserveSource, ObserveKs, ObserveLive, ObserveDeployment,
         ObserveHealth, Observe
<1>3. pc' \in Steps /\ pc' \notin {"pull", "files", "content", "checks"}
  BY DEF Begin, Status, PutMerge, Answer, ReadManifest, VerifyRollout, End, Unwind,
         ObserveFails, ObserveSource, ObserveKs, ObserveLive, ObserveDeployment,
         ObserveHealth, Observe, Round, Killed, VetInv
<1>4. pc' # "off" => ~Killed
  BY DEF Killed
<1>5. request' = "flying" => pc' = "answer"
  BY DEF Begin, Status, PutMerge, Answer, ReadManifest, VerifyRollout, End, Unwind,
         ObserveFails, ObserveSource, ObserveKs, ObserveLive, ObserveDeployment,
         ObserveHealth, Observe, Round, Killed, VetInv
<1>6. late' # NoHead => late' = late \/ (late' = head /\ Vetted(head))
  BY DEF Begin, Status, PutMerge, Answer, ReadManifest, VerifyRollout, End, Unwind,
         ObserveFails, Killed, VetInv
<1>7. QED
  BY <1>1, <1>2, <1>3, <1>4, <1>5, <1>6 DEF VetInv, Fit, Vetted, MergedIsVetted

(* The merge itself: GitHub takes the head that was vetted, or none.       *)
LEMMA VetWorld ==
  ASSUME VetInv, Tick \/ Stall \/ World
  PROVE  VetInv'
<1> USE DEF run, hub, kube, Mergeable, Accepts, Squash
<1>1. CASE Tick \/ Stall \/ Flux
  BY <1>1 DEF Tick, Stall, Pass, Flux, VetInv, Fit, Vetted, MergedIsVetted
<1>2. ASSUME NEW h, Vetted(h), Accepts(h), Squash(h), UNCHANGED green
      PROVE  /\ pull'.head = pull.head /\ pull' \in [head : Heads, open : BOOLEAN]
             /\ MergedIsVetted'
  <2>1. pull'.head = pull.head /\ pull' \in [head : Heads, open : BOOLEAN]
    BY <1>2 DEF VetInv
  <2>2. h \notin SeveralFiles
    BY <1>2 DEF VetInv, Vetted, Fit
  <2>3. QED
    BY <1>2, <2>1, <2>2 DEF Vetted, Fit, MergedIsVetted
<1>3. CASE Land
  <2>1. Vetted(head)
    BY <1>3 DEF Land, VetInv
  <2>2. pull'.head = pull.head /\ pull' \in [head : Heads, open : BOOLEAN] /\ MergedIsVetted'
    BY <1>2, <1>3, <2>1 DEF Land, VetInv, MergedIsVetted
  <2>3. UNCHANGED <<pc, head, late, green>> /\ request' # "flying"
    BY <1>3 DEF Land
  <2>4. QED
    BY <2>2, <2>3 DEF VetInv, Fit, Vetted
<1>4. CASE LandLate
  <2>1. Vetted(late)
    BY <1>4 DEF LandLate, VetInv
  <2>2. pull'.head = pull.head /\ pull' \in [head : Heads, open : BOOLEAN] /\ MergedIsVetted'
    BY <1>2, <1>4, <2>1 DEF LandLate, VetInv, MergedIsVetted
  <2>3. UNCHANGED <<pc, head, request, green>> /\ late' = NoHead
    BY <1>4 DEF LandLate
  <2>4. QED
    BY <2>2, <2>3 DEF VetInv, Fit, Vetted
<1>5. CASE Push
  BY <1>5 DEF Push, VetInv, Fit, Vetted, MergedIsVetted
<1>6. CASE Succeed
  BY <1>6 DEF Succeed, VetInv, Fit, Vetted, MergedIsVetted
<1>7. CASE Commit
  BY <1>7 DEF Commit, VetInv, Fit, Vetted, MergedIsVetted
<1>8. QED
  BY <1>1, <1>3, <1>5, <1>6, <1>7, <1>4 DEF World

LEMMA VetStep == VetInv /\ [Next]_vars => VetInv'
<1> SUFFICES ASSUME VetInv, [Next]_vars PROVE VetInv'
  OBVIOUS
<1>1. CASE UNCHANGED vars
  BY <1>1 DEF vars, run, hub, VetInv, Fit, Vetted, MergedIsVetted
<1>2. CASE Next
  BY <1>2, VetReads, VetRun, VetWorld DEF Next, Runner, World
<1>3. QED
  BY <1>1, <1>2

(* Whatever is pushed between the reads of readyPull and the merge, and    *)
(* however late a merge request is carried out, main gets a vetted head.   *)
THEOREM VettedTheorem == Spec => []MergedIsVetted
<1>1. VetInv => MergedIsVetted
  BY DEF VetInv
<1>2. QED
  BY <1>1, VetInit, VetStep, PTL DEF Spec
-----------------------------------------------------------------------------
(* What CoveredRounds rests on: of the ten minutes asked for before the    *)
(* merge, the slack is still there when the last round begins in time.     *)
CoverInv ==
  /\ left \in Nat /\ due \in Nat /\ spent \in Nat
  /\ pc \in {"merge", "answer"} => left + spent >= MinRemaining /\ spent <= MergeLimit
  /\ pc \in {"manifest"} \cup Rounds /\ due > 0 => left >= due + Slack
  /\ pc \in Rounds /\ spent <= Slack => left + spent > Slack
  /\ CoveredRounds

LEMMA CoverInit == Init => CoverInv
  BY DEF Init, CoverInv, CoveredRounds, Rounds

LEMMA Naturals ==
  /\ Duration \in Nat /\ MinRemaining \in Nat /\ MergeLimit \in Nat /\ VerifyLimit \in Nat
  /\ RoundLimit \in Nat /\ HelperLimit \in Nat /\ MaxCommits \in Nat /\ MaxFaults \in Nat
  OBVIOUS

LEMMA SlackPositive == Slack \in Nat /\ Slack > 0
  BY CoverAssumption, Naturals DEF Slack

(* A round begins before the deadline, with the window beyond it.          *)
LEMMA CoverRound ==
  ASSUME CoverInv, pc \in {"manifest"} \cup Rounds, Round, UNCHANGED <<left, due>>
  PROVE  CoverInv'
<1>1. CASE due > 0
  <2>1. left >= due + Slack /\ left \in Nat /\ due \in Nat
    BY <1>1 DEF CoverInv
  <2>2. left > Slack /\ left > 0
    BY <1>1, <2>1, SlackPositive
  <2>3. pc' = "source" /\ spent' = 0 /\ UNCHANGED <<left, due>>
    BY <1>1 DEF Round, To
  <2>4. QED
    BY <2>1, <2>2, <2>3 DEF CoverInv, CoveredRounds
<1>2. CASE ~(due > 0)
  BY <1>2 DEF Round, Quit, To, CoverInv, CoveredRounds, Rounds
<1>3. QED
  BY <1>1, <1>2

LEMMA CoverReads ==
  ASSUME CoverInv, Start \/ ReadyPull \/ Killed
  PROVE  CoverInv'
<1>1. /\ UNCHANGED left /\ due' \in {0, due} /\ spent' \in {0, spent}
      /\ pc' \in {"off", "pull", "files", "content", "checks", "begin"}
  BY DEF Start, ReadyPull, ReadPull, ReadFiles, ReadContent, ChecksPass, Vet, Killed, To, Quit
<1>2. QED
  BY <1>1 DEF CoverInv, CoveredRounds, Rounds

LEMMA CoverMerge ==
  ASSUME CoverInv, Begin \/ Status \/ PutMerge \/ Answer
  PROVE  CoverInv'
<1> USE Naturals DEF To, Quit, CoverInv, CoveredRounds, Rounds
<1>1. CASE Begin
  BY <1>1 DEF Begin
<1>2. CASE Status
  BY <1>2 DEF Status, MaintenanceActive
<1>3. CASE PutMerge
  BY <1>3 DEF PutMerge
<1>4. CASE Answer
  <2>1. left + spent >= MinRemaining /\ spent <= MergeLimit
    BY <1>4 DEF Answer
  <2>2. left >= VerifyLimit + Slack
    BY <2>1 DEF Slack
  <2>3. /\ UNCHANGED left /\ spent' = 0
        /\ \/ pc' = "manifest" /\ due' = VerifyLimit
           \/ pc' = "unwind" /\ due' = due
    BY <1>4 DEF Answer
  <2>4. QED
    BY <2>2, <2>3
<1>5. QED
  BY <1>1, <1>2, <1>3, <1>4

LEMMA CoverVerify ==
  ASSUME CoverInv, ReadManifest \/ VerifyRollout \/ ObserveFails \/ End \/ Unwind
  PROVE  CoverInv'
<1>1. ASSUME pc \in Rounds, pc' \in Rounds, UNCHANGED <<left, due, spent>> PROVE CoverInv'
  BY <1>1 DEF CoverInv, CoveredRounds, Rounds
<1>2. CASE ReadManifest
  <2>1. CASE Round
    BY <1>2, <2>1, CoverRound DEF ReadManifest
  <2>2. CASE UNCHANGED <<pc, outcome, spent>>
    BY <1>2, <2>2 DEF ReadManifest, CoverInv, CoveredRounds, Rounds
  <2>3. QED
    BY <1>2, <2>1, <2>2 DEF ReadManifest
<1>3. CASE VerifyRollout
  <2>1. pc \in Rounds /\ UNCHANGED <<left, due>>
    BY <1>3 DEF VerifyRollout, ObserveSource, ObserveKs, ObserveLive, ObserveDeployment,
                ObserveHealth, Observe, Rounds
  <2>2. \/ Round
        \/ pc' \in Rounds /\ UNCHANGED spent
        \/ pc = "health" /\ pc' = "end" /\ spent' = 0
    BY <1>3 DEF VerifyRollout, ObserveSource, ObserveKs, ObserveLive, ObserveDeployment,
                ObserveHealth, Observe, To, Rounds
  <2>3. CASE pc = "health" /\ pc' = "end" /\ spent' = 0
    BY <2>1, <2>3, Naturals DEF CoverInv, CoveredRounds, Rounds
  <2>4. QED
    BY <1>1, <2>1, <2>2, <2>3, CoverRound
<1>4. CASE ObserveFails
  BY <1>4, CoverRound DEF ObserveFails, Rounds
<1>5. CASE End \/ Unwind
  <2>1. pc' = "off" /\ left' \in {left, 0} /\ UNCHANGED <<due, spent>>
    BY <1>5 DEF End, Unwind, Quit, To
  <2>2. QED
    BY <2>1 DEF CoverInv, CoveredRounds, Rounds
<1>6. QED
  BY <1>2, <1>3, <1>4, <1>5

(* While time passes, the window shrinks no faster than the deadline of    *)
(* verifyRollout, and no more than a timed step has spent.                 *)
LEMMA CoverTime ==
  ASSUME CoverInv, Tick \/ Stall
  PROVE  CoverInv'
<1> USE Naturals
<1>1. /\ left' \in Nat /\ (left > 0 => left' = left - 1)
      /\ due' \in Nat /\ (due > 0 => due' = due - 1) /\ (due = 0 => due' = 0)
      /\ spent' \in Nat /\ UNCHANGED pc
  BY DEF Tick, Stall, Pass, CoverInv
<1>2. ASSUME due > 0 => left >= due + Slack, due' > 0
      PROVE  left' >= due' + Slack
  <2>1. due \in Nat /\ left \in Nat
    BY DEF CoverInv
  <2>2. due > 0 /\ left >= due + Slack /\ left > 0
    BY <1>1, <1>2, <2>1, SlackPositive
  <2>3. left' = left - 1 /\ due' = due - 1
    BY <1>1, <2>2
  <2>4. QED
    BY <2>1, <2>2, <2>3, SlackPositive
<1>3. CASE Stall
  BY <1>1, <1>3 DEF Stall, CoverInv, CoveredRounds, Rounds
<1>4. CASE Tick
  <2>1. CASE pc \in Timed
    <3>1. spent' = spent + 1 /\ spent < Limit
      BY <1>4, <2>1 DEF Tick
    <3>2. CASE pc \in {"merge", "answer"}
      <4>1. Limit = MergeLimit
        BY <3>2 DEF Limit
      <4>2. left > 0
        BY <3>1, <3>2, <4>1, CoverAssumption DEF CoverInv
      <4>3. left' + spent' >= MinRemaining /\ spent' <= MergeLimit
        BY <1>1, <3>1, <3>2, <4>1, <4>2 DEF CoverInv
      <4>4. QED
        BY <1>1, <3>2, <4>3 DEF CoverInv, CoveredRounds, Rounds
    <3>3. CASE pc \in Rounds
      <4>1. ASSUME spent' <= Slack PROVE left' + spent' > Slack
        <5>1. left + spent > Slack /\ left > 0
          BY <3>1, <3>3, <4>1, SlackPositive DEF CoverInv
        <5>2. QED
          BY <1>1, <3>1, <5>1, SlackPositive DEF CoverInv
      <4>2. due' > 0 => left' >= due' + Slack
        BY <1>2, <3>3 DEF CoverInv
      <4>3. spent' <= Slack => left' > 0
        <5>1. left' \in Nat /\ spent' \in Nat /\ Slack \in Nat
          BY <1>1, SlackPositive
        <5>2. ASSUME NEW l \in Nat, NEW n \in Nat, NEW k \in Nat, l + n > k, n <= k PROVE l > 0
          BY <5>2
        <5>3. QED
          BY <4>1, <5>1, <5>2
      <4>4. QED
        BY <1>1, <3>3, <4>1, <4>2, <4>3 DEF CoverInv, CoveredRounds
    <3>4. CASE pc \in {"status", "end"}
      <4>1. spent' # 0
        BY <1>1, <3>1 DEF CoverInv
      <4>2. QED
        BY <1>1, <3>4, <4>1 DEF CoverInv, CoveredRounds, Rounds
    <3>5. QED
      BY <2>1, <3>2, <3>3, <3>4 DEF Timed, Rounds
  <2>2. CASE pc \notin Timed
    <3>1. pc = "manifest" /\ due' > 0 => left' >= due' + Slack
      BY <1>2 DEF CoverInv
    <3>2. QED
      BY <1>1, <2>2, <3>1 DEF CoverInv, CoveredRounds, Rounds, Timed
  <2>3. QED
    BY <2>1, <2>2
<1>5. QED
  BY <1>3, <1>4

LEMMA CoverStep == CoverInv /\ [Next]_vars => CoverInv'
<1> SUFFICES ASSUME CoverInv, [Next]_vars PROVE CoverInv'
  OBVIOUS
<1>1. ASSUME UNCHANGED <<pc, left, due, spent>> PROVE CoverInv'
  BY <1>1 DEF CoverInv, CoveredRounds
<1>2. CASE UNCHANGED vars
  BY <1>1, <1>2 DEF vars, run
<1>3. CASE World
  BY <1>1, <1>3 DEF World, Land, LandLate, Push, Succeed, Commit, Flux, run
<1>4. QED
  BY <1>2, <1>3, CoverReads, CoverMerge, CoverVerify, CoverTime DEF Next, Runner, World

(* Every round begins under the window and is under it while it keeps      *)
(* within the slack, however long a round may take, for every duration and *)
(* all limits that satisfy CoverAssumption.                                *)
THEOREM CoverTheorem == Spec => []CoveredRounds
<1>1. CoverInv => CoveredRounds
  BY DEF CoverInv
<1>2. QED
  BY <1>1, CoverInit, CoverStep, PTL DEF Spec
-----------------------------------------------------------------------------
(* Types, in three parts: the run, the hub with its history, the cluster.  *)
RunType ==
  /\ pc \in Steps
  /\ outcome \in {"none", "nothing", "failed", "verified", "unverified", "expiry required",
                  "killed"}
  /\ due \in 0..VerifyLimit /\ left \in 0..Duration
  /\ pc \in Timed => spent \in 0..Limit
  /\ request \in {"none", "flying", "merged", "rejected"}
  /\ sound \in BOOLEAN /\ faults \in 0..MaxFaults

(* The merge adds one revision to the commits of others.                   *)
HubType ==
  /\ head \in {NoHead} \cup Heads /\ late \in {NoHead} \cup Heads
  /\ landed \in {NoHead} \cup Heads
  /\ main \in Seq(Pins) /\ commits \in 0..MaxCommits
  /\ Len(main) = commits + IF pull.open THEN 1 ELSE 2

KubeType ==
  /\ rev \in 0..Len(main)
  /\ seen \in [source : 1..Len(main), applied : 1..Len(main)]
  /\ flux \in [fetched : 1..Len(main), applied : 1..Len(main)]
  /\ spec \in Pins /\ pods \in [image : Pins, rolled : BOOLEAN]

LaneInv == VetInv /\ RunType /\ HubType /\ KubeType

LEMMA TypeInit == Init => LaneInv
<1> SUFFICES ASSUME Init PROVE LaneInv
  OBVIOUS
<1>1. main = <<OldPin>> /\ main \in Seq(Pins) /\ Len(main) = 1
  BY DEF Init, Pins
<1>2. RunType
  BY Naturals DEF Init, RunType, Steps, Timed
<1>3. HubType
  BY <1>1, Naturals DEF Init, HubType
<1>4. KubeType
  BY <1>1 DEF Init, KubeType, Pins
<1>5. QED
  BY <1>2, <1>3, <1>4, VetInit DEF LaneInv

LEMMA LimitType == Limit \in Nat /\ Limit' \in Nat
  BY Naturals DEF Limit

(* The steps that begin a timed call, and those that go on with one.       *)
LEMMA SpentStep ==
  ASSUME RunType, pc' \notin Timed \/ spent' = 0
                  \/ (pc \in Timed /\ Limit' = Limit /\ spent' = spent)
  PROVE  pc' \in Timed => spent' \in 0..Limit'
<1>1. 0 \in 0..Limit'
  BY LimitType, Within
<1>2. QED
  BY <1>1 DEF RunType

LEMMA RoundPlaces ==
  ASSUME RunType, Round
  PROVE  /\ pc' \in Steps /\ spent' = 0
         /\ outcome' \in {outcome, "unverified"}
  BY DEF RunType, Round, To, Quit, Steps, Timed

LEMMA RunPlaces ==
  ASSUME RunType, Runner \/ ObserveFails \/ Killed
  PROVE  /\ pc' \in Steps
         /\ outcome' \in {"none", "nothing", "failed", "verified", "unverified",
                          "expiry required", "killed"}
         /\ request' \in {"none", "flying", "merged", "rejected"}
         /\ UNCHANGED sound
<1> USE DEF To, Quit, RunType, hub, kube
<1>1. CASE Start \/ ReadyPull \/ Begin \/ Status \/ PutMerge \/ Answer \/ End \/ Unwind \/ Killed
  BY <1>1 DEF Start, ReadyPull, ReadPull, ReadFiles, ReadContent, ChecksPass, Vet, Begin, Status,
              PutMerge, Answer, End, Unwind, Killed, Steps, Timed
<1>2. CASE ReadManifest \/ ObserveFails
  BY <1>2, RoundPlaces DEF ReadManifest, ObserveFails
<1>3. CASE VerifyRollout
  <2>1. Round \/ (pc' \in Steps /\ UNCHANGED outcome)
    BY <1>3 DEF VerifyRollout, ObserveSource, ObserveKs, ObserveLive, ObserveDeployment,
                ObserveHealth, Observe, Steps, Timed
  <2>2. UNCHANGED <<request, sound>>
    BY <1>3 DEF VerifyRollout
  <2>3. QED
    BY <2>1, <2>2, RoundPlaces
<1>4. QED
  BY <1>1, <1>2, <1>3 DEF Runner

LEMMA RunClocks ==
  ASSUME RunType, Runner \/ ObserveFails \/ Killed
  PROVE  due' \in 0..VerifyLimit /\ left' \in 0..Duration /\ faults' \in 0..MaxFaults
<1>1. due' \in {due, 0, VerifyLimit}
  BY DEF Runner, Start, ReadyPull, Begin, Status, PutMerge, Answer, ReadManifest, VerifyRollout,
         End, Unwind, ObserveFails, Killed
<1>2. left' \in {left, 0, Duration}
  BY DEF Runner, Start, ReadyPull, Begin, Status, PutMerge, Answer, ReadManifest, VerifyRollout,
         End, Unwind, ObserveFails, Killed
<1>3. faults' = faults \/ Fault
  BY DEF Runner, Start, ReadyPull, Begin, Status, PutMerge, Answer, ReadManifest, VerifyRollout,
         End, Unwind, ObserveFails, Killed
<1>4. faults \in 0..MaxFaults /\ due \in 0..VerifyLimit /\ left \in 0..Duration
  BY DEF RunType
<1>5. 0 \in 0..VerifyLimit /\ VerifyLimit \in 0..VerifyLimit
      /\ 0 \in 0..Duration /\ Duration \in 0..Duration
      /\ (faults < MaxFaults => faults + 1 \in 0..MaxFaults)
  BY <1>4, Naturals, Within
<1>6. QED
  BY <1>1, <1>2, <1>3, <1>4, <1>5 DEF Fault

LEMMA RunSpent ==
  ASSUME RunType, Runner \/ ObserveFails \/ Killed
  PROVE  pc' \in Timed => spent' \in 0..Limit'
<1> USE DEF To, Quit
<1>1. CASE Start \/ ReadyPull \/ End \/ Unwind \/ Killed
  <2>1. pc' \notin Timed
    BY <1>1 DEF Start, ReadyPull, ReadPull, ReadFiles, ReadContent, ChecksPass, Vet,
                End, Unwind, Killed, Timed
  <2>2. QED
    BY <2>1
<1>2. CASE Begin \/ Status \/ Answer \/ ReadManifest \/ ObserveFails
  <2>1. spent' = 0 \/ (UNCHANGED <<pc, spent>> /\ pc = "manifest")
    BY <1>2, RoundPlaces DEF Begin, Status, Answer, ReadManifest, ObserveFails
  <2>2. QED
    BY <2>1, SpentStep DEF Timed
<1>3. CASE PutMerge
  <2>1. Limit' = Limit /\ pc \in Timed /\ spent' = spent
    BY <1>3 DEF PutMerge, Limit, Timed
  <2>2. QED
    BY <2>1, SpentStep
<1>4. CASE VerifyRollout
  <2>1. spent' = 0 \/ (pc \in Rounds /\ pc' \in Rounds /\ UNCHANGED spent)
    BY <1>4, RoundPlaces DEF VerifyRollout, ObserveSource, ObserveKs, ObserveLive, ObserveDeployment,
                 ObserveHealth, Observe, Rounds
  <2>2. CASE pc \in Rounds /\ pc' \in Rounds /\ UNCHANGED spent
    <3>1. Limit = RoundLimit /\ Limit' = RoundLimit /\ pc \in Timed
      BY <2>2 DEF Limit, Rounds, Timed
    <3>2. QED
      BY <2>2, <3>1, SpentStep
  <2>3. QED
    BY <2>1, <2>2, SpentStep
<1>5. QED
  BY <1>1, <1>2, <1>3, <1>4 DEF Runner

LEMMA TimeType ==
  ASSUME RunType, Tick \/ Stall
  PROVE  RunType'
<1> USE DEF RunType, Pass
<1>1. left' \in 0..Duration
  BY Naturals, Within DEF Tick, Stall
<1>2. due' \in 0..VerifyLimit
  BY Naturals, Within DEF Tick, Stall
<1>3. faults' \in 0..MaxFaults
  BY Naturals, Within DEF Tick, Stall, Fault
<1>4. UNCHANGED <<pc, outcome, request, sound>>
  BY DEF Tick, Stall, hub, kube
<1>5. Limit' = Limit
  BY <1>4 DEF Limit
<1>6. pc \in Timed => spent' \in 0..Limit
  BY LimitType, Within DEF Tick, Stall
<1>7. QED
  BY <1>1, <1>2, <1>3, <1>4, <1>5, <1>6

LEMMA RunStep ==
  ASSUME RunType, [Next]_vars
  PROVE  RunType'
<1>1. CASE Runner \/ ObserveFails \/ Killed
  BY <1>1, RunPlaces, RunClocks, RunSpent DEF RunType
<1>2. CASE World \/ UNCHANGED vars
  <2>1. UNCHANGED <<pc, outcome, due, left, spent, sound, faults>>
        /\ request' \in {request, "merged", "rejected"}
    BY <1>2 DEF World, Land, LandLate, Push, Succeed, Commit, Flux, vars, run, hub, kube
  <2>2. Limit' = Limit
    BY <2>1 DEF Limit
  <2>3. QED
    BY <2>1, <2>2 DEF RunType
<1>3. QED
  BY <1>1, <1>2, TimeType DEF Next, World

LEMMA HubStep ==
  ASSUME LaneInv, [Next]_vars
  PROVE  HubType' /\ (main' = main \/ \E p \in Pins : main' = Append(main, p))
<1> USE Naturals DEF LaneInv, HubType, To, Quit
<1>1. ASSUME UNCHANGED <<main, landed, commits>>, pull'.open = pull.open,
             head' \in {NoHead} \cup Heads, late' \in {NoHead} \cup Heads
      PROVE  HubType'
  BY <1>1
<1>2. CASE UNCHANGED vars \/ Push \/ Succeed \/ Flux \/ Tick \/ Stall
  <2>1. UNCHANGED <<main, landed, commits, head, late>> /\ pull'.open = pull.open
    BY <1>2 DEF vars, run, hub, kube, Push, Succeed, Flux, Tick, Stall, Pass, VetInv
  <2>2. QED
    BY <1>1, <2>1
<1>3. CASE Runner \/ ObserveFails \/ Killed
  <2>1. UNCHANGED <<main, landed, commits, pull>> /\ head' \in {NoHead, head, pull.head}
        /\ late' \in {late, head}
    BY <1>3 DEF Runner, Start, ReadyPull, ReadPull, ReadFiles, ReadContent, ChecksPass, Vet, Begin,
                Status, PutMerge, Answer, ReadManifest, VerifyRollout, End, Unwind, ObserveFails,
                Killed, hub
  <2>2. QED
    BY <1>1, <2>1 DEF VetInv
<1>4. ASSUME NEW h \in Heads, Accepts(h), Squash(h), UNCHANGED <<head, commits>>,
             late' \in {NoHead, late}
      PROVE  HubType' /\ \E p \in Pins : main' = Append(main, p)
  <2>1. h \in Pins /\ main' = Append(main, h)
    BY <1>4 DEF Squash, Pins
  <2>2. main' \in Seq(Pins) /\ Len(main') = Len(main) + 1
    BY <2>1
  <2>3. pull.open /\ ~pull'.open
    BY <1>4 DEF Accepts, Mergeable, Squash, VetInv
  <2>4. landed' = h
    BY <1>4 DEF Squash
  <2>5. QED
    BY <1>4, <2>1, <2>2, <2>3, <2>4
<1>5. CASE Land
  <2>1. head \in Heads
    BY <1>5 DEF Land, VetInv, Vetted, Fit
  <2>2. CASE Accepts(head)
    BY <1>4, <1>5, <2>1, <2>2 DEF Land, run
  <2>3. CASE ~Accepts(head)
    BY <1>1, <1>5, <2>3 DEF Land, run
  <2>4. QED
    BY <2>2, <2>3
<1>6. CASE LandLate
  <2>1. late \in Heads
    BY <1>6 DEF LandLate, VetInv, Vetted, Fit
  <2>2. CASE Accepts(late)
    BY <1>4, <1>6, <2>1, <2>2 DEF LandLate, run
  <2>3. CASE ~Accepts(late)
    BY <1>1, <1>6, <2>3 DEF LandLate, run
  <2>4. QED
    BY <2>2, <2>3
<1>7. CASE Commit
  <2>1. Len(main) \in Nat /\ Len(main) > 0
    OBVIOUS
  <2>2. Last(main) \in Pins
    BY <2>1 DEF Last
  <2>3. PICK p \in Pins : main' = Append(main, p)
    BY <1>7, <2>2 DEF Commit, Pins
  <2>4. main' \in Seq(Pins) /\ Len(main') = Len(main) + 1
    BY <2>3
  <2>5. QED
    BY <1>7, <2>3, <2>4 DEF Commit, run
<1>8. QED
  BY <1>2, <1>3, <1>5, <1>6, <1>7 DEF Next, Runner, ObserveFails, Killed, Start, ReadyPull, Begin, Status,
     PutMerge, Answer, ReadManifest, VerifyRollout, End, Unwind, Push, Succeed, Flux, Tick, Stall,
     Pass, hub, vars

(* What was a revision of main stays one, with the same pin.               *)
LEMMA Grows ==
  ASSUME HubType, main' = main \/ \E p \in Pins : main' = Append(main, p)
  PROVE  /\ main' \in Seq(Pins) /\ Len(main) \in Nat /\ Len(main') \in Nat
         /\ Len(main) <= Len(main') /\ Len(main) > 0
         /\ \A i \in 1..Len(main) : main'[i] = main[i]
<1>1. main \in Seq(Pins) /\ Len(main) \in Nat /\ Len(main) > 0
  BY Naturals DEF HubType
<1>2. CASE main' = main
  BY <1>1, <1>2
<1>3. CASE \E p \in Pins : main' = Append(main, p)
  BY <1>1, <1>3
<1>4. QED
  BY <1>2, <1>3
-----------------------------------------------------------------------------
LEMMA KubeStep ==
  ASSUME LaneInv, [Next]_vars
  PROVE  KubeType'
<1>1. /\ main' \in Seq(Pins) /\ Len(main) \in Nat /\ Len(main') \in Nat
      /\ Len(main) <= Len(main') /\ Len(main) > 0
  BY HubStep, Grows DEF LaneInv
<1>2. \A i \in 1..Len(main) : i \in 1..Len(main')
  BY <1>1
<1>3. \A i \in 0..Len(main) : i \in 0..Len(main')
  BY <1>1
<1>4. /\ flux.fetched \in 1..Len(main) /\ flux.applied \in 1..Len(main) /\ 1 \in 1..Len(main)
      /\ seen \in [source : 1..Len(main), applied : 1..Len(main)]
      /\ flux \in [fetched : 1..Len(main), applied : 1..Len(main)]
  BY <1>1 DEF LaneInv, KubeType
<1>5. rev' \in 0..Len(main')
  <2>1. CASE Answer
    <3>1. head \in Pins /\ main \in Seq(Pins)
      BY DEF LaneInv, HubType, Pins
    <3>2. SelectInSeq(main, LAMBDA p : p = head) \in 0..Len(main)
      BY <3>1, FirstRevision
    <3>3. main' = main
      BY <2>1 DEF Answer
    <3>4. rev' = SelectInSeq(main, LAMBDA p : p = head) \/ rev' = rev
      BY <2>1 DEF Answer
    <3>5. QED
      BY <3>2, <3>3, <3>4 DEF LaneInv, KubeType
  <2>2. CASE ~Answer
    <3>1. rev' \in {rev, 0}
      BY <2>2 DEF Next, Runner, Start, ReadyPull, Begin, Status, PutMerge, ReadManifest,
         VerifyRollout, End, Unwind, ObserveFails, Killed, Tick, Stall, Pass, Land, LandLate,
         Push, Succeed, Commit, Flux, vars, run
    <3>2. rev \in 0..Len(main) /\ 0 \in 0..Len(main)
      BY <1>1 DEF LaneInv, KubeType
    <3>3. QED
      BY <1>3, <3>1, <3>2
  <2>3. QED
    BY <2>1, <2>2
<1>6. seen' \in [source : 1..Len(main'), applied : 1..Len(main')]
  <2>1. \/ seen' = seen
        \/ seen' = [source |-> 1, applied |-> 1]
        \/ seen' = [seen EXCEPT !.source = flux.fetched]
        \/ seen' = [seen EXCEPT !.applied = flux.applied]
    BY DEF Next, Runner, Start, ReadyPull, Begin, Status, PutMerge, Answer, ReadManifest,
         VerifyRollout, ObserveSource, ObserveKs, ObserveLive, ObserveDeployment, ObserveHealth,
         Observe, End, Unwind, ObserveFails, Killed, Tick, Stall, Pass, Land, LandLate,
         Push, Succeed, Commit, Flux, vars, run
  <2>2. \A i \in 1..Len(main) :
          /\ [seen EXCEPT !.source = i] \in [source : 1..Len(main), applied : 1..Len(main)]
          /\ [seen EXCEPT !.applied = i] \in [source : 1..Len(main), applied : 1..Len(main)]
    BY <1>4
  <2>3. seen' \in [source : 1..Len(main), applied : 1..Len(main)]
    <3>1. CASE seen' = [source |-> 1, applied |-> 1]
      BY <1>4, <3>1
    <3>2. CASE seen' = [seen EXCEPT !.source = flux.fetched]
      BY <1>4, <2>2, <3>2, Zenon
    <3>3. CASE seen' = [seen EXCEPT !.applied = flux.applied]
      BY <1>4, <2>2, <3>3, Zenon
    <3>4. QED
      BY <1>4, <2>1, <3>1, <3>2, <3>3
  <2>4. QED
    BY <1>2, <2>3
<1>7. /\ flux' \in [fetched : 1..Len(main'), applied : 1..Len(main')]
      /\ spec' \in Pins /\ pods' \in [image : Pins, rolled : BOOLEAN]
  <2>1. CASE Flux
    <3>1. main' = main /\ main \in Seq(Pins)
      BY <2>1 DEF Flux, hub, LaneInv, HubType
    <3>2. Len(main) \in 1..Len(main) /\ main[flux.fetched] \in Pins
      BY <1>1, <1>4, <3>1
    <3>3. spec \in Pins /\ pods \in [image : Pins, rolled : BOOLEAN]
      BY DEF LaneInv, KubeType
    <3>4. flux' \in [fetched : 1..Len(main), applied : 1..Len(main)]
      BY <1>4, <2>1, <3>2 DEF Flux, Fetch, Apply, Upgrade, Rollout
    <3>5. spec' \in Pins
      BY <2>1, <3>2, <3>3 DEF Flux, Fetch, Apply, Upgrade, Rollout
    <3>6. pods' \in [image : Pins, rolled : BOOLEAN]
      <4>1. [pods EXCEPT !.rolled = TRUE] \in [image : Pins, rolled : BOOLEAN]
            /\ [image |-> spec, rolled |-> FALSE] \in [image : Pins, rolled : BOOLEAN]
        BY <3>3
      <4>2. \/ pods' = pods \/ pods' = [image |-> spec, rolled |-> FALSE]
            \/ pods' = [pods EXCEPT !.rolled = TRUE]
        BY <2>1 DEF Flux, Fetch, Apply, Upgrade, Rollout
      <4>3. QED
        BY <3>3, <4>1, <4>2, Zenon
    <3>7. QED
      BY <3>1, <3>4, <3>5, <3>6
  <2>2. CASE ~Flux
    <3>1. UNCHANGED <<flux, spec, pods>>
      BY <2>2 DEF Next, Runner, Start, ReadyPull, Begin, Status, PutMerge, Answer, ReadManifest,
         VerifyRollout, End, Unwind, ObserveFails, Killed, Tick, Stall, Pass, Land, LandLate,
         Push, Succeed, Commit, vars, kube
    <3>2. QED
      BY <1>2, <3>1 DEF LaneInv, KubeType
  <2>3. QED
    BY <2>1, <2>2
<1>8. QED
  BY <1>5, <1>6, <1>7 DEF KubeType

LEMMA LaneStep == LaneInv /\ [Next]_vars => LaneInv'
  BY VetStep, RunStep, HubStep, KubeStep DEF LaneInv

LEMMA LaneTyped == LaneInv => TypeOK
<1> SUFFICES ASSUME LaneInv PROVE TypeOK
  OBVIOUS
<1>1. Len(main) <= MaxCommits + 2
  BY Naturals DEF LaneInv, HubType
<1>2. pull \in [head : Heads, open : BOOLEAN] /\ green \subseteq Heads
  BY DEF LaneInv, VetInv
<1>3. QED
  BY <1>1, <1>2 DEF LaneInv, RunType, HubType, KubeType, TypeOK, Steps

(* The state of the lane keeps its type: no revision beyond main is        *)
(* observed or merged, and no timed call lasts longer than its limit.      *)
THEOREM TypeCorrect == Spec => []TypeOK
  BY TypeInit, LaneStep, LaneTyped, PTL DEF Spec
-----------------------------------------------------------------------------
(* What VerifiedStands rests on: each observation of a round says          *)
(* something that stays true until Flux applies another revision.          *)
Applied == flux.applied = seen.applied
Found == {"live", "pods", "health", "end"}
StandsInv ==
  /\ spec = main[flux.applied]
  /\ pc \in Found => main[seen.applied] = head /\ seen.applied <= flux.applied
  /\ pc \in {"pods", "health", "end"} /\ Applied => pods.image = head
  /\ pc \in {"health", "end"} /\ Applied => pods.rolled

LEMMA StandsInit == Init => StandsInv
  BY DEF Init, StandsInv, Found

LEMMA StandsRun ==
  ASSUME LaneInv, StandsInv, Runner \/ ObserveFails \/ Killed
  PROVE  StandsInv'
<1> USE DEF To, Quit, Found, StandsInv, Applied
<1>1. UNCHANGED <<main, flux, spec, pods>>
  BY DEF Runner, Start, ReadyPull, Begin, Status, PutMerge, Answer, ReadManifest, VerifyRollout, End,
         Unwind, ObserveFails, Killed, hub, kube
<1>2. CASE pc' \notin Found
  BY <1>1, <1>2
<1>3. CASE pc' \in Found
  <2>1. VerifyRollout /\ head' = head
    BY <1>3 DEF Runner, Start, ReadyPull, ReadPull, ReadFiles, ReadContent, ChecksPass, Vet, Begin,
                Status, PutMerge, Answer, ReadManifest, End, Unwind, ObserveFails, Killed, Round,
                VerifyRollout
  <2>2. CASE pc = "ks"
    <3>1. /\ pc' = "live" /\ seen' = [seen EXCEPT !.applied = flux.applied]
          /\ main[flux.applied] = head
      BY <1>3, <2>1, <2>2 DEF VerifyRollout, ObserveSource, ObserveKs, ObserveLive,
         ObserveDeployment, ObserveHealth, Observe, Round, ContainsChange
    <3>2. seen'.applied = flux.applied /\ flux.applied <= flux.applied
      BY <3>1 DEF LaneInv, KubeType, HubType
    <3>3. QED
      BY <1>1, <2>1, <3>1, <3>2
  <2>3. CASE pc # "ks"
    <3>1. /\ pc \in Found /\ UNCHANGED seen
          /\ pc = "live" => pc' = "pods" /\ pods.image = spec
          /\ pc = "pods" => pc' = "health" /\ pods.image = head /\ pods.rolled
          /\ pc = "health" => pc' = "end"
          /\ pc # "end"
      BY <1>3, <2>1, <2>3 DEF VerifyRollout, ObserveSource, ObserveKs, ObserveLive,
         ObserveDeployment, ObserveHealth, Observe, Round
    <3>2. QED
      BY <1>1, <2>1, <3>1
  <2>4. QED
    BY <2>2, <2>3
<1>4. QED
  BY <1>2, <1>3

LEMMA StandsFlux ==
  ASSUME LaneInv, StandsInv, Flux
  PROVE  StandsInv'
<1> USE DEF StandsInv, Applied, Found
<1>1. UNCHANGED <<pc, head, seen, main>>
  BY DEF Flux, run, hub
<1>2. /\ flux \in [fetched : Nat, applied : Nat] /\ seen.applied \in Nat
      /\ pods \in [image : Pins, rolled : BOOLEAN]
  BY DEF LaneInv, KubeType, HubType
<1>3. CASE Fetch
  BY <1>1, <1>2, <1>3 DEF Fetch
<1>4. CASE Apply
  <2>1. flux'.applied = flux.fetched /\ flux.applied < flux'.applied /\ flux'.applied \in Nat
    BY <1>2, <1>4 DEF Apply
  <2>2. pc \in Found => flux'.applied # seen.applied /\ seen.applied <= flux'.applied
    BY <1>2, <2>1
  <2>3. spec' = main[flux'.applied]
    BY <1>4, <2>1 DEF Apply
  <2>4. QED
    BY <1>1, <2>2, <2>3
<1>5. CASE Upgrade
  <2>1. ~(pc \in {"pods", "health", "end"} /\ flux.applied = seen.applied)
    BY <1>5 DEF Upgrade
  <2>2. QED
    BY <1>1, <1>5, <2>1 DEF Upgrade
<1>6. CASE Rollout
  <2>1. pods'.image = pods.image /\ pods'.rolled
    BY <1>2, <1>6 DEF Rollout
  <2>2. QED
    BY <1>1, <1>6, <2>1 DEF Rollout
<1>7. QED
  BY <1>3, <1>4, <1>5, <1>6 DEF Flux

LEMMA StandsStep == LaneInv /\ StandsInv /\ [Next]_vars => StandsInv'
<1> SUFFICES ASSUME LaneInv, StandsInv, [Next]_vars PROVE StandsInv'
  OBVIOUS
<1>1. ASSUME UNCHANGED <<pc, head, seen, flux, spec, pods>> PROVE StandsInv'
  <2>1. /\ main'[flux.applied] = main[flux.applied]
        /\ main'[seen.applied] = main[seen.applied]
    BY HubStep, Grows DEF LaneInv, KubeType
  <2>2. QED
    BY <1>1, <2>1 DEF StandsInv, Applied, Found
<1>2. CASE Tick \/ Stall \/ Land \/ LandLate \/ Push \/ Succeed \/ Commit \/ UNCHANGED vars
  BY <1>1, <1>2 DEF Tick, Stall, Pass, Land, LandLate, Push, Succeed, Commit, vars, run, kube
<1>3. QED
  BY <1>2, StandsRun, StandsFlux DEF Next

(* A rollout that verifyRollout has found verified stands in the cluster   *)
(* as it was found, for any interleaving with Flux, Helm and main.         *)
THEOREM StandsTheorem == Spec => []VerifiedStands
<1>1. LaneInv /\ StandsInv => VerifiedStands
  <2> SUFFICES ASSUME LaneInv, StandsInv, pc = "end", flux.applied = seen.applied
               PROVE  spec = head /\ pods = [image |-> head, rolled |-> TRUE]
    BY DEF VerifiedStands
  <2>1. pods.image = head /\ pods.rolled /\ spec = head
    BY DEF StandsInv, Applied, Found
  <2>2. pods \in [image : Pins, rolled : BOOLEAN]
    BY DEF LaneInv, KubeType
  <2>3. QED
    BY <2>1, <2>2
<1>2. QED
  BY <1>1, TypeInit, LaneStep, StandsInit, StandsStep, PTL DEF Spec
=============================================================================
