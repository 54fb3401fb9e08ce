------------------------------ MODULE FastUpdate ------------------------------
(* The fast-update lane (renovate/app/config/fast-update-runner.cjs): a       *)
(* CronJob, one run at a time, that vets the open pull request, opens a       *)
(* maintenance window, merges the vetted head, follows the rollout and ends   *)
(* the window.  GitHub, Flux, Helm and the window behind the helper move on   *)
(* by themselves between any two steps.  Times are ticks left or spent.       *)
EXTENDS Integers, Sequences, SequencesExt

CONSTANTS
  Duration,      \* --duration, 30 minutes in the code
  MinRemaining,  \* what maintenanceActive asks for, 10 minutes in the code
  MergeLimit,    \* from the status read to the merge answer, 30 s in the code
  VerifyLimit,   \* timeoutMs of verifyRollout, 8 minutes in the code
  RoundLimit,    \* one round of observations: its calls' timeouts add up to 250 s
  HelperLimit,   \* one helper command, 2 minutes in the code
  Heads,         \* heads of the pull request, in the order they are pushed
  SeveralFiles,  \* heads that change more than one file
  OtherContent,  \* heads that change more than the pin in their file
  MaxCommits,    \* bound: commits of others on main
  MaxFaults      \* bound: failed calls, stalls and killed runs

ASSUME LaneAssumption ==
  /\ Heads \subseteq Nat \ {0} /\ 1 \in Heads
  /\ SeveralFiles \subseteq Heads /\ OtherContent \subseteq Heads
  /\ {Duration, MinRemaining, MergeLimit, VerifyLimit, RoundLimit, HelperLimit,
      MaxCommits, MaxFaults} \subseteq Nat
  /\ HelperLimit + MinRemaining <= Duration
\* 30 s and 8 minutes of 10: nothing is asked of RoundLimit.
ASSUME CoverAssumption == MergeLimit + VerifyLimit < MinRemaining

NoHead == 0
OldPin == 0     \* the pin on main that the pull request replaces
OtherPin == -1  \* a pin someone else puts on main
Pins == {OldPin, OtherPin} \cup Heads

VARIABLES
  pc,       \* the step of the run, "off" between two runs
  outcome,  \* what the last run reported
  head,     \* candidate.pr.head.sha
  rev,      \* revision the merge answered, its place on main
  seen,     \* revisions a round has observed: source and applied
  due,      \* ticks left to the deadline of verifyRollout
  spent,    \* ticks since the run's last timed call began
  left,     \* ticks left of the maintenance window, 0 when there is none
  request,  \* the merge request: "none", "flying", "merged", "rejected"
  late,     \* head of a merge request whose caller has given up
  pull,     \* the pull request: its head, and whether it is open
  green,    \* heads whose required checks have succeeded
  main,     \* pin of the target at every revision of main
  flux,     \* revision fetched, revision applied
  spec,     \* pin in the applied HelmRelease
  pods,     \* [image, rolled]: the Deployment
  sound,    \* whether the new image passes its readiness probe
  landed,   \* history: the head that was merged
  commits, faults
run == <<pc, outcome, head, rev, seen, due, spent>>
hub == <<request, late, pull, green, main, landed>>
kube == <<flux, spec, pods, sound>>
vars == <<run, left, hub, kube, commits, faults>>

-----------------------------------------------------------------------------
(* The run *)

Fault == faults < MaxFaults /\ faults' = faults + 1
To(step) == pc' = step

Rounds == {"source", "ks", "live", "pods", "health"}
Timed == {"status", "merge", "answer", "end"} \cup Rounds
Limit == CASE pc \in {"status", "end"} -> HelperLimit
           [] pc \in {"merge", "answer"} -> MergeLimit
           [] OTHER -> RoundLimit

Quit(why) == To("off") /\ outcome' = why

Start == /\ pc = "off"
         /\ To("pull") /\ outcome' = "none" /\ head' = NoHead /\ rev' = 0
         /\ seen' = [source |-> 1, applied |-> 1] /\ due' = 0 /\ spent' = 0
         /\ request' = "none"
         /\ UNCHANGED <<left, late, pull, green, main, landed, kube, commits, faults>>

\* readyPull: the pull request, its files, its content and its checks are four
\* calls.  The files are those of the head of that moment, not of pr.head.sha.
Mergeable == pull.open /\ Last(main) = OldPin
ReadPull == /\ pc = "pull"
            /\ IF Mergeable THEN To("files") /\ head' = pull.head /\ UNCHANGED outcome
                            ELSE Quit("nothing") /\ UNCHANGED head
Vet(step, ok, next) == /\ pc = step
                       /\ IF ok THEN To(next) /\ UNCHANGED outcome ELSE Quit("nothing")
                       /\ UNCHANGED head
ReadFiles == Vet("files", pull.head \notin SeveralFiles, "content")
ReadContent == Vet("content", head \notin OtherContent, "checks")
ChecksPass == Vet("checks", head \in green, "begin")
ReadyPull == /\ ReadPull \/ ReadFiles \/ ReadContent \/ ChecksPass
             /\ UNCHANGED <<rev, seen, due, spent, left, hub, kube, commits, faults>>

\* Broken: a refused begin renews the window that is there.
BeginRenews == /\ pc = "begin" /\ left' = Duration
               /\ IF left = 0 THEN To("status") /\ UNCHANGED outcome ELSE Quit("failed")
               /\ spent' = 0
               /\ UNCHANGED <<head, rev, seen, due, hub, kube, commits, faults>>

\* The helper refuses a window that would overlap one of its own, and any alert.
\* Killed after its two minutes it may have opened one whose id nobody learns.
Begin == /\ pc = "begin"
         /\ \/ left = 0 /\ left' = Duration /\ To("status") /\ UNCHANGED <<outcome, faults>>
            \/ left > 0 /\ Quit("failed") /\ UNCHANGED <<left, faults>>
            \/ Fault /\ Quit("failed") /\ left' \in IF left = 0 THEN {0, Duration} ELSE {left}
         /\ spent' = 0
         /\ UNCHANGED <<head, rev, seen, due, hub, kube, commits>>

MaintenanceActive == left >= MinRemaining

Status == /\ pc = "status"
          /\ \/ MaintenanceActive /\ To("merge") /\ UNCHANGED faults
             \/ ~MaintenanceActive /\ To("unwind") /\ UNCHANGED faults
             \/ Fault /\ To("unwind")
          /\ spent' = 0
          /\ UNCHANGED <<outcome, head, rev, seen, due, left, hub, kube, commits>>

\* Broken: the merge names whatever the head has become.
PutMergeLatest == /\ pc = "merge"
                  /\ To("answer") /\ request' = "flying" /\ head' = pull.head
                  /\ UNCHANGED <<outcome, rev, seen, due, spent, left, late, pull, green,
                                 main, landed, kube, commits, faults>>

PutMerge == /\ pc = "merge"
            /\ To("answer") /\ request' = "flying"
            /\ UNCHANGED <<outcome, head, rev, seen, due, spent, left, late, pull, green,
                           main, landed, kube, commits, faults>>

\* The answer, or the run gives up while the request is under way or done.
Answer == /\ pc = "answer"
          /\ \/ /\ request = "merged"
                /\ To("manifest") /\ rev' = SelectInSeq(main, LAMBDA p : p = head)
                /\ due' = VerifyLimit /\ UNCHANGED <<late, faults>>
             \/ request = "rejected" /\ To("unwind") /\ UNCHANGED <<rev, due, late, faults>>
             \/ /\ Fault /\ To("unwind") /\ UNCHANGED <<rev, due>>
                /\ late' = IF request = "flying" THEN head ELSE late
          /\ request' = "none" /\ spent' = 0
          /\ UNCHANGED <<outcome, head, seen, left, pull, green, main, landed, kube, commits>>

\* Broken: rounds go on without a deadline.
RoundForEver == To("source") /\ spent' = 0 /\ UNCHANGED outcome

(* verifyRollout: a round begins only before the deadline; an observation     *)
(* that fails or does not satisfy ends the round.                             *)
Round == /\ spent' = 0
         /\ IF due > 0 THEN To("source") /\ UNCHANGED outcome ELSE Quit("unverified")
ReadManifest == /\ pc = "manifest"
                /\ \/ Round /\ UNCHANGED faults
                   \/ Fault /\ UNCHANGED <<pc, outcome, spent>>
                /\ UNCHANGED <<head, rev, seen, due, left, hub, kube, commits>>

\* The merge itself, or a descendant that retains the pin.
ContainsChange(r) == r >= rev /\ main[r] = head
ObserveSource == /\ pc = "source" /\ To("ks")
                 /\ seen' = [seen EXCEPT !.source = flux.fetched]
                 /\ UNCHANGED <<outcome, spent>>
ObserveKs == /\ pc = "ks" /\ seen' = [seen EXCEPT !.applied = flux.applied]
             /\ IF ContainsChange(seen.source) /\ ContainsChange(flux.applied)
                  THEN To("live") /\ UNCHANGED <<outcome, spent>> ELSE Round
Observe(step, ok, next) == /\ pc = step /\ UNCHANGED seen
                           /\ IF ok THEN To(next) /\ UNCHANGED <<outcome, spent>> ELSE Round
ObserveLive == Observe("live", pods.image = spec, "pods")
\* Broken: the image is enough.
ObserveImage == Observe("pods", pods.image = head, "health")

ObserveDeployment == Observe("pods", pods.image = head /\ pods.rolled, "health")
\* The Service answers from ready pods; during another rollout it may not.
ObserveHealth == /\ pc = "health" /\ UNCHANGED seen
                 /\ \/ To("end") /\ spent' = 0 /\ UNCHANGED outcome
                    \/ ~pods.rolled /\ Round
VerifyRollout == /\ \/ ObserveSource \/ ObserveKs \/ ObserveLive \/ ObserveDeployment
                    \/ ObserveHealth
                 /\ UNCHANGED <<head, rev, due, left, hub, kube, commits, faults>>
ObserveFails == /\ pc \in Rounds /\ Fault /\ Round
                /\ UNCHANGED <<head, rev, seen, due, left, hub, kube, commits>>

\* The helper ends the window, or refuses because of an alert, or is killed.
End == /\ pc = "end"
       /\ \/ left' = 0 /\ Quit("verified") /\ UNCHANGED faults
          \/ Fault /\ left' \in {left, 0} /\ Quit("unverified")
       /\ UNCHANGED <<head, rev, seen, due, spent, hub, kube, commits>>

\* catch: an unused window is released; after a merge it is left to its expiry.
Unwind == /\ pc = "unwind"
          /\ \/ left' = 0 /\ Quit("failed") /\ UNCHANGED faults
             \/ Fault /\ left' \in {left, 0} /\ Quit("expiry required")
          /\ UNCHANGED <<head, rev, seen, due, spent, hub, kube, commits>>

\* activeDeadlineSeconds, an eviction, or any call before the window that fails.
Killed == /\ pc # "off" /\ Fault /\ Quit("killed")
          /\ late' = IF request = "flying" THEN head ELSE late
          /\ request' = "none"
          /\ UNCHANGED <<head, rev, seen, due, spent, left, pull, green, main, landed,
                         kube, commits>>

-----------------------------------------------------------------------------
(* Time.  Only a stalled run exceeds what a timed step may take.              *)

Pass == /\ left' = IF left > 0 THEN left - 1 ELSE 0
        /\ due' = IF due > 0 THEN due - 1 ELSE 0
        /\ UNCHANGED <<pc, outcome, head, rev, seen, hub, kube, commits>>
Tick == /\ left + due > 0
        /\ pc \in Timed => spent < Limit
        /\ spent' = IF pc \in Timed THEN spent + 1 ELSE spent
        /\ Pass /\ UNCHANGED faults
Stall == pc = "status" /\ spent >= Limit /\ left > 0 /\ Fault /\ Pass /\ UNCHANGED spent

-----------------------------------------------------------------------------
(* GitHub and the cluster *)

Accepts(h) == Mergeable /\ pull.head = h
Squash(h) == /\ main' = Append(main, h) /\ landed' = h /\ pull' = [pull EXCEPT !.open = FALSE]
Land == /\ request = "flying"
        /\ IF Accepts(head) THEN Squash(head) /\ request' = "merged"
                            ELSE request' = "rejected" /\ UNCHANGED <<main, landed, pull>>
        /\ UNCHANGED <<run, left, late, green, kube, commits, faults>>
LandLate == /\ late # NoHead /\ late' = NoHead
            /\ IF Accepts(late) THEN Squash(late) ELSE UNCHANGED <<main, landed, pull>>
            /\ UNCHANGED <<run, left, request, green, kube, commits, faults>>
Push == /\ pull.open /\ pull.head + 1 \in Heads
        /\ pull' = [pull EXCEPT !.head = @ + 1]
        /\ UNCHANGED <<run, left, request, late, green, main, landed, kube, commits, faults>>
Succeed == /\ pull.head \notin green /\ green' = green \cup {pull.head}
           /\ UNCHANGED <<run, left, request, late, pull, main, landed, kube, commits, faults>>
Commit == /\ commits < MaxCommits /\ commits' = commits + 1
          /\ \E p \in {Last(main), OldPin, OtherPin} : main' = Append(main, p)
          /\ UNCHANGED <<run, left, request, late, pull, green, landed, kube, faults>>

Fetch == /\ flux.fetched < Len(main) /\ flux' = [flux EXCEPT !.fetched = Len(main)]
         /\ UNCHANGED <<spec, pods>>
Apply == /\ flux.applied < flux.fetched /\ flux' = [flux EXCEPT !.applied = flux.fetched]
         /\ spec' = main[flux.fetched] /\ UNCHANGED pods
Upgrade == /\ pods.image # spec /\ pods' = [image |-> spec, rolled |-> FALSE]
           /\ UNCHANGED <<flux, spec>>
\* Pods become available through the readiness probe that the health path is.
Rollout == /\ ~pods.rolled /\ (pods.image \in Heads => sound)
           /\ pods' = [pods EXCEPT !.rolled = TRUE]
           /\ UNCHANGED <<flux, spec>>
Flux == /\ Fetch \/ Apply \/ Upgrade \/ Rollout
        /\ UNCHANGED <<run, left, hub, sound, commits, faults>>

-----------------------------------------------------------------------------
Init == /\ pc = "off" /\ outcome = "none" /\ head = NoHead /\ rev = 0
        /\ seen = [source |-> 1, applied |-> 1] /\ due = 0 /\ spent = 0 /\ left = 0
        /\ request = "none" /\ late = NoHead /\ pull = [head |-> 1, open |-> TRUE]
        /\ green = {} /\ main = <<OldPin>> /\ landed = NoHead
        /\ flux = [fetched |-> 1, applied |-> 1] /\ spec = OldPin
        /\ pods = [image |-> OldPin, rolled |-> TRUE] /\ sound \in BOOLEAN
        /\ commits = 0 /\ faults = 0

Runner == Start \/ ReadyPull \/ Begin \/ Status \/ PutMerge \/ Answer \/ ReadManifest
          \/ VerifyRollout \/ End \/ Unwind
Next == Runner \/ ObserveFails \/ Killed \/ Tick \/ Stall \/ Land \/ LandLate \/ Push
        \/ Succeed \/ Commit \/ Flux

Fairness == WF_vars(Runner) /\ WF_vars(Tick) /\ WF_vars(Land) /\ WF_vars(Succeed)
Spec == Init /\ [][Next]_vars /\ Fairness

-----------------------------------------------------------------------------
Ready == Mergeable /\ pull.head \in green \ (SeveralFiles \cup OtherContent)

(* The state stays within the types of the lane: no time is negative, no      *)
(* revision lies beyond main, and a round never lasts longer than RoundLimit. *)
TypeOK ==
  /\ pc \in Timed \cup {"off", "pull", "files", "content", "checks", "begin", "manifest",
                        "unwind"}
  /\ outcome \in {"none", "nothing", "failed", "verified", "unverified", "expiry required",
                  "killed"}
  /\ head \in {NoHead} \cup Heads /\ rev \in 0..Len(main)
  /\ seen \in [source : 1..Len(main), applied : 1..Len(main)]
  /\ due \in 0..VerifyLimit /\ left \in 0..Duration
  /\ pc \in Timed => spent \in 0..Limit
  /\ request \in {"none", "flying", "merged", "rejected"} /\ late \in {NoHead} \cup Heads
  /\ pull \in [head : Heads, open : BOOLEAN] /\ green \subseteq Heads
  /\ main \in Seq(Pins) /\ Len(main) <= MaxCommits + 2
  /\ flux \in [fetched : 1..Len(main), applied : 1..Len(main)]
  /\ spec \in Pins /\ pods \in [image : Pins, rolled : BOOLEAN] /\ sound \in BOOLEAN
  /\ landed \in {NoHead} \cup Heads
  /\ commits \in 0..MaxCommits /\ faults \in 0..MaxFaults

(* Whatever is pushed between the four reads of readyPull and the merge, what *)
(* lands on main changes one pin only and had its required checks.            *)
MergedIsVetted ==
  landed # NoHead => landed \in green \ (SeveralFiles \cup OtherContent)

(* Every round of verifyRollout, the last one too, begins under the window    *)
(* that was asked for before the merge, and is under it for as long as the    *)
(* code's own limits leave, 90 s: alerts are let through during a rollout     *)
(* only while a round takes longer than that.                                 *)
Slack == MinRemaining - MergeLimit - VerifyLimit
CoveredRounds == pc \in Rounds /\ spent <= Slack => left > 0

(* "deployed and verified": unless Flux has applied another revision since    *)
(* the round saw it, the cluster is at the pin and fully rolled out, however  *)
(* stale the four observations of the round were to one another.              *)
VerifiedStands ==
  pc = "end" /\ flux.applied = seen.applied
    => spec = head /\ pods = [image |-> head, rolled |-> TRUE]

(* Failed, killed and refused runs and the windows they leave behind only     *)
(* delay the lane: no pull request stays ready for ever.                      *)
ReadyIsMerged == []<>~Ready
=============================================================================
