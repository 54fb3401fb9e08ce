----------------------------- MODULE StartupHold -----------------------------
(* kopiur-startup-hold.py, which runs as PID 1 of a Books writer before the   *)
(* application and holds it back until an absolute expiry, its status and     *)
(* check commands, and who uses them: a capture that relies on the hold, or a *)
(* drill (scripts/kopiur-{cwa-bdl-startup,cwa-startup-hold,chaptarr-startup}- *)
(* native.py).  Times are the ticks left until an instant, so no clock bounds *)
(* the behaviours.  The wall clock may be stepped against the monotonic one.  *)
(* The random nonce of a marker stands for the start that wrote it.           *)
EXTENDS Integers, Sequences, FiniteSets

CONSTANTS
  None,         \* no marker, no evidence, no answer
  MaxHold,      \* MAX_HOLD
  Deadlines,    \* ticks from a rollout to the deadline it sets
  Minimums,     \* remaining times a check asks for
  Starts,       \* container starts that can be told apart at one time
  Clients,      \* <<"capture", FALSE>> or <<drill, replacement>>
  FixtureHold,  \* ticks from the first start to a drill's deadline
  MaxSteps,     \* bound: steps of the wall clock
  MaxKills,     \* bound: PID 1 killed or terminated
  MaxRollouts,  \* bound: rollouts after the first
  MaxFaults     \* bound: Docker operations of a drill that fail

ASSUME HoldAssumption ==
  /\ MaxHold \in Nat \ {0} /\ FixtureHold \in 1..MaxHold
  /\ Deadlines \subseteq Int /\ Minimums \subseteq 1..MaxHold
  /\ MaxSteps \in Nat /\ MaxKills \in Nat /\ MaxRollouts \in Nat /\ MaxFaults \in Nat

VARIABLES
  client,   \* whose commands are run in the container
  pid1,     \* where PID 1 is in start(), "native" once it has become /init
  start,    \* this start of the container: Pod UID, boot ID, pid1_start, nonce
  due,      \* ticks to the deadline on the wall clock
  end,      \* ticks to monotonic_end
  marker,   \* active.json
  stage, got,   \* the status or check command under way, and the marker it read
  reply,    \* what it answered
  known,    \* evidence the client holds
  first,    \* drill: the evidence of the first holder
  at,       \* drill: its step
  outcome,  \* drill: "", "receipt", or the step at which it failed
  containers,   \* drill: its containers that exist
  promise,  \* history: start and ticks of the last check that passed
  wrote,    \* history: a native writer ran since the evidence was taken
  clean,    \* history: no writer had, whenever a check passed
  reviewed, \* history: the deadline was at most MaxHold ahead when rolled out
  revived,  \* history: a step back put a deadline that had passed ahead again
  steps, kills, rollouts, faults
holder == <<pid1, start, due, end, marker>>
command == <<stage, got, reply>>
drill == <<first, at, outcome, containers, faults>>
history == <<promise, wrote, clean, reviewed, revived>>
bounds == <<steps, kills, rollouts>>
Capturing == client[1] = "capture"
vars == <<client, holder, command, known, drill, history, bounds>>

-----------------------------------------------------------------------------
(* PID 1 *)

Held == pid1 \in {"new", "clear", "make", "hold", "clean", "exec"}
Fresh == CHOOSE s \in Starts : /\ s \notin {start, known, first, promise.start}
                               /\ marker # None => s # marker.start
                               /\ got # None => s # got.start

\* identity(): the command line tells the holder from the application after exec.
Identity(m) == m.start = start /\ Held

RemoveMarker == marker' = None

\* Evidence of an earlier process is removed before anything is decided.
Clear == /\ pid1 = "new"
         /\ RemoveMarker /\ pid1' = "clear"
         /\ UNCHANGED <<start, due, end, wrote>>

Native == pid1' = "native" /\ wrote' = TRUE

\* Broken: the monotonic end is taken a tick too early.
JudgeEarly == /\ pid1 = "clear"
              /\ IF 0 < due /\ due <= MaxHold
                   THEN pid1' = "make" /\ end' = due - 1 /\ UNCHANGED wrote
                   ELSE Native /\ UNCHANGED end
              /\ UNCHANGED <<start, due, marker>>

\* An expired deadline, or one too far ahead, restores service at once.
Judge == /\ pid1 = "clear"
         /\ IF 0 < due /\ due <= MaxHold
              THEN pid1' = "make" /\ end' = due /\ UNCHANGED wrote
              ELSE Native /\ UNCHANGED end
         /\ UNCHANGED <<start, due, marker>>

Publish == /\ pid1 = "make"
           /\ marker' = [start |-> start, end |-> end] /\ pid1' = "hold"
           /\ UNCHANGED <<start, due, end, wrote>>

\* Broken: only the instant of the deadline ends the hold.
ExpireExactly == /\ pid1 = "hold" /\ due = 0
                 /\ pid1' = "clean"
                 /\ UNCHANGED <<start, due, end, marker, wrote>>

Expire == /\ pid1 = "hold" /\ (due <= 0 \/ end <= 0)
          /\ pid1' = "clean"
          /\ UNCHANGED <<start, due, end, marker, wrote>>

Release == /\ pid1 = "clean"
           /\ RemoveMarker /\ pid1' = "exec"
           /\ UNCHANGED <<start, due, end, wrote>>

Exec == /\ pid1 = "exec" /\ Native
        /\ UNCHANGED <<start, due, end, marker>>

Pid1 == /\ (Clear \/ Judge \/ Publish \/ Expire \/ Release \/ Exec)
        /\ UNCHANGED <<client, command, known, drill, promise, clean, reviewed, revived, bounds>>

\* The commands running in a container die with it.
Gone == pid1' = "down" /\ stage' = "idle" /\ got' = None /\ reply' = None

Counted == kills < MaxKills /\ kills' = kills + 1

\* SIGTERM while it holds: stop() removes the marker; as PID 1 it is deaf
\* before the handlers are there.
Terminate == /\ Capturing /\ pid1 = "hold" /\ Counted
             /\ RemoveMarker /\ Gone
             /\ UNCHANGED <<client, start, due, end, known, drill, history, steps, rollouts>>

Kill == /\ Capturing /\ pid1 # "down" /\ Counted
        /\ Gone
        /\ UNCHANGED <<client, start, due, end, marker, known, drill, history, steps, rollouts>>

\* The same container again, or a new one of the same Pod.
Restart == /\ Capturing /\ pid1 = "down"
           /\ pid1' = "new" /\ start' = Fresh /\ marker' \in {marker, None}
           /\ UNCHANGED <<client, due, end, command, known, drill, history, bounds>>

\* A reviewed rollout sets another deadline, after the old container exited.
Rollout == /\ Capturing /\ rollouts < MaxRollouts
           /\ pid1 \in {"down", "native"}
           /\ rollouts' = rollouts + 1
           /\ due' \in Deadlines /\ reviewed' = (due' <= MaxHold)
           /\ pid1' = "new" /\ start' = Fresh /\ marker' = None
           /\ stage' = "idle" /\ got' = None /\ reply' = None
           /\ UNCHANGED <<client, end, known, drill, promise, wrote, clean, revived, steps,
                          kills>>

-----------------------------------------------------------------------------
(* Time.  Steps of the wall clock come between checks and are not made while  *)
(* a client relies on a check.                                                *)

Lower(t, floor) == IF t > floor THEN t - 1 ELSE floor
Pass(m) == IF m = None THEN None ELSE [m EXCEPT !.end = Lower(@, 0)]

Tick == /\ due' = Lower(due, -MaxSteps) /\ end' = Lower(end, 0)
        /\ marker' = Pass(marker) /\ got' = Pass(got)
        /\ promise' = [promise EXCEPT !.left = Lower(@, 0)]
        /\ UNCHANGED <<client, pid1, start, stage, reply, known, drill, wrote, clean, reviewed,
                       revived, bounds>>

StepClock == /\ Capturing /\ steps < MaxSteps
             /\ stage = "idle" /\ promise.left = 0
             /\ due' \in {due - 1, due + 1} /\ steps' = steps + 1
             /\ revived' = (revived \/ (due <= 0 /\ due' > 0))
             /\ UNCHANGED <<client, pid1, start, end, marker, command, known, drill, promise,
                            wrote, clean, reviewed, kills, rollouts>>

-----------------------------------------------------------------------------
(* evidence, status and check: read_marker() reads the file, then the         *)
(* identity of PID 1, then the clocks.                                        *)

Answer(r) == stage' = "answered" /\ reply' = r

Read == /\ stage = "idle"
        /\ IF marker = None THEN Answer("absent") /\ got' = None
                            ELSE stage' = "read" /\ got' = marker /\ UNCHANGED reply

Identify == /\ stage = "read" /\ UNCHANGED got
            /\ IF Identity(got) THEN stage' = "same" /\ UNCHANGED reply
                                ELSE Answer("rejected")

\* Broken: only the wall clock is looked at.
RemainingWall(m) == due

Remaining(m) == IF due < m.end THEN due ELSE m.end

\* evidence does not ask for a minimum, check compares what it was given.
Evidence == stage = "same" /\ UNCHANGED got /\ Answer("valid")
Status == /\ stage = "same" /\ UNCHANGED got
          /\ Answer(IF 1 <= Remaining(got) /\ Remaining(got) <= MaxHold THEN "valid" ELSE "rejected")
\* Broken: any live holder will do.
CheckAny(expected, minimum) ==
  /\ stage = "same" /\ UNCHANGED got
  /\ Answer(IF minimum <= Remaining(got) /\ Remaining(got) <= MaxHold THEN "valid" ELSE "rejected")

Check(expected, minimum) ==
  /\ stage = "same" /\ UNCHANGED got
  /\ Answer(IF minimum <= Remaining(got) /\ Remaining(got) <= MaxHold /\ got.start = expected
              THEN "valid" ELSE "rejected")

Running == pid1 # "down"
Done == stage' = "idle" /\ got' = None /\ reply' = None

-----------------------------------------------------------------------------
(* A capture takes the evidence of a holder and checks it before and after.   *)

CaptureReads == /\ Capturing /\ Running
                /\ (Read \/ Identify)
                /\ UNCHANGED <<client, holder, known, drill, history, bounds>>

CaptureStatus == /\ Capturing /\ Status
                 /\ known' = IF reply' = "valid" THEN got.start ELSE known
                 /\ wrote' = IF reply' = "valid" THEN pid1 = "native" ELSE wrote
                 /\ UNCHANGED <<client, holder, drill, promise, clean, reviewed, revived, bounds>>

CaptureCheck == /\ Capturing /\ known # None
                /\ \E minimum \in Minimums :
                     /\ Check(known, minimum)
                     /\ IF reply' = "valid"
                          THEN /\ promise' = [start |-> start, left |-> minimum]
                               /\ clean' = (clean /\ ~wrote)
                          ELSE UNCHANGED <<promise, clean>>
                /\ UNCHANGED <<client, holder, known, drill, wrote, reviewed, revived, bounds>>

CaptureGoesOn == /\ Capturing /\ stage = "answered" /\ Done
                 /\ UNCHANGED <<client, holder, known, drill, history, bounds>>

Capture == CaptureReads \/ CaptureStatus \/ CaptureCheck \/ CaptureGoesOn

-----------------------------------------------------------------------------
(* The drills, step by step; the steps that talk to the holder are commands.  *)

Begin == <<"create", "start", "await", "take", "probe", "absent">>
Replace == <<"kill", "start", "await", "take", "differs", "stale", "probe", "absent">>

CwaExercise(replacement) ==
  Begin \o (IF replacement THEN Replace ELSE <<"probe", "absent">>)
        \o <<"watch", "stale", "ready", "cleanup">>

BdlExercise(replacement) ==
  Begin \o (IF replacement THEN Replace ELSE <<>>)
        \o <<"watch", "stale", "ready", "monitor", "unmonitor", "cleanup">>

ChaptarrExercise(replacement) ==
  Begin \o (IF replacement THEN Replace ELSE <<>>)
        \o <<"poll", "gone", "stale", "ready", "cleanup">>

Drilling == ~Capturing
Name == client[1]
Steps == CASE Name = "cwa" -> CwaExercise(client[2])
           [] Name = "bdl" -> BdlExercise(client[2])
           [] Name = "chaptarr" -> ChaptarrExercise(client[2])
At(s) == Drilling /\ at > 0 /\ Steps[at] = s
Index(s) == CHOOSE i \in 1..Len(Steps) : Steps[i] = s
Advance == at' = at + 1 /\ UNCHANGED outcome
CleanupStart == Index(IF Name = "bdl" THEN "unmonitor" ELSE "cleanup")
Abort(why) == at' = CleanupStart /\ outcome' = why
Expired == due <= 0 \/ end <= 0

\* attempted = True; docker create
DrillCreate == /\ At("create") /\ containers' = {"app"} /\ Advance
               /\ UNCHANGED <<client, holder, command, known, first, faults, history, bounds>>

\* The first start fixes the deadline, the second one finds it.
DrillStart == /\ At("start")
              /\ pid1' = "new" /\ start' = Fresh
              /\ due' = IF known = None THEN FixtureHold ELSE due
              /\ Advance
              /\ UNCHANGED <<client, end, marker, command, known, first, containers, faults,
                             history, bounds>>

DrillKill == /\ At("kill") /\ Gone /\ Advance
             /\ UNCHANGED <<client, start, due, end, marker, known, first, containers, faults,
                            history, bounds>>

Asking == \/ At("await") \/ At("take") \/ At("probe") \/ At("stale") \/ At("poll") \/ At("gone")
          \/ At("watch")

\* marker() and status() ask for evidence, probe() and check() for a check.
DrillAsks ==
  /\ Asking
  /\ \/ Read \/ Identify
     \/ At("stale") /\ Check(first, 1)
     \/ (At("probe") \/ At("poll")) /\ \E minimum \in Minimums : Check(known, minimum)
     \/ (At("await") \/ At("take") \/ At("gone") \/ At("watch"))
          /\ IF Name = "chaptarr" THEN Status ELSE Evidence
  /\ UNCHANGED <<client, holder, known, drill, history, bounds>>

\* wait(): asked again, an answer other than "absent" of marker() is an error.
DrillAwait ==
  /\ At("await") /\ stage = "answered" /\ Done
  /\ \/ reply = "valid" /\ Advance
     \/ reply = "absent" /\ UNCHANGED <<at, outcome>>
     \/ reply = "rejected" /\ IF Name = "chaptarr" THEN UNCHANGED <<at, outcome>> ELSE Abort("unread")
  /\ UNCHANGED <<client, holder, known, first, containers, faults, history, bounds>>

DrillTake ==
  /\ At("take") /\ stage = "answered" /\ Done
  /\ IF reply = "valid"
       THEN /\ known' = got.start /\ Advance
            /\ first' = IF first = None THEN got.start ELSE first
       ELSE /\ Abort(IF reply = "absent" THEN "take" ELSE "unread")
            /\ UNCHANGED <<known, first>>
  /\ UNCHANGED <<client, holder, containers, faults, history, bounds>>

DrillDiffers == /\ At("differs")
                /\ IF known # first THEN Advance ELSE Abort("differs")
                /\ UNCHANGED <<client, holder, command, known, first, containers, faults, history,
                               bounds>>

DrillProbe == /\ At("probe") /\ stage = "answered" /\ Done
              /\ IF reply = "valid" THEN Advance ELSE Abort("probe")
              /\ UNCHANGED <<client, holder, known, first, containers, faults, history, bounds>>

DrillStale == /\ At("stale") /\ stage = "answered" /\ Done
              /\ IF reply # "valid" THEN Advance ELSE Abort("stale")
              /\ UNCHANGED <<client, holder, known, first, containers, faults, history, bounds>>

DrillAbsent == /\ At("absent")
               /\ IF pid1 # "native" THEN Advance ELSE Abort("absent")
               /\ UNCHANGED <<client, holder, command, known, first, containers, faults, history,
                              bounds>>

\* await_expiry: what the marker says, then whether the hold has expired, then
\* whether a writer is there, and then the expiry once more.
DrillWatch ==
  /\ At("watch") /\ stage = "answered"
  /\ \/ /\ reply = "absent" /\ Done
        /\ IF Expired THEN Advance ELSE Abort("early release")
     \/ /\ reply = "rejected" /\ Done /\ Abort("unread")
     \/ /\ reply = "valid" /\ got.start # known /\ Done /\ Abort("changed")
     \/ /\ reply = "valid" /\ got.start = known /\ UNCHANGED <<got, at, outcome>>
        /\ stage' = "looked" /\ reply' = IF pid1 = "native" THEN "writer" ELSE "no writer"
  /\ UNCHANGED <<client, holder, known, first, containers, faults, history, bounds>>

\* Broken: the expiry is not looked at again after the round trip.
DrillLookedOnce ==
  /\ At("watch") /\ stage = "looked" /\ Done
  /\ IF reply = "no writer" THEN UNCHANGED <<at, outcome>> ELSE Abort("early writer")
  /\ UNCHANGED <<client, holder, known, first, containers, faults, history, bounds>>

DrillLooked ==
  /\ At("watch") /\ stage = "looked" /\ Done
  /\ IF reply = "no writer" \/ Expired THEN UNCHANGED <<at, outcome>> ELSE Abort("early writer")
  /\ UNCHANGED <<client, holder, known, first, containers, faults, history, bounds>>

\* Chaptarr: until a tick before the deadline, check and look for a writer.
DrillPoll ==
  /\ At("poll")
  /\ \/ stage = "idle" /\ due <= 1 /\ Advance /\ UNCHANGED command
     \/ /\ stage = "answered" /\ Done
        /\ IF reply = "valid" /\ pid1 # "native" THEN UNCHANGED <<at, outcome>> ELSE Abort("probe")
  /\ UNCHANGED <<client, holder, known, first, containers, faults, history, bounds>>

DrillGone == /\ At("gone") /\ stage = "answered" /\ Done
             /\ IF reply = "valid" THEN UNCHANGED <<at, outcome>> ELSE Advance
             /\ UNCHANGED <<client, holder, known, first, containers, faults, history, bounds>>

DrillReady == /\ At("ready") /\ pid1 = "native" /\ Advance
              /\ UNCHANGED <<client, holder, command, known, first, containers, faults, history,
                             bounds>>

DrillMonitor == /\ At("monitor") /\ containers' = containers \cup {"monitor"} /\ Advance
                /\ UNCHANGED <<client, holder, command, known, first, faults, history, bounds>>

\* cleanup_pair: the application is removed even if removing the monitor fails.
DrillCleanup ==
  /\ \/ At("unmonitor") /\ containers' = containers \ {"monitor"} /\ Advance /\ UNCHANGED holder
     \/ /\ At("cleanup") /\ containers' = containers \ {"app"}
        /\ at' = 0 /\ outcome' = IF outcome = "" THEN "receipt" ELSE outcome
        /\ pid1' = "down" /\ UNCHANGED <<start, due, end, marker>>
  /\ Done
  /\ UNCHANGED <<client, known, first, faults, history, bounds>>

\* A Docker operation fails, perhaps after it was carried out, or a wait()
\* takes too long.
DrillFault ==
  /\ Drilling /\ at > 0 /\ faults < MaxFaults /\ faults' = faults + 1
  /\ \/ at < CleanupStart /\ Abort("docker")
     \/ At("unmonitor") /\ at' = at + 1 /\ outcome' = "docker"
     \/ At("cleanup") /\ at' = 0 /\ outcome' = "docker"
  /\ containers' \in {containers, CASE At("create") -> {"app"}
                                     [] At("monitor") -> containers \cup {"monitor"}
                                     [] At("unmonitor") -> containers \ {"monitor"}
                                     [] At("cleanup") -> containers \ {"app"}
                                     [] OTHER -> containers}
  /\ Done
  /\ UNCHANGED <<client, holder, known, first, history, bounds>>

Drill == \/ DrillCreate \/ DrillStart \/ DrillKill \/ DrillAsks \/ DrillAwait \/ DrillTake
         \/ DrillDiffers \/ DrillProbe \/ DrillStale \/ DrillAbsent \/ DrillWatch \/ DrillLooked
         \/ DrillPoll \/ DrillGone \/ DrillReady \/ DrillMonitor \/ DrillCleanup \/ DrillFault

-----------------------------------------------------------------------------

NoPromise == [start |-> None, left |-> 0]

Init == /\ client \in Clients
        /\ IF Capturing THEN pid1 = "new" /\ due \in Deadlines
                                 ELSE pid1 = "down" /\ due = FixtureHold
        /\ start \in {CHOOSE s \in Starts : TRUE} /\ end = 0 /\ marker = None
        /\ stage = "idle" /\ got = None /\ reply = None
        /\ known = None /\ first = None
        /\ at = (IF Capturing THEN 0 ELSE 1) /\ outcome = "" /\ containers = {}
        /\ promise = NoPromise /\ wrote = FALSE /\ clean = TRUE
        /\ reviewed = (due <= MaxHold) /\ revived = FALSE
        /\ steps = 0 /\ kills = 0 /\ rollouts = 0 /\ faults = 0

Next == Pid1 \/ Terminate \/ Kill \/ Restart \/ Rollout \/ Tick \/ StepClock \/ Capture \/ Drill

\* Time passes, PID 1 goes on and the kubelet restarts the container.
Spec == Init /\ [][Next]_vars /\ WF_vars(Tick) /\ WF_vars(Pid1) /\ WF_vars(Restart)

AllClients == {<<"capture", FALSE>>} \cup ({"cwa", "bdl", "chaptarr"} \X BOOLEAN)

-----------------------------------------------------------------------------
(* Properties *)

Markers == [start : Starts, end : 0..MaxHold] \cup {None}

TypeOK == /\ client \in Clients
          /\ pid1 \in {"down", "new", "clear", "make", "hold", "clean", "exec", "native"}
          /\ start \in Starts /\ known \in Starts \cup {None} /\ first \in Starts \cup {None}
          /\ due \in Int /\ end \in 0..MaxHold
          /\ marker \in Markers /\ got \in Markers
          /\ stage \in {"idle", "read", "same", "answered", "looked"}
          /\ promise \in [start : Starts \cup {None}, left : 0..MaxHold]
          /\ wrote \in BOOLEAN /\ clean \in BOOLEAN /\ reviewed \in BOOLEAN /\ revived \in BOOLEAN
          /\ containers \subseteq {"app", "monitor"}
          /\ steps \in 0..MaxSteps /\ kills \in 0..MaxKills
          /\ rollouts \in 0..MaxRollouts /\ faults \in 0..MaxFaults

\* A check that passes for a minimum means that this container runs no native
\* writer for that long: both clocks of the marker have to be looked at, since
\* either ends the hold, and the wall clock may have been stepped before.  What
\* no check can see is a deadline that has passed, so that the holder is about
\* to leave, and that a step of the clock puts ahead again.
PromiseKept == ~revived /\ promise.left > 0 /\ promise.start = start => pid1 # "native"

\* A check with the evidence of an earlier status passes only if no native
\* writer ran in between: kills, restarts that find the old marker, and
\* rollouts of another hold do not make old evidence good again.
Undisturbed == revived \/ clean

\* While the wall clock is not stepped, no container of a reviewed rollout,
\* however often it was killed and restarted, starts the writer before the
\* deadline.
DeadlineHolds == Capturing /\ steps = 0 /\ reviewed /\ pid1 = "native" => due <= 0

\* The drills, with no Docker operation failing, do not blame a holder that
\* does what it should: an early release, an early writer, a changed or an
\* accepted old identity is never reported, and a probe fails only when the
\* hold has less left than it asked for.
NoFalseAlarm ==
  Drilling /\ outcome # "" => /\ outcome \in {"receipt", "docker", "unread", "take", "probe", "absent"}
                              /\ outcome \in {"take", "absent"} => Expired
                              /\ outcome = "probe" => \E m \in Minimums : due < m \/ end < m

\* Whatever is killed, restarted or stepped, the application runs again: a
\* hold, even with an invalid deadline, delays it and does not stop it.
WriterReturns == [](Capturing => <>(pid1 = "native"))

=============================================================================
