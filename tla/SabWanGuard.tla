---------------------------- MODULE SabWanGuard ----------------------------
(***************************************************************************)
(* The SAB WAN guard, kubernetes/apps/arrs/sab-wan-guard/app/guard.py: it  *)
(* pauses the download queue while the household is on its backup uplink   *)
(* and resumes what it has paused, with a journal that says what it may    *)
(* resume after a restart.  The gateway, SABnzbd and its user take a step  *)
(* between any two calls of the guard; a call may fail, or be applied      *)
(* without an answer; a write of the journal may fail; the guard may be    *)
(* killed anywhere.                                                        *)
(*                                                                         *)
(* Time is counted in ticks, of 30 seconds for the constants of the code.  *)
(***************************************************************************)
EXTENDS Integers

CONSTANTS Period,  \* from one poll to the next (25 s)
          MaxGap,  \* between polls before the timer starts again (60 s)
          Hold     \* on primary before a resume (120 s)

ASSUME GuardAssumption ==
    /\ Period \in Nat \ {0}
    /\ MaxGap \in Nat /\ MaxGap >= Period
    /\ Hold \in Nat \ {0}

VARIABLES
    wan,      \* what classify_wan makes of the gateway's answer
    queue,    \* who has paused the queue, or "running"
    disk,     \* the durable journal
    pc,       \* where the guard is
    journal,  \* journal.state
    seen,     \* the answers of this tick
    since,    \* now - primary_since
    poll,     \* now - last_poll
    elapsed,  \* since the start of the tick (now)
    calm,     \* history: since something other than primary was found
    doubt,    \* history: a command was sent and its effect not confirmed
    credit,   \* history: a confirmed pause that no resume has answered
    raced     \* history: the user has acted since the guard read the queue

guard   == <<pc, journal, seen>>
timers  == <<since, poll, elapsed>>
outside == <<wan, queue>>
history == <<calm, doubt, credit, raced>>
vars    == <<outside, disk, guard, timers, history>>
-----------------------------------------------------------------------------
None    == -1   \* a timer that is not set
Pending == {"pause_pending", "resume_pending"}
Journal == {"idle", "owned"} \cup Pending
Wans    == {"primary", "backup", "unknown"}
Pcs     == {"down", "sleep", "wan", "queue", "decide", "pause", "pause_check", "own",
            "resume", "resume_check", "disown"}

Least(a, b) == IF a < b THEN a ELSE b
Older(t, d, top) == IF t = None THEN None ELSE Least(t + d, top)

Init == /\ wan \in Wans
        /\ queue \in {"running", "user"}
        /\ disk = "idle"
        /\ pc = "down"
        /\ journal = "idle"
        /\ seen = [wan |-> "unknown", paused |-> FALSE]
        /\ since = None /\ poll = None
        /\ elapsed = 0
        /\ calm = 0
        /\ doubt = FALSE /\ credit = FALSE /\ raced = FALSE
-----------------------------------------------------------------------------
(* Broken: a failed poll leaves the timers alone.                          *)
FailLightly == /\ pc' = "sleep"
               /\ UNCHANGED <<since, poll>>
               /\ calm' = 0

(* The except branch of tick(): the timers start again.                    *)
Fail == /\ pc' = "sleep"
        /\ since' = None /\ poll' = None
        /\ calm' = 0

(* Journal.save: a write that fails stops the process, and the disk has    *)
(* either value.                                                           *)
Save(s, next) ==
    \/ disk' = s /\ journal' = s /\ pc' = next /\ UNCHANGED calm
    \/ disk' \in {disk, s} /\ pc' = "down" /\ calm' = 0 /\ UNCHANGED journal

(* Broken: a pending journal is taken for an idle one.                     *)
BootAfresh == /\ pc = "down"
              /\ pc' = "sleep"
              /\ journal' = IF disk \in Pending THEN "idle" ELSE disk
              /\ since' = None /\ poll' = None
              /\ elapsed' = MaxGap
              /\ UNCHANGED <<outside, disk, seen, history>>

Boot == /\ pc = "down"
        /\ pc' = "sleep"
        /\ journal' = disk
        /\ since' = None /\ poll' = None
        /\ elapsed' = MaxGap
        /\ UNCHANGED <<outside, disk, seen, history>>

(* The loop of main(): the time of the tick is taken before its calls.     *)
Start == /\ pc = "sleep"
         /\ elapsed >= Period
         /\ pc' = "wan"
         /\ poll' = Older(poll, elapsed, MaxGap + 1)
         /\ since' = Older(since, elapsed, Hold)
         /\ elapsed' = 0
         /\ calm' = IF elapsed > MaxGap THEN 0 ELSE calm
         /\ UNCHANGED <<outside, disk, journal, seen, doubt, credit, raced>>

ReadWan == /\ pc = "wan"
           /\ \/ /\ pc' = "queue"
                 /\ seen' = [seen EXCEPT !.wan = wan]
                 /\ UNCHANGED <<since, poll, calm>>
              \/ Fail /\ UNCHANGED seen
           /\ UNCHANGED <<outside, disk, journal, elapsed, doubt, credit, raced>>

(* Broken: the bound on the gap is the period.                             *)
StableStrictly == IF poll = None \/ poll >= Period THEN None ELSE since

(* With both answers, the timers; a pending journal ends the tick.         *)
Stable == IF poll = None \/ poll > MaxGap THEN None ELSE since
ReadQueue ==
    /\ pc = "queue"
    /\ \/ /\ seen' = [seen EXCEPT !.paused = (queue # "running")]
          /\ raced' = FALSE
          /\ poll' = 0
          /\ since' = IF seen.wan # "primary" THEN None
                      ELSE IF Stable = None THEN 0 ELSE Stable
          /\ calm' = IF seen.wan # "primary" THEN 0 ELSE calm
          /\ pc' = IF journal \in Pending THEN "sleep" ELSE "decide"
       \/ Fail /\ UNCHANGED <<seen, raced>>
    /\ UNCHANGED <<outside, disk, journal, elapsed, doubt, credit>>

(* Broken: a resume by the user is not noticed; a paused queue is owned.   *)
ResumedNever   == FALSE
MustPauseAgain == seen.wan = "backup" /\ journal = "idle"

(* The rest of tick(), in the order of its tests.                          *)
Resumed   == journal = "owned" /\ ~seen.paused
MustPause == seen.wan = "backup" /\ ~seen.paused /\ journal = "idle"
MayResume == seen.wan = "primary" /\ seen.paused /\ journal = "owned" /\ since >= Hold

Relinquish == /\ pc = "decide"
              /\ Resumed
              /\ Save("idle", "decide")
              /\ credit' = (credit /\ disk' # "idle")
              /\ UNCHANGED <<outside, seen, timers, doubt, raced>>

(* Broken: the resume is not journaled first.                              *)
AnnouncePause == /\ pc = "decide"
                 /\ \/ MustPause /\ Save("pause_pending", "pause")
                    \/ MayResume /\ pc' = "resume" /\ UNCHANGED <<disk, journal, calm>>
                 /\ UNCHANGED <<outside, seen, timers, doubt, credit, raced>>

Announce == /\ pc = "decide"
            /\ \/ MustPause /\ Save("pause_pending", "pause")
               \/ MayResume /\ Save("resume_pending", "resume")
            /\ UNCHANGED <<outside, seen, timers, doubt, credit, raced>>

Rest == /\ pc = "decide"
        /\ ~Resumed /\ ~MustPause /\ ~MayResume
        /\ pc' = "sleep"
        /\ UNCHANGED <<outside, disk, journal, seen, timers, history>>

(* A command: done; done without an answer; refused.                       *)
Send(after, next) ==
    /\ \/ queue' = after /\ pc' = next /\ UNCHANGED <<since, poll, calm>>
       \/ queue' \in {queue, after} /\ Fail
    /\ doubt' = TRUE
    /\ UNCHANGED <<wan, disk, journal, seen, elapsed, raced>>

SendPause  == /\ pc = "pause"
              /\ Send(IF queue = "running" THEN "guard" ELSE queue, "pause_check")
              /\ UNCHANGED credit
SendResume == /\ pc = "resume"
              /\ Send("running", "resume_check")
              /\ credit' = FALSE

(* The queue is read once more, and has to show the effect.                *)
Confirm ==
    /\ \/ /\ pc = "pause_check" /\ queue # "running"
          /\ pc' = "own"
          /\ credit' = TRUE
          /\ doubt' = FALSE
          /\ UNCHANGED <<since, poll, calm>>
       \/ /\ pc = "resume_check" /\ queue = "running"
          /\ pc' = "disown"
          /\ doubt' = FALSE
          /\ UNCHANGED <<since, poll, calm, credit>>
       \/ /\ pc \in {"pause_check", "resume_check"}
          /\ Fail
          /\ UNCHANGED <<doubt, credit>>
    /\ UNCHANGED <<outside, disk, journal, seen, elapsed, raced>>

Conclude == /\ \/ pc = "own" /\ Save("owned", "sleep")
               \/ pc = "disown" /\ Save("idle", "sleep")
            /\ UNCHANGED <<outside, seen, timers, doubt, credit, raced>>
-----------------------------------------------------------------------------
Crash == /\ pc # "down"
         /\ pc' = "down"
         /\ calm' = 0
         /\ UNCHANGED <<outside, disk, journal, seen, timers, doubt, credit, raced>>

(* The recovery of the README: the guard is stopped, the queue is left as  *)
(* the operator wants it, and the journal is reset.                        *)
Recover == /\ pc = "down"
           /\ disk \in Pending
           /\ disk' = "idle"
           /\ queue' \in {"running", "user"}
           /\ doubt' = FALSE /\ credit' = FALSE
           /\ UNCHANGED <<wan, guard, timers, calm, raced>>

User == /\ queue' = IF queue = "running" THEN "user" ELSE "running"
        /\ raced' = TRUE
        /\ UNCHANGED <<wan, disk, guard, timers, calm, doubt, credit>>

Uplink == /\ wan' \in Wans \ {wan}
          /\ UNCHANGED <<queue, disk, guard, timers, history>>

(* Calls take their time, and a guard may be suspended between any two.    *)
Tick == /\ elapsed' = Least(elapsed + 1, MaxGap + 1)
        /\ calm' = Least(calm + 1, Hold)
        /\ UNCHANGED <<outside, disk, guard, since, poll, doubt, credit, raced>>

Step == \/ Boot \/ Start \/ ReadWan \/ ReadQueue \/ Relinquish \/ Announce \/ Rest
        \/ SendPause \/ SendResume \/ Confirm \/ Conclude
Next == Step \/ Crash \/ Recover \/ User \/ Uplink \/ Tick
Spec == Init /\ [][Next]_vars

(* The container is restarted, its loop runs, and time passes.             *)
FairSpec == Spec /\ WF_vars(Step) /\ WF_vars(Tick)
-----------------------------------------------------------------------------
TypeOK == /\ wan \in Wans
          /\ queue \in {"running", "guard", "user"}
          /\ disk \in Journal /\ journal \in Journal
          /\ pc \in Pcs
          /\ seen \in [wan : Wans, paused : BOOLEAN]
          /\ since \in {None} \cup 0 .. Hold
          /\ poll \in {None} \cup 0 .. MaxGap + 1
          /\ elapsed \in 0 .. MaxGap + 1
          /\ calm \in 0 .. Hold
          /\ doubt \in BOOLEAN /\ credit \in BOOLEAN /\ raced \in BOOLEAN

(* No command is sent while the effect of an earlier one is unknown,       *)
(* whatever failed in between and however often the guard was restarted:   *)
(* only the operator, or a queue read that shows the effect, ends the      *)
(* doubt.                                                                  *)
NoCommandInDoubt == [][SendPause \/ SendResume => ~doubt]_vars

(* A pause that was confirmed is resumed at most once, and nothing else is *)
(* ever resumed: a crash between any two steps neither replays a resume    *)
(* nor invents ownership.                                                  *)
ResumesOnce == [][SendResume => credit]_vars

(* The guard resumes only if for Hold ticks it found the uplink primary at *)
(* every poll, no call failed, no two polls were further apart than        *)
(* MaxGap, and it was not restarted.                                       *)
ResumesInCalm == [][SendResume => calm >= Hold]_vars

(* A queue that the user had paused becomes the guard's own only if the    *)
(* user acted after the guard had read it.                                 *)
OwnsWhatItSaw == [][disk # "owned" /\ disk' = "owned" => queue # "user" \/ raced]_vars

(* Once nothing fails any more, the user and the uplink rest, and polls    *)
(* are on time: on backup the queue does not go on running, unless the     *)
(* journal waits for the operator, ...                                     *)
Disturbed == \/ pc # "down" /\ pc' = "down"
             \/ pc \notin {"down", "sleep"} /\ pc' = "sleep" /\ poll' = None
             \/ pc = "sleep" /\ pc' = "wan" /\ elapsed > MaxGap
             \/ pc' = pc /\ queue' # queue
             \/ wan' # wan
Settles   == <>[][~Disturbed]_vars
BackupPauses == Settles /\ <>[](wan = "backup") =>
                    <>[](queue # "running" \/ disk \in Pending)

(* ... and on primary the guard does not keep what it has paused.          *)
PrimaryReleases == Settles /\ <>[](wan = "primary") => <>[](disk # "owned")
=============================================================================
