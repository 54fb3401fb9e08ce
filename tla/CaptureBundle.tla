---------------------------- MODULE CaptureBundle ----------------------------
(* The pre-snapshot hooks that put a native bundle of an application beside   *)
(* its data, and the consumers that accept a restored bundle:                 *)
(*   stash    media/stash/app/{capture,restore,original-native}.py            *)
(*   tube     media/tubearchivist/backup-native/{capture,original-native}.py  *)
(*   viking   tools/openviking/backup-native/{capture,original-native}.py     *)
(*   metrics  observability/victoria-metrics-ha/app/capture-native.py         *)
(*   home     home-assistant/.../backup-native/{capture,original-native}.py   *)
(* A hook is a sequence of steps (Program) run by a process that may raise at *)
(* any step or be killed between two, while the application writes on.  The   *)
(* directory survives, the process and its lock do not.  Versions stand for   *)
(* contents: 0 is "no such file", and a file that is half written or half     *)
(* removed counts as missing.                                                 *)
EXTENDS Naturals, Sequences, FiniteSetsExt

CONSTANTS
  Apps,        \* the applications examined
  Procs,       \* hook processes: the scheduled one and those of manual Snapshots
  Scheduled,   \* the process the daily schedule starts
  None,        \* no bundle, no process
  MaxFaults,   \* bound: kills and exceptions in a behaviour
  MaxChanges   \* bound: writes of the application to its source

ASSUME ScheduledAssumption == Scheduled \in Procs
ASSUME BoundAssumption == MaxFaults \in Nat /\ MaxChanges \in Nat

VARIABLES
  app,         \* whose hook this is
  live,        \* version of each source part
  current, previous,   \* the published generations
  complete,    \* stash: the COMPLETE marker
  pending,     \* the bundle under construction, per staging name
  litter,      \* a staging directory whose process is gone
  retained,    \* home: homeassistant.tar.pending, [version, whole]
  lock,        \* holder of the flock
  pc, ok,      \* step of each process; whether it has met no exception
  seen,        \* what a process read from the source to compare later
  remote,      \* PIT, native snapshot or generated backup a process has open
  open,        \* PITs or native snapshots that the server keeps
  unclosed,    \* history: runs that could not close theirs, see Fail and Kill
  faults,      \* kills and exceptions so far
  abandoned,   \* a run ended without its own cleanup
  published    \* a bundle has been published
vars == <<app, live, current, previous, complete, pending, litter, retained, lock,
          pc, ok, seen, remote, open, unclosed, faults, abandoned, published>>
disk == <<current, previous, complete, pending, litter, retained, published>>

-----------------------------------------------------------------------------
(* Sources and bundles *)

Parts(a) == CASE a = "stash"   -> {"db", "config", "blobs", "plugins"}
              [] a = "tube"    -> {"schema", "docs"}
              [] a = "viking"  -> {"pack1", "pack2", "auth"}
              [] a = "metrics" -> {"data"}
              [] a = "home"    -> {"tar", "dump"}

\* Parts whose contents a checksum or receipt of the bundle covers.
Hashed(a) == CASE a = "home" -> {"tar"} [] a = "tube" -> {"docs"} [] OTHER -> Parts(a)

\* Parts that must belong to one moment of the source.
Linked(a) == IF a \in {"stash", "tube"} THEN Parts(a) ELSE {}

Nothing == [q \in Parts(app) |-> 0]
Empty == [parts |-> Nothing, seal |-> Nothing, at |-> Nothing]
Torn(b) == IF b = None THEN None ELSE [b EXCEPT !.parts = Nothing]

Locked == app \in {"stash", "viking", "metrics"}
UniqueStaging == app \in {"viking", "metrics"}
Staging(p) == IF UniqueStaging THEN p ELSE "pending"
Stagings == Procs \cup {"pending"}

-----------------------------------------------------------------------------
(* The hooks, step by step.  A step is <<operation>> or <<operation, part>>;  *)
(* the steps from "finally" on run whether or not an exception was raised.    *)

Rotate == << <<"drop">>, <<"retire">>, <<"publish">> >>

StashCapture ==
  << <<"lock">>, <<"unmark">>, <<"sweep">>, <<"make">>,
     <<"look", "blobs">>, <<"look", "plugins">>, <<"look", "config">>,
     <<"anchor", "db">>, <<"write", "config">>, <<"copy", "blobs">>, <<"copy", "plugins">>,
     <<"again", "blobs">>, <<"again", "plugins">>, <<"again", "config">>, <<"seal">> >>
  \o Rotate \o << <<"mark">>, <<"finally">> >>

\* Broken: the PIT is closed at the end of the body instead of in finally.
TubeCaptureClosing ==
  << <<"sweep">>, <<"make">>, <<"look", "schema">>, <<"open">>, <<"fetch", "docs">>,
     <<"again", "schema">>, <<"write", "schema">>, <<"seal">> >>
  \o Rotate \o << <<"close">>, <<"finally">> >>

TubeCapture ==
  << <<"sweep">>, <<"make">>, <<"look", "schema">>, <<"open">>, <<"fetch", "docs">>,
     <<"again", "schema">>, <<"write", "schema">>, <<"seal">> >>
  \o Rotate \o << <<"finally">>, <<"close">> >>

\* Broken: the old generations make room before the packs are copied.
VikingCaptureEarly ==
  << <<"lock">>, <<"sweep">>, <<"make">>, <<"drop">>, <<"retire">>,
     <<"copy", "pack1">>, <<"copy", "pack2">>, <<"look", "auth">>, <<"write", "auth">>,
     <<"again", "auth">>, <<"seal">>, <<"drop">>, <<"publish">>, <<"finally">>, <<"tidy">> >>

VikingCapture ==
  << <<"lock">>, <<"sweep">>, <<"make">>, <<"copy", "pack1">>, <<"copy", "pack2">>,
     <<"look", "auth">>, <<"write", "auth">>, <<"again", "auth">>, <<"seal">> >>
  \o Rotate \o << <<"finally">>, <<"tidy">> >>

MetricsCapture ==
  << <<"lock">>, <<"open">>, <<"make">>, <<"fetch", "data">>, <<"seal">> >>
  \o Rotate \o << <<"finally">>, <<"close">>, <<"tidy">> >>

HomeCapture ==
  << <<"prepare">>, <<"resume">>, <<"open">>, <<"create">>, <<"receive">>,
     <<"seat">>, <<"seal">> >>

HomeBundle == << <<"copy", "dump">>, <<"present">> >> \o Rotate \o << <<"finally">> >>

Program(a) == CASE a = "stash"   -> StashCapture
                [] a = "tube"    -> TubeCapture
                [] a = "viking"  -> VikingCapture
                [] a = "metrics" -> MetricsCapture
                [] a = "home"    -> HomeCapture \o HomeBundle

Step(p) == Program(app)[pc[p]]
At(p, op) == pc[p] > 0 /\ Step(p)[1] = op
IndexOf(op) == CHOOSE i \in 1..Len(Program(app)) : Program(app)[i][1] = op
InBody(p) == pc[p] > 0 /\ pc[p] < IndexOf("finally")

-----------------------------------------------------------------------------
(* What the consumers of a restored snapshot accept *)

Matches(b) == \A q \in Hashed(app) : b.parts[q] # 0 /\ b.seal[q] = b.parts[q]
Whole(b) == b # None /\ Matches(b) /\ \A q \in Parts(app) : b.parts[q] # 0

\* restore.py: every payload the bundle must have is there and has its checksum.
StashRestore(b) == b # None /\ b.seal # Nothing /\ Matches(b)

\* original-native.py: the marker, equal checksums, and the restored data read back.
StashNative(nas, r2) == /\ nas.complete /\ r2.complete
                        /\ nas.current # None /\ r2.current # None
                        /\ nas.current.seal = r2.current.seal
                        /\ StashRestore(nas.current) /\ StashRestore(r2.current)

\* openviking: equal trees, then the packs and the OAuth escrow of each side.
VikingNative(b) == b # None /\ Matches(b)
VikingEqual(nas, r2) == nas.current = r2.current

TubeVerify(b) == b # None /\ Matches(b) /\ b.parts["schema"] # 0
TubeMain(nas, r2) == /\ TubeVerify(nas.current) /\ TubeVerify(r2.current)
                     /\ nas.current.seal = r2.current.seal

HomeNative(nas, r2) == /\ nas.current = r2.current
                       /\ nas.current # None /\ Matches(nas.current)
                       /\ nas.current.parts["dump"] # 0

Accepts(nas, r2) ==
  CASE app = "stash"   -> StashNative(nas, r2)
    [] app = "tube"    -> TubeMain(nas, r2)
    [] app = "viking"  -> VikingNative(nas.current) /\ VikingNative(r2.current) /\ VikingEqual(nas, r2)
    [] app = "home"    -> HomeNative(nas, r2)
    [] app = "metrics" -> FALSE   \* its consumer is a runbook, not code

\* The directory as a snapshot taken now would hold it.
Snapshot == [current |-> current, complete |-> complete]

-----------------------------------------------------------------------------
(* Steps *)

source == <<app, live>>
generations == <<current, previous, complete>>
staging == <<pending, litter, retained>>
server == <<open, unclosed>>
run == <<lock, ok, seen, remote, server>>
ledger == <<faults, abandoned, published>>

Bundle(p) == pending[Staging(p)]
Stage(p, b) == pending' = [pending EXCEPT ![Staging(p)] = b]
Forward(p) == pc' = [pc EXCEPT ![p] = @ + 1]
Put(p, q, v) == Stage(p, [Bundle(p) EXCEPT !.parts[q] = v])

\* Broken: the lock is a file, which outlives a process that ends early.
LeaveLocked(p) == /\ pc' = [pc EXCEPT ![p] = 0]
                  /\ ok' = [ok EXCEPT ![p] = TRUE]
                  /\ seen' = [seen EXCEPT ![p] = Nothing]
                  /\ lock' = IF lock = p /\ ok[p] /\ pc[p] = Len(Program(app)) THEN None ELSE lock

\* The process is gone: memory and flock with it, what it staged stays.
Leave(p) == /\ pc' = [pc EXCEPT ![p] = 0]
            /\ ok' = [ok EXCEPT ![p] = TRUE]
            /\ seen' = [seen EXCEPT ![p] = Nothing]
            /\ lock' = IF lock = p THEN None ELSE lock

\* A hook without a lock relies on the schedule (concurrencyPolicy: Forbid).
Start(p) == /\ pc[p] = 0
            /\ Locked \/ \A r \in Procs : pc[r] = 0
            /\ pc' = [pc EXCEPT ![p] = 1]
            /\ remote' = [remote EXCEPT ![p] = None]
            /\ UNCHANGED <<disk, source, lock, ok, seen, server, faults, abandoned>>

Lock(p) == /\ At(p, "lock") /\ lock = None
           /\ lock' = p /\ Forward(p)
           /\ UNCHANGED <<disk, source, ok, seen, remote, server, faults, abandoned>>

\* LOCK_NB: the other holder makes flock raise before anything is touched.
Busy(p) == /\ At(p, "lock") /\ lock # None
           /\ Leave(p)
           /\ UNCHANGED <<disk, source, remote, server, faults, abandoned>>

Unmark(p) == /\ At(p, "unmark")
             /\ complete' = FALSE /\ Forward(p)
             /\ UNCHANGED <<source, current, previous, staging, run, ledger>>

Sweep(p) == /\ At(p, "sweep")
            /\ IF UniqueStaging THEN litter' = FALSE /\ UNCHANGED pending
                                ELSE Stage(p, None) /\ UNCHANGED litter
            /\ Forward(p)
            /\ UNCHANGED <<source, generations, retained, run, ledger>>

Make(p) == /\ At(p, "make")
           /\ Stage(p, Empty) /\ Forward(p)
           /\ UNCHANGED <<source, generations, litter, retained, run, ledger>>

\* mkdir -p: what an interrupted run left is kept.
Prepare(p) == /\ At(p, "prepare")
              /\ Stage(p, IF Bundle(p) = None THEN Empty ELSE Bundle(p)) /\ Forward(p)
              /\ UNCHANGED <<source, generations, litter, retained, run, ledger>>

Look(p) == /\ At(p, "look")
           /\ seen' = [seen EXCEPT ![p][Step(p)[2]] = live[Step(p)[2]]]
           /\ Forward(p)
           /\ UNCHANGED <<disk, source, lock, ok, remote, server, faults, abandoned>>

\* The online backup of the database is one moment of the source: "at".
Anchor(p) == /\ At(p, "anchor")
             /\ Stage(p, [Bundle(p) EXCEPT !.parts[Step(p)[2]] = live[Step(p)[2]], !.at = live])
             /\ Forward(p)
             /\ UNCHANGED <<source, generations, litter, retained, run, ledger>>

Copy(p) == /\ At(p, "copy")
           /\ Put(p, Step(p)[2], live[Step(p)[2]]) /\ Forward(p)
           /\ UNCHANGED <<source, generations, litter, retained, run, ledger>>

Write(p) == /\ At(p, "write")
            /\ Put(p, Step(p)[2], seen[p][Step(p)[2]]) /\ Forward(p)
            /\ UNCHANGED <<source, generations, litter, retained, run, ledger>>

Fetch(p) == /\ At(p, "fetch")
            /\ Put(p, Step(p)[2], remote[p][Step(p)[2]]) /\ Forward(p)
            /\ UNCHANGED <<source, generations, litter, retained, run, ledger>>

\* PIT, native snapshot or generated backup: the server keeps this moment.  A
\* generated backup is the application's own to delete, by its retention.
Serves == app \in {"tube", "metrics"}
Open(p) == /\ At(p, "open")
           /\ remote' = [remote EXCEPT ![p] = live]
           /\ open' = IF Serves THEN open + 1 ELSE open
           /\ IF app = "tube" THEN Stage(p, [Bundle(p) EXCEPT !.at = live]) ELSE UNCHANGED pending
           /\ Forward(p)
           /\ UNCHANGED <<source, generations, litter, retained, lock, ok, seen, unclosed, ledger>>

\* An exception: the rest of the body is skipped.
Raise(p) == /\ pc' = [pc EXCEPT ![p] = IndexOf("finally")]
            /\ ok' = [ok EXCEPT ![p] = FALSE]

\* Broken: what was read before the copy is not compared with what is there now.
AgainBlindly(p) == /\ At(p, "again") /\ Forward(p) /\ UNCHANGED ok
                   /\ UNCHANGED <<disk, source, lock, seen, remote, server, faults, abandoned>>

Again(p) == /\ At(p, "again")
            /\ IF live[Step(p)[2]] = seen[p][Step(p)[2]]
                 THEN Forward(p) /\ UNCHANGED ok
                 ELSE Raise(p)
            /\ UNCHANGED <<disk, source, lock, seen, remote, server, faults, abandoned>>

Seal(p) == /\ At(p, "seal")
           /\ Stage(p, [Bundle(p) EXCEPT !.seal = [q \in Parts(app) |->
                 IF q \in Hashed(app) THEN Bundle(p).parts[q] ELSE 0]])
           /\ Forward(p)
           /\ UNCHANGED <<source, generations, litter, retained, run, ledger>>

-----------------------------------------------------------------------------
(* Home Assistant: the download is kept across runs *)

\* validate_archive: a download that was cut off is not an archive.
Readable == retained # None /\ retained.whole

\* A retained download is validated and used, or the run fails on it.
Resume(p) == /\ At(p, "resume")
             /\ IF retained = None THEN Forward(p) /\ UNCHANGED ok
                ELSE IF Readable THEN /\ pc' = [pc EXCEPT ![p] = IndexOf("seat")]
                                            /\ UNCHANGED ok
                ELSE Raise(p)
             /\ UNCHANGED <<disk, source, lock, seen, remote, server, faults, abandoned>>

\* path.open("wb"), then the chunks: in between the file is there but not whole.
Create(p) == /\ At(p, "create")
             /\ retained' = [version |-> remote[p]["tar"], whole |-> FALSE]
             /\ Forward(p)
             /\ UNCHANGED <<source, generations, pending, litter, run, ledger>>

Receive(p) == /\ At(p, "receive")
              /\ retained' = [retained EXCEPT !.whole = TRUE]
              /\ Forward(p)
              /\ UNCHANGED <<source, generations, pending, litter, run, ledger>>

Seat(p) == /\ At(p, "seat")
           /\ Put(p, "tar", retained.version) /\ retained' = None
           /\ Forward(p)
           /\ UNCHANGED <<source, generations, litter, run, ledger>>

\* test -s on the archive and on its receipt
Present(p) == /\ At(p, "present")
              /\ IF Bundle(p).parts["tar"] # 0 /\ Bundle(p).seal["tar"] # 0
                   THEN Forward(p) /\ UNCHANGED ok
                   ELSE Raise(p)
              /\ UNCHANGED <<disk, source, lock, seen, remote, server, faults, abandoned>>

-----------------------------------------------------------------------------
(* Publication and the finally block *)

Drop(p) == /\ At(p, "drop")
           /\ previous' = None /\ Forward(p)
           /\ UNCHANGED <<source, current, complete, staging, run, ledger>>

Retire(p) == /\ At(p, "retire")
             /\ IF current = None THEN UNCHANGED <<current, previous>>
                ELSE previous' = current /\ current' = None
             /\ Forward(p)
             /\ UNCHANGED <<source, complete, staging, run, ledger>>

Publish(p) == /\ At(p, "publish")
              /\ current' = Bundle(p) /\ Stage(p, None)
              /\ published' = TRUE /\ Forward(p)
              /\ UNCHANGED <<source, previous, complete, litter, retained, run, faults, abandoned>>

Mark(p) == /\ At(p, "mark")
           /\ complete' = TRUE /\ Forward(p)
           /\ UNCHANGED <<source, current, previous, staging, run, ledger>>

Continue(p) == IF pc[p] = Len(Program(app)) THEN Leave(p)
               ELSE Forward(p) /\ UNCHANGED <<ok, seen, lock>>

Finally(p) == /\ At(p, "finally")
              /\ Continue(p)
              /\ UNCHANGED <<disk, source, remote, server, faults, abandoned>>

\* Nothing is asked of the server when the hook has nothing open.
Close(p) == /\ At(p, "close")
            /\ remote' = [remote EXCEPT ![p] = None]
            /\ open' = IF remote[p] # None THEN open - 1 ELSE open
            /\ Continue(p)
            /\ UNCHANGED <<disk, source, unclosed, faults, abandoned>>

Tidy(p) == /\ At(p, "tidy")
           /\ Stage(p, None)
           /\ Continue(p)
           /\ UNCHANGED <<source, generations, litter, retained, remote, server, ledger>>

-----------------------------------------------------------------------------
(* Faults *)

\* What a step leaves on disk when it stops halfway.
Halfway(p) ==
  /\ previous' \in IF At(p, "drop") THEN {previous, Torn(previous)} ELSE {previous}
  /\ LET name == Staging(p)
         half == CASE At(p, "sweep") /\ ~UniqueStaging -> {pending[name], Torn(pending[name])}
                   [] At(p, "copy") /\ app = "home" -> {[pending[name] EXCEPT !.parts[Step(p)[2]] = 0]}
                   [] At(p, "seal") /\ app = "home" -> {pending[name], [pending[name] EXCEPT !.seal = Nothing]}
                   [] OTHER -> {pending[name]}
         gone == \/ pc[p] # 0 /\ UniqueStaging /\ pending[name] # None
     IN \E b \in half :
          IF gone /\ (~InBody(p) \/ pc'[p] = 0)
            THEN pending' = [pending EXCEPT ![name] = None] /\ litter' = TRUE
            ELSE pending' = [pending EXCEPT ![name] = b] /\ UNCHANGED litter
  /\ UNCHANGED <<app, live, current, complete, retained, published>>

\* The server carries out what p asks for, or not; p does not learn it.
Unheard(p) == \/ UNCHANGED open
              \/ Serves /\ At(p, "open") /\ open' = open + 1
              \/ At(p, "close") /\ remote[p] # None /\ open' = open - 1

\* Any step may raise; one that raises in the finally block ends the run.  An
\* open whose answer is lost leaves the hook without the name to close it by.
Fail(p) == /\ pc[p] > 0 /\ ~At(p, "finally") /\ faults < MaxFaults
           /\ At(p, "close") => remote[p] # None
           /\ faults' = faults + 1
           /\ Unheard(p)
           /\ unclosed' = IF At(p, "close") \/ open' > open THEN unclosed + 1 ELSE unclosed
           /\ IF InBody(p) THEN Raise(p) /\ UNCHANGED <<seen, lock, abandoned>>
                           ELSE Leave(p) /\ abandoned' = TRUE
           /\ Halfway(p)
           /\ UNCHANGED remote

\* SIGKILL, eviction or the Job's activeDeadlineSeconds.
Holds(p) == Serves /\ pc[p] > 0 /\ remote[p] # None
Kill(p) == /\ pc[p] > 0 /\ faults < MaxFaults
           /\ faults' = faults + 1 /\ abandoned' = TRUE
           /\ Unheard(p)
           /\ unclosed' = IF Holds(p) \/ open' > open THEN unclosed + 1 ELSE unclosed
           /\ Leave(p)
           /\ Halfway(p)
           /\ UNCHANGED remote

\* The application writes on during the capture.
Change(q) == /\ MapThenSumSet(LAMBDA r : live[r] - 1, Parts(app)) < MaxChanges
             /\ live' = [live EXCEPT ![q] = @ + 1]
             /\ UNCHANGED <<app, disk, lock, pc, ok, seen, remote, server, faults, abandoned>>

-----------------------------------------------------------------------------

Init == /\ app \in Apps
        /\ live = [q \in Parts(app) |-> 1]
        /\ current = None /\ previous = None /\ complete = FALSE
        /\ pending = [n \in Stagings |-> None]
        /\ litter = FALSE /\ retained = None /\ lock = None
        /\ pc = [p \in Procs |-> 0]
        /\ ok = [p \in Procs |-> TRUE]
        /\ seen = [p \in Procs |-> Nothing]
        /\ remote = [p \in Procs |-> None] /\ open = 0 /\ unclosed = 0
        /\ faults = 0 /\ abandoned = FALSE /\ published = FALSE

Do(p) == \/ Lock(p) \/ Busy(p) \/ Unmark(p) \/ Sweep(p) \/ Make(p) \/ Prepare(p)
         \/ Look(p) \/ Anchor(p) \/ Copy(p) \/ Write(p) \/ Fetch(p) \/ Open(p)
         \/ Again(p) \/ Seal(p)
         \/ Resume(p) \/ Create(p) \/ Receive(p) \/ Seat(p) \/ Present(p)
         \/ Drop(p) \/ Retire(p) \/ Publish(p) \/ Mark(p)
         \/ Finally(p) \/ Close(p) \/ Tidy(p)

Next == \/ \E p \in Procs : Start(p) \/ Do(p) \/ Fail(p) \/ Kill(p)
        \/ \E q \in Parts(app) : Change(q)

\* The schedule starts its hook again and again and a started hook goes on;
\* nothing makes a fault, a source write or a manual run happen.
Fairness == WF_vars(Start(Scheduled)) /\ \A p \in Procs : WF_vars(Do(p))

Spec == Init /\ [][Next]_vars /\ Fairness

-----------------------------------------------------------------------------
(* Properties *)

Versions == 0..(MaxChanges + 1)

BundleType == [parts : [Parts(app) -> Versions], seal : [Parts(app) -> Versions],
               at : [Parts(app) -> Versions]] \cup {None}

TypeOK == /\ app \in Apps
          /\ live \in [Parts(app) -> Versions]
          /\ current \in BundleType /\ previous \in BundleType /\ complete \in BOOLEAN
          /\ pending \in [Stagings -> BundleType]
          /\ litter \in BOOLEAN /\ abandoned \in BOOLEAN /\ published \in BOOLEAN
          /\ retained \in [version : Versions, whole : BOOLEAN] \cup {None}
          /\ lock \in Procs \cup {None}
          /\ pc \in [Procs -> 0..Len(Program(app))]
          /\ ok \in [Procs -> BOOLEAN]
          /\ seen \in [Procs -> [Parts(app) -> Versions]]
          /\ remote \in [Procs -> [Parts(app) -> Versions] \cup {None}]
          /\ open \in 0..(MaxFaults + 1) /\ unclosed \in 0..MaxFaults
          /\ faults \in 0..MaxFaults

\* Whatever moment a snapshot is taken at, a bundle that the consumer accepts
\* has every part, and the parts that belong together are of one moment of the
\* application: the inventories around the copy and the schema read around the
\* PIT are what makes it so while the application writes on.
AcceptedIsOneMoment ==
  Accepts(Snapshot, Snapshot) => /\ Whole(current)
                                 /\ \A q \in Linked(app) : current.parts[q] = current.at[q]

\* Once a bundle was published, one interrupted run never leaves the volume
\* without a whole one: it is current, previous, or staged and sealed.
PriorKept ==
  published /\ faults <= 1 => \E b \in {current, previous} \cup {pending[n] : n \in Stagings} : Whole(b)

\* The finally blocks: when no hook runs, no more PITs or native snapshots are
\* open at the server than hooks were killed while they held one, failed to
\* close theirs, or never got the answer to the request that opened it; and a
\* uniquely named staging directory is left only after a kill or a failure in a
\* finally block.
NothingLeftOpen ==
  (\A p \in Procs : pc[p] = 0) => open <= unclosed /\ (litter => abandoned)

\* A truncated download stays in the way of every later Home Assistant capture.
Wedged == retained # None /\ ~Readable

\* Faults and source writes come to an end; from then on the repeated hook gets
\* through again and again, whatever was left on disk, and publishes the source
\* as it is, unless the wedge of Home Assistant stops it.
RetriesPublish == []<>((Whole(current) /\ current.parts = live) \/ Wedged)

-----------------------------------------------------------------------------
(* What a comment in the code says, which does not hold (see README.md) *)

\* openviking/backup-native/capture.py:103 "Keep the prior complete capture."
KeepsPriorComplete ==
  published => \E b \in {current, previous} \cup {pending[n] : n \in Stagings} : Whole(b)
=============================================================================
