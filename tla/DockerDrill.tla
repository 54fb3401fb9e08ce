----------------------------- MODULE DockerDrill -----------------------------
(* The recovery drills that run on a shared CI host with real backup           *)
(* repositories and must leave neither containers, volumes nor repositories:   *)
(*   radarr     scripts/kopiur-radarr-transport.py                             *)
(*   pds        scripts/kopiur-identity-transport.py, kopiur_pds_native.py     *)
(*   original   ... and kopiur_pds_original.py                                 *)
(*   grimmory   ... and kopiur_grimmory_original.py                            *)
(*   bazarr     scripts/kopiur-bazarr-original.py                              *)
(*   fence      scripts/kopiur-grimmory-fence-native.py                        *)
(* A script is a sequence of blocks (Program), a block a sequence of Docker    *)
(* commands and the block where an exception goes on (the finally clause).     *)
(* Every command may fail, or fail after its effect landed (a client timeout,  *)
(* a signal).  Image pulls, which own nothing, are left out.  Contents are     *)
(* versions: 1 is what the digests of the request say, 2 anything else.        *)
EXTENDS Naturals, SequencesExt

CONSTANTS
  Scripts,    \* the scripts examined
  NoSweep,    \* no sweep in progress
  MaxFaults   \* bound: failed or interrupted commands and an expired deadline

ASSUME ScriptsAssumption ==
  Scripts \subseteq {"radarr", "pds", "original", "grimmory", "bazarr", "fence"}
ASSUME BoundAssumption == MaxFaults \in Nat

VARIABLES
  script,
  block, step,   \* position; block 0: the process has ended
  containers,    \* name -> [mounts, net, boot] of the containers on the host
  volumes,       \* the named volumes on the host
  repos,         \* the backends that hold a fixture repository of this run
  listed,        \* ledger -> names a cleanup will look for
  todo,          \* what the sweep in progress has still to remove
  raised,        \* an exception is on its way through the finally clauses
  failures,      \* a cleanup has noted failures it will report
  expired,       \* the absolute deadline of the request has passed
  hindered,      \* a command of a cleanup failed or was interrupted, or SIGTERM
                 \* ended the script without its cleanup
  busy,          \* captures that go on in a container after their exec was lost
  stray,         \* volumes held by a `docker run --rm` that outlived its client
  orphans,       \* created by a command that failed before its name was listed
  restored,      \* backend -> version restored from it, 0 before
  receipt,       \* the receipt has been returned
  faults
drillVars == <<script, block, step, containers, volumes, repos, listed, todo, raised, failures,
               expired, hindered, busy, stray, orphans, restored, receipt, faults>>

Kinds == {"nas", "r2"}
Ledgers == {"tools", "movers", "containers", "volumes"}

-----------------------------------------------------------------------------
(* Names and commands *)

Tools == <<"tools">>
Vol(kind, role) == <<"volumes", kind, role>>
Con(kind, role) == <<"containers", kind, role>>
Mover == <<"movers">>     \* stands for the mover started last

Create(v, early)     == [op |-> "create", on |-> v, early |-> early]
Run(c, m)            == [op |-> "run", on |-> c, mounts |-> m, net |-> FALSE, boot |-> FALSE]
RunOnline(c, m)      == [Run(c, m) EXCEPT !.net = TRUE]
RunBoot(c, m)        == [Run(c, m) EXCEPT !.boot = TRUE]
Task(m)              == [op |-> "task", on |-> Con("run", "anonymous"), mounts |-> m]
Exec(c)              == [op |-> "exec", on |-> c]
Capture(c, kind)     == [op |-> "capture", on |-> c, kind |-> kind]
Restore(c, kind)     == [op |-> "restore", on |-> c, kind |-> kind]
Check(c, kind)       == [op |-> "check", on |-> c, kind |-> kind]
Compare              == [op |-> "compare", on |-> Tools]
Drop(n)              == [op |-> "remove", on |-> n]
Sweep(ledger)        == [op |-> "sweep", on |-> <<ledger>>]
Launch               == [op |-> "launch", on |-> Mover, mounts |-> {Tools}, net |-> TRUE, boot |-> FALSE]
Purge(kind)          == [op |-> "purge", on |-> Mover, kind |-> kind]
Renew                == [op |-> "renew", on |-> Tools]
Report               == [op |-> "report", on |-> Tools]
Receipt              == [op |-> "receipt", on |-> Tools]

\* Drill.start of the transports: online, with the tools and perhaps one volume.
StartMover(v) == RunOnline(Mover, {Tools} \cup v)

-----------------------------------------------------------------------------
(* The scripts, command by command *)

CopyTools == << Task({Tools}) >>

\* Drill.exercise: nas also proves that a guest is refused.
Exercise(kind) ==
  << StartMover({}), Capture(Mover, kind) >>
  \o (IF kind = "nas" THEN << Exec(Mover) >> ELSE << >>)
  \o << Drop(Mover), StartMover({}), Exec(Mover), Drop(Mover),
        StartMover({}), Restore(Mover, kind), Check(Mover, kind), Drop(Mover) >>

\* Broken: the fixtures are purged while a mover may still write to them.
MoverCleanupLate == << Renew, Launch, Purge("nas"), Purge("r2"), Sweep("movers"), Report >>

\* Drill.cleanup
MoverCleanup == << Renew, Sweep("movers"), Launch, Purge("nas"), Purge("r2"),
                   Sweep("movers"), Report >>

\* Drill.volume and Original.volume of the native parts
OwnVolume(v) == << Create(v, FALSE), Task({v}) >>
KeptVolume(v) == << Create(v, FALSE), Run(<<"containers", v[2], "keep", v[3]>>, {v}) >>

TransportCapture(kind, point) ==
  << StartMover({point}), Capture(Mover, kind), Drop(Mover) >>

TransportRestore(kind, v) ==
  << StartMover({}), Exec(Mover), Drop(Mover),
     StartMover({v}), Restore(Mover, kind), Drop(Mover) >>

PdsSource == Vol("run", "pds")
Point == Vol("run", "immutable-point")
PdsApp == Con("run", "pds")

\* Broken: the point is removed before the second backend has captured it.
PointDroppedEarly ==
  OwnVolume(Point)
  \o << Exec(PdsApp), Exec(PdsApp), Task({PdsSource, Point}), Task({Point}) >>
  \o TransportCapture("nas", Point)
  \o << Drop(PdsApp), Drop(PdsSource), Drop(Point) >>
  \o TransportCapture("r2", Point)
  \o OwnVolume(Vol("r2", "restored"))
  \o TransportRestore("nas", Vol("nas", "restored")) \o << Check(Con("run", "anonymous"), "nas") >>
  \o TransportRestore("r2", Vol("r2", "restored")) \o << Check(Con("run", "anonymous"), "r2") >>

QuiesceCopyResume ==
  OwnVolume(Point)
  \o << Exec(PdsApp), Exec(PdsApp), Task({PdsSource, Point}), Task({Point}) >>
  \o TransportCapture("nas", Point) \o TransportCapture("r2", Point)
  \o << Drop(PdsApp), Drop(PdsSource), Drop(Point) >>
  \o OwnVolume(Vol("r2", "restored"))
  \o TransportRestore("nas", Vol("nas", "restored")) \o << Check(Con("run", "anonymous"), "nas") >>
  \o TransportRestore("r2", Vol("r2", "restored")) \o << Check(Con("run", "anonymous"), "r2") >>

PdsVerify(kind) ==
  LET v == Vol(kind, "restored") IN
  << Task({v}), Task({v}), RunBoot(Con(kind, "target"), {v}), Exec(Con(kind, "target")) >>

Pds ==
  OwnVolume(PdsSource) \o OwnVolume(Vol("nas", "restored"))
  \o << Run(PdsApp, {PdsSource}), Exec(PdsApp) >>
  \o QuiesceCopyResume
  \o PdsVerify("nas") \o PdsVerify("r2")

\* original_api: every repository, account and blob, page by page.
OriginalApi(target) == << Exec(target) >>

\* release, watchdog and container-restart: each a hold, then the same API again.
HeldRound(target) == << Exec(target) >> \o OriginalApi(target)
ConsumerRecovery(target) == HeldRound(target) \o HeldRound(target) \o HeldRound(target)

\* Reader, checker and supervised boot of one retained PDS original.
PdsRead(kind) ==
  LET store == Vol(kind, "restore")  tools == Vol(kind, "tools")
      mover == Con(kind, "reader")  checker == Con(kind, "check") IN
  << RunOnline(mover, {Vol(kind, "work"), store, Tools}), Exec(mover), Restore(mover, kind), Drop(mover),
     Run(checker, {store, tools}), Check(checker, kind), Exec(checker), Drop(checker) >>

PdsBoot(kind) ==
  LET target == Con(kind, "boot") IN
  << RunBoot(target, {Vol(kind, "restore"), Vol(kind, "tools")}), Exec(target) >>
  \o OriginalApi(target) \o ConsumerRecovery(target)
  \o << Drop(target) >>

PdsOriginal(kind) ==
  KeptVolume(Vol(kind, "work")) \o KeptVolume(Vol(kind, "restore")) \o KeptVolume(Vol(kind, "tools"))
  \o PdsRead(kind) \o PdsBoot(kind)

\* Grimmory: reader, checker, then database and application of one original.
Held(kind, roles) == {Vol(kind, r) : r \in roles}
AppMounts(kind) == Held(kind, {"app", "tools", "books"})
App(kind) == Con(kind, "app")
Database(kind) == Con(kind, "database")

StartConsumer(kind) == RunBoot(App(kind), AppMounts(kind))
Serves(kind) == Exec(App(kind))                    \* health and the set-up status
DataDigest(kind) == Check(Database(kind), kind)
ConsumerBooks(kind) == Task(AppMounts(kind))       \* --volumes-from the application

GrimmoryVolumes(kind) ==
  KeptVolume(Vol(kind, "work")) \o KeptVolume(Vol(kind, "restored")) \o KeptVolume(Vol(kind, "app"))
  \o KeptVolume(Vol(kind, "tools")) \o KeptVolume(Vol(kind, "database")) \o KeptVolume(Vol(kind, "books"))

GrimmoryRead(kind) ==
  LET reader == Con(kind, "reader") IN
  << RunOnline(reader, Held(kind, {"work", "restored"}) \cup {Tools}),
     Exec(reader), Restore(reader, kind), Drop(reader) >>

GrimmoryChecked(kind) ==
  LET checker == Con(kind, "checker") IN
  << Run(checker, Held(kind, {"restored", "app", "tools", "books"})),
     Check(checker, kind), Exec(checker), Drop(checker) >>

\* The application joins the network of the restarted database.
RecreateConsumer(kind) ==
  << Drop(App(kind)), Exec(Database(kind)), DataDigest(kind), StartConsumer(kind), Serves(kind), DataDigest(kind) >>

GrimmoryServe(kind) ==
  << RunBoot(Database(kind), Held(kind, {"database", "restored", "tools"})), Exec(Database(kind)), DataDigest(kind),
     StartConsumer(kind), Serves(kind), ConsumerBooks(kind),
     Exec(App(kind)), Serves(kind), ConsumerBooks(kind), DataDigest(kind) >>
  \o RecreateConsumer(kind)
  \o << ConsumerBooks(kind), Drop(App(kind)), Drop(Database(kind)) >>

GrimmoryOriginal(kind) == GrimmoryVolumes(kind) \o GrimmoryRead(kind) \o GrimmoryChecked(kind) \o GrimmoryServe(kind)

\* extract_original: the archive is streamed out and unpacked on the runner.
ExtractOriginal(c) == << Exec(c) >>

\* Broken: the restorer, which has a network, is removed after the boot.
BazarrOnline(kind) ==
  LET restorer == Con(kind, "restorer") IN
  << RunOnline(restorer, {Tools}), Restore(restorer, kind), Exec(restorer) >>
  \o ExtractOriginal(restorer)
  \o << [op |-> "boot", on |-> Con(kind, "native")], Drop(restorer) >>

\* The boot is restore_pvc of scripts/kopiur-postgres-drill, with its own cleanup.
Bazarr(kind) ==
  LET restorer == Con(kind, "restorer") IN
  << RunOnline(restorer, {Tools}), Restore(restorer, kind), Exec(restorer) >>
  \o ExtractOriginal(restorer)
  \o << Drop(restorer), [op |-> "boot", on |-> Con(kind, "native")] >>

FenceVolume(role) == Vol("run", role)
FenceDb == Con("run", "db")
FenceApp == Con("run", "app")
Rollback == Con("run", "rollback")

FenceBoot ==
  [i \in 1..4 |-> Create(FenceVolume(<<"runtime", "app", "books", "db">>[i]), TRUE)]
  \o << Run(FenceDb, {FenceVolume("db"), FenceVolume("runtime")}), Exec(FenceDb), Exec(FenceDb),
        Run(FenceApp, {FenceVolume(r) : r \in {"app", "books", "runtime", "db"}}), Exec(FenceApp) >>

FenceRounds == << Exec(FenceApp), Exec(FenceApp) >>       \* one released, one expired
FenceReplacement == << Exec(FenceApp), Exec(FenceDb), Exec(FenceApp) >>
FenceRollback == << Exec(FenceApp), Run(Rollback, {FenceVolume("app"), FenceVolume("books")}), Exec(Rollback) >>

FenceNative == FenceBoot \o FenceRounds \o FenceReplacement \o FenceRollback

\* Drill.clean and owned_cleanup
NativeClean == << Sweep("containers"), Sweep("volumes"), Report >>
BoundedClean == << Renew >> \o NativeClean
OwnedCleanup == << Sweep("containers"), Sweep("volumes") >>

Block(steps, catch, final) == [steps |-> steps, catch |-> catch, final |-> final]
RemoveTools(catch) == Block(<< Sweep("tools") >>, catch, TRUE)

\* kopiur-identity-transport.py: the tools volume is created before the try.
IdentityMain(body, cleanups) ==
  LET last == 5 + Len(cleanups) IN
  << Block(<< Create(Tools, TRUE) >>, 0, FALSE), Block(CopyTools, last, FALSE), Block(body, 4, FALSE) >>
  \o cleanups \o << Block(<< Receipt >>, last, FALSE), RemoveTools(0) >>

RadarrMain ==
  << Block(<< Create(Tools, TRUE) >> \o CopyTools, 5, FALSE),
     Block(Exercise("nas") \o Exercise("r2"), 3, FALSE),
     Block(MoverCleanup, 5, TRUE), Block(<< Receipt >>, 5, FALSE), RemoveTools(0) >>

BazarrMain ==
  << Block(<< Create(Tools, TRUE) >>, 0, FALSE),
     Block(CopyTools \o Bazarr("nas") \o Bazarr("r2") \o << Compare >>, 3, FALSE),
     Block(<< Sweep("containers"), Sweep("tools") >>, 0, TRUE), Block(<< Receipt >>, 0, FALSE) >>

FenceMain ==
  << Block(FenceNative, 2, FALSE), Block(OwnedCleanup, 0, TRUE), Block(<< Receipt >>, 0, FALSE) >>

PdsMain == IdentityMain(Pds, << Block(MoverCleanup, 5, TRUE), Block(NativeClean, 7, TRUE) >>)
Originals(nas, r2) == IdentityMain(nas \o r2 \o << Compare >>, << Block(BoundedClean, 6, TRUE) >>)
OriginalMain == Originals(PdsOriginal("nas"), PdsOriginal("r2"))
GrimmoryMain == Originals(GrimmoryOriginal("nas"), GrimmoryOriginal("r2"))

Programs == [radarr |-> RadarrMain, pds |-> PdsMain, original |-> OriginalMain,
             grimmory |-> GrimmoryMain, bazarr |-> BazarrMain, fence |-> FenceMain]

-----------------------------------------------------------------------------
(* Position, and what becomes of a command *)

Program == Programs[script]
B == Program[block]
S == B.steps[step]
Running == block > 0
At(op) == Running /\ S.op = op
Cleaning == Running /\ B.final

Goto(b) == block' = b /\ step' = 1

\* The end of a finally clause re-raises; any other block falls through.
Advance ==
  IF step < Len(B.steps) THEN step' = step + 1 /\ UNCHANGED block
  ELSE Goto(IF raised THEN B.catch ELSE IF block = Len(Program) THEN 0 ELSE block + 1)

Raise == raised' = TRUE /\ Goto(B.catch) /\ UNCHANGED failures
Note(k) == failures' = TRUE /\ UNCHANGED raised
           /\ IF k = 0 THEN UNCHANGED <<block, step>>
              ELSE step' = step + k /\ UNCHANGED block

\* The sweeps of the transports and of Drill.clean note a failure and go on; the
\* others, and the removal of the tools volume, stop at it.
Collects == S.on[1] # "tools" /\ script \notin {"bazarr", "fence"}

\* What an exception does where the process is.  A failed start of the cleanup
\* container goes on behind the purges.
Trouble ==
  CASE S.op = "sweep" -> IF Collects /\ todo # NoSweep THEN Note(0) /\ todo' = Tail(todo)
                                                    ELSE Raise /\ todo' = NoSweep
    [] S.op = "launch" -> Note(3) /\ UNCHANGED todo
    [] S.op = "purge" -> Note(1) /\ UNCHANGED todo
    [] OTHER -> Raise /\ UNCHANGED todo

\* Whose commands the absolute deadline of the request bounds.
Bounded == CASE script \in {"radarr", "pds"} -> S.on[1] = "movers"
             [] script \in {"original", "grimmory"} -> S.on[1] # "tools"
             [] OTHER -> FALSE

\* A command succeeds, fails, or fails although its effect landed ("lost").
Outcomes == {"done", "failed", "lost"}
Landed(o) == o # "failed"
Settle(o) ==
  /\ ~(Bounded /\ expired)
  /\ UNCHANGED <<script, expired, receipt>>
  /\ IF o = "done" THEN Advance /\ UNCHANGED <<todo, raised, failures, faults, hindered>>
     ELSE /\ faults < MaxFaults
          /\ faults' = faults + 1
          /\ hindered' = (hindered \/ Cleaning)
          /\ Trouble

host == <<containers, volumes, repos, busy, stray>>
progress == <<listed, orphans, restored>>

Target == IF S.on = Mover THEN <<"movers", Len(listed["movers"]) - 1>> ELSE S.on
InUse(v) == v \in stray \/ \E c \in DOMAIN containers : v \in containers[c].mounts
List(n) == listed' = [listed EXCEPT ![n[1]] = Append(@, n)]
Unlist(n) == listed' = [listed EXCEPT ![n[1]] = RemoveFirst(@, n)]

-----------------------------------------------------------------------------
(* Creating *)

CreateVolume(o) ==
  /\ At("create") /\ S.on \notin volumes
  /\ volumes' = IF Landed(o) THEN volumes \cup {S.on} ELSE volumes
  /\ IF S.on # Tools /\ (S.early \/ o = "done") THEN List(S.on) ELSE UNCHANGED listed
  /\ orphans' = IF o = "lost" /\ (~S.early \/ B.catch = 0) THEN orphans \cup {S.on} ELSE orphans
  /\ UNCHANGED <<containers, repos, busy, stray, restored>>
  /\ Settle(o)

\* The name of a container is listed before `docker run`; a transport numbers
\* its containers by the length of the list.
NewName == IF S.on = Mover THEN <<"movers", Len(listed["movers"])>> ELSE S.on

RunContainer(o) ==
  /\ At("run") \/ At("launch")
  /\ NewName \notin DOMAIN containers
  /\ List(NewName)
  /\ containers' = IF Landed(o)
       THEN [c \in DOMAIN containers \cup {NewName} |->
               IF c = NewName THEN [mounts |-> S.mounts, net |-> S.net, boot |-> S.boot]
                              ELSE containers[c]]
       ELSE containers
  /\ UNCHANGED <<volumes, repos, busy, stray, orphans, restored>>
  /\ Settle(o)

\* `docker run --rm`: without its client it runs on and holds its volumes.
RunTask(o) ==
  /\ At("task")
  /\ stray' = IF o = "lost" THEN stray \cup S.mounts ELSE stray
  /\ UNCHANGED <<containers, volumes, repos, busy, progress>>
  /\ Settle(o)

-----------------------------------------------------------------------------
(* Commands in a container *)

\* A capture whose exec was lost goes on in its container.
CaptureFixture(o) ==
  /\ At("capture")
  /\ repos' = IF o = "done" THEN repos \cup {S.kind} ELSE repos
  /\ busy' = IF o = "lost" THEN busy \cup {<<Target, S.kind>>} ELSE busy
  /\ UNCHANGED <<containers, volumes, stray, progress>>
  /\ Settle(o)

RestorePoint(o) ==
  /\ At("restore")
  /\ IF o = "done" THEN \E v \in {1, 2} : restored' = [restored EXCEPT ![S.kind] = v]
     ELSE UNCHANGED restored
  /\ UNCHANGED <<host, listed, orphans>>
  /\ Settle(o)

\* Digests of the restored files against those of the producer or the request.
Verify(o) ==
  /\ At("check")
  /\ o = "done" => restored[S.kind] = 1
  /\ UNCHANGED <<host, progress>>
  /\ Settle(o)

\* The two backends against each other.
CompareOriginals(o) ==
  /\ At("compare")
  /\ o = "done" => restored["nas"] = restored["r2"]
  /\ UNCHANGED <<host, progress>>
  /\ Settle(o)

Command(o) ==
  /\ At("exec") \/ At("boot")
  /\ UNCHANGED <<host, progress>>
  /\ Settle(o)

-----------------------------------------------------------------------------
(* Removing *)

\* A removed container takes the captures running in it along.
Gone(n) ==
  IF n[1] \in {"tools", "volumes"}
    THEN volumes' = volumes \ {n} /\ UNCHANGED <<containers, busy>>
    ELSE /\ containers' = Restrict(containers, DOMAIN containers \ {n})
         /\ busy' = {b \in busy : b[1] # n}
         /\ UNCHANGED volumes

Removable(n) == IF n[1] \in {"tools", "volumes"} THEN n \in volumes /\ ~InUse(n)
                                                 ELSE n \in DOMAIN containers

RemoveOwned(o) ==
  /\ At("remove") /\ Removable(Target)
  /\ IF Landed(o) THEN Gone(Target) ELSE UNCHANGED <<containers, volumes, busy>>
  /\ IF o = "done" THEN Unlist(Target) ELSE UNCHANGED listed
  /\ UNCHANGED <<repos, stray, orphans, restored>>
  /\ Settle(o)

\* clean and owned_cleanup go backwards, the transports and bazarr forwards.
InOrder(ledger) ==
  IF ledger = "tools" THEN <<Tools>>
  ELSE IF ledger = "movers" \/ script = "bazarr" THEN listed[ledger]
  ELSE Reverse(listed[ledger])

BeginSweep ==
  /\ At("sweep") /\ todo = NoSweep
  /\ todo' = InOrder(S.on[1])
  /\ UNCHANGED <<script, block, step, host, progress, raised, failures, expired, hindered, receipt, faults>>

EndSweep ==
  /\ At("sweep") /\ todo = << >>
  /\ todo' = NoSweep /\ Advance
  /\ UNCHANGED <<script, host, progress, raised, failures, expired, hindered, receipt, faults>>

Sweeping == At("sweep") /\ todo \notin {NoSweep, << >>}

\* Only Drill.remove takes the name off its list.
SweepOne(o) ==
  /\ Sweeping /\ Removable(Head(todo))
  /\ ~(Bounded /\ expired)
  /\ IF Landed(o) THEN Gone(Head(todo)) ELSE UNCHANGED <<containers, volumes, busy>>
  /\ IF o = "done"
       THEN /\ todo' = Tail(todo)
            /\ IF S.on[1] = "movers" THEN Unlist(Head(todo)) ELSE UNCHANGED listed
            /\ UNCHANGED <<block, step, raised, failures, faults, hindered>>
       ELSE /\ faults < MaxFaults /\ faults' = faults + 1 /\ hindered' = TRUE
            /\ Trouble /\ UNCHANGED listed
  /\ UNCHANGED <<script, repos, stray, orphans, restored, expired, receipt>>

\* Inspect finds nothing: owned_cleanup and radarr's tools pass over it.
Skips == script = "fence" \/ (script = "radarr" /\ S.on[1] = "tools")
Exists(n) == n \in volumes \cup DOMAIN containers

SweepMissing ==
  /\ Sweeping /\ ~Exists(Head(todo)) /\ ~(Bounded /\ expired)
  /\ IF Skips THEN todo' = Tail(todo) /\ UNCHANGED <<block, step, raised, failures>>
              ELSE Trouble
  /\ UNCHANGED <<script, host, progress, expired, hindered, receipt, faults>>

\* Commands that cannot succeed: a name that exists, a volume still mounted.
Impossible ==
  /\ \/ At("create") /\ S.on \in volumes
     \/ (At("run") \/ At("launch")) /\ NewName \in DOMAIN containers
     \/ At("remove") /\ ~Removable(Target)
     \/ Sweeping /\ Exists(Head(todo)) /\ ~Removable(Head(todo))
  /\ ~(Bounded /\ expired)
  /\ Trouble
  /\ hindered' = (hindered \/ (Cleaning /\ stray # {}))
  /\ UNCHANGED <<script, host, progress, expired, receipt, faults>>

PurgeFixture(o) ==
  /\ At("purge")
  /\ repos' = IF Landed(o) THEN repos \ {S.kind} ELSE repos
  /\ UNCHANGED <<containers, volumes, busy, stray, progress>>
  /\ Settle(o)

-----------------------------------------------------------------------------
(* Steps of the scripts that are no commands *)

\* The cleanup has its own short budget, even after the request expired.
RenewDeadline ==
  /\ At("renew") /\ expired' = FALSE /\ Advance
  /\ UNCHANGED <<script, host, progress, todo, raised, failures, hindered, receipt, faults>>

\* Broken: what the cleanup has noted is not raised.
ReportNothing ==
  /\ At("report")
  /\ Advance /\ UNCHANGED <<raised, failures>>
  /\ UNCHANGED <<script, host, progress, todo, expired, hindered, receipt, faults>>

ReportFailures ==
  /\ At("report")
  /\ IF failures THEN Raise ELSE Advance /\ UNCHANGED <<raised, failures>>
  /\ UNCHANGED <<script, host, progress, todo, expired, hindered, receipt, faults>>

GiveReceipt ==
  /\ At("receipt") /\ receipt' = TRUE /\ Advance
  /\ UNCHANGED <<script, host, progress, todo, raised, failures, expired, hindered, faults>>

\* The budget of the request, or of its cleanup, runs out.
Expire ==
  /\ Running /\ ~expired /\ faults < MaxFaults
  /\ expired' = TRUE /\ faults' = faults + 1
  /\ hindered' = (hindered \/ (Cleaning /\ S.op # "renew"))
  /\ UNCHANGED <<script, block, step, host, progress, todo, raised, failures, receipt>>

Commands == {"create", "run", "launch", "task", "capture", "restore", "check", "exec", "remove", "sweep", "purge"}

Refuse ==
  /\ Running /\ Bounded /\ expired /\ S.op \in Commands
  /\ S.op = "sweep" => Sweeping
  /\ IF S.op \in {"run", "launch"} THEN List(NewName) ELSE UNCHANGED listed
  /\ Trouble
  /\ UNCHANGED <<script, host, orphans, restored, expired, hindered, receipt, faults>>

\* Where a handler turns SIGTERM into an exception: the identity transport sets
\* its own only when the tools are there, the fence drill has none.
Handled == /\ script # "fence"
           /\ script \in {"pds", "original", "grimmory"} => block > 2

\* SIGTERM between two commands.  Radarr ignores it from then on; the others can
\* be interrupted in their cleanup too, past the handlers that note failures.
Interrupt ==
  /\ Running /\ Handled /\ faults < MaxFaults /\ faults' = faults + 1
  /\ ~(script = "radarr" /\ Cleaning)
  /\ Raise /\ todo' = NoSweep
  /\ hindered' = (hindered \/ Cleaning)
  /\ UNCHANGED <<script, host, progress, expired, receipt>>

\* Without a handler SIGTERM ends the script where it is, whatever it has created.
Terminate ==
  /\ Running /\ ~Handled /\ faults < MaxFaults /\ faults' = faults + 1
  /\ raised' = TRUE /\ Goto(0) /\ todo' = NoSweep /\ hindered' = TRUE
  /\ UNCHANGED <<script, host, progress, failures, expired, receipt>>

-----------------------------------------------------------------------------
(* What goes on without the script *)

FinishCapture ==
  /\ \E b \in busy : repos' = repos \cup {b[2]} /\ busy' = busy \ {b}
  /\ UNCHANGED <<script, block, step, containers, volumes, stray, progress, todo, raised,
                 failures, expired, hindered, receipt, faults>>

EndStray ==
  /\ stray # {} /\ stray' = {}
  /\ UNCHANGED <<script, block, step, containers, volumes, repos, busy, progress, todo, raised,
                 failures, expired, hindered, receipt, faults>>

DrillInit ==
  /\ script \in Scripts
  /\ block = 1 /\ step = 1
  /\ containers = << >> /\ volumes = {} /\ repos = {}
  /\ listed = [l \in Ledgers |-> << >>] /\ todo = NoSweep
  /\ raised = FALSE /\ failures = FALSE /\ expired = FALSE /\ hindered = FALSE
  /\ busy = {} /\ stray = {} /\ orphans = {}
  /\ restored = [k \in Kinds |-> 0]
  /\ receipt = FALSE /\ faults = 0

DrillStep ==
  \/ \E o \in Outcomes : \/ CreateVolume(o) \/ RunContainer(o) \/ RunTask(o)
                         \/ CaptureFixture(o) \/ RestorePoint(o) \/ Verify(o)
                         \/ CompareOriginals(o) \/ Command(o)
                         \/ RemoveOwned(o) \/ SweepOne(o) \/ PurgeFixture(o)
  \/ BeginSweep \/ EndSweep \/ SweepMissing \/ Impossible
  \/ RenewDeadline \/ ReportFailures \/ GiveReceipt
  \/ Expire \/ Refuse \/ Interrupt
  \/ FinishCapture \/ EndStray

DrillNext == DrillStep \/ Terminate
DrillSpec == DrillInit /\ [][DrillNext]_drillVars

-----------------------------------------------------------------------------
(* Properties *)

DrillTypeOK ==
  /\ script \in Scripts
  /\ block \in 0..Len(Program) /\ (Running => step \in 1..Len(B.steps))
  /\ repos \subseteq Kinds
  /\ DOMAIN listed = Ledgers /\ \A l \in Ledgers : \A n \in ToSet(listed[l]) : n[1] = l
  /\ todo # NoSweep => At("sweep")
  /\ restored \in [Kinds -> 0..2]
  /\ {raised, failures, expired, hindered, receipt} \subseteq BOOLEAN
  /\ busy \subseteq (DOMAIN containers) \X Kinds
  /\ \A n \in orphans : n[1] \in {"tools", "volumes"}
  /\ faults \in 0..MaxFaults

\* Wherever the body failed, was interrupted or ran into its deadline: a cleanup
\* that met no fault of its own leaves nothing of the run on the host nor in the
\* backends, except a volume whose create was lost before its name was listed.
\* A script that SIGTERM ends where no handler is set has no cleanup and is
\* promised nothing.  (bazarr's cleanup stops at a restorer that was never
\* created and so leaves the tools volume.)
NothingLeft ==
  ~Running /\ ~hindered =>
    /\ DOMAIN containers = {}
    /\ volumes \subseteq orphans \cup (IF script = "bazarr" THEN {Tools} ELSE {})
    /\ repos = {} /\ busy = {}

\* A receipt says that both backends gave back the same point and that the
\* fixtures are gone: nothing that is left can bring one back.
ReceiptHonest ==
  receipt =>
    /\ script # "fence" => restored["nas"] # 0 /\ restored["nas"] = restored["r2"]
    /\ script \notin {"fence", "bazarr"} => restored["nas"] = 1
    /\ DOMAIN containers = {} /\ volumes \subseteq {Tools}
    /\ repos = {} /\ busy = {}

\* Docker would make a volume that is mounted by name and is not there, and no
\* ledger would have it: what a command mounts, and what a container holds, exists.
MountsExist ==
  /\ At("run") \/ At("launch") \/ At("task") => S.mounts \subseteq volumes
  /\ \A c \in DOMAIN containers : containers[c].mounts \subseteq volumes
  /\ stray \subseteq volumes

\* While the secrets of an original boot, no container of the run has a network.
BootsAlone ==
  script # "pds" /\ (At("boot") \/ \E c \in DOMAIN containers : containers[c].boot)
    => \A c \in DOMAIN containers : ~containers[c].net

=============================================================================
