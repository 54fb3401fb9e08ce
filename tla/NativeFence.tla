------------------------------ MODULE NativeFence -----------------------------
(* The process-group fence of Grimmory (media/grimmory/app/fence.sh): the     *)
(* supervisor, PID 1, stops the application for whoever has placed a request, *)
(* until the request is released or expires; acquire, check and release are   *)
(* run in its container by clients that capture the stopped files.  Each file *)
(* operation is a step of its own.  The random token of a request stands for  *)
(* its whole line; its deadline is the ticks left until it, on both clocks.   *)
EXTENDS Integers, FiniteSets

CONSTANTS
  Clients,      \* orchestrators that run the commands
  MaxHold,      \* max_hold, and the hold every acquire asks for
  Minimum,      \* remaining ticks a check asks for
  MaxAcquires,  \* bound: requests placed
  MaxKills,     \* bound: the supervisor killed or terminated
  MaxFaults     \* bound: waits that time out

None == 0

ASSUME FenceAssumption == /\ MaxHold \in Nat \ {0} /\ Minimum \in 1..MaxHold
                          /\ {MaxAcquires, MaxKills, MaxFaults} \subseteq Nat
                          /\ None \notin Clients
Tokens == 1..MaxAcquires

VARIABLES
  sup,       \* the supervisor's step
  java,      \* "dead", "runs", "stopping", "stopped"
  accepted,  \* the request the supervisor works for
  fenced,
  request, active, pending, child,   \* the files of the fence
  lock,      \* the client whose acquire holds the flock
  left,      \* ticks to the deadline of each token
  at,        \* each client's command and its step
  tok,       \* the token a client has been given
  issued,    \* tokens drawn
  promise,   \* history: token and ticks of each client's last check that passed
  wrote,     \* history: the application ran since this token was granted
  clean,     \* history: it had not, whenever a check passed
  overtaken, \* history: a release has removed the request of another token
  kills, faults
supervisor == <<sup, java, accepted, fenced, child>>
files == <<request, active, pending>>
client == <<lock, at, tok, issued>>
history == <<promise, wrote, clean, overtaken>>
vars == <<supervisor, files, left, client, history, kills, faults>>

Fault == faults < MaxFaults /\ faults' = faults + 1
ReadRequest == request # None /\ left[request] > 0
StoppedGroup == child /\ java = "stopped"

-----------------------------------------------------------------------------
(* supervise *)

Writing == java' = "runs" /\ wrote' = Tokens
Sup(from, to) == sup = from /\ sup' = to

Fresh == /\ Sup("new", "boot")
         /\ active' = None /\ pending' = None /\ child' = FALSE
         /\ UNCHANGED <<request, java, accepted, fenced, wrote, faults>>

\* Broken: a replacement starts the writer whatever is requested.
StartupHoldNot == /\ Sup("boot", "clear")
                  /\ UNCHANGED <<files, java, accepted, fenced, child, wrote, faults>>

\* A replacement starts no writer while a retained request runs.
StartupHold == /\ Sup("boot", "clear") /\ ~ReadRequest
               /\ UNCHANGED <<files, java, accepted, fenced, child, wrote, faults>>
Launch == /\ Sup("clear", "name") /\ request' = None
          /\ Writing
          /\ UNCHANGED <<active, pending, accepted, fenced, child, faults>>

\* The child is named through the same pending file as everything else.
WriteChild == /\ Sup("name", "named") /\ pending' = -1
              /\ UNCHANGED <<request, active, java, accepted, fenced, child, wrote, faults>>
MoveChild == /\ sup = "named" /\ pending' = None
             /\ IF pending = -1 THEN sup' = "run" /\ child' = TRUE
                                ELSE sup' = "exit" /\ UNCHANGED child
             /\ UNCHANGED <<request, active, java, accepted, fenced, wrote, faults>>

Accept == /\ Sup("run", "stop") /\ ReadRequest
          /\ accepted' = request /\ fenced' = TRUE /\ java' = "stopping"
          /\ UNCHANGED <<files, child, wrote, faults>>
AwaitStopped == /\ sup = "stop"
                /\ \/ StoppedGroup /\ sup' = "recheck" /\ UNCHANGED faults
                   \/ ~StoppedGroup /\ ~ReadRequest /\ sup' = "exit" /\ UNCHANGED faults
                   \/ ~StoppedGroup /\ Fault /\ sup' = "exit"
                /\ UNCHANGED <<files, java, accepted, fenced, child, wrote>>
Recheck == /\ sup = "recheck"
           /\ sup' = IF ReadRequest /\ request = accepted THEN "write" ELSE "exit"
           /\ UNCHANGED <<files, java, accepted, fenced, child, wrote, faults>>
WriteActive == /\ Sup("write", "move") /\ pending' = accepted
               /\ UNCHANGED <<request, active, java, accepted, fenced, child, wrote, faults>>
MoveActive == /\ sup = "move" /\ pending' = None
              /\ IF pending # None THEN sup' = "hold" /\ active' = pending
                                   ELSE sup' = "exit" /\ UNCHANGED active
              /\ UNCHANGED <<request, java, accepted, fenced, child, wrote, faults>>
Holding == ReadRequest /\ request = accepted
\* Broken: the application resumes before the fence is lifted.
LiftActiveLate == /\ Sup("hold", "lift") /\ ~Holding /\ Writing
                  /\ UNCHANGED <<files, accepted, fenced, child, faults>>

LiftActive == /\ Sup("hold", "lift") /\ ~Holding /\ active' = None
              /\ UNCHANGED <<request, pending, java, accepted, fenced, child, wrote, faults>>
LiftRequest == /\ Sup("lift", "cont") /\ request' = None
               /\ UNCHANGED <<active, pending, java, accepted, fenced, child, wrote, faults>>
\* Broken: the fence is lifted and the process group never continued.
ContinueNot == /\ Sup("cont", "run") /\ fenced' = FALSE
               /\ UNCHANGED <<files, accepted, child, java, wrote, faults>>

Continue == /\ Sup("cont", "run") /\ Writing /\ fenced' = FALSE
            /\ UNCHANGED <<files, accepted, child, faults>>

(* cleanup: a fenced writer is killed without being resumed; the container    *)
(* ends with PID 1, and the commands run in it, and is started again.         *)
CleanupFiles == /\ Sup("exit", "kill") /\ active' = None /\ child' = FALSE
                /\ UNCHANGED <<request, pending, java, accepted, fenced, wrote, faults>>
Ends == /\ sup' = "new" /\ java' = "dead" /\ accepted' = None /\ fenced' = FALSE
        /\ lock' = None
        /\ at' = [c \in Clients |-> IF tok[c] = None THEN "idle" ELSE "held"]
CleanupKill == /\ sup = "kill"
               /\ IF fenced \/ ReadRequest \/ java = "dead" THEN UNCHANGED wrote ELSE wrote' = Tokens
               /\ Ends /\ UNCHANGED <<child, files, left, tok, issued, promise, clean,
                                      overtaken, kills, faults>>

Supervise == /\ \/ Fresh \/ StartupHold \/ Launch \/ WriteChild \/ MoveChild \/ Accept
                \/ AwaitStopped \/ Recheck \/ WriteActive \/ MoveActive
                \/ LiftActive \/ LiftRequest \/ Continue \/ CleanupFiles
             /\ UNCHANGED <<left, client, promise, clean, overtaken, kills>>
Stops == /\ java = "stopping" /\ java' = "stopped"
         /\ UNCHANGED <<sup, accepted, fenced, child, files, left, client, history, kills, faults>>

Kill == kills < MaxKills /\ kills' = kills + 1
\* The trap is set only after the startup hold.
Terminated == /\ Kill /\ sup \notin {"new", "boot", "clear", "exit", "kill"} /\ sup' = "exit"
              /\ UNCHANGED <<java, accepted, fenced, child, files, left, client, history, faults>>
Killed == Kill /\ sup # "new" /\ Ends /\ UNCHANGED <<child, files, left, tok, issued, history, faults>>

-----------------------------------------------------------------------------
(* acquire, check and release *)

Go(c, from, to) == at[c] = from /\ at' = [at EXCEPT ![c] = to]
Reject(c, to) == lock' = (IF lock = c THEN None ELSE lock) /\ at' = [at EXCEPT ![c] = to]

\* Broken: acquire takes no lock.
AcquireUnlocked(c) == /\ Go(c, "idle", "exam") /\ issued < MaxAcquires /\ lock' = c
                      /\ UNCHANGED <<files, left, tok, issued, history, faults>>

\* flock -n: another acquire under way rejects this one.
Acquire(c) == /\ Go(c, "idle", "exam") /\ issued < MaxAcquires /\ lock = None /\ lock' = c
              /\ UNCHANGED <<files, left, tok, issued, history, faults>>
Examine(c) == /\ at[c] = "exam"
              /\ IF child /\ java # "dead" /\ request = None /\ active = None
                   THEN at' = [at EXCEPT ![c] = "write"] /\ UNCHANGED lock
                   ELSE Reject(c, "idle")
              /\ UNCHANGED <<files, left, tok, issued, history, faults>>
\* set -C: an existing pending file is never overwritten.
WriteRequest(c) == /\ at[c] = "write"
                   /\ IF pending = None /\ issued < MaxAcquires
                        THEN /\ issued' = issued + 1 /\ pending' = issued'
                             /\ left' = [left EXCEPT ![issued'] = MaxHold]
                             /\ at' = [at EXCEPT ![c] = "place"] /\ UNCHANGED lock
                        ELSE Reject(c, "idle") /\ UNCHANGED <<pending, left, issued>>
                   /\ UNCHANGED <<request, active, tok, history, faults>>
MoveRequest(c) == /\ at[c] = "place" /\ pending' = None
                  /\ IF pending # None
                       THEN request' = pending /\ at' = [at EXCEPT ![c] = "await"]
                            /\ UNCHANGED lock
                       ELSE Reject(c, "idle") /\ UNCHANGED request
                  /\ UNCHANGED <<active, left, tok, issued, history, faults>>
\* A passing check ends the wait; a request that is gone, or the limit, rejects
\* and removes whatever request there is.
Admitted == /\ ReadRequest /\ left[request] >= Minimum /\ active = request /\ StoppedGroup
AwaitActive(c) ==
  /\ at[c] = "await"
  /\ \/ /\ Admitted
        /\ tok' = [tok EXCEPT ![c] = active] /\ Reject(c, "held")
        /\ promise' = [promise EXCEPT ![c] = <<active, left[active]>>]
        /\ wrote' = wrote \ {active} /\ UNCHANGED <<request, faults>>
     \/ /\ ~Admitted /\ \/ ~ReadRequest /\ UNCHANGED faults
                        \/ ReadRequest /\ Fault
        /\ request' = None /\ Reject(c, "idle") /\ UNCHANGED <<tok, promise, wrote>>
  /\ UNCHANGED <<active, pending, left, issued, clean, overtaken>>

\* check "$3" && [ "$(cat active)" = "$2" ]: four reads, one after another.
CheckRead(c, from, ok, to) ==
  /\ at[c] = from /\ at' = [at EXCEPT ![c] = IF ok THEN to ELSE "held"]
  /\ UNCHANGED <<files, left, lock, tok, issued, history, faults>>
CheckRequest(c) == CheckRead(c, "held", ReadRequest /\ left[request] >= Minimum, "same")
CheckSame(c) == CheckRead(c, "same", request # None /\ request = active, "stopped")
CheckStopped(c) == CheckRead(c, "stopped", StoppedGroup, "token")
CheckToken(c) == /\ Go(c, "token", "held")
                 /\ IF active = tok[c]
                      THEN /\ clean' = (clean /\ tok[c] \notin wrote)
                           /\ promise' = [promise EXCEPT ![c] = <<tok[c], left[tok[c]]>>]
                      ELSE UNCHANGED <<clean, promise>>
                 /\ UNCHANGED <<files, left, lock, tok, issued, wrote, overtaken, faults>>

\* release compares and then removes.
NoPromise == <<None, 0>>
Release(c) == /\ at[c] = "held"
              /\ at' = [at EXCEPT ![c] = IF request = tok[c] THEN "remove" ELSE "idle"]
              /\ tok' = [tok EXCEPT ![c] = IF request = tok[c] THEN @ ELSE None]
              /\ promise' = [promise EXCEPT ![c] = NoPromise]
              /\ UNCHANGED <<files, left, lock, issued, wrote, clean, overtaken, faults>>
Remove(c) == /\ Go(c, "remove", "idle")
             /\ overtaken' = (overtaken \/ request \notin {None, tok[c]})
             /\ request' = None /\ tok' = [tok EXCEPT ![c] = None]
             /\ UNCHANGED <<active, pending, left, lock, issued, promise, wrote, clean, faults>>

Command(c) == /\ sup # "new"
              /\ \/ Acquire(c) \/ Examine(c) \/ WriteRequest(c) \/ MoveRequest(c)
                 \/ AwaitActive(c) \/ CheckRequest(c) \/ CheckSame(c) \/ CheckStopped(c)
                 \/ CheckToken(c) \/ Release(c) \/ Remove(c)
              /\ UNCHANGED <<supervisor, kills>>

\* The process of an acquire dies alone: the flock falls with it, its files stay.
Lost(c) == /\ Kill /\ lock = c /\ Reject(c, "idle")
           /\ UNCHANGED <<supervisor, files, left, tok, issued, history, faults>>

Less(n) == IF n > 0 THEN n - 1 ELSE 0
Tick == /\ \E t \in Tokens : left[t] > 0
        /\ left' = [t \in Tokens |-> Less(left[t])]
        /\ promise' = [c \in Clients |-> <<promise[c][1], Less(promise[c][2])>>]
        /\ UNCHANGED <<supervisor, files, client, wrote, clean, overtaken, kills, faults>>

Init == /\ sup = "new" /\ java = "dead" /\ accepted = None /\ fenced = FALSE /\ child = FALSE
        /\ request = None /\ active = None /\ pending = None
        /\ lock = None /\ left = [t \in Tokens |-> 0]
        /\ at = [c \in Clients |-> "idle"] /\ tok = [c \in Clients |-> None] /\ issued = 0
        /\ promise = [c \in Clients |-> NoPromise] /\ wrote = Tokens /\ clean = TRUE
        /\ overtaken = FALSE /\ kills = 0 /\ faults = 0

Finish(c) == at[c] \in {"exam", "write", "place", "await"} /\ Command(c)
SupStep == Supervise \/ CleanupKill \/ Stops
Next == SupStep \/ Terminated \/ Killed \/ Tick \/ \E c \in Clients : Command(c) \/ Lost(c)
Fairness == /\ WF_vars(SupStep) /\ WF_vars(Tick)
            /\ \A c \in Clients : WF_vars(Finish(c))
Spec == Init /\ [][Next]_vars /\ Fairness

-----------------------------------------------------------------------------
(* Types; and a file the supervisor or a client has moved is a whole request. *)
TypeOK ==
  /\ sup \in {"new", "boot", "clear", "name", "named", "run", "stop", "recheck", "write", "move",
              "hold", "lift", "cont", "exit", "kill"}
  /\ java \in {"dead", "runs", "stopping", "stopped"}
  /\ accepted \in {None} \cup Tokens /\ fenced \in BOOLEAN /\ child \in BOOLEAN
  /\ {request, active} \subseteq {None} \cup Tokens /\ pending \in {-1, None} \cup Tokens
  /\ lock \in {None} \cup Clients /\ left \in [Tokens -> 0..MaxHold]
  /\ at \in [Clients -> {"idle", "exam", "write", "place", "await", "held", "same", "stopped",
                         "token", "remove"}]
  /\ tok \in [Clients -> {None} \cup Tokens] /\ issued \in 0..MaxAcquires
  /\ promise \in [Clients -> ({None} \cup Tokens) \X (0..MaxHold)]
  /\ wrote \subseteq Tokens /\ clean \in BOOLEAN /\ overtaken \in BOOLEAN
  /\ kills \in 0..MaxKills /\ faults \in 0..MaxFaults

(* From a check that passed to the deadline it saw, or the client's own       *)
(* release, the application does not run, in whatever container, unless a     *)
(* stalled release has removed a request that was not its own.                *)
PromiseKept ==
  ~overtaken => \A c \in Clients : promise[c][2] > 0 => java # "runs"

(* A check that passes proves that the application has not run since the      *)
(* token was granted, however its four reads lie to the supervisor's steps.   *)
Undisturbed == clean

(* Two clients never both hold a promise that has not run out.                *)
Exclusive ==
  ~overtaken => \A c, d \in Clients : promise[c][2] > 0 /\ promise[d][2] > 0 => c = d

(* Whatever is requested, lost or killed, the application runs again.         *)
WriterReturns == []<>(java = "runs")
=============================================================================
