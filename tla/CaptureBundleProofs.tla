------------------------- MODULE CaptureBundleProofs -------------------------
(* The safety properties of CaptureBundle for any processes, any number of    *)
(* faults and any number of writes of the application, for the five hooks.    *)
(* The invariant HookInv has five parts: the types; Alone, that the flock or  *)
(* the schedule keeps the bodies of the hooks apart; WorkInv, what each hook  *)
(* has done at each of its steps; KeepInv, where a whole bundle is; OpenInv,  *)
(* where something may be open.  The tables give the position of every        *)
(* operation in its hook; what a step does is then stated by operation, once  *)
(* for all hooks (Effects, Written), and put together per hook (StashWork and *)
(* the others).                                                               *)
EXTENDS CaptureBundle, TLAPS

AllApps == {"stash", "tube", "viking", "metrics", "home"}

Bundles(a) == [parts : [Parts(a) -> Nat], seal : [Parts(a) -> Nat], at : [Parts(a) -> Nat]]

(* None is no process, no bundle, no reading and no download.                 *)
Apart ==
  /\ None \notin Procs /\ None \notin [version : Nat, whole : BOOLEAN]
  /\ \A a \in AllApps : None \notin Bundles(a) /\ None \notin [Parts(a) -> Nat]

Types ==
  /\ app \in AllApps
  /\ live \in [Parts(app) -> Nat \ {0}]
  /\ pending \in [Stagings -> Bundles(app) \cup {None}]
  /\ retained \in [version : Nat \ {0}, whole : BOOLEAN] \cup {None}
  /\ lock \in Procs \cup {None}
  /\ pc \in [Procs -> 0..Len(Program(app))]
  /\ seen \in [Procs -> [Parts(app) -> Nat]]
  /\ remote \in [Procs -> [Parts(app) -> Nat \ {0}] \cup {None}]
  /\ faults \in Nat

(* One process at most is in its body, past the lock where there is one.      *)
Alone ==
  /\ Locked => \A p \in Procs : pc[p] > 1 /\ InBody(p) => lock = p
  /\ ~Locked => \A p, r \in Procs : pc[p] > 0 /\ pc[r] > 0 => p = r

(* What the hook has done at its step n: b is the bundle it stages, s what it *)
(* has seen, m the moment that the server keeps.                              *)
Saw(s, q) == 0 < s[q] /\ s[q] <= live[q]
Moment(b) == \A q \in Parts(app) : 0 < b.at[q] /\ b.at[q] <= live[q]

StashDone(n, b, s) ==
  n <= 18 =>
    /\ n > 4 => b # None
    /\ n > 5 => Saw(s, "blobs")
    /\ n > 6 => Saw(s, "plugins")
    /\ n > 7 => Saw(s, "config")
    /\ n > 8 => /\ Moment(b) /\ b.parts["db"] = b.at["db"]
                /\ \A q \in {"blobs", "plugins", "config"} : s[q] <= b.at[q]
    /\ n > 9 => b.parts["config"] = s["config"]
    /\ n > 10 => b.at["blobs"] <= b.parts["blobs"] /\ b.parts["blobs"] <= live["blobs"]
    /\ n > 11 => b.at["plugins"] <= b.parts["plugins"] /\ b.parts["plugins"] <= live["plugins"]
    /\ n > 12 => b.parts["blobs"] = b.at["blobs"]
    /\ n > 13 => b.parts["plugins"] = b.at["plugins"]
    /\ n > 14 => b.parts["config"] = b.at["config"]
    /\ n > 15 => \A q \in Parts(app) : b.seal[q] = b.parts[q]

TubeDone(n, b, s, m) ==
  n <= 11 =>
    /\ n > 2 => b # None
    /\ n > 3 => Saw(s, "schema")
    /\ n > 4 => m = b.at /\ Moment(b) /\ s["schema"] <= b.at["schema"]
    /\ n > 5 => b.parts["docs"] = b.at["docs"]
    /\ n > 6 => s["schema"] = b.at["schema"]
    /\ n > 7 => b.parts["schema"] = b.at["schema"]
    /\ n > 8 => b.seal["docs"] = b.parts["docs"]

VikingDone(n, b, s) ==
  n <= 12 =>
    /\ n > 3 => b # None
    /\ n > 4 => b.parts["pack1"] > 0
    /\ n > 5 => b.parts["pack2"] > 0
    /\ n > 6 => s["auth"] > 0
    /\ n > 7 => b.parts["auth"] > 0
    /\ n > 9 => \A q \in Parts(app) : b.seal[q] = b.parts[q]

MetricsDone(n, b, m) ==
  n <= 8 =>
    /\ n > 2 => m # None
    /\ n > 3 => b # None
    /\ n > 4 => b.parts["data"] > 0
    /\ n > 5 => b.seal["data"] = b.parts["data"]

HomeDone(n, b, m) ==
  n <= 12 =>
    /\ n > 1 => b # None
    /\ n = 4 => m # None
    /\ n \in {5, 6} => retained # None
    /\ n > 6 => b.parts["tar"] > 0
    /\ n > 7 => b.seal["tar"] = b.parts["tar"]
    /\ n > 8 => b.parts["dump"] > 0

Done(n, b, s, m) ==
  /\ app = "stash" => StashDone(n, b, s)
  /\ app = "tube" => TubeDone(n, b, s, m)
  /\ app = "viking" => VikingDone(n, b, s)
  /\ app = "metrics" => MetricsDone(n, b, m)
  /\ app = "home" => HomeDone(n, b, m)

WorkInv == \A p \in Procs : Done(pc[p], Bundle(p), seen[p], remote[p])

Good(b) == Whole(b) /\ \A q \in Linked(app) : b.parts[q] = b.at[q]

(* Without a fault the current bundle is only away for the two renames; after *)
(* one, a whole bundle is the previous one or about to be published.          *)
KeepInv ==
  /\ current # None => Good(current)
  /\ published /\ faults = 0 =>
       Whole(current) \/ (Whole(previous) /\ \E p \in Procs : At(p, "publish"))
  /\ published /\ faults <= 1 =>
       Whole(current) \/ Whole(previous) \/ \E p \in Procs : At(p, "retire") \/ At(p, "publish")

(* The steps between the open and the close of a hook that has both.          *)
Lo == IF app = "tube" THEN 5 ELSE 3
Hi == IF app = "tube" THEN 13 ELSE 10

(* A hook that holds something open is on its way to the close, alone; the    *)
(* server keeps what it holds and what unclosed counts, and no more.          *)
OpenInv ==
  /\ litter => abandoned
  /\ \A p \in Procs : Holds(p) => pc[p] \in Lo..Hi /\ (app = "metrics" => lock = p)
  /\ open \in Int /\ unclosed \in Int /\ open <= unclosed + 1
  /\ (\A p \in Procs : ~Holds(p)) => open <= unclosed

HookInv == Types /\ Alone /\ WorkInv /\ KeepInv /\ OpenInv

(* The hooks, step by step.                                                   *)
Op(i)  == Program(app)[i][1]
Arg(i) == Program(app)[i][2]
End    == IndexOf("finally")

(* What the hooks have in common.                                             *)
Shape ==
  /\ Len(Program(app)) \in Nat /\ End \in Nat /\ 2 <= End /\ End <= Len(Program(app))
  /\ \A i \in 1..Len(Program(app)) :
       /\ Op(i) \in {"finally", "close", "tidy"} <=> i >= End
       /\ Op(i) = "finally" => i = End
       /\ Op(i) = "lock" => i = 1 /\ Locked
       /\ Locked /\ i = 1 => Op(i) = "lock"
       /\ Op(i) = "drop" => Op(i + 1) = "retire"
       /\ Op(i) = "retire" => Op(i + 1) = "publish"
       /\ Op(i) = "resume" => app = "home"

StashTable ==
  /\ Len(Program(app)) = 20 /\ End = 20
  /\ \A i \in 1..20 :
       /\ Op(i) \in {"lock", "unmark", "sweep", "make", "look", "anchor", "write", "copy",
                     "again", "seal", "drop", "retire", "publish", "mark", "finally"}
       /\ Op(i) = "lock" => i = 1
       /\ Op(i) = "unmark" => i = 2
       /\ Op(i) = "sweep" => i = 3
       /\ Op(i) = "make" => i = 4
       /\ Op(i) = "look" =>
            \/ i = 5 /\ Arg(i) = "blobs"
            \/ i = 6 /\ Arg(i) = "plugins"
            \/ i = 7 /\ Arg(i) = "config"
       /\ Op(i) = "anchor" => i = 8 /\ Arg(i) = "db"
       /\ Op(i) = "write" => i = 9 /\ Arg(i) = "config"
       /\ Op(i) = "copy" => (i = 10 /\ Arg(i) = "blobs") \/ (i = 11 /\ Arg(i) = "plugins")
       /\ Op(i) = "again" =>
            \/ i = 12 /\ Arg(i) = "blobs"
            \/ i = 13 /\ Arg(i) = "plugins"
            \/ i = 14 /\ Arg(i) = "config"
       /\ Op(i) = "seal" => i = 15
       /\ Op(i) = "drop" => i = 16
       /\ Op(i) = "retire" => i = 17
       /\ Op(i) = "publish" => i = 18
       /\ Op(i) = "mark" => i = 19
       /\ Op(i) = "finally" => i = 20

TubeTable ==
  /\ Len(Program(app)) = 13 /\ End = 12
  /\ \A i \in 1..13 :
       /\ Op(i) \in {"sweep", "make", "look", "open", "fetch", "again", "write", "seal", "drop",
                     "retire", "publish", "finally", "close"}
       /\ Op(i) = "sweep" => i = 1
       /\ Op(i) = "make" => i = 2
       /\ Op(i) = "look" => i = 3 /\ Arg(i) = "schema"
       /\ Op(i) = "open" => i = 4
       /\ Op(i) = "fetch" => i = 5 /\ Arg(i) = "docs"
       /\ Op(i) = "again" => i = 6 /\ Arg(i) = "schema"
       /\ Op(i) = "write" => i = 7 /\ Arg(i) = "schema"
       /\ Op(i) = "seal" => i = 8
       /\ Op(i) = "drop" => i = 9
       /\ Op(i) = "retire" => i = 10
       /\ Op(i) = "publish" => i = 11
       /\ Op(i) = "finally" => i = 12
       /\ Op(i) = "close" => i = 13

VikingTable ==
  /\ Len(Program(app)) = 14 /\ End = 13
  /\ \A i \in 1..14 :
       /\ Op(i) \in {"lock", "sweep", "make", "copy", "look", "write", "again", "seal", "drop",
                     "retire", "publish", "finally", "tidy"}
       /\ Op(i) = "lock" => i = 1
       /\ Op(i) = "sweep" => i = 2
       /\ Op(i) = "make" => i = 3
       /\ Op(i) = "copy" => (i = 4 /\ Arg(i) = "pack1") \/ (i = 5 /\ Arg(i) = "pack2")
       /\ Op(i) = "look" => i = 6 /\ Arg(i) = "auth"
       /\ Op(i) = "write" => i = 7 /\ Arg(i) = "auth"
       /\ Op(i) = "again" => i = 8 /\ Arg(i) = "auth"
       /\ Op(i) = "seal" => i = 9
       /\ Op(i) = "drop" => i = 10
       /\ Op(i) = "retire" => i = 11
       /\ Op(i) = "publish" => i = 12
       /\ Op(i) = "finally" => i = 13
       /\ Op(i) = "tidy" => i = 14

MetricsTable ==
  /\ Len(Program(app)) = 11 /\ End = 9
  /\ \A i \in 1..11 :
       /\ Op(i) \in {"lock", "open", "make", "fetch", "seal", "drop", "retire", "publish",
                     "finally", "close", "tidy"}
       /\ Op(i) = "lock" => i = 1
       /\ Op(i) = "open" => i = 2
       /\ Op(i) = "make" => i = 3
       /\ Op(i) = "fetch" => i = 4 /\ Arg(i) = "data"
       /\ Op(i) = "seal" => i = 5
       /\ Op(i) = "drop" => i = 6
       /\ Op(i) = "retire" => i = 7
       /\ Op(i) = "publish" => i = 8
       /\ Op(i) = "finally" => i = 9
       /\ Op(i) = "close" => i = 10
       /\ Op(i) = "tidy" => i = 11

HomeTable ==
  /\ Len(Program(app)) = 13 /\ End = 13 /\ IndexOf("seat") = 6
  /\ \A i \in 1..13 :
       /\ Op(i) \in {"prepare", "resume", "open", "create", "receive", "seat", "seal", "copy",
                     "present", "drop", "retire", "publish", "finally"}
       /\ Op(i) = "prepare" => i = 1
       /\ Op(i) = "resume" => i = 2
       /\ Op(i) = "open" => i = 3
       /\ Op(i) = "create" => i = 4
       /\ Op(i) = "receive" => i = 5
       /\ Op(i) = "seat" => i = 6
       /\ Op(i) = "seal" => i = 7
       /\ Op(i) = "copy" => i = 8 /\ Arg(i) = "dump"
       /\ Op(i) = "present" => i = 9
       /\ Op(i) = "drop" => i = 10
       /\ Op(i) = "retire" => i = 11
       /\ Op(i) = "publish" => i = 12
       /\ Op(i) = "finally" => i = 13

LEMMA StashSteps == app = "stash" => StashTable /\ Shape
<1> SUFFICES ASSUME app = "stash" PROVE StashTable /\ Shape
  OBVIOUS
<1>1. Len(Program(app)) = 20
  BY DEF Program, StashCapture, Rotate
<1>2. /\ Op(1) = "lock" /\ Op(2) = "unmark" /\ Op(3) = "sweep" /\ Op(4) = "make"
      /\ Op(5) = "look" /\ Arg(5) = "blobs" /\ Op(6) = "look" /\ Arg(6) = "plugins"
      /\ Op(7) = "look" /\ Arg(7) = "config" /\ Op(8) = "anchor" /\ Arg(8) = "db"
      /\ Op(9) = "write" /\ Arg(9) = "config" /\ Op(10) = "copy" /\ Arg(10) = "blobs"
      /\ Op(11) = "copy" /\ Arg(11) = "plugins" /\ Op(12) = "again" /\ Arg(12) = "blobs"
      /\ Op(13) = "again" /\ Arg(13) = "plugins" /\ Op(14) = "again" /\ Arg(14) = "config"
      /\ Op(15) = "seal" /\ Op(16) = "drop" /\ Op(17) = "retire" /\ Op(18) = "publish"
      /\ Op(19) = "mark" /\ Op(20) = "finally"
  BY DEF Op, Arg, Program, StashCapture, Rotate
<1>3. End = 20
  BY <1>1, <1>2 DEF End, IndexOf, Op
<1>4. StashTable
  BY <1>1, <1>2, <1>3 DEF StashTable
<1>5. Len(Program(app)) \in Nat
  BY <1>1
<1>6. End \in Nat /\ 2 <= End /\ End <= 20
  BY <1>3
<1>7. End \in Nat /\ 2 <= End /\ End <= Len(Program(app))
  BY <1>1, <1>6, Zenon
<1>8. \A i \in 1..20 :
         /\ Op(i) \in {"finally", "close", "tidy"} <=> i >= 20
         /\ Op(i) = "finally" => i = 20
  BY <1>2
<1>9. \A i \in 1..20 :
         /\ Op(i) = "lock" => i = 1 /\ Locked
         /\ Locked /\ i = 1 => Op(i) = "lock"
         /\ Op(i) = "resume" => app = "home"
  BY <1>2 DEF Locked
<1>10. \A i \in 1..20 :
          /\ Op(i) = "drop" => Op(i + 1) = "retire"
          /\ Op(i) = "retire" => Op(i + 1) = "publish"
  BY <1>2
<1>11. Shape
  BY <1>1, <1>3, <1>5, <1>7, <1>8, <1>9, <1>10 DEF Shape
<1>12. QED
  BY <1>4, <1>11

LEMMA TubeSteps == app = "tube" => TubeTable /\ Shape
<1> SUFFICES ASSUME app = "tube" PROVE TubeTable /\ Shape
  OBVIOUS
<1>1. Len(Program(app)) = 13
  BY DEF Program, TubeCapture, Rotate
<1>2. /\ Op(1) = "sweep" /\ Op(2) = "make" /\ Op(3) = "look" /\ Arg(3) = "schema"
      /\ Op(4) = "open" /\ Op(5) = "fetch" /\ Arg(5) = "docs"
      /\ Op(6) = "again" /\ Arg(6) = "schema" /\ Op(7) = "write" /\ Arg(7) = "schema"
      /\ Op(8) = "seal" /\ Op(9) = "drop" /\ Op(10) = "retire" /\ Op(11) = "publish"
      /\ Op(12) = "finally" /\ Op(13) = "close"
  BY DEF Op, Arg, Program, TubeCapture, Rotate
<1>3. End = 12
  BY <1>1, <1>2 DEF End, IndexOf, Op
<1>4. TubeTable
  BY <1>1, <1>2, <1>3 DEF TubeTable
<1>5. Len(Program(app)) \in Nat
  BY <1>1
<1>6. End \in Nat /\ 2 <= End /\ End <= 13
  BY <1>3
<1>7. End \in Nat /\ 2 <= End /\ End <= Len(Program(app))
  BY <1>1, <1>6, Zenon
<1>8. \A i \in 1..13 :
         /\ Op(i) \in {"finally", "close", "tidy"} <=> i >= 12
         /\ Op(i) = "finally" => i = 12
  BY <1>2
<1>9. \A i \in 1..13 :
         /\ Op(i) = "lock" => i = 1 /\ Locked
         /\ Locked /\ i = 1 => Op(i) = "lock"
         /\ Op(i) = "resume" => app = "home"
  BY <1>2 DEF Locked
<1>10. \A i \in 1..13 :
          /\ Op(i) = "drop" => Op(i + 1) = "retire"
          /\ Op(i) = "retire" => Op(i + 1) = "publish"
  BY <1>2
<1>11. Shape
  BY <1>1, <1>3, <1>5, <1>7, <1>8, <1>9, <1>10 DEF Shape
<1>12. QED
  BY <1>4, <1>11

LEMMA VikingSteps == app = "viking" => VikingTable /\ Shape
<1> SUFFICES ASSUME app = "viking" PROVE VikingTable /\ Shape
  OBVIOUS
<1>1. Len(Program(app)) = 14
  BY DEF Program, VikingCapture, Rotate
<1>2. /\ Op(1) = "lock" /\ Op(2) = "sweep" /\ Op(3) = "make"
      /\ Op(4) = "copy" /\ Arg(4) = "pack1" /\ Op(5) = "copy" /\ Arg(5) = "pack2"
      /\ Op(6) = "look" /\ Arg(6) = "auth" /\ Op(7) = "write" /\ Arg(7) = "auth"
      /\ Op(8) = "again" /\ Arg(8) = "auth" /\ Op(9) = "seal" /\ Op(10) = "drop"
      /\ Op(11) = "retire" /\ Op(12) = "publish" /\ Op(13) = "finally" /\ Op(14) = "tidy"
  BY DEF Op, Arg, Program, VikingCapture, Rotate
<1>3. End = 13
  BY <1>1, <1>2 DEF End, IndexOf, Op
<1>4. VikingTable
  BY <1>1, <1>2, <1>3 DEF VikingTable
<1>5. Len(Program(app)) \in Nat
  BY <1>1
<1>6. End \in Nat /\ 2 <= End /\ End <= 14
  BY <1>3
<1>7. End \in Nat /\ 2 <= End /\ End <= Len(Program(app))
  BY <1>1, <1>6, Zenon
<1>8. \A i \in 1..14 :
         /\ Op(i) \in {"finally", "close", "tidy"} <=> i >= 13
         /\ Op(i) = "finally" => i = 13
  BY <1>2
<1>9. \A i \in 1..14 :
         /\ Op(i) = "lock" => i = 1 /\ Locked
         /\ Locked /\ i = 1 => Op(i) = "lock"
         /\ Op(i) = "resume" => app = "home"
  BY <1>2 DEF Locked
<1>10. \A i \in 1..14 :
          /\ Op(i) = "drop" => Op(i + 1) = "retire"
          /\ Op(i) = "retire" => Op(i + 1) = "publish"
  BY <1>2
<1>11. Shape
  BY <1>1, <1>3, <1>5, <1>7, <1>8, <1>9, <1>10 DEF Shape
<1>12. QED
  BY <1>4, <1>11

LEMMA MetricsSteps == app = "metrics" => MetricsTable /\ Shape
<1> SUFFICES ASSUME app = "metrics" PROVE MetricsTable /\ Shape
  OBVIOUS
<1>1. Len(Program(app)) = 11
  BY DEF Program, MetricsCapture, Rotate
<1>2. /\ Op(1) = "lock" /\ Op(2) = "open" /\ Op(3) = "make"
      /\ Op(4) = "fetch" /\ Arg(4) = "data" /\ Op(5) = "seal" /\ Op(6) = "drop"
      /\ Op(7) = "retire" /\ Op(8) = "publish" /\ Op(9) = "finally" /\ Op(10) = "close"
      /\ Op(11) = "tidy"
  BY DEF Op, Arg, Program, MetricsCapture, Rotate
<1>3. End = 9
  BY <1>1, <1>2 DEF End, IndexOf, Op
<1>4. MetricsTable
  BY <1>1, <1>2, <1>3 DEF MetricsTable
<1>5. Len(Program(app)) \in Nat
  BY <1>1
<1>6. End \in Nat /\ 2 <= End /\ End <= 11
  BY <1>3
<1>7. End \in Nat /\ 2 <= End /\ End <= Len(Program(app))
  BY <1>1, <1>6, Zenon
<1>8. \A i \in 1..11 :
         /\ Op(i) \in {"finally", "close", "tidy"} <=> i >= 9
         /\ Op(i) = "finally" => i = 9
  BY <1>2
<1>9. \A i \in 1..11 :
         /\ Op(i) = "lock" => i = 1 /\ Locked
         /\ Locked /\ i = 1 => Op(i) = "lock"
         /\ Op(i) = "resume" => app = "home"
  BY <1>2 DEF Locked
<1>10. \A i \in 1..11 :
          /\ Op(i) = "drop" => Op(i + 1) = "retire"
          /\ Op(i) = "retire" => Op(i + 1) = "publish"
  BY <1>2
<1>11. Shape
  BY <1>1, <1>3, <1>5, <1>7, <1>8, <1>9, <1>10 DEF Shape
<1>12. QED
  BY <1>4, <1>11

LEMMA HomeSteps == app = "home" => HomeTable /\ Shape
<1> SUFFICES ASSUME app = "home" PROVE HomeTable /\ Shape
  OBVIOUS
<1>1. Len(Program(app)) = 13
  BY DEF Program, HomeCapture, HomeBundle, Rotate
<1>2. /\ Op(1) = "prepare" /\ Op(2) = "resume" /\ Op(3) = "open" /\ Op(4) = "create"
      /\ Op(5) = "receive" /\ Op(6) = "seat" /\ Op(7) = "seal"
      /\ Op(8) = "copy" /\ Arg(8) = "dump" /\ Op(9) = "present" /\ Op(10) = "drop"
      /\ Op(11) = "retire" /\ Op(12) = "publish" /\ Op(13) = "finally"
  BY DEF Op, Arg, Program, HomeCapture, HomeBundle, Rotate
<1>3. End = 13
  BY <1>1, <1>2 DEF End, IndexOf, Op
<1>4. IndexOf("seat") = 6
  BY <1>1, <1>2 DEF IndexOf, Op
<1>5. HomeTable
  BY <1>1, <1>2, <1>3, <1>4 DEF HomeTable
<1>6. Len(Program(app)) \in Nat
  BY <1>1
<1>7. End \in Nat /\ 2 <= End /\ End <= 13
  BY <1>3
<1>8. End \in Nat /\ 2 <= End /\ End <= Len(Program(app))
  BY <1>1, <1>7, Zenon
<1>9. \A i \in 1..13 :
         /\ Op(i) \in {"finally", "close", "tidy"} <=> i >= 13
         /\ Op(i) = "finally" => i = 13
  BY <1>2
<1>10. \A i \in 1..13 :
          /\ Op(i) = "lock" => i = 1 /\ Locked
          /\ Locked /\ i = 1 => Op(i) = "lock"
          /\ Op(i) = "resume" => app = "home"
  BY <1>2 DEF Locked
<1>11. \A i \in 1..13 :
          /\ Op(i) = "drop" => Op(i + 1) = "retire"
          /\ Op(i) = "retire" => Op(i + 1) = "publish"
  BY <1>2
<1>12. Shape
  BY <1>1, <1>3, <1>6, <1>8, <1>9, <1>10, <1>11 DEF Shape
<1>13. QED
  BY <1>5, <1>12

LEMMA Shapes == app \in AllApps => Shape
  BY StashSteps, TubeSteps, VikingSteps, MetricsSteps, HomeSteps DEF AllApps

(* No step changes whose hook it is.                                          *)
LEMMA SameApp == Next => app' = app
<1>1. ASSUME NEW p \in Procs, Start(p) \/ Fail(p) \/ Kill(p) PROVE app' = app
  BY <1>1 DEF Start, Fail, Kill, Halfway, source
<1>2. ASSUME NEW p \in Procs, Do(p) PROVE app' = app
  <2>1. Lock(p) \/ Busy(p) \/ Unmark(p) \/ Sweep(p) \/ Make(p) \/ Prepare(p) \/ Look(p)
          => app' = app
    BY DEF Lock, Busy, Unmark, Sweep, Make, Prepare, Look, source
  <2>2. Anchor(p) \/ Copy(p) \/ Write(p) \/ Fetch(p) \/ Open(p) \/ Again(p) \/ Seal(p) => app' = app
    BY DEF Anchor, Copy, Write, Fetch, Open, Again, Seal, source
  <2>3. Resume(p) \/ Create(p) \/ Receive(p) \/ Seat(p) \/ Present(p) => app' = app
    BY DEF Resume, Create, Receive, Seat, Present, source
  <2>4. Drop(p) \/ Retire(p) \/ Publish(p) \/ Mark(p) \/ Finally(p) \/ Close(p) \/ Tidy(p)
          => app' = app
    BY DEF Drop, Retire, Publish, Mark, Finally, Close, Tidy, source
  <2>5. QED
    BY <1>2, <2>1, <2>2, <2>3, <2>4 DEF Do
<1>3. ASSUME NEW q \in Parts(app), Change(q) PROVE app' = app
  BY <1>3 DEF Change
<1>4. QED
  BY <1>1, <1>2, <1>3 DEF Next

LEMMA SameHook ==
  ASSUME UNCHANGED app
  PROVE  /\ UNCHANGED <<Program(app), End, Stagings, Parts(app), Bundles(app), Nothing, Empty>>
         /\ Locked' <=> Locked
         /\ UniqueStaging' <=> UniqueStaging
         /\ \A p : Staging(p)' = Staging(p)
         /\ \A i : Op(i)' = Op(i) /\ Arg(i)' = Arg(i)
<1>1. UNCHANGED <<Program(app), Stagings, Parts(app), Bundles(app), Nothing, Empty>>
  BY DEF Stagings, Nothing, Empty
<1>2. End' = End
  BY DEF End, IndexOf
<1>3. (Locked' <=> Locked) /\ (UniqueStaging' <=> UniqueStaging)
  BY DEF Locked, UniqueStaging
<1>4. \A p : Staging(p)' = Staging(p)
  BY DEF Staging, UniqueStaging
<1>5. \A i : Op(i)' = Op(i) /\ Arg(i)' = Arg(i)
  BY DEF Op, Arg
<1>6. QED
  BY <1>1, <1>2, <1>3, <1>4, <1>5

(* A process is at an operation.                                              *)
LEMMA AtOp ==
  ASSUME NEW p
  PROVE  /\ \A op : At(p, op) <=> pc[p] > 0 /\ Op(pc[p]) = op
         /\ InBody(p) <=> pc[p] > 0 /\ pc[p] < End
         /\ Step(p)[2] = Arg(pc[p])
  BY DEF At, Step, Op, Arg, InBody, End

(* An operation that is not of the finally block is in the body.              *)
LEMMA BodyOp ==
  ASSUME Types, NEW p \in Procs, NEW op, At(p, op), op \notin {"finally", "close", "tidy"}
  PROVE  InBody(p) /\ Op(pc[p]) = op /\ pc[p] \in 1..Len(Program(app))
<1>1. Shape /\ pc[p] \in 0..Len(Program(app)) /\ Len(Program(app)) \in Nat
  BY Shapes DEF Types, Shape
<1>2. pc[p] \in 1..Len(Program(app)) /\ Op(pc[p]) = op
  BY <1>1, AtOp
<1>3. ~(pc[p] >= End)
  BY <1>1, <1>2 DEF Shape
<1>4. pc[p] < End
  BY <1>1, <1>3 DEF Shape
<1>5. QED
  BY <1>1, <1>2, <1>4, AtOp

(* What a step uses is there.                                                 *)
LEMMA Ready ==
  ASSUME Apart, Types, WorkInv, NEW p \in Procs, InBody(p)
  PROVE  /\ Op(pc[p]) \in {"anchor", "copy", "write", "fetch", "seal", "seat", "publish", "present"}
              => Bundle(p) # None
         /\ app = "tube" /\ Op(pc[p]) = "open" => Bundle(p) # None
         /\ Op(pc[p]) \in {"fetch", "create"} => remote[p] # None
         /\ Op(pc[p]) \in {"receive", "seat"} => retained # None
         /\ Op(pc[p]) \in {"anchor", "copy", "write", "fetch", "look", "again"} =>
              Arg(pc[p]) \in Parts(app)
<1>1. pc[p] \in 1..Len(Program(app)) /\ pc[p] \in Nat /\ pc[p] < End /\ app \in AllApps
  BY AtOp, Shapes DEF Types, Shape
<1>2. Done(pc[p], Bundle(p), seen[p], remote[p])
  BY DEF WorkInv
<1>3. CASE app = "stash"
  <2>1. /\ Op(pc[p]) \in {"anchor", "copy", "write", "fetch", "seal", "seat", "publish", "present"}
             => pc[p] > 4 /\ pc[p] <= 18
        /\ Op(pc[p]) \notin {"fetch", "create", "receive", "seat"}
    BY <1>1, <1>3, StashSteps, SMTT(30) DEF StashTable
  <2>2. Op(pc[p]) \in {"anchor", "copy", "write", "fetch", "look", "again"} =>
          Arg(pc[p]) \in {"db", "config", "blobs", "plugins"}
    BY <1>1, <1>3, StashSteps, SMTT(30) DEF StashTable
  <2>3. pc[p] > 4 /\ pc[p] <= 18 => Bundle(p) # None
    BY <1>2, <1>3 DEF Done, StashDone
  <2>4. QED
    BY <1>3, <2>1, <2>2, <2>3 DEF Parts
<1>4. CASE app = "tube"
  <2>1. /\ Op(pc[p]) \in {"anchor", "copy", "write", "fetch", "seal", "seat", "publish", "present",
                           "open"}
             => pc[p] > 2 /\ pc[p] <= 11
        /\ Op(pc[p]) \notin {"create", "receive", "seat"}
        /\ Op(pc[p]) = "fetch" => pc[p] = 5
    BY <1>1, <1>4, TubeSteps, SMTT(30) DEF TubeTable
  <2>2. Op(pc[p]) \in {"anchor", "copy", "write", "fetch", "look", "again"} =>
          Arg(pc[p]) \in {"schema", "docs"}
    BY <1>1, <1>4, TubeSteps, SMTT(30) DEF TubeTable
  <2>3. pc[p] > 2 /\ pc[p] <= 11 => Bundle(p) # None
    BY <1>2, <1>4 DEF Done, TubeDone
  <2>4. pc[p] = 5 => Bundle(p) # None /\ remote[p] = Bundle(p).at
    BY <1>2, <1>4 DEF Done, TubeDone
  <2>5. Bundle(p) # None => Bundle(p).at \in [Parts(app) -> Nat]
    BY DEF Types, Bundle, Bundles, Staging, Stagings
  <2>6. None \notin [Parts(app) -> Nat]
    BY <1>1 DEF Apart
  <2>7. pc[p] = 5 => remote[p] # None
    BY <2>4, <2>5, <2>6
  <2>8. QED
    BY <1>4, <2>1, <2>2, <2>3, <2>7 DEF Parts
<1>5. CASE app = "viking"
  <2>1. /\ Op(pc[p]) \in {"anchor", "copy", "write", "fetch", "seal", "seat", "publish", "present"}
             => pc[p] > 3 /\ pc[p] <= 12
        /\ Op(pc[p]) \notin {"fetch", "create", "receive", "seat"}
    BY <1>1, <1>5, VikingSteps DEF VikingTable
  <2>2. Op(pc[p]) \in {"anchor", "copy", "write", "fetch", "look", "again"} =>
          Arg(pc[p]) \in {"pack1", "pack2", "auth"}
    BY <1>1, <1>5, VikingSteps DEF VikingTable
  <2>3. pc[p] > 3 /\ pc[p] <= 12 => Bundle(p) # None
    BY <1>2, <1>5 DEF Done, VikingDone
  <2>4. QED
    BY <1>5, <2>1, <2>2, <2>3 DEF Parts
<1>6. CASE app = "metrics"
  <2>1. MetricsTable /\ MetricsDone(pc[p], Bundle(p), remote[p])
    BY <1>2, <1>6, MetricsSteps DEF Done
  <2>2. QED
    BY <1>1, <1>6, <2>1 DEF MetricsTable, MetricsDone, Parts
<1>7. CASE app = "home"
  <2>1. /\ Op(pc[p]) \in {"anchor", "copy", "write", "fetch", "seal", "seat", "publish", "present"}
             => pc[p] > 1 /\ pc[p] <= 12
        /\ Op(pc[p]) \in {"fetch", "create"} => pc[p] = 4
        /\ Op(pc[p]) \in {"receive", "seat"} => pc[p] \in {5, 6}
    BY <1>1, <1>7, HomeSteps, SMTT(30) DEF HomeTable
  <2>2. Op(pc[p]) \in {"anchor", "copy", "write", "fetch", "look", "again"} =>
          Arg(pc[p]) \in {"tar", "dump"}
    BY <1>1, <1>7, HomeSteps, SMTT(30) DEF HomeTable
  <2>3. /\ pc[p] > 1 /\ pc[p] <= 12 => Bundle(p) # None
        /\ pc[p] = 4 => remote[p] # None
        /\ pc[p] \in {5, 6} => retained # None
    BY <1>2, <1>7 DEF Done, HomeDone
  <2>4. QED
    BY <1>7, <2>1, <2>2, <2>3 DEF Parts
<1>8. QED
  BY <1>1, <1>3, <1>4, <1>5, <1>6, <1>7 DEF AllApps

(* What staging a bundle changes, and its special case, one part of it.       *)
LEMMA Staged ==
  ASSUME Types, NEW p \in Procs, NEW b, Stage(p, b)
  PROVE  /\ pending'[Staging(p)] = b
         /\ \A n \in Stagings : n # Staging(p) => pending'[n] = pending[n]
         /\ b \in Bundles(app) \cup {None} => pending' \in [Stagings -> Bundles(app) \cup {None}]
<1>1. Staging(p) \in Stagings
  BY DEF Staging, Stagings
<1>2. QED
  BY <1>1 DEF Stage, Types

LEMMA Held ==
  ASSUME Types, NEW p \in Procs
  PROVE  Bundle(p) \in Bundles(app) \cup {None}
  BY DEF Types, Bundle, Staging, Stagings

LEMMA PutPart ==
  ASSUME Types, NEW p \in Procs, NEW q \in Parts(app), NEW v \in Nat, Bundle(p) # None, Put(p, q, v)
  PROVE  /\ pending' \in [Stagings -> Bundles(app) \cup {None}]
         /\ \A n \in Stagings : n # Staging(p) => pending'[n] = pending[n]
         /\ pending'[Staging(p)] \in Bundles(app)
         /\ pending'[Staging(p)].parts[q] = v
         /\ \A r \in Parts(app) : r # q => pending'[Staging(p)].parts[r] = Bundle(p).parts[r]
         /\ pending'[Staging(p)].seal = Bundle(p).seal /\ pending'[Staging(p)].at = Bundle(p).at
<1>1. Bundle(p) \in Bundles(app)
  BY Held
<1>2. DEFINE b == [Bundle(p) EXCEPT !.parts[q] = v]
<1>3. /\ b \in Bundles(app) /\ b.parts[q] = v /\ b.seal = Bundle(p).seal /\ b.at = Bundle(p).at
      /\ \A r \in Parts(app) : r # q => b.parts[r] = Bundle(p).parts[r]
  BY <1>1 DEF Bundles
<1>4. Stage(p, b)
  BY DEF Put
<1>5. QED
  BY <1>3, <1>4, Staged

LEMMA EmptyType == Nothing \in [Parts(app) -> Nat] /\ Empty \in Bundles(app)
  BY DEF Nothing, Empty, Bundles

(* Where a process goes.                                                      *)
LEMMA Goes ==
  ASSUME Types, NEW p \in Procs, Do(p)
  PROVE  /\ pc[p] \in 1..Len(Program(app)) /\ (InBody(p) <=> pc[p] < End)
         /\ \/ /\ InBody(p)
               /\ \/ pc' = [pc EXCEPT ![p] = pc[p] + 1]
                  \/ pc' = [pc EXCEPT ![p] = End]
                  \/ Busy(p)
                  \/ Resume(p) /\ app = "home" /\ retained # None /\ pc' = [pc EXCEPT ![p] = 6]
               /\ ~(Finally(p) \/ Close(p) \/ Tidy(p))
            \/ /\ Finally(p) \/ Close(p) \/ Tidy(p)
               /\ pc[p] >= End
               /\ \/ pc[p] < Len(Program(app)) /\ pc' = [pc EXCEPT ![p] = pc[p] + 1]
                  \/ pc[p] = Len(Program(app)) /\ Leave(p)
<1>1. app \in AllApps /\ Shape /\ pc[p] \in 0..Len(Program(app))
  BY Shapes DEF Types
<1>2. pc[p] > 0
  BY DEF Do, At, Lock, Busy, Unmark, Sweep, Make, Prepare, Look, Anchor, Copy, Write, Fetch, Open,
     Again, Seal, Resume, Create, Receive, Seat, Present, Drop, Retire, Publish, Mark, Finally,
     Close, Tidy
<1>3. pc[p] \in 1..Len(Program(app)) /\ (InBody(p) <=> pc[p] < End)
  BY <1>1, <1>2, AtOp DEF Shape
<1>4. CASE Finally(p) \/ Close(p) \/ Tidy(p)
  <2>1. Op(pc[p]) \in {"finally", "close", "tidy"} /\ Continue(p)
    BY <1>4, AtOp DEF Finally, Close, Tidy
  <2>2. pc[p] >= End
    BY <1>1, <1>3, <2>1 DEF Shape
  <2>3. pc[p] < Len(Program(app)) \/ pc[p] = Len(Program(app))
    BY <1>1, <1>3 DEF Shape
  <2>4. QED
    BY <1>3, <1>4, <2>1, <2>2, <2>3 DEF Continue, Forward
<1>5. CASE ~(Finally(p) \/ Close(p) \/ Tidy(p))
  <2>1. /\ Op(pc[p]) \notin {"finally", "close", "tidy"}
        /\ \/ pc' = [pc EXCEPT ![p] = pc[p] + 1]
           \/ pc' = [pc EXCEPT ![p] = End]
           \/ Busy(p)
           \/ Resume(p) /\ retained # None /\ pc' = [pc EXCEPT ![p] = IndexOf("seat")]
    <3>1. CASE Lock(p) \/ Unmark(p) \/ Sweep(p) \/ Make(p) \/ Prepare(p) \/ Look(p)
      BY <3>1, AtOp DEF Lock, Unmark, Sweep, Make, Prepare, Look, Forward
    <3>2. CASE Anchor(p) \/ Copy(p) \/ Write(p) \/ Fetch(p) \/ Open(p) \/ Seal(p)
      BY <3>2, AtOp DEF Anchor, Copy, Write, Fetch, Open, Seal, Forward
    <3>3. CASE Again(p) \/ Present(p)
      BY <3>3, AtOp DEF Again, Present, Forward, Raise, End
    <3>4. CASE Create(p) \/ Receive(p) \/ Seat(p)
      BY <3>4, AtOp DEF Create, Receive, Seat, Forward
    <3>5. CASE Drop(p) \/ Retire(p) \/ Publish(p) \/ Mark(p)
      BY <3>5, AtOp DEF Drop, Retire, Publish, Mark, Forward
    <3>6. CASE Busy(p)
      BY <3>6, AtOp DEF Busy
    <3>7. CASE Resume(p)
      BY <3>7, AtOp DEF Resume, Forward, Raise, End, Readable
    <3>8. QED
      BY <1>5, <3>1, <3>2, <3>3, <3>4, <3>5, <3>6, <3>7 DEF Do
  <2>2. pc[p] < End
    BY <1>1, <1>3, <2>1 DEF Shape
  <2>3. Resume(p) => app = "home"
    BY <1>1, <1>3, AtOp DEF Resume, Shape
  <2>4. app = "home" => IndexOf("seat") = 6
    BY HomeSteps DEF HomeTable
  <2>5. QED
    BY <1>3, <1>5, <2>1, <2>2, <2>3, <2>4
<1>6. QED
  BY <1>4, <1>5

(* What a fault leaves on disk.                                               *)
LEMMA Halves ==
  ASSUME Apart, Types, WorkInv, NEW p \in Procs, pc[p] > 0, Halfway(p)
  PROVE  /\ UNCHANGED <<app, live, current, complete, retained, published>>
         /\ previous' = previous \/ At(p, "drop")
         /\ pending' \in [Stagings -> Bundles(app) \cup {None}]
         /\ \A n \in Stagings : n # Staging(p) => pending'[n] = pending[n]
         /\ ~UniqueStaging /\ Op(pc[p]) \notin {"sweep", "copy", "seal"} => pending' = pending
         /\ litter' => litter \/ ~InBody(p) \/ pc'[p] = 0
<1>1. UNCHANGED <<app, live, current, complete, retained, published>>
  BY DEF Halfway
<1>2. previous' = previous \/ At(p, "drop")
  BY DEF Halfway
<1>3. Staging(p) \in Stagings /\ pending[Staging(p)] = Bundle(p)
      /\ Bundle(p) \in Bundles(app) \cup {None}
  BY Held DEF Staging, Stagings, Bundle
<1>4. Torn(Bundle(p)) \in Bundles(app) \cup {None}
  BY <1>3, EmptyType DEF Torn, Bundles
<1>5. PICK b :
        /\ \/ b = Bundle(p)
           \/ At(p, "sweep") /\ b = Torn(Bundle(p))
           \/ At(p, "copy") /\ app = "home" /\ b = [Bundle(p) EXCEPT !.parts[Step(p)[2]] = 0]
           \/ At(p, "seal") /\ app = "home" /\ b = [Bundle(p) EXCEPT !.seal = Nothing]
        /\ \/ /\ UniqueStaging /\ (~InBody(p) \/ pc'[p] = 0)
              /\ pending' = [pending EXCEPT ![Staging(p)] = None]
           \/ pending' = [pending EXCEPT ![Staging(p)] = b] /\ UNCHANGED litter
  <2>1. PICK b \in CASE At(p, "sweep") /\ ~UniqueStaging ->
                            {pending[Staging(p)], Torn(pending[Staging(p)])}
                     [] At(p, "copy") /\ app = "home" ->
                            {[pending[Staging(p)] EXCEPT !.parts[Step(p)[2]] = 0]}
                     [] At(p, "seal") /\ app = "home" ->
                            {pending[Staging(p)], [pending[Staging(p)] EXCEPT !.seal = Nothing]}
                     [] OTHER -> {pending[Staging(p)]} :
          IF /\ pc[p] # 0 /\ UniqueStaging /\ pending[Staging(p)] # None
             /\ ~InBody(p) \/ pc'[p] = 0
            THEN pending' = [pending EXCEPT ![Staging(p)] = None] /\ litter' = TRUE
            ELSE pending' = [pending EXCEPT ![Staging(p)] = b] /\ UNCHANGED litter
    BY DEF Halfway
  <2>2. \/ b = Bundle(p)
        \/ At(p, "sweep") /\ b = Torn(Bundle(p))
        \/ At(p, "copy") /\ app = "home" /\ b = [Bundle(p) EXCEPT !.parts[Step(p)[2]] = 0]
        \/ At(p, "seal") /\ app = "home" /\ b = [Bundle(p) EXCEPT !.seal = Nothing]
    BY <1>3, <2>1
  <2>3. QED
    BY <2>1, <2>2
<1>6. b \in Bundles(app) \cup {None}
  <2>1. ASSUME At(p, "copy"), app = "home"
        PROVE  [Bundle(p) EXCEPT !.parts[Step(p)[2]] = 0] \in Bundles(app)
    <3>1. InBody(p) /\ Op(pc[p]) = "copy"
      BY <2>1, BodyOp
    <3>2. Bundle(p) \in Bundles(app) /\ Arg(pc[p]) \in Parts(app)
      BY <1>3, <3>1, Ready
    <3>3. QED
      BY <3>2, AtOp DEF Bundles
  <2>2. ASSUME At(p, "seal") PROVE [Bundle(p) EXCEPT !.seal = Nothing] \in Bundles(app)
    <3>1. InBody(p) /\ Op(pc[p]) = "seal"
      BY <2>2, BodyOp
    <3>2. Bundle(p) \in Bundles(app)
      BY <1>3, <3>1, Ready
    <3>3. QED
      BY <3>2, EmptyType DEF Bundles
  <2>3. QED
    BY <1>3, <1>4, <1>5, <2>1, <2>2
<1>7. pending' \in [Stagings -> Bundles(app) \cup {None}]
      /\ \A n \in Stagings : n # Staging(p) => pending'[n] = pending[n]
  BY <1>3, <1>5, <1>6 DEF Types
<1>8. ~UniqueStaging /\ Op(pc[p]) \notin {"sweep", "copy", "seal"} => pending' = pending
  BY <1>3, <1>5, AtOp DEF Types
<1>9. litter' => litter \/ ~InBody(p) \/ pc'[p] = 0
  BY DEF Halfway
<1>10. QED
  BY <1>1, <1>2, <1>7, <1>8, <1>9

(* What a process leaves when it ends.                                        *)
LEMMA Left ==
  ASSUME Types, NEW p \in Procs, Leave(p)
  PROVE  /\ pc' = [pc EXCEPT ![p] = 0]
         /\ pc' \in [Procs -> 0..Len(Program(app))]
         /\ seen' \in [Procs -> [Parts(app) -> Nat]]
         /\ lock' \in Procs \cup {None}
         /\ \A r \in Procs : r # p => seen'[r] = seen[r]
<1>1. Len(Program(app)) \in Nat
  BY Shapes DEF Types, Shape
<1>2. QED
  BY <1>1, EmptyType DEF Leave, Types

(* What each step of a hook stages.                                           *)
LEMMA StagingTypes ==
  ASSUME Apart, Types, WorkInv, NEW p \in Procs, Do(p)
  PROVE  /\ pending' \in [Stagings -> Bundles(app) \cup {None}]
         /\ \A n \in Stagings : n # Staging(p) => pending'[n] = pending[n]
<1> USE DEF staging, disk, source, generations
<1>1. /\ app \in AllApps /\ live \in [Parts(app) -> Nat \ {0}]
      /\ pending \in [Stagings -> Bundles(app) \cup {None}]
  BY DEF Types
<1>2. CASE UNCHANGED pending
  BY <1>1, <1>2
<1>3. CASE \E b \in Bundles(app) \cup {None} : Stage(p, b)
  BY <1>3, Staged
<1>4. CASE Sweep(p)
  BY <1>2, <1>3, <1>4 DEF Sweep
<1>5. CASE Make(p) \/ Prepare(p)
  BY <1>3, <1>5, EmptyType, Held DEF Make, Prepare
<1>6. CASE Publish(p) \/ Tidy(p)
  BY <1>3, <1>6 DEF Publish, Tidy
<1>7. CASE Anchor(p)
  <2>1. InBody(p) /\ Op(pc[p]) = "anchor"
    BY <1>7, BodyOp DEF Anchor
  <2>2. Bundle(p) \in Bundles(app) /\ Arg(pc[p]) \in Parts(app) /\ Step(p)[2] = Arg(pc[p])
    BY <2>1, Ready, Held, AtOp
  <2>3. [Bundle(p) EXCEPT !.parts[Step(p)[2]] = live[Step(p)[2]], !.at = live] \in Bundles(app)
    BY <1>1, <2>2 DEF Bundles
  <2>4. QED
    BY <1>3, <1>7, <2>3 DEF Anchor
<1>8. CASE Copy(p)
  <2>1. InBody(p) /\ Op(pc[p]) = "copy"
    BY <1>8, BodyOp DEF Copy
  <2>2. Bundle(p) # None /\ Step(p)[2] \in Parts(app)
    BY <2>1, Ready, AtOp
  <2>3. live[Step(p)[2]] \in Nat /\ Put(p, Step(p)[2], live[Step(p)[2]])
    BY <1>1, <1>8, <2>2 DEF Copy
  <2>4. QED
    BY <2>2, <2>3, PutPart
<1>9. CASE Write(p)
  <2>1. InBody(p) /\ Op(pc[p]) = "write"
    BY <1>9, BodyOp DEF Write
  <2>2. Bundle(p) # None /\ Step(p)[2] \in Parts(app)
    BY <2>1, Ready, AtOp
  <2>3. seen[p][Step(p)[2]] \in Nat /\ Put(p, Step(p)[2], seen[p][Step(p)[2]])
    BY <1>9, <2>2 DEF Write, Types
  <2>4. QED
    BY <2>2, <2>3, PutPart
<1>10. CASE Fetch(p)
  <2>1. InBody(p) /\ Op(pc[p]) = "fetch"
    BY <1>10, BodyOp DEF Fetch
  <2>2. Bundle(p) # None /\ Step(p)[2] \in Parts(app) /\ remote[p] # None
    BY <2>1, Ready, AtOp
  <2>3. remote[p][Step(p)[2]] \in Nat /\ Put(p, Step(p)[2], remote[p][Step(p)[2]])
    BY <1>10, <2>2 DEF Fetch, Types
  <2>4. QED
    BY <2>2, <2>3, PutPart
<1>11. CASE Seat(p)
  <2>1. InBody(p) /\ Op(pc[p]) = "seat" /\ app = "home"
    <3>1. InBody(p) /\ Op(pc[p]) = "seat" /\ pc[p] \in 1..Len(Program(app))
      BY <1>11, BodyOp DEF Seat
    <3>2. QED
      BY <1>1, <3>1, StashSteps, TubeSteps, VikingSteps, MetricsSteps
         DEF StashTable, TubeTable, VikingTable, MetricsTable, AllApps
  <2>2. Bundle(p) # None /\ "tar" \in Parts(app) /\ retained # None
    BY <2>1, Ready DEF Parts
  <2>3. retained.version \in Nat /\ Put(p, "tar", retained.version)
    BY <1>11, <2>2 DEF Seat, Types
  <2>4. QED
    BY <2>2, <2>3, PutPart
<1>12. CASE Open(p)
  <2>1. InBody(p) /\ Op(pc[p]) = "open"
    BY <1>12, BodyOp DEF Open
  <2>2. CASE app = "tube"
    <3>1. Bundle(p) \in Bundles(app)
      BY <2>1, <2>2, Ready, Held
    <3>2. [Bundle(p) EXCEPT !.at = live] \in Bundles(app)
      BY <1>1, <3>1 DEF Bundles
    <3>3. QED
      BY <1>3, <1>12, <2>2, <3>2 DEF Open
  <2>3. QED
    BY <1>2, <1>12, <2>2 DEF Open
<1>13. CASE Seal(p)
  <2>1. InBody(p) /\ Op(pc[p]) = "seal"
    BY <1>13, BodyOp DEF Seal
  <2>2. Bundle(p) \in Bundles(app)
    BY <2>1, Ready, Held
  <2>3. [q \in Parts(app) |-> IF q \in Hashed(app) THEN Bundle(p).parts[q] ELSE 0]
          \in [Parts(app) -> Nat]
    BY <2>2 DEF Bundles
  <2>4. [Bundle(p) EXCEPT !.seal = [q \in Parts(app) |->
            IF q \in Hashed(app) THEN Bundle(p).parts[q] ELSE 0]] \in Bundles(app)
    BY <2>2, <2>3 DEF Bundles
  <2>5. QED
    BY <1>3, <1>13, <2>4 DEF Seal
<1>14. CASE \/ Lock(p) \/ Busy(p) \/ Unmark(p) \/ Look(p) \/ Again(p) \/ Resume(p) \/ Create(p)
            \/ Receive(p) \/ Present(p) \/ Drop(p) \/ Retire(p) \/ Mark(p) \/ Finally(p) \/ Close(p)
  BY <1>2, <1>14 DEF Lock, Busy, Unmark, Look, Again, Resume, Create, Receive, Present, Drop,
     Retire, Mark, Finally, Close
<1>15. QED
  BY <1>4, <1>5, <1>6, <1>7, <1>8, <1>9, <1>10, <1>11, <1>12, <1>13, <1>14 DEF Do

(* What a step of one process leaves to another, and the types.               *)
LEMMA DoFrame ==
  ASSUME Apart, Types, WorkInv, NEW p \in Procs, Do(p)
  PROVE  /\ UNCHANGED <<app, live, faults, abandoned>>
         /\ pc' \in [Procs -> 0..Len(Program(app))]
         /\ \A r \in Procs : r # p => /\ pc'[r] = pc[r] /\ seen'[r] = seen[r]
                                      /\ remote'[r] = remote[r]
         /\ seen' \in [Procs -> [Parts(app) -> Nat]]
         /\ remote' \in [Procs -> [Parts(app) -> Nat \ {0}] \cup {None}]
         /\ retained' \in [version : Nat \ {0}, whole : BOOLEAN] \cup {None}
         /\ lock' \in Procs \cup {None}
<1> USE DEF staging, disk, source, generations, run, ledger
<1>1. app \in AllApps /\ Shape /\ pc \in [Procs -> 0..Len(Program(app))]
  BY Shapes DEF Types
<1>2. UNCHANGED <<app, live, faults, abandoned>>
  <2>1. Lock(p) \/ Busy(p) \/ Unmark(p) \/ Sweep(p) \/ Make(p) \/ Prepare(p) \/ Look(p)
          => UNCHANGED <<app, live, faults, abandoned>>
    BY DEF Lock, Busy, Unmark, Sweep, Make, Prepare, Look
  <2>2. Anchor(p) \/ Copy(p) \/ Write(p) \/ Fetch(p) \/ Open(p) \/ Again(p) \/ Seal(p)
          => UNCHANGED <<app, live, faults, abandoned>>
    BY DEF Anchor, Copy, Write, Fetch, Open, Again, Seal
  <2>3. Resume(p) \/ Create(p) \/ Receive(p) \/ Seat(p) \/ Present(p)
          => UNCHANGED <<app, live, faults, abandoned>>
    BY DEF Resume, Create, Receive, Seat, Present
  <2>4. Drop(p) \/ Retire(p) \/ Publish(p) \/ Mark(p) \/ Finally(p) \/ Close(p) \/ Tidy(p)
          => UNCHANGED <<app, live, faults, abandoned>>
    BY DEF Drop, Retire, Publish, Mark, Finally, Close, Tidy
  <2>5. QED
    BY <2>1, <2>2, <2>3, <2>4 DEF Do
<1>3. \E k \in 0..Len(Program(app)) : pc' = [pc EXCEPT ![p] = k]
  <2>1. pc[p] + 1 \in 0..Len(Program(app)) \/ ~(pc[p] < Len(Program(app)))
    BY <1>1, Goes DEF Shape
  <2>2. End \in 0..Len(Program(app)) /\ 0 \in 0..Len(Program(app))
    BY <1>1 DEF Shape
  <2>3. Busy(p) \/ Leave(p) => pc' = [pc EXCEPT ![p] = 0]
    BY DEF Busy, Leave
  <2>4. app = "home" => 6 \in 0..Len(Program(app))
    BY HomeSteps DEF HomeTable
  <2>5. pc[p] < End => pc[p] < Len(Program(app))
    BY <1>1 DEF Shape
  <2>6. QED
    BY <2>1, <2>2, <2>3, <2>4, <2>5, Goes
<1>4. pc' \in [Procs -> 0..Len(Program(app))] /\ \A r \in Procs : r # p => pc'[r] = pc[r]
  BY <1>1, <1>3
<1>5. seen' \in [Procs -> [Parts(app) -> Nat]] /\ \A r \in Procs : r # p => seen'[r] = seen[r]
  <2>1. CASE UNCHANGED seen
    BY <2>1 DEF Types
  <2>2. CASE Leave(p)
    BY <2>2, Left
  <2>3. CASE Look(p)
    <3>1. InBody(p) /\ Op(pc[p]) = "look"
      BY <2>3, BodyOp DEF Look
    <3>2. Step(p)[2] \in Parts(app)
      BY <3>1, Ready, AtOp
    <3>3. QED
      BY <2>3, <3>2 DEF Look, Types
  <2>4. CASE ~Look(p) /\ ~Leave(p)
    <3>1. CASE Lock(p) \/ Busy(p) \/ Unmark(p) \/ Sweep(p) \/ Make(p) \/ Prepare(p)
      BY <2>1, <2>4, <3>1 DEF Lock, Busy, Unmark, Sweep, Make, Prepare
    <3>2. CASE Anchor(p) \/ Copy(p) \/ Write(p) \/ Fetch(p) \/ Open(p) \/ Again(p) \/ Seal(p)
      BY <2>1, <2>4, <3>2 DEF Anchor, Copy, Write, Fetch, Open, Again, Seal
    <3>3. CASE Resume(p) \/ Create(p) \/ Receive(p) \/ Seat(p) \/ Present(p)
      BY <2>1, <2>4, <3>3 DEF Resume, Create, Receive, Seat, Present
    <3>4. CASE Drop(p) \/ Retire(p) \/ Publish(p) \/ Mark(p) \/ Finally(p) \/ Close(p) \/ Tidy(p)
      BY <2>1, <2>4, <3>4 DEF Drop, Retire, Publish, Mark, Finally, Close, Tidy, Continue
    <3>5. QED
      BY <2>4, <3>1, <3>2, <3>3, <3>4 DEF Do
  <2>5. QED
    BY <2>2, <2>3, <2>4
<1>6. remote' \in [Procs -> [Parts(app) -> Nat \ {0}] \cup {None}]
      /\ \A r \in Procs : r # p => remote'[r] = remote[r]
  <2>1. CASE UNCHANGED remote
    BY <2>1 DEF Types
  <2>2. CASE Open(p) \/ Close(p)
    BY <2>2 DEF Open, Close, Types
  <2>3. CASE ~Open(p) /\ ~Close(p)
    <3>1. CASE Lock(p) \/ Busy(p) \/ Unmark(p) \/ Sweep(p) \/ Make(p) \/ Prepare(p) \/ Look(p)
      BY <2>1, <3>1 DEF Lock, Busy, Unmark, Sweep, Make, Prepare, Look
    <3>2. CASE Anchor(p) \/ Copy(p) \/ Write(p) \/ Fetch(p) \/ Again(p) \/ Seal(p)
      BY <2>1, <3>2 DEF Anchor, Copy, Write, Fetch, Again, Seal
    <3>3. CASE Resume(p) \/ Create(p) \/ Receive(p) \/ Seat(p) \/ Present(p)
      BY <2>1, <3>3 DEF Resume, Create, Receive, Seat, Present
    <3>4. CASE Drop(p) \/ Retire(p) \/ Publish(p) \/ Mark(p) \/ Finally(p) \/ Tidy(p)
      BY <2>1, <3>4 DEF Drop, Retire, Publish, Mark, Finally, Tidy
    <3>5. QED
      BY <2>3, <3>1, <3>2, <3>3, <3>4 DEF Do
  <2>4. QED
    BY <2>2, <2>3
<1>7. retained' \in [version : Nat \ {0}, whole : BOOLEAN] \cup {None}
  <2>1. CASE UNCHANGED retained
    BY <2>1 DEF Types
  <2>2. CASE Create(p)
    <3>1. InBody(p) /\ Op(pc[p]) = "create" /\ pc[p] \in 1..Len(Program(app))
      BY <2>2, BodyOp DEF Create
    <3>2. app = "home"
      BY <1>1, <3>1, StashSteps, TubeSteps, VikingSteps, MetricsSteps
         DEF StashTable, TubeTable, VikingTable, MetricsTable, AllApps
    <3>3. remote[p] \in [Parts(app) -> Nat \ {0}] /\ "tar" \in Parts(app)
      BY <3>1, <3>2, Ready DEF Types, Parts
    <3>4. QED
      BY <2>2, <3>3 DEF Create
  <2>3. CASE Receive(p)
    <3>1. retained # None
      BY <2>3, BodyOp, Ready DEF Receive
    <3>2. QED
      BY <2>3, <3>1 DEF Receive, Types
  <2>4. CASE Seat(p)
    BY <2>4 DEF Seat
  <2>5. CASE ~(Create(p) \/ Receive(p) \/ Seat(p))
    <3>1. CASE Lock(p) \/ Busy(p) \/ Unmark(p) \/ Sweep(p) \/ Make(p) \/ Prepare(p) \/ Look(p)
      BY <2>1, <3>1 DEF Lock, Busy, Unmark, Sweep, Make, Prepare, Look
    <3>2. CASE Anchor(p) \/ Copy(p) \/ Write(p) \/ Fetch(p) \/ Open(p) \/ Again(p) \/ Seal(p)
      BY <2>1, <3>2 DEF Anchor, Copy, Write, Fetch, Open, Again, Seal
    <3>3. CASE Resume(p) \/ Present(p)
      BY <2>1, <3>3 DEF Resume, Present
    <3>4. CASE Drop(p) \/ Retire(p) \/ Publish(p) \/ Mark(p) \/ Finally(p) \/ Close(p) \/ Tidy(p)
      BY <2>1, <3>4 DEF Drop, Retire, Publish, Mark, Finally, Close, Tidy
    <3>5. QED
      BY <2>5, <3>1, <3>2, <3>3, <3>4 DEF Do
  <2>6. QED
    BY <2>2, <2>3, <2>4, <2>5
<1>8. lock' \in Procs \cup {None}
  <2>1. CASE UNCHANGED lock
    BY <2>1 DEF Types
  <2>2. CASE Leave(p)
    BY <2>2, Left
  <2>3. CASE Lock(p)
    BY <2>3 DEF Lock
  <2>4. CASE ~Lock(p) /\ ~Leave(p)
    <3>1. CASE Busy(p) \/ Unmark(p) \/ Sweep(p) \/ Make(p) \/ Prepare(p) \/ Look(p)
      BY <2>1, <2>4, <3>1 DEF Busy, Unmark, Sweep, Make, Prepare, Look
    <3>2. CASE Anchor(p) \/ Copy(p) \/ Write(p) \/ Fetch(p) \/ Open(p) \/ Again(p) \/ Seal(p)
      BY <2>1, <3>2 DEF Anchor, Copy, Write, Fetch, Open, Again, Seal
    <3>3. CASE Resume(p) \/ Create(p) \/ Receive(p) \/ Seat(p) \/ Present(p)
      BY <2>1, <3>3 DEF Resume, Create, Receive, Seat, Present
    <3>4. CASE Drop(p) \/ Retire(p) \/ Publish(p) \/ Mark(p) \/ Finally(p) \/ Close(p) \/ Tidy(p)
      BY <2>1, <2>4, <3>4 DEF Drop, Retire, Publish, Mark, Finally, Close, Tidy, Continue
    <3>5. QED
      BY <2>4, <3>1, <3>2, <3>3, <3>4 DEF Do
  <2>5. QED
    BY <2>2, <2>3, <2>4
<1>9. QED
  BY <1>2, <1>4, <1>5, <1>6, <1>7, <1>8

(* What an exception or a kill changes.                                       *)
LEMMA FaultFrame ==
  ASSUME Apart, Types, WorkInv, NEW p \in Procs, Fail(p) \/ Kill(p)
  PROVE  /\ UNCHANGED <<app, live, current, complete, retained, published, remote>>
         /\ pc[p] > 0 /\ faults' = faults + 1
         /\ previous' = previous \/ At(p, "drop")
         /\ pending' \in [Stagings -> Bundles(app) \cup {None}]
         /\ \A n \in Stagings : n # Staging(p) => pending'[n] = pending[n]
         /\ ~UniqueStaging /\ Op(pc[p]) \notin {"sweep", "copy", "seal"} => pending' = pending
         /\ pc' = [pc EXCEPT ![p] = 0] \/ (InBody(p) /\ pc' = [pc EXCEPT ![p] = End])
         /\ pc' \in [Procs -> 0..Len(Program(app))]
         /\ \A r \in Procs : r # p => pc'[r] = pc[r] /\ seen'[r] = seen[r]
         /\ seen' \in [Procs -> [Parts(app) -> Nat]]
         /\ lock' \in Procs \cup {None}
         /\ (UNCHANGED lock \/ lock = p)
         /\ (abandoned => abandoned') /\ (pc'[p] = 0 => abandoned')
         /\ (litter' => litter \/ abandoned')
<1>1. pc[p] > 0 /\ Halfway(p) /\ faults' = faults + 1 /\ UNCHANGED remote
  BY DEF Fail, Kill
<1>2. /\ UNCHANGED <<app, live, current, complete, retained, published>>
      /\ previous' = previous \/ At(p, "drop")
      /\ pending' \in [Stagings -> Bundles(app) \cup {None}]
      /\ \A n \in Stagings : n # Staging(p) => pending'[n] = pending[n]
      /\ ~UniqueStaging /\ Op(pc[p]) \notin {"sweep", "copy", "seal"} => pending' = pending
      /\ litter' => litter \/ ~InBody(p) \/ pc'[p] = 0
  BY <1>1, Halves
<1>3. app \in AllApps /\ Shape /\ pc \in [Procs -> 0..Len(Program(app))]
  BY Shapes DEF Types
<1>4. CASE InBody(p) /\ Fail(p)
  <2>1. pc' = [pc EXCEPT ![p] = End] /\ UNCHANGED <<seen, lock, abandoned>>
    BY <1>4 DEF Fail, Raise, End
  <2>2. End \in 0..Len(Program(app)) /\ End # 0
    BY <1>3 DEF Shape
  <2>3. pc'[p] # 0 /\ pc' \in [Procs -> 0..Len(Program(app))]
    BY <1>3, <2>1, <2>2
  <2>4. QED
    BY <1>1, <1>2, <1>3, <1>4, <2>1, <2>3 DEF Types
<1>5. CASE Leave(p) /\ abandoned' = TRUE
  <2>1. UNCHANGED lock \/ lock = p
    BY <1>5 DEF Leave
  <2>2. QED
    BY <1>1, <1>2, <1>3, <1>5, <2>1, Left
<1>6. QED
  BY <1>4, <1>5 DEF Fail, Kill

(* What the start of a hook changes, and a write of the application.          *)
LEMMA StartFrame ==
  ASSUME Types, NEW p \in Procs, Start(p)
  PROVE  /\ UNCHANGED <<app, live, current, previous, complete, pending, litter, retained,
                        published, lock, seen, open, unclosed, faults, abandoned>>
         /\ pc[p] = 0 /\ pc' = [pc EXCEPT ![p] = 1] /\ (~Locked => \A r \in Procs : pc[r] = 0)
         /\ remote' = [remote EXCEPT ![p] = None]
         /\ pc' \in [Procs -> 0..Len(Program(app))]
         /\ remote' \in [Procs -> [Parts(app) -> Nat \ {0}] \cup {None}]
<1>1. /\ UNCHANGED <<app, live, current, previous, complete, pending, litter, retained,
                     published, lock, seen, open, unclosed, faults, abandoned>>
      /\ pc[p] = 0 /\ pc' = [pc EXCEPT ![p] = 1] /\ (~Locked => \A r \in Procs : pc[r] = 0)
      /\ remote' = [remote EXCEPT ![p] = None]
  BY DEF Start, disk, source, server
<1>2. 1 \in 0..Len(Program(app))
  BY Shapes DEF Types, Shape
<1>3. pc' \in [Procs -> 0..Len(Program(app))]
  BY <1>1, <1>2 DEF Types
<1>4. remote' \in [Procs -> [Parts(app) -> Nat \ {0}] \cup {None}]
  BY <1>1 DEF Types
<1>5. QED
  BY <1>1, <1>3, <1>4

LEMMA ChangeFrame ==
  ASSUME Types, NEW q \in Parts(app), Change(q)
  PROVE  /\ UNCHANGED <<app, current, previous, complete, pending, litter, retained,
                        published, lock, pc, seen, remote, open, unclosed, faults, abandoned>>
         /\ live' \in [Parts(app) -> Nat \ {0}]
         /\ \A r \in Parts(app) : live[r] <= live'[r]
<1>1. /\ UNCHANGED <<app, current, previous, complete, pending, litter, retained,
                     published, lock, pc, seen, remote, open, unclosed, faults, abandoned>>
      /\ live' = [live EXCEPT ![q] = @ + 1]
  BY DEF Change, disk, server
<1>2. live \in [Parts(app) -> Nat \ {0}]
  BY DEF Types
<1>3. QED
  BY <1>1, <1>2

(* Every step keeps the types.                                                *)
LEMMA TypesStep ==
  ASSUME Apart, Types, WorkInv, [Next]_vars
  PROVE  Types'
<1>1. CASE UNCHANGED vars
  BY <1>1, SameHook DEF vars, Types
<1>2. ASSUME NEW p \in Procs, Start(p) PROVE Types'
  BY <1>2, StartFrame, SameHook DEF Types
<1>3. ASSUME NEW q \in Parts(app), Change(q) PROVE Types'
  BY <1>3, ChangeFrame, SameHook DEF Types
<1>4. ASSUME NEW p \in Procs, Do(p) PROVE Types'
  <2>1. pending' \in [Stagings -> Bundles(app) \cup {None}]
    BY <1>4, StagingTypes
  <2>2. QED
    BY <1>4, <2>1, DoFrame, SameHook DEF Types
<1>5. ASSUME NEW p \in Procs, Fail(p) \/ Kill(p) PROVE Types'
  BY <1>5, FaultFrame, SameHook DEF Types
<1>6. QED
  BY <1>1, <1>2, <1>3, <1>4, <1>5 DEF Next

(* The lock moves at its own step and when its holder leaves.                 *)
LEMMA LockMoves ==
  ASSUME Types, NEW p \in Procs, Do(p)
  PROVE  \/ lock = None /\ lock' = p /\ pc[p] = 1
         \/ Leave(p)
         \/ UNCHANGED lock /\ ~At(p, "lock")
<1> USE DEF run
<1>1. app \in AllApps /\ Shape /\ pc[p] \in 1..Len(Program(app))
  BY Shapes, Goes DEF Types
<1>2. CASE Lock(p)
  <2>1. Op(pc[p]) = "lock"
    BY <1>2, AtOp DEF Lock
  <2>2. pc[p] = 1
    BY <1>1, <2>1 DEF Shape
  <2>3. QED
    BY <1>2, <2>2 DEF Lock
<1>3. CASE Busy(p)
  BY <1>3 DEF Busy
<1>4. CASE Unmark(p) \/ Sweep(p) \/ Make(p) \/ Prepare(p) \/ Look(p)
  BY <1>4, AtOp DEF Unmark, Sweep, Make, Prepare, Look
<1>5. CASE Anchor(p) \/ Copy(p) \/ Write(p) \/ Fetch(p) \/ Open(p) \/ Again(p) \/ Seal(p)
  BY <1>5, AtOp DEF Anchor, Copy, Write, Fetch, Open, Again, Seal
<1>6. CASE Resume(p) \/ Create(p) \/ Receive(p) \/ Seat(p) \/ Present(p)
  BY <1>6, AtOp DEF Resume, Create, Receive, Seat, Present
<1>7. CASE Drop(p) \/ Retire(p) \/ Publish(p) \/ Mark(p)
  BY <1>7, AtOp DEF Drop, Retire, Publish, Mark
<1>8. CASE Finally(p) \/ Close(p) \/ Tidy(p)
  BY <1>8, AtOp DEF Finally, Close, Tidy, Continue
<1>9. QED
  BY <1>2, <1>3, <1>4, <1>5, <1>6, <1>7, <1>8 DEF Do

(* Every step keeps the bodies apart.                                         *)
LEMMA AloneStep ==
  ASSUME Apart, Types, WorkInv, Alone, [Next]_vars
  PROVE  Alone'
<1>1. CASE UNCHANGED vars
  BY <1>1, SameHook DEF vars, Alone, InBody, End
<1>2. ASSUME Next PROVE Alone'
  <2>1. /\ UNCHANGED app /\ Shape /\ app \in AllApps /\ pc \in [Procs -> 0..Len(Program(app))]
        /\ (Locked' <=> Locked) /\ End' = End /\ None \notin Procs
    BY <1>2, SameApp, Shapes, SameHook DEF Types, Apart
  <2>2. \A r \in Procs : InBody(r)' <=> pc'[r] > 0 /\ pc'[r] < End
    BY <2>1 DEF InBody, End
  <2>3. \A r \in Procs : InBody(r) <=> pc[r] > 0 /\ pc[r] < End
    BY AtOp
  <2>4. SUFFICES ASSUME TRUE
                 PROVE  /\ Locked => \A r \in Procs : pc'[r] > 1 /\ pc'[r] < End => lock' = r
                        /\ ~Locked => \A r, s \in Procs : pc'[r] > 0 /\ pc'[s] > 0 => r = s
    BY <2>1, <2>2 DEF Alone
  <2>5. /\ Locked => \A r \in Procs : pc[r] > 1 /\ pc[r] < End => lock = r
        /\ ~Locked => \A r, s \in Procs : pc[r] > 0 /\ pc[s] > 0 => r = s
    BY <2>1, <2>3 DEF Alone
  <2>6. ASSUME NEW p \in Procs, Start(p)
        PROVE  /\ Locked => \A r \in Procs : pc'[r] > 1 /\ pc'[r] < End => lock' = r
               /\ ~Locked => \A r, s \in Procs : pc'[r] > 0 /\ pc'[s] > 0 => r = s
    BY <2>1, <2>5, <2>6, StartFrame
  <2>7. ASSUME NEW q \in Parts(app), Change(q)
        PROVE  /\ Locked => \A r \in Procs : pc'[r] > 1 /\ pc'[r] < End => lock' = r
               /\ ~Locked => \A r, s \in Procs : pc'[r] > 0 /\ pc'[s] > 0 => r = s
    BY <2>5, <2>7, ChangeFrame
  <2>8. ASSUME NEW p \in Procs, Fail(p) \/ Kill(p)
        PROVE  /\ Locked => \A r \in Procs : pc'[r] > 1 /\ pc'[r] < End => lock' = r
               /\ ~Locked => \A r, s \in Procs : pc'[r] > 0 /\ pc'[s] > 0 => r = s
    <3>1. /\ pc[p] > 0 /\ (pc'[p] = 0 \/ pc'[p] = End) /\ (UNCHANGED lock \/ lock = p)
          /\ \A r \in Procs : r # p => pc'[r] = pc[r]
      BY <2>1, <2>8, FaultFrame
    <3>2. QED
      BY <2>1, <2>5, <3>1 DEF Shape
  <2>9. ASSUME NEW p \in Procs, Do(p)
        PROVE  /\ Locked => \A r \in Procs : pc'[r] > 1 /\ pc'[r] < End => lock' = r
               /\ ~Locked => \A r, s \in Procs : pc'[r] > 0 /\ pc'[s] > 0 => r = s
    <3>1. pc[p] > 0 /\ \A r \in Procs : r # p => pc'[r] = pc[r]
      BY <2>1, <2>9, DoFrame, Goes
    <3>2. ~Locked => \A r, s \in Procs : pc'[r] > 0 /\ pc'[s] > 0 => r = s
      BY <2>5, <3>1
    <3>3. ASSUME Locked, pc'[p] > 1, pc'[p] < End PROVE lock' = p
      <4>1. app # "home"
        BY <3>3 DEF Locked
      <4>2. Leave(p) \/ Busy(p) => pc'[p] = 0
        BY <2>1 DEF Leave, Busy
      <4>3. pc[p] < End /\ pc'[p] = pc[p] + 1 /\ ~Leave(p)
        BY <2>1, <2>9, <3>3, <4>1, <4>2, Goes DEF Shape
      <4>4. pc[p] = 1 => At(p, "lock")
        BY <2>1, <3>3, <4>3, AtOp DEF Shape
      <4>5. QED
        BY <2>1, <2>5, <2>9, <3>1, <3>3, <4>3, <4>4, LockMoves DEF Shape
    <3>4. ASSUME Locked, NEW r \in Procs, r # p, pc'[r] > 1, pc'[r] < End PROVE lock' = r
      <4>1. lock = r
        BY <2>5, <3>1, <3>4
      <4>2. Leave(p) => UNCHANGED lock
        BY <3>4, <4>1 DEF Leave
      <4>3. QED
        BY <2>1, <2>9, <4>1, <4>2, LockMoves
    <3>5. QED
      BY <3>2, <3>3, <3>4
  <2>10. QED
    BY <1>2, <2>6, <2>7, <2>8, <2>9 DEF Next
<1>3. QED
  BY <1>1, <1>2

(* The operation a process is at is the step it takes.                        *)
LEMMA Act ==
  ASSUME NEW p, Do(p)
  PROVE  /\ Op(pc[p]) = "lock" => Lock(p) \/ Busy(p)
         /\ Op(pc[p]) = "unmark" => Unmark(p)
         /\ Op(pc[p]) = "sweep" => Sweep(p)
         /\ Op(pc[p]) = "make" => Make(p)
         /\ Op(pc[p]) = "prepare" => Prepare(p)
         /\ Op(pc[p]) = "look" => Look(p)
         /\ Op(pc[p]) = "anchor" => Anchor(p)
         /\ Op(pc[p]) = "copy" => Copy(p)
         /\ Op(pc[p]) = "write" => Write(p)
         /\ Op(pc[p]) = "fetch" => Fetch(p)
         /\ Op(pc[p]) = "open" => Open(p)
         /\ Op(pc[p]) = "again" => Again(p)
         /\ Op(pc[p]) = "seal" => Seal(p)
         /\ Op(pc[p]) = "resume" => Resume(p)
         /\ Op(pc[p]) = "create" => Create(p)
         /\ Op(pc[p]) = "receive" => Receive(p)
         /\ Op(pc[p]) = "seat" => Seat(p)
         /\ Op(pc[p]) = "present" => Present(p)
         /\ Op(pc[p]) = "drop" => Drop(p)
         /\ Op(pc[p]) = "retire" => Retire(p)
         /\ Op(pc[p]) = "publish" => Publish(p)
         /\ Op(pc[p]) = "mark" => Mark(p)
         /\ Op(pc[p]) = "finally" => Finally(p)
         /\ Op(pc[p]) = "close" => Close(p)
         /\ Op(pc[p]) = "tidy" => Tidy(p)
<1>1. /\ Lock(p) \/ Busy(p) => Op(pc[p]) = "lock"
      /\ Unmark(p) => Op(pc[p]) = "unmark"
      /\ Sweep(p) => Op(pc[p]) = "sweep"
      /\ Make(p) => Op(pc[p]) = "make"
      /\ Prepare(p) => Op(pc[p]) = "prepare"
      /\ Look(p) => Op(pc[p]) = "look"
      /\ Anchor(p) => Op(pc[p]) = "anchor"
      /\ Copy(p) => Op(pc[p]) = "copy"
      /\ Write(p) => Op(pc[p]) = "write"
      /\ Fetch(p) => Op(pc[p]) = "fetch"
      /\ Open(p) => Op(pc[p]) = "open"
      /\ Again(p) => Op(pc[p]) = "again"
      /\ Seal(p) => Op(pc[p]) = "seal"
      /\ Resume(p) => Op(pc[p]) = "resume"
      /\ Create(p) => Op(pc[p]) = "create"
      /\ Receive(p) => Op(pc[p]) = "receive"
      /\ Seat(p) => Op(pc[p]) = "seat"
      /\ Present(p) => Op(pc[p]) = "present"
      /\ Drop(p) => Op(pc[p]) = "drop"
      /\ Retire(p) => Op(pc[p]) = "retire"
      /\ Publish(p) => Op(pc[p]) = "publish"
      /\ Mark(p) => Op(pc[p]) = "mark"
      /\ Finally(p) => Op(pc[p]) = "finally"
      /\ Close(p) => Op(pc[p]) = "close"
      /\ Tidy(p) => Op(pc[p]) = "tidy"
  BY AtOp DEF Lock, Busy, Unmark, Sweep, Make, Prepare, Look, Anchor, Copy, Write, Fetch, Open,
     Again, Seal, Resume, Create, Receive, Seat, Present, Drop, Retire, Publish, Mark, Finally,
     Close, Tidy
<1>2. QED
  BY <1>1 DEF Do

(* What a step of the body does to the bundle, the readings and the download. *)
LEMMA Effects ==
  ASSUME Apart, Types, WorkInv, NEW p \in Procs, InBody(p), Do(p), pc'[p] > 0, pc'[p] < End
  PROVE  /\ Op(pc[p]) \in {"lock", "unmark", "look", "again", "resume", "create", "receive",
                           "present", "drop", "retire", "mark"} => Bundle(p)' = Bundle(p)
         /\ Op(pc[p]) # "look" => seen'[p] = seen[p]
         /\ Op(pc[p]) # "open" => remote'[p] = remote[p]
         /\ Op(pc[p]) \notin {"create", "receive", "seat"} => retained' = retained
         /\ Op(pc[p]) \in {"create", "receive"} => retained' # None
         /\ Op(pc[p]) \in {"make", "prepare"} => Bundle(p)' # None
         /\ Op(pc[p]) = "look" =>
              /\ seen'[p][Arg(pc[p])] = live[Arg(pc[p])]
              /\ \A q \in Parts(app) : q # Arg(pc[p]) => seen'[p][q] = seen[p][q]
         /\ Op(pc[p]) = "again" => live[Arg(pc[p])] = seen[p][Arg(pc[p])]
<1> USE DEF staging, disk, source, generations, run, ledger
<1>1. /\ app' = app /\ app \in AllApps /\ Shape /\ pc[p] \in 1..Len(Program(app))
      /\ Bundle(p)' = pending'[Staging(p)] /\ Staging(p) \in Stagings
      /\ pc \in [Procs -> 0..Len(Program(app))] /\ seen \in [Procs -> [Parts(app) -> Nat]]
  BY DoFrame, SameHook, Shapes, Goes DEF Types, Bundle, Staging, Stagings
<1>2. ~Leave(p) /\ ~Busy(p) /\ Op(pc[p]) \notin {"finally", "close", "tidy"}
  BY <1>1, AtOp DEF Leave, Busy, Shape
<1>3. Op(pc[p]) \in {"lock", "unmark", "look", "again", "resume", "create", "receive",
                     "present", "drop", "retire", "mark"} => Bundle(p)' = Bundle(p)
  <2>1. Lock(p) \/ Unmark(p) \/ Look(p) \/ Again(p) \/ Resume(p) \/ Create(p) \/ Receive(p)
        \/ Present(p) \/ Drop(p) \/ Retire(p) \/ Mark(p) => UNCHANGED pending
    BY DEF Lock, Unmark, Look, Again, Resume, Create, Receive, Present, Drop, Retire, Mark
  <2>2. QED
    BY <1>1, <1>2, <2>1, Act DEF Bundle
<1>4. Op(pc[p]) # "look" => seen'[p] = seen[p]
  <2>1. Lock(p) \/ Unmark(p) \/ Sweep(p) \/ Make(p) \/ Prepare(p) \/ Anchor(p) \/ Copy(p)
          => UNCHANGED seen
    BY DEF Lock, Unmark, Sweep, Make, Prepare, Anchor, Copy
  <2>2. Write(p) \/ Fetch(p) \/ Open(p) \/ Again(p) \/ Seal(p) \/ Resume(p) \/ Create(p)
          => UNCHANGED seen
    BY DEF Write, Fetch, Open, Again, Seal, Resume, Create
  <2>3. Receive(p) \/ Seat(p) \/ Present(p) \/ Drop(p) \/ Retire(p) \/ Publish(p) \/ Mark(p)
          => UNCHANGED seen
    BY DEF Receive, Seat, Present, Drop, Retire, Publish, Mark
  <2>4. Look(p) \/ Finally(p) \/ Close(p) \/ Tidy(p)
          => Op(pc[p]) \in {"look", "finally", "close", "tidy"}
    BY AtOp DEF Look, Finally, Close, Tidy
  <2>5. QED
    BY <1>2, <2>1, <2>2, <2>3, <2>4 DEF Do
<1>5. Op(pc[p]) # "open" => remote'[p] = remote[p]
  <2>1. Lock(p) \/ Unmark(p) \/ Sweep(p) \/ Make(p) \/ Prepare(p) \/ Anchor(p) \/ Copy(p)
          => UNCHANGED remote
    BY DEF Lock, Unmark, Sweep, Make, Prepare, Anchor, Copy
  <2>2. Write(p) \/ Fetch(p) \/ Look(p) \/ Again(p) \/ Seal(p) \/ Resume(p) \/ Create(p)
          => UNCHANGED remote
    BY DEF Write, Fetch, Look, Again, Seal, Resume, Create
  <2>3. Receive(p) \/ Seat(p) \/ Present(p) \/ Drop(p) \/ Retire(p) \/ Publish(p) \/ Mark(p)
          => UNCHANGED remote
    BY DEF Receive, Seat, Present, Drop, Retire, Publish, Mark
  <2>4. Open(p) \/ Finally(p) \/ Close(p) \/ Tidy(p)
          => Op(pc[p]) \in {"open", "finally", "close", "tidy"}
    BY AtOp DEF Open, Finally, Close, Tidy
  <2>5. QED
    BY <1>2, <2>1, <2>2, <2>3, <2>4 DEF Do
<1>6. Op(pc[p]) \notin {"create", "receive", "seat"} => retained' = retained
  <2>1. Lock(p) \/ Unmark(p) \/ Sweep(p) \/ Make(p) \/ Prepare(p) \/ Anchor(p) \/ Copy(p)
          => UNCHANGED retained
    BY DEF Lock, Unmark, Sweep, Make, Prepare, Anchor, Copy
  <2>2. Write(p) \/ Fetch(p) \/ Look(p) \/ Again(p) \/ Seal(p) \/ Resume(p) \/ Open(p)
          => UNCHANGED retained
    BY DEF Write, Fetch, Look, Again, Seal, Resume, Open
  <2>3. Present(p) \/ Drop(p) \/ Retire(p) \/ Publish(p) \/ Mark(p) => UNCHANGED retained
    BY DEF Present, Drop, Retire, Publish, Mark
  <2>4. Create(p) \/ Receive(p) \/ Seat(p) \/ Finally(p) \/ Close(p) \/ Tidy(p)
          => Op(pc[p]) \in {"create", "receive", "seat", "finally", "close", "tidy"}
    BY AtOp DEF Create, Receive, Seat, Finally, Close, Tidy
  <2>5. QED
    BY <1>2, <2>1, <2>2, <2>3, <2>4 DEF Do
<1>7. Op(pc[p]) \in {"create", "receive"} => retained' # None
  <2>1. ASSUME Op(pc[p]) = "create" PROVE retained' # None
    <3>1. Create(p) /\ remote[p] # None
      BY <2>1, Act, Ready
    <3>2. app = "home"
      BY <1>1, <2>1, StashSteps, TubeSteps, VikingSteps, MetricsSteps
         DEF StashTable, TubeTable, VikingTable, MetricsTable, AllApps
    <3>3. remote[p]["tar"] \in Nat
      BY <3>1, <3>2 DEF Types, Parts
    <3>4. retained' \in [version : Nat, whole : BOOLEAN]
      BY <3>1, <3>3 DEF Create
    <3>5. QED
      BY <3>4 DEF Apart
  <2>2. ASSUME Op(pc[p]) = "receive" PROVE retained' # None
    <3>1. Receive(p) /\ retained # None
      BY <2>2, Act, Ready
    <3>2. retained' \in [version : Nat, whole : BOOLEAN]
      BY <3>1 DEF Receive, Types
    <3>3. QED
      BY <3>2 DEF Apart
  <2>3. QED
    BY <2>1, <2>2
<1>8. Op(pc[p]) \in {"make", "prepare"} => Bundle(p)' # None
  <2>1. Empty # None
    BY <1>1, EmptyType DEF Apart
  <2>2. Make(p) => Bundle(p)' = Empty
    BY <1>1, Staged DEF Make
  <2>3. Prepare(p) => Bundle(p)' = IF Bundle(p) = None THEN Empty ELSE Bundle(p)
    BY <1>1, Staged DEF Prepare
  <2>4. QED
    BY <2>1, <2>2, <2>3, Act
<1>9. Op(pc[p]) = "look" =>
        /\ seen'[p][Arg(pc[p])] = live[Arg(pc[p])]
        /\ \A q \in Parts(app) : q # Arg(pc[p]) => seen'[p][q] = seen[p][q]
  <2>1. ASSUME Op(pc[p]) = "look"
        PROVE  /\ seen'[p][Arg(pc[p])] = live[Arg(pc[p])]
               /\ \A q \in Parts(app) : q # Arg(pc[p]) => seen'[p][q] = seen[p][q]
    <3>1. Look(p) /\ Arg(pc[p]) \in Parts(app) /\ Step(p)[2] = Arg(pc[p])
      BY <2>1, Act, Ready, AtOp
    <3>2. QED
      BY <1>1, <3>1 DEF Look
  <2>2. QED
    BY <2>1
<1>10. Op(pc[p]) = "again" => live[Arg(pc[p])] = seen[p][Arg(pc[p])]
  <2>1. ASSUME Op(pc[p]) = "again" PROVE live[Arg(pc[p])] = seen[p][Arg(pc[p])]
    <3>1. Again(p) /\ Step(p)[2] = Arg(pc[p])
      BY <2>1, Act, AtOp
    <3>2. Raise(p) => pc'[p] = End
      BY <1>1 DEF Raise, End
    <3>3. ~Raise(p)
      BY <1>1, <3>2 DEF Shape
    <3>4. QED
      BY <3>1, <3>3 DEF Again
  <2>2. QED
    BY <2>1
<1>11. QED
  BY <1>3, <1>4, <1>5, <1>6, <1>7, <1>8, <1>9, <1>10

(* What a step of the body writes in the bundle.                              *)
LEMMA Written ==
  ASSUME Apart, Types, WorkInv, NEW p \in Procs, InBody(p), Do(p), NEW q, q = Arg(pc[p])
  PROVE  /\ Op(pc[p]) = "anchor" =>
              /\ Bundle(p)' \in Bundles(app) /\ Bundle(p)'.at = live
              /\ Bundle(p)'.parts[q] = live[q]
         /\ Op(pc[p]) \in {"copy", "write", "fetch"} =>
              /\ Bundle(p)' \in Bundles(app) /\ Bundle(p)'.at = Bundle(p).at
              /\ Bundle(p)'.seal = Bundle(p).seal
              /\ \A r \in Parts(app) : r # q => Bundle(p)'.parts[r] = Bundle(p).parts[r]
         /\ Op(pc[p]) = "copy" => Bundle(p)'.parts[q] = live[q]
         /\ Op(pc[p]) = "write" => Bundle(p)'.parts[q] = seen[p][q]
         /\ Op(pc[p]) = "fetch" => Bundle(p)'.parts[q] = remote[p][q]
         /\ Op(pc[p]) = "seat" =>
              Bundle(p)' \in Bundles(app) /\ Bundle(p)'.parts["tar"] > 0
         /\ Op(pc[p]) = "open" =>
              /\ remote'[p] = live
              /\ app = "tube" => /\ Bundle(p)' \in Bundles(app) /\ Bundle(p)'.at = live
                                 /\ Bundle(p)'.parts = Bundle(p).parts
              /\ app # "tube" => Bundle(p)' = Bundle(p)
         /\ Op(pc[p]) = "seal" =>
              /\ Bundle(p)' \in Bundles(app) /\ Bundle(p)'.at = Bundle(p).at
              /\ Bundle(p)'.parts = Bundle(p).parts
              /\ \A r \in Hashed(app) : Bundle(p)'.seal[r] = Bundle(p).parts[r]
<1>1. /\ app' = app /\ app \in AllApps /\ Step(p)[2] = q
      /\ Bundle(p)' = pending'[Staging(p)] /\ Staging(p) \in Stagings
      /\ live \in [Parts(app) -> Nat \ {0}]
      /\ remote \in [Procs -> [Parts(app) -> Nat \ {0}] \cup {None}]
  BY DoFrame, SameHook, AtOp DEF Types, Bundle, Staging, Stagings
<1>2. Bundle(p) # None => Bundle(p) \in Bundles(app)
  BY Held
<1>3. ASSUME Op(pc[p]) = "anchor"
      PROVE  /\ Bundle(p)' \in Bundles(app) /\ Bundle(p)'.at = live
             /\ Bundle(p)'.parts[q] = live[q]
  <2>1. Bundle(p) \in Bundles(app) /\ q \in Parts(app) /\ Anchor(p)
    BY <1>2, <1>3, Ready, Act
  <2>2. Stage(p, [Bundle(p) EXCEPT !.parts[q] = live[q], !.at = live])
    BY <1>1, <2>1 DEF Anchor
  <2>3. Bundle(p)' = [Bundle(p) EXCEPT !.parts[q] = live[q], !.at = live]
    BY <1>1, <2>2, Staged
  <2>4. live \in [Parts(app) -> Nat] /\ live[q] \in Nat
    BY <1>1, <2>1
  <2>5. ASSUME NEW b \in Bundles(app), NEW c \in Bundles(app), c = [b EXCEPT !.parts[q] = live[q]]
         PROVE  [b EXCEPT !.parts[q] = live[q], !.at = live] = [c EXCEPT !.at = live]
    BY <2>5 DEF Bundles
  <2>6. PICK c : c = [Bundle(p) EXCEPT !.parts[q] = live[q]]
    OBVIOUS
  <2>7. c \in Bundles(app) /\ c.parts[q] = live[q]
    BY <2>1, <2>4, <2>6 DEF Bundles
  <2>8. Bundle(p)' = [c EXCEPT !.at = live]
    BY <2>1, <2>3, <2>5, <2>6, <2>7
  <2>9. /\ Bundle(p)'.at = live /\ Bundle(p)'.parts = c.parts
        /\ Bundle(p)' \in Bundles(app)
    BY <2>4, <2>7, <2>8 DEF Bundles
  <2>10. QED
    BY <2>7, <2>9
<1>4. ASSUME NEW v \in Nat, NEW x \in Parts(app), Put(p, x, v), Bundle(p) # None
      PROVE  /\ Bundle(p)' \in Bundles(app) /\ Bundle(p)'.at = Bundle(p).at
             /\ Bundle(p)'.seal = Bundle(p).seal /\ Bundle(p)'.parts[x] = v
             /\ \A r \in Parts(app) : r # x => Bundle(p)'.parts[r] = Bundle(p).parts[r]
  BY <1>1, <1>4, PutPart
<1>5. ASSUME Op(pc[p]) \in {"copy", "write", "fetch"}
      PROVE  /\ Bundle(p)' \in Bundles(app) /\ Bundle(p)'.at = Bundle(p).at
             /\ Bundle(p)'.seal = Bundle(p).seal
             /\ \A r \in Parts(app) : r # q => Bundle(p)'.parts[r] = Bundle(p).parts[r]
             /\ Op(pc[p]) = "copy" => Bundle(p)'.parts[q] = live[q]
             /\ Op(pc[p]) = "write" => Bundle(p)'.parts[q] = seen[p][q]
             /\ Op(pc[p]) = "fetch" => Bundle(p)'.parts[q] = remote[p][q]
  <2>1. Bundle(p) # None /\ q \in Parts(app)
    BY <1>5, Ready
  <2>2. ASSUME Op(pc[p]) = "copy" PROVE Put(p, q, live[q]) /\ live[q] \in Nat
    BY <1>1, <2>1, <2>2, Act DEF Copy
  <2>3. ASSUME Op(pc[p]) = "write" PROVE Put(p, q, seen[p][q]) /\ seen[p][q] \in Nat
    BY <1>1, <2>1, <2>3, Act DEF Write, Types
  <2>4. ASSUME Op(pc[p]) = "fetch" PROVE Put(p, q, remote[p][q]) /\ remote[p][q] \in Nat
    <3>1. remote[p] # None
      BY <2>4, Ready
    <3>2. QED
      BY <1>1, <2>1, <2>4, <3>1, Act DEF Fetch
  <2>5. CASE Op(pc[p]) = "copy"
    BY <1>4, <2>1, <2>2, <2>5
  <2>6. CASE Op(pc[p]) = "write"
    BY <1>4, <2>1, <2>3, <2>6
  <2>7. CASE Op(pc[p]) = "fetch"
    BY <1>4, <2>1, <2>4, <2>7
  <2>8. QED
    BY <1>5, <2>5, <2>6, <2>7
<1>6. ASSUME Op(pc[p]) = "seat" PROVE Bundle(p)' \in Bundles(app) /\ Bundle(p)'.parts["tar"] > 0
  <2>1. Seat(p) /\ Bundle(p) # None /\ retained # None
    BY <1>6, Act, Ready
  <2>2. pc[p] \in 1..Len(Program(app))
    BY Goes
  <2>3. app = "home"
    BY <1>1, <1>6, <2>2, StashSteps, TubeSteps, VikingSteps, MetricsSteps
       DEF StashTable, TubeTable, VikingTable, MetricsTable, AllApps
  <2>4. "tar" \in Parts(app) /\ retained.version \in Nat \ {0}
    BY <2>1, <2>3 DEF Parts, Types
  <2>5. Put(p, "tar", retained.version)
    BY <2>1 DEF Seat
  <2>6. QED
    BY <1>4, <2>1, <2>4, <2>5
<1>7. ASSUME Op(pc[p]) = "open"
      PROVE  /\ remote'[p] = live
             /\ app = "tube" => /\ Bundle(p)' \in Bundles(app) /\ Bundle(p)'.at = live
                                /\ Bundle(p)'.parts = Bundle(p).parts
             /\ app # "tube" => Bundle(p)' = Bundle(p)
  <2>1. Open(p)
    BY <1>7, Act
  <2>2. remote'[p] = live
    BY <1>1, <2>1 DEF Open
  <2>3. ASSUME app # "tube" PROVE Bundle(p)' = Bundle(p)
    BY <1>1, <2>1, <2>3 DEF Open, Bundle
  <2>4. ASSUME app = "tube"
        PROVE  /\ Bundle(p)' \in Bundles(app) /\ Bundle(p)'.at = live
               /\ Bundle(p)'.parts = Bundle(p).parts
    <3>1. Bundle(p) \in Bundles(app)
      BY <1>2, <1>7, <2>4, Ready
    <3>2. Stage(p, [Bundle(p) EXCEPT !.at = live])
      BY <2>1, <2>4 DEF Open
    <3>3. Bundle(p)' = [Bundle(p) EXCEPT !.at = live]
      BY <1>1, <3>2, Staged
    <3>4. QED
      BY <1>1, <3>1, <3>3 DEF Bundles
  <2>5. QED
    BY <2>2, <2>3, <2>4
<1>8. ASSUME Op(pc[p]) = "seal"
      PROVE  /\ Bundle(p)' \in Bundles(app) /\ Bundle(p)'.at = Bundle(p).at
             /\ Bundle(p)'.parts = Bundle(p).parts
             /\ \A r \in Hashed(app) : Bundle(p)'.seal[r] = Bundle(p).parts[r]
  <2> DEFINE s == [r \in Parts(app) |-> IF r \in Hashed(app) THEN Bundle(p).parts[r] ELSE 0]
  <2>1. Bundle(p) \in Bundles(app) /\ Seal(p)
    BY <1>2, <1>8, Ready, Act
  <2>2. Hashed(app) \subseteq Parts(app)
    BY <1>1 DEF Hashed, Parts, AllApps
  <2>3. s \in [Parts(app) -> Nat] /\ \A r \in Hashed(app) : s[r] = Bundle(p).parts[r]
    BY <2>1, <2>2 DEF Bundles
  <2>4. Stage(p, [Bundle(p) EXCEPT !.seal = s])
    BY <2>1 DEF Seal
  <2> HIDE DEF s
  <2>5. Bundle(p)' = [Bundle(p) EXCEPT !.seal = s]
    BY <1>1, <2>4, Staged
  <2>6. QED
    BY <1>1, <2>1, <2>3, <2>5 DEF Bundles
<1>9. QED
  BY <1>3, <1>5, <1>6, <1>7, <1>8

(* Before and behind the body nothing is claimed; what is done stays done     *)
(* while the application writes on.                                           *)
LEMMA Vacuous ==
  ASSUME app \in AllApps, app' = app, NEW n \in Nat, n <= 1 \/ n >= End, NEW b, NEW s, NEW m
  PROVE  Done(n, b, s, m) /\ Done(n, b, s, m)'
<1>1. CASE app = "stash"
  <2>1. End = 20
    BY <1>1, StashSteps DEF StashTable
  <2>2. QED
    BY <1>1, <2>1 DEF Done, StashDone
<1>2. CASE app = "tube"
  <2>1. End = 12
    BY <1>2, TubeSteps DEF TubeTable
  <2>2. QED
    BY <1>2, <2>1 DEF Done, TubeDone
<1>3. CASE app = "viking"
  <2>1. End = 13
    BY <1>3, VikingSteps DEF VikingTable
  <2>2. QED
    BY <1>3, <2>1 DEF Done, VikingDone
<1>4. CASE app = "metrics"
  <2>1. End = 9
    BY <1>4, MetricsSteps DEF MetricsTable
  <2>2. QED
    BY <1>4, <2>1 DEF Done, MetricsDone
<1>5. CASE app = "home"
  <2>1. End = 13
    BY <1>5, HomeSteps DEF HomeTable
  <2>2. QED
    BY <1>5, <2>1 DEF Done, HomeDone
<1>6. QED
  BY <1>1, <1>2, <1>3, <1>4, <1>5 DEF AllApps

LEMMA DoneKept ==
  ASSUME app \in AllApps, app' = app, live \in [Parts(app) -> Nat \ {0}],
         live' \in [Parts(app) -> Nat \ {0}], \A q \in Parts(app) : live[q] <= live'[q],
         app = "home" => retained' = retained, NEW n \in Nat,
         NEW b \in Bundles(app) \cup {None}, NEW s \in [Parts(app) -> Nat], NEW m,
         Done(n, b, s, m)
  PROVE  Done(n, b, s, m)'
<1>1. \A q \in Parts(app) : Saw(s, q) => Saw(s, q)'
  BY DEF Saw
<1>2. ASSUME b # None, Moment(b) PROVE Moment(b)'
  <2>1. b.at \in [Parts(app) -> Nat]
    BY <1>2 DEF Bundles
  <2>2. QED
    BY <1>2, <2>1 DEF Moment
<1>3. ASSUME b # None, NEW q \in Parts(app), b.parts[q] <= live[q] PROVE b.parts[q] <= live'[q]
  <2>1. b.parts[q] \in Nat
    BY <1>3 DEF Bundles
  <2>2. QED
    BY <1>3, <2>1
<1>4. CASE app = "stash"
  <2>1. {"blobs", "plugins", "config"} \subseteq Parts(app)
    BY <1>4 DEF Parts
  <2>2. StashDone(n, b, s) => StashDone(n, b, s)'
    BY <1>1, <1>2, <1>3, <1>4, <2>1 DEF StashDone
  <2>3. QED
    BY <1>4, <2>2 DEF Done
<1>5. CASE app = "tube"
  <2>1. "schema" \in Parts(app)
    BY <1>5 DEF Parts
  <2>2. TubeDone(n, b, s, m) => TubeDone(n, b, s, m)'
    BY <1>1, <1>2, <1>5, <2>1 DEF TubeDone
  <2>3. QED
    BY <1>5, <2>2 DEF Done
<1>6. CASE app = "viking"
  BY <1>6 DEF Done, VikingDone
<1>7. CASE app = "metrics"
  BY <1>7 DEF Done, MetricsDone
<1>8. CASE app = "home"
  BY <1>8 DEF Done, HomeDone
<1>9. QED
  BY <1>4, <1>5, <1>6, <1>7, <1>8 DEF AllApps

(* A process in its body keeps what it has done while another one steps.      *)
LEMMA OtherWork ==
  ASSUME Apart, Types, WorkInv, Alone, NEW p \in Procs, NEW r \in Procs, r # p,
         Do(p) \/ Fail(p) \/ Kill(p), pc'[r] > 1, pc'[r] < End
  PROVE  /\ pc'[r] = pc[r] /\ seen'[r] = seen[r] /\ remote'[r] = remote[r]
         /\ Bundle(r)' = Bundle(r) /\ app # "home" /\ live' = live /\ app' = app
<1>1. /\ app' = app /\ app \in AllApps /\ Shape /\ pc[p] \in 1..Len(Program(app)) /\ live' = live
      /\ pc'[r] = pc[r] /\ seen'[r] = seen[r] /\ remote'[r] = remote[r]
      /\ pc[r] \in 0..Len(Program(app))
  <2>1. CASE Do(p)
    BY <2>1, DoFrame, Goes, Shapes DEF Types
  <2>2. CASE Fail(p) \/ Kill(p)
    BY <2>2, FaultFrame, Shapes DEF Types
  <2>3. QED
    BY <2>1, <2>2
<1>2. InBody(r) /\ pc[r] > 1
  BY <1>1, AtOp DEF Shape
<1>3. Locked /\ lock = r
  BY <1>1, <1>2 DEF Alone, Shape
<1>4. ~(pc[p] > 1 /\ pc[p] < End)
  BY <1>1, <1>3, AtOp DEF Alone
<1>5. app # "home" /\ (~UniqueStaging => app = "stash")
  BY <1>3 DEF Locked, UniqueStaging
<1>6. /\ Op(pc[p]) \in {"lock", "finally", "close", "tidy"}
      /\ app = "stash" => Op(pc[p]) \in {"lock", "finally"}
  <2>1. pc[p] = 1 => Op(pc[p]) = "lock"
    BY <1>1, <1>3 DEF Shape
  <2>2. pc[p] # 1 => pc[p] >= End
    BY <1>1, <1>4 DEF Shape
  <2>3. pc[p] >= End => Op(pc[p]) \in {"finally", "close", "tidy"}
    BY <1>1 DEF Shape
  <2>4. app = "stash" => (pc[p] >= End => Op(pc[p]) = "finally")
    <3>1. ASSUME app = "stash" PROVE Op(pc[p]) \notin {"close", "tidy"}
      <4>1. StashTable /\ pc[p] \in 1..20
        BY <1>1, <3>1, StashSteps DEF StashTable
      <4>2. QED
        BY <4>1, SMTT(30) DEF StashTable
    <3>2. QED
      BY <2>3, <3>1
  <2>5. QED
    BY <2>1, <2>2, <2>3, <2>4
<1>7. pending'[Staging(r)] = pending[Staging(r)]
  <2>1. CASE UniqueStaging
    <3>1. Staging(r) # Staging(p) /\ Staging(r) \in Stagings
      BY <2>1 DEF Staging, Stagings
    <3>2. QED
      BY <3>1, StagingTypes, FaultFrame
  <2>2. CASE ~UniqueStaging
    <3>1. ASSUME Do(p) PROVE pending' = pending
      <4>1. Lock(p) \/ Busy(p) \/ Finally(p)
        BY <1>5, <1>6, <2>2, <3>1, Act
      <4>2. QED
        BY <4>1 DEF Lock, Busy, Finally, disk
    <3>2. ASSUME Fail(p) \/ Kill(p) PROVE pending' = pending
      BY <1>5, <1>6, <2>2, <3>2, FaultFrame
    <3>3. QED
      BY <3>1, <3>2
  <2>3. QED
    BY <2>1, <2>2
<1>8. Bundle(r)' = Bundle(r)
  BY <1>1, <1>7, SameHook DEF Bundle
<1>9. QED
  BY <1>1, <1>5, <1>8

(* What each hook has done after one more step.  Stash: the inventories on    *)
(* both sides of the database backup are what makes one moment of the parts.  *)
LEMMA StashWork ==
  ASSUME Apart, Types, WorkInv, NEW p \in Procs, Do(p), InBody(p), app = "stash",
         pc'[p] = pc[p] + 1, pc'[p] < End
  PROVE  StashDone(pc[p] + 1, Bundle(p)', seen'[p])
<1> DEFINE n == pc[p]
           b == Bundle(p)
           c == Bundle(p)'
           s == seen[p]
           t == seen'[p]
<1> SUFFICES StashDone(n + 1, c, t)
  OBVIOUS
<1>1. StashTable
  BY StashSteps
<1>2. Len(Program(app)) = 20 /\ End = 20 /\ n \in 1..20
  BY <1>1, Goes DEF StashTable
<1>3. StashDone(n, b, s) /\ Parts(app) = {"db", "config", "blobs", "plugins"}
       /\ Hashed(app) = Parts(app)
  BY DEF WorkInv, Done, Parts, Hashed
<1>4. n \in 1..18
  <2>1. n + 1 < 20
    BY <1>2, Zenon
  <2>2. QED
    BY <1>2, <2>1
<1>5. n \in 1..18 /\ StashDone(n, b, s) /\ Parts(app) = {"db", "config", "blobs", "plugins"}
      /\ Hashed(app) = Parts(app)
  BY <1>3, <1>4
<1>6. /\ s \in [Parts(app) -> Nat] /\ t \in [Parts(app) -> Nat]
      /\ live \in [Parts(app) -> Nat \ {0}] /\ b \in Bundles(app) \cup {None}
      /\ None \notin Bundles(app)
  BY DoFrame, Held DEF Types, Apart
<1>7. pc'[p] > 0 /\ pc'[p] < End
  BY <1>5
<1>8. /\ Op(n) = "lock" => n = 1
      /\ Op(n) = "unmark" => n = 2
      /\ Op(n) = "sweep" => n = 3
      /\ Op(n) = "make" => n = 4
      /\ Op(n) = "anchor" => n = 8 /\ Arg(n) = "db"
      /\ Op(n) = "write" => n = 9 /\ Arg(n) = "config"
      /\ Op(n) = "seal" => n = 15
      /\ Op(n) = "drop" => n = 16
      /\ Op(n) = "retire" => n = 17
      /\ Op(n) = "publish" => n = 18
      /\ Op(n) = "mark" => n = 19
      /\ Op(n) = "finally" => n = 20
  BY <1>5, StashSteps, SMTT(30) DEF StashTable
<1>9. /\ Op(n) = "look" => \/ n = 5 /\ Arg(n) = "blobs"
                           \/ n = 6 /\ Arg(n) = "plugins"
                           \/ n = 7 /\ Arg(n) = "config"
      /\ Op(n) = "copy" => (n = 10 /\ Arg(n) = "blobs") \/ (n = 11 /\ Arg(n) = "plugins")
      /\ Op(n) = "again" => \/ n = 12 /\ Arg(n) = "blobs"
                            \/ n = 13 /\ Arg(n) = "plugins"
                            \/ n = 14 /\ Arg(n) = "config"
      /\ Op(n) \in {"lock", "unmark", "sweep", "make", "look", "anchor", "write", "copy",
                    "again", "seal", "drop", "retire", "publish", "mark", "finally"}
  BY <1>5, StashSteps, SMTT(30) DEF StashTable
<1>10. CASE n <= 3 \/ n >= 18
  BY <1>5, <1>10 DEF StashDone
<1>11. CASE Op(n) = "make"
  <2>1. n = 4 /\ c # None
    BY <1>7, <1>8, <1>11, Effects
  <2>2. QED
    BY <2>1 DEF StashDone
<1>12. CASE Op(n) = "look"
  <2>1. /\ c = b /\ t[Arg(n)] = live[Arg(n)]
        /\ \A q \in Parts(app) : q # Arg(n) => t[q] = s[q]
    BY <1>7, <1>12, Effects
  <2> HIDE DEF n, b, c, s, t
  <2>2. QED
    BY <1>5, <1>6, <1>9, <1>12, <2>1 DEF StashDone, Saw
<1>13. CASE Op(n) = "anchor"
  <2>1. n = 8 /\ t = s /\ c \in Bundles(app) /\ c.at = live /\ c.parts["db"] = live["db"]
    BY <1>7, <1>8, <1>13, Effects, Written
  <2> HIDE DEF n, b, c, s, t
  <2>2. QED
    BY <1>5, <1>6, <2>1 DEF StashDone, Saw, Moment
<1>14. CASE Op(n) = "write"
  <2>1. /\ n = 9 /\ t = s /\ c \in Bundles(app) /\ c.at = b.at /\ c.parts["config"] = s["config"]
        /\ \A r \in Parts(app) : r # "config" => c.parts[r] = b.parts[r]
    BY <1>7, <1>8, <1>14, Effects, Written
  <2> HIDE DEF n, b, c, s, t
  <2>2. QED
    BY <1>5, <1>6, <2>1 DEF StashDone, Saw, Moment
<1>15. CASE Op(n) = "copy"
  <2>1. /\ t = s /\ c \in Bundles(app) /\ c.at = b.at /\ c.parts[Arg(n)] = live[Arg(n)]
        /\ \A r \in Parts(app) : r # Arg(n) => c.parts[r] = b.parts[r]
    BY <1>7, <1>15, Effects, Written
  <2> HIDE DEF n, b, c, s, t
  <2>2. QED
    BY <1>5, <1>6, <1>9, <1>15, <2>1 DEF StashDone, Saw, Moment
<1>16. CASE Op(n) = "again"
  <2>1. t = s /\ c = b /\ live[Arg(n)] = s[Arg(n)]
    BY <1>7, <1>16, Effects
  <2>2. b # None => b.at \in [Parts(app) -> Nat] /\ b.parts \in [Parts(app) -> Nat]
    BY <1>6 DEF Bundles
  <2> HIDE DEF n, b, c, s, t
  <2>3. QED
    BY <1>5, <1>6, <1>9, <1>16, <2>1, <2>2 DEF StashDone, Saw, Moment
<1>17. CASE Op(n) = "seal"
  <2>1. /\ n = 15 /\ t = s /\ c \in Bundles(app) /\ c.at = b.at /\ c.parts = b.parts
        /\ \A r \in Parts(app) : c.seal[r] = b.parts[r]
    BY <1>5, <1>7, <1>8, <1>17, Effects, Written
  <2> HIDE DEF n, b, c, s, t
  <2>2. QED
    BY <1>5, <1>6, <2>1 DEF StashDone, Saw, Moment
<1>18. CASE Op(n) \in {"drop", "retire"}
  <2>1. n \in {16, 17} /\ t = s /\ c = b
    BY <1>7, <1>8, <1>18, Effects
  <2> HIDE DEF n, b, c, s, t
  <2>2. QED
    BY <1>5, <2>1 DEF StashDone
<1>19. QED
  BY <1>5, <1>8, <1>9, <1>10, <1>11, <1>12, <1>13, <1>14, <1>15, <1>16, <1>17, <1>18

(* TubeArchivist: the schema is read on both sides of the PIT.                *)
LEMMA TubeWork ==
  ASSUME Apart, Types, WorkInv, NEW p \in Procs, Do(p), InBody(p), app = "tube",
         pc'[p] = pc[p] + 1, pc'[p] < End
  PROVE  TubeDone(pc[p] + 1, Bundle(p)', seen'[p], remote'[p])
<1> DEFINE n == pc[p]
           b == Bundle(p)
           c == Bundle(p)'
           s == seen[p]
           t == seen'[p]
           m == remote[p]
           l == remote'[p]
<1> SUFFICES TubeDone(n + 1, c, t, l)
  OBVIOUS
<1>1. TubeTable
  BY TubeSteps
<1>2. Len(Program(app)) = 13 /\ End = 12 /\ n \in 1..13
  BY <1>1, Goes DEF TubeTable
<1>3. TubeDone(n, b, s, m) /\ Parts(app) = {"schema", "docs"} /\ Hashed(app) = {"docs"}
  BY DEF WorkInv, Done, Parts, Hashed
<1>4. n \in 1..10
  <2>1. n + 1 < 12
    BY <1>2, Zenon
  <2>2. QED
    BY <1>2, <2>1
<1>5. n \in 1..10 /\ TubeDone(n, b, s, m) /\ Parts(app) = {"schema", "docs"}
      /\ Hashed(app) = {"docs"}
  BY <1>3, <1>4
<1>6. /\ s \in [Parts(app) -> Nat] /\ t \in [Parts(app) -> Nat]
      /\ live \in [Parts(app) -> Nat \ {0}] /\ b \in Bundles(app) \cup {None}
      /\ None \notin Bundles(app)
  BY DoFrame, Held DEF Types, Apart
<1>7. pc'[p] > 0 /\ pc'[p] < End
  BY <1>5
<1>8. /\ Op(n) = "sweep" => n = 1
      /\ Op(n) = "make" => n = 2
      /\ Op(n) = "look" => n = 3 /\ Arg(n) = "schema"
      /\ Op(n) = "open" => n = 4
      /\ Op(n) = "fetch" => n = 5 /\ Arg(n) = "docs"
      /\ Op(n) = "again" => n = 6 /\ Arg(n) = "schema"
      /\ Op(n) = "write" => n = 7 /\ Arg(n) = "schema"
      /\ Op(n) = "seal" => n = 8
      /\ Op(n) = "drop" => n = 9
      /\ Op(n) = "retire" => n = 10
      /\ Op(n) \in {"sweep", "make", "look", "open", "fetch", "again", "write", "seal", "drop",
                    "retire", "publish", "finally", "close"}
      /\ Op(n) \in {"publish", "finally", "close"} => n > 10
  BY <1>1, <1>5, SMTT(30) DEF TubeTable
<1>9. CASE Op(n) = "sweep"
  <2>1. n = 1
    BY <1>8, <1>9
  <2>2. QED
    BY <2>1 DEF TubeDone
<1>10. CASE Op(n) = "make"
  <2>1. n = 2 /\ c # None
    BY <1>7, <1>8, <1>10, Effects
  <2>2. QED
    BY <2>1 DEF TubeDone
<1>11. CASE Op(n) = "look"
  <2>1. n = 3 /\ c = b /\ t["schema"] = live["schema"]
    BY <1>7, <1>8, <1>11, Effects
  <2> HIDE DEF n, b, c, s, t, m, l
  <2>2. QED
    BY <1>5, <1>6, <2>1 DEF TubeDone, Saw
<1>12. CASE Op(n) = "open"
  <2>1. n = 4 /\ t = s /\ c \in Bundles(app) /\ c.at = live /\ l = live
    BY <1>7, <1>8, <1>12, Effects, Written
  <2> HIDE DEF n, b, c, s, t, m, l
  <2>2. QED
    BY <1>5, <1>6, <2>1 DEF TubeDone, Saw, Moment
<1>13. CASE Op(n) = "fetch"
  <2>1. /\ n = 5 /\ t = s /\ l = m /\ c \in Bundles(app) /\ c.at = b.at
        /\ c.parts["docs"] = m["docs"]
    BY <1>7, <1>8, <1>13, Effects, Written
  <2> HIDE DEF n, b, c, s, t, m, l
  <2>2. QED
    BY <1>5, <1>6, <2>1 DEF TubeDone, Saw, Moment
<1>14. CASE Op(n) = "again"
  <2>1. n = 6 /\ t = s /\ l = m /\ c = b /\ live["schema"] = s["schema"]
    BY <1>7, <1>8, <1>14, Effects
  <2>2. b # None => b.at \in [Parts(app) -> Nat] /\ b.parts \in [Parts(app) -> Nat]
    BY <1>6 DEF Bundles
  <2> HIDE DEF n, b, c, s, t, m, l
  <2>3. QED
    BY <1>5, <1>6, <2>1, <2>2 DEF TubeDone, Saw, Moment
<1>15. CASE Op(n) = "write"
  <2>1. /\ n = 7 /\ t = s /\ l = m /\ c \in Bundles(app) /\ c.at = b.at
        /\ c.parts["schema"] = s["schema"] /\ c.parts["docs"] = b.parts["docs"]
    BY <1>5, <1>7, <1>8, <1>15, Effects, Written
  <2> HIDE DEF n, b, c, s, t, m, l
  <2>2. QED
    BY <1>5, <1>6, <2>1 DEF TubeDone, Saw, Moment
<1>16. CASE Op(n) = "seal"
  <2>1. /\ n = 8 /\ t = s /\ l = m /\ c \in Bundles(app) /\ c.at = b.at /\ c.parts = b.parts
        /\ c.seal["docs"] = b.parts["docs"]
    BY <1>5, <1>7, <1>8, <1>16, Effects, Written
  <2> HIDE DEF n, b, c, s, t, m, l
  <2>2. QED
    BY <1>5, <1>6, <2>1 DEF TubeDone, Saw, Moment
<1>17. CASE Op(n) \in {"drop", "retire"}
  <2>1. n \in {9, 10} /\ t = s /\ l = m /\ c = b
    BY <1>7, <1>8, <1>17, Effects
  <2> HIDE DEF n, b, c, s, t, m, l
  <2>2. QED
    BY <1>5, <2>1 DEF TubeDone
<1>18. QED
  BY <1>5, <1>8, <1>9, <1>10, <1>11, <1>12, <1>13, <1>14, <1>15, <1>16, <1>17

(* OpenViking: the packs first, then the escrow, then the checksums.          *)
LEMMA VikingWork ==
  ASSUME Apart, Types, WorkInv, NEW p \in Procs, Do(p), InBody(p), app = "viking",
         pc'[p] = pc[p] + 1, pc'[p] < End
  PROVE  VikingDone(pc[p] + 1, Bundle(p)', seen'[p])
<1> DEFINE n == pc[p]
           b == Bundle(p)
           c == Bundle(p)'
           s == seen[p]
           t == seen'[p]
<1> SUFFICES VikingDone(n + 1, c, t)
  OBVIOUS
<1>1. VikingTable
  BY VikingSteps
<1>2. Len(Program(app)) = 14 /\ End = 13 /\ n \in 1..14
  BY <1>1, Goes DEF VikingTable
<1>3. VikingDone(n, b, s) /\ Parts(app) = {"pack1", "pack2", "auth"} /\ Hashed(app) = Parts(app)
  BY DEF WorkInv, Done, Parts, Hashed
<1>4. n \in 1..11
  <2>1. n + 1 < 13
    BY <1>2, Zenon
  <2>2. QED
    BY <1>2, <2>1
<1>5. n \in 1..11 /\ VikingDone(n, b, s) /\ Parts(app) = {"pack1", "pack2", "auth"}
      /\ Hashed(app) = Parts(app)
  BY <1>3, <1>4
<1>6. /\ s \in [Parts(app) -> Nat] /\ t \in [Parts(app) -> Nat]
      /\ live \in [Parts(app) -> Nat \ {0}] /\ b \in Bundles(app) \cup {None}
      /\ None \notin Bundles(app)
  BY DoFrame, Held DEF Types, Apart
<1>7. pc'[p] > 0 /\ pc'[p] < End
  BY <1>5
<1>8. /\ Op(n) = "lock" => n = 1
      /\ Op(n) = "sweep" => n = 2
      /\ Op(n) = "make" => n = 3
      /\ Op(n) = "copy" => (n = 4 /\ Arg(n) = "pack1") \/ (n = 5 /\ Arg(n) = "pack2")
      /\ Op(n) = "look" => n = 6 /\ Arg(n) = "auth"
      /\ Op(n) = "write" => n = 7 /\ Arg(n) = "auth"
      /\ Op(n) = "again" => n = 8 /\ Arg(n) = "auth"
      /\ Op(n) = "seal" => n = 9
      /\ Op(n) = "drop" => n = 10
      /\ Op(n) = "retire" => n = 11
      /\ Op(n) \in {"lock", "sweep", "make", "copy", "look", "write", "again", "seal", "drop",
                    "retire", "publish", "finally", "tidy"}
      /\ Op(n) \in {"publish", "finally", "tidy"} => n > 11
  BY <1>1, <1>5, SMTT(30) DEF VikingTable
<1>9. CASE Op(n) \in {"lock", "sweep"}
  <2>1. n <= 2
    BY <1>8, <1>9
  <2>2. QED
    BY <1>5, <2>1 DEF VikingDone
<1>10. CASE Op(n) = "make"
  <2>1. n = 3 /\ c # None
    BY <1>7, <1>8, <1>10, Effects
  <2>2. QED
    BY <2>1 DEF VikingDone
<1>11. CASE Op(n) = "copy"
  <2>1. /\ t = s /\ c \in Bundles(app) /\ c.parts[Arg(n)] = live[Arg(n)]
        /\ \A r \in Parts(app) : r # Arg(n) => c.parts[r] = b.parts[r]
    BY <1>7, <1>11, Effects, Written
  <2> HIDE DEF n, b, c, s, t
  <2>2. QED
    BY <1>5, <1>6, <1>8, <1>11, <2>1 DEF VikingDone
<1>12. CASE Op(n) = "look"
  <2>1. n = 6 /\ c = b /\ t["auth"] = live["auth"]
    BY <1>7, <1>8, <1>12, Effects
  <2> HIDE DEF n, b, c, s, t
  <2>2. QED
    BY <1>5, <1>6, <2>1 DEF VikingDone
<1>13. CASE Op(n) = "write"
  <2>1. /\ n = 7 /\ t = s /\ c \in Bundles(app) /\ c.parts["auth"] = s["auth"]
        /\ c.parts["pack1"] = b.parts["pack1"] /\ c.parts["pack2"] = b.parts["pack2"]
    BY <1>5, <1>7, <1>8, <1>13, Effects, Written
  <2> HIDE DEF n, b, c, s, t
  <2>2. QED
    BY <1>5, <1>6, <2>1 DEF VikingDone
<1>14. CASE Op(n) = "again"
  <2>1. n = 8 /\ t = s /\ c = b
    BY <1>7, <1>8, <1>14, Effects
  <2> HIDE DEF n, b, c, s, t
  <2>2. QED
    BY <1>5, <2>1 DEF VikingDone
<1>15. CASE Op(n) = "seal"
  <2>1. /\ n = 9 /\ t = s /\ c \in Bundles(app) /\ c.parts = b.parts
        /\ \A r \in Parts(app) : c.seal[r] = b.parts[r]
    BY <1>5, <1>7, <1>8, <1>15, Effects, Written
  <2> HIDE DEF n, b, c, s, t
  <2>2. QED
    BY <1>5, <1>6, <2>1 DEF VikingDone
<1>16. CASE Op(n) \in {"drop", "retire"}
  <2>1. n \in {10, 11} /\ t = s /\ c = b
    BY <1>7, <1>8, <1>16, Effects
  <2> HIDE DEF n, b, c, s, t
  <2>2. QED
    BY <1>5, <2>1 DEF VikingDone
<1>17. QED
  BY <1>5, <1>8, <1>9, <1>10, <1>11, <1>12, <1>13, <1>14, <1>15, <1>16

(* VictoriaMetrics: the native snapshot, then its copy.                       *)
LEMMA MetricsWork ==
  ASSUME Apart, Types, WorkInv, NEW p \in Procs, Do(p), InBody(p), app = "metrics",
         pc'[p] = pc[p] + 1, pc'[p] < End
  PROVE  MetricsDone(pc[p] + 1, Bundle(p)', remote'[p])
<1> DEFINE n == pc[p]
           b == Bundle(p)
           c == Bundle(p)'
           m == remote[p]
           l == remote'[p]
<1> SUFFICES MetricsDone(n + 1, c, l)
  OBVIOUS
<1>1. MetricsTable
  BY MetricsSteps
<1>2. Len(Program(app)) = 11 /\ End = 9 /\ n \in 1..11
  BY <1>1, Goes DEF MetricsTable
<1>3. MetricsDone(n, b, m) /\ Parts(app) = {"data"} /\ Hashed(app) = Parts(app)
  BY DEF WorkInv, Done, Parts, Hashed
<1>4. n \in 1..7
  <2>1. n + 1 < 9
    BY <1>2, Zenon
  <2>2. QED
    BY <1>2, <2>1
<1>5. n \in 1..7 /\ MetricsDone(n, b, m) /\ Parts(app) = {"data"} /\ Hashed(app) = Parts(app)
  BY <1>3, <1>4
<1>6. /\ m \in [Parts(app) -> Nat \ {0}] \cup {None}
      /\ live \in [Parts(app) -> Nat \ {0}] /\ b \in Bundles(app) \cup {None}
      /\ None \notin Bundles(app) /\ None \notin [Parts(app) -> Nat]
  BY Held DEF Types, Apart
<1>7. pc'[p] > 0 /\ pc'[p] < End
  BY <1>5
<1>8. /\ Op(n) = "lock" => n = 1
      /\ Op(n) = "open" => n = 2
      /\ Op(n) = "make" => n = 3
      /\ Op(n) = "fetch" => n = 4 /\ Arg(n) = "data"
      /\ Op(n) = "seal" => n = 5
      /\ Op(n) = "drop" => n = 6
      /\ Op(n) = "retire" => n = 7
      /\ Op(n) \in {"lock", "open", "make", "fetch", "seal", "drop", "retire", "publish",
                    "finally", "close", "tidy"}
      /\ Op(n) \in {"publish", "finally", "close", "tidy"} => n > 7
  BY <1>1, <1>5, SMTT(30) DEF MetricsTable
<1>9. CASE Op(n) = "lock"
  <2>1. n = 1
    BY <1>8, <1>9
  <2>2. QED
    BY <2>1 DEF MetricsDone
<1>10. CASE Op(n) = "open"
  <2>1. n = 2 /\ l = live
    BY <1>7, <1>8, <1>10, Effects, Written
  <2>2. live # None
    BY <1>6
  <2> HIDE DEF n, b, c, m, l
  <2>3. QED
    BY <1>5, <2>1, <2>2 DEF MetricsDone
<1>11. CASE Op(n) = "make"
  <2>1. n = 3 /\ c # None /\ l = m
    BY <1>7, <1>8, <1>11, Effects
  <2> HIDE DEF n, b, c, m, l
  <2>2. QED
    BY <1>5, <2>1 DEF MetricsDone
<1>12. CASE Op(n) = "fetch"
  <2>1. n = 4 /\ l = m /\ c \in Bundles(app) /\ c.parts["data"] = m["data"]
    BY <1>7, <1>8, <1>12, Effects, Written
  <2> HIDE DEF n, b, c, m, l
  <2>2. QED
    BY <1>5, <1>6, <2>1 DEF MetricsDone
<1>13. CASE Op(n) = "seal"
  <2>1. /\ n = 5 /\ l = m /\ c \in Bundles(app) /\ c.parts = b.parts
        /\ c.seal["data"] = b.parts["data"]
    BY <1>5, <1>7, <1>8, <1>13, Effects, Written
  <2> HIDE DEF n, b, c, m, l
  <2>2. QED
    BY <1>5, <1>6, <2>1 DEF MetricsDone
<1>14. CASE Op(n) \in {"drop", "retire"}
  <2>1. n \in {6, 7} /\ l = m /\ c = b
    BY <1>7, <1>8, <1>14, Effects
  <2> HIDE DEF n, b, c, m, l
  <2>2. QED
    BY <1>5, <2>1 DEF MetricsDone
<1>15. QED
  BY <1>5, <1>8, <1>9, <1>10, <1>11, <1>12, <1>13, <1>14

(* Home Assistant: the archive is made, or taken from the last run.           *)
LEMMA HomeWork ==
  ASSUME Apart, Types, WorkInv, NEW p \in Procs, Do(p), InBody(p), app = "home",
         \/ pc'[p] = pc[p] + 1
         \/ Resume(p) /\ retained # None /\ pc'[p] = 6,
         pc'[p] < End
  PROVE  HomeDone(pc[p], Bundle(p), remote[p])'
<1> DEFINE n == pc[p]
           k == pc'[p]
           b == Bundle(p)
           c == Bundle(p)'
           m == remote[p]
           l == remote'[p]
<1>1. HomeTable
  BY HomeSteps
<1>2. Len(Program(app)) = 13 /\ End = 13 /\ n \in 1..13
  BY <1>1, Goes DEF HomeTable
<1>3. HomeDone(n, b, m) /\ Parts(app) = {"tar", "dump"} /\ Hashed(app) = {"tar"}
  BY DEF WorkInv, Done, Parts, Hashed
<1>4. Resume(p) => n = 2
  <2>1. Resume(p) => Op(n) = "resume"
    BY AtOp DEF Resume
  <2>2. QED
    BY <1>1, <1>2, <2>1 DEF HomeTable
<1>5. n \in 1..11 /\ (k = n + 1 \/ (n = 2 /\ k = 6 /\ retained # None))
  <2>1. CASE Resume(p) /\ retained # None /\ k = 6
    BY <1>4, <2>1
  <2>2. CASE k = n + 1
    <3>1. n + 1 < 13
      BY <1>2, <2>2, Zenon
    <3>2. QED
      BY <1>2, <2>2, <3>1
  <2>3. QED
    BY <2>1, <2>2
<1>6. n \in 1..11 /\ HomeDone(n, b, m) /\ Parts(app) = {"tar", "dump"} /\ Hashed(app) = {"tar"}
      /\ (k = n + 1 \/ (n = 2 /\ k = 6 /\ retained # None))
  BY <1>3, <1>5
<1>7. /\ m \in [Parts(app) -> Nat \ {0}] \cup {None}
      /\ live \in [Parts(app) -> Nat \ {0}] /\ b \in Bundles(app) \cup {None}
      /\ None \notin Bundles(app) /\ None \notin [Parts(app) -> Nat]
  BY Held DEF Types, Apart
<1>8. pc'[p] > 0 /\ pc'[p] < End
  BY <1>6
<1>9. /\ Op(n) = "prepare" => n = 1
      /\ Op(n) = "resume" => n = 2
      /\ Op(n) = "open" => n = 3
      /\ Op(n) = "create" => n = 4
      /\ Op(n) = "receive" => n = 5
      /\ Op(n) = "seat" => n = 6
      /\ Op(n) = "seal" => n = 7
      /\ Op(n) = "copy" => n = 8 /\ Arg(n) = "dump"
      /\ Op(n) = "present" => n = 9
      /\ Op(n) = "drop" => n = 10
      /\ Op(n) = "retire" => n = 11
      /\ Op(n) \in {"prepare", "resume", "open", "create", "receive", "seat", "seal", "copy",
                    "present", "drop", "retire", "publish", "finally"}
      /\ Op(n) \in {"publish", "finally"} => n > 11
  BY <1>1, <1>6, SMTT(30) DEF HomeTable
<1>10. SUFFICES /\ k > 1 => c # None
                /\ k = 4 => l # None
                /\ k \in {5, 6} => retained' # None
                /\ k > 6 => c.parts["tar"] > 0
                /\ k > 7 => c.seal["tar"] = c.parts["tar"]
                /\ k > 8 => c.parts["dump"] > 0
  BY <1>6 DEF HomeDone
<1>11. CASE Op(n) = "prepare"
  <2>1. n = 1 /\ c # None
    BY <1>8, <1>9, <1>11, Effects
  <2> HIDE DEF n, k, b, c, m, l
  <2>2. QED
    BY <1>6, <2>1
<1>12. CASE Op(n) = "resume"
  <2>1. n = 2 /\ c = b /\ retained' = retained
    BY <1>8, <1>9, <1>12, Effects
  <2> HIDE DEF n, k, b, c, m, l
  <2>2. QED
    BY <1>6, <2>1 DEF HomeDone
<1>13. CASE Op(n) = "open"
  <2>1. n = 3 /\ c = b /\ l = live
    BY <1>8, <1>9, <1>13, Effects, Written
  <2>2. live # None
    BY <1>7
  <2> HIDE DEF n, k, b, c, m, l
  <2>3. QED
    BY <1>6, <2>1, <2>2 DEF HomeDone
<1>14. CASE Op(n) \in {"create", "receive"}
  <2>1. n \in {4, 5} /\ c = b /\ retained' # None
    BY <1>8, <1>9, <1>14, Effects
  <2> HIDE DEF n, k, b, c, m, l
  <2>2. QED
    BY <1>6, <2>1 DEF HomeDone
<1>15. CASE Op(n) = "seat"
  <2>1. n = 6 /\ c \in Bundles(app) /\ c.parts["tar"] > 0
    BY <1>8, <1>9, <1>15, Effects, Written
  <2> HIDE DEF n, k, b, c, m, l
  <2>2. QED
    BY <1>6, <1>7, <2>1
<1>16. CASE Op(n) = "seal"
  <2>1. n = 7 /\ c \in Bundles(app) /\ c.parts = b.parts /\ c.seal["tar"] = b.parts["tar"]
    BY <1>6, <1>8, <1>9, <1>16, Effects, Written
  <2> HIDE DEF n, k, b, c, m, l
  <2>2. QED
    BY <1>6, <1>7, <2>1 DEF HomeDone
<1>17. CASE Op(n) = "copy"
  <2>1. /\ n = 8 /\ c \in Bundles(app) /\ c.parts["dump"] = live["dump"]
        /\ c.parts["tar"] = b.parts["tar"] /\ c.seal = b.seal
    BY <1>6, <1>8, <1>9, <1>17, Effects, Written
  <2> HIDE DEF n, k, b, c, m, l
  <2>2. QED
    BY <1>6, <1>7, <2>1 DEF HomeDone
<1>18. CASE Op(n) \in {"present", "drop", "retire"}
  <2>1. n \in {9, 10, 11} /\ c = b
    BY <1>8, <1>9, <1>18, Effects
  <2> HIDE DEF n, k, b, c, m, l
  <2>2. QED
    BY <1>6, <2>1 DEF HomeDone
<1>19. QED
  BY <1>6, <1>9, <1>11, <1>12, <1>13, <1>14, <1>15, <1>16, <1>17, <1>18

(* Every step keeps what each process has done.                               *)
LEMMA OwnWork ==
  ASSUME Apart, Types, WorkInv, NEW p \in Procs, Do(p), pc'[p] > 1, pc'[p] < End
  PROVE  Done(pc[p], Bundle(p), seen[p], remote[p])'
<1>1. /\ app' = app /\ app \in AllApps /\ live' = live /\ Shape
      /\ pc \in [Procs -> 0..Len(Program(app))]
  BY DoFrame, Shapes DEF Types
<1>2. /\ InBody(p)
      /\ \/ pc'[p] = pc[p] + 1
         \/ app = "home" /\ Resume(p) /\ retained # None /\ pc'[p] = 6
  <2>1. Leave(p) \/ Busy(p) => pc'[p] = 0
    BY <1>1 DEF Leave, Busy
  <2>2. QED
    BY <1>1, <2>1, Goes DEF Shape
<1>3. CASE app = "home"
  BY <1>1, <1>2, <1>3, HomeWork DEF Done
<1>4. CASE app = "stash"
  <2>1. pc'[p] = pc[p] + 1
    BY <1>2, <1>4
  <2>2. StashDone(pc'[p], Bundle(p)', seen'[p])
    BY <1>2, <1>4, <2>1, StashWork
  <2>3. StashDone(pc[p], Bundle(p), seen[p])'
    BY <1>1, <2>2 DEF StashDone, Saw, Moment
  <2>4. QED
    BY <1>1, <1>4, <2>3 DEF Done
<1>5. CASE app = "tube"
  <2>1. pc'[p] = pc[p] + 1
    BY <1>2, <1>5
  <2>2. TubeDone(pc'[p], Bundle(p)', seen'[p], remote'[p])
    BY <1>2, <1>5, <2>1, TubeWork
  <2>3. TubeDone(pc[p], Bundle(p), seen[p], remote[p])'
    BY <1>1, <2>2 DEF TubeDone, Saw, Moment
  <2>4. QED
    BY <1>1, <1>5, <2>3 DEF Done
<1>6. CASE app = "viking"
  <2>1. pc'[p] = pc[p] + 1
    BY <1>2, <1>6
  <2>2. VikingDone(pc'[p], Bundle(p)', seen'[p])
    BY <1>2, <1>6, <2>1, VikingWork
  <2>3. QED
    BY <1>1, <1>6, <2>2 DEF Done, VikingDone
<1>7. CASE app = "metrics"
  <2>1. pc'[p] = pc[p] + 1
    BY <1>2, <1>7
  <2>2. MetricsDone(pc'[p], Bundle(p)', remote'[p])
    BY <1>2, <1>7, <2>1, MetricsWork
  <2>3. QED
    BY <1>1, <1>7, <2>2 DEF Done, MetricsDone
<1>8. QED
  BY <1>1, <1>3, <1>4, <1>5, <1>6, <1>7 DEF AllApps

(* With the frame of the other processes, the whole of WorkInv.               *)
LEMMA WorkStep ==
  ASSUME Apart, Types, WorkInv, Alone, [Next]_vars
  PROVE  WorkInv'
<1>1. Types' /\ app \in AllApps /\ app' = app /\ End' = End /\ Bundles(app)' = Bundles(app)
  BY TypesStep, SameApp, SameHook DEF Types, vars
<1> SUFFICES ASSUME NEW r \in Procs PROVE Done(pc[r], Bundle(r), seen[r], remote[r])'
  BY DEF WorkInv
<1>2. CASE pc'[r] <= 1 \/ pc'[r] >= End
  <2>1. pc'[r] \in Nat
    BY <1>1 DEF Types
  <2>2. QED
    BY <1>1, <1>2, <2>1, Vacuous
<1>3. ASSUME pc'[r] = pc[r], seen'[r] = seen[r], remote'[r] = remote[r], Bundle(r)' = Bundle(r),
             \A q \in Parts(app) : live[q] <= live'[q], app = "home" => retained' = retained
      PROVE  Done(pc[r], Bundle(r), seen[r], remote[r])'
  <2>1. /\ live \in [Parts(app) -> Nat \ {0}] /\ live' \in [Parts(app) -> Nat \ {0}]
        /\ pc[r] \in Nat /\ Bundle(r) \in Bundles(app) \cup {None}
        /\ seen[r] \in [Parts(app) -> Nat] /\ Done(pc[r], Bundle(r), seen[r], remote[r])
    BY <1>1, Held DEF Types, WorkInv
  <2> DEFINE n == pc[r]
             b == Bundle(r)
             s == seen[r]
             m == remote[r]
  <2>2. ASSUME NEW n1 \in Nat, NEW b1 \in Bundles(app) \cup {None}, NEW s1 \in [Parts(app) -> Nat],
               NEW m1, Done(n1, b1, s1, m1)
        PROVE  Done(n1, b1, s1, m1)'
    BY <1>1, <1>3, <2>1, <2>2, DoneKept
  <2>3. QED
    BY <1>1, <1>3, <2>1, <2>2
<1>4. CASE UNCHANGED vars
  BY <1>1, <1>3, <1>4, SameHook DEF vars, Bundle, Types
<1>5. ASSUME NEW q \in Parts(app), Change(q) PROVE Done(pc[r], Bundle(r), seen[r], remote[r])'
  BY <1>1, <1>3, <1>5, ChangeFrame, SameHook DEF Bundle
<1>6. ASSUME NEW p \in Procs, Start(p), pc'[r] > 1
      PROVE  Done(pc[r], Bundle(r), seen[r], remote[r])'
  <2>1. r # p
    BY <1>6, StartFrame DEF Types
  <2>2. \A x \in Parts(app) : live[x] <= live'[x]
    BY <1>6, StartFrame DEF Types
  <2>3. pc'[r] = pc[r] /\ seen'[r] = seen[r] /\ remote'[r] = remote[r] /\ retained' = retained
        /\ pending' = pending
    BY <1>6, <2>1, StartFrame DEF Types
  <2>4. QED
    BY <1>1, <1>3, <2>2, <2>3, SameHook DEF Bundle
<1>7. ASSUME NEW p \in Procs, Do(p) \/ Fail(p) \/ Kill(p), r # p, pc'[r] > 1, pc'[r] < End
      PROVE  Done(pc[r], Bundle(r), seen[r], remote[r])'
  <2>1. /\ pc'[r] = pc[r] /\ seen'[r] = seen[r] /\ remote'[r] = remote[r]
        /\ Bundle(r)' = Bundle(r) /\ app # "home" /\ live' = live
    BY <1>7, OtherWork
  <2>2. \A x \in Parts(app) : live[x] <= live'[x]
    BY <2>1 DEF Types
  <2>3. QED
    BY <1>3, <2>1, <2>2
<1>8. ASSUME Fail(r) \/ Kill(r) PROVE pc'[r] <= 1 \/ pc'[r] >= End
  <2>1. End \in Nat
    BY <1>1, Shapes DEF Shape
  <2>2. pc'[r] = 0 \/ pc'[r] = End
    BY <1>8, FaultFrame DEF Types
  <2>3. QED
    BY <2>1, <2>2
<1>9. QED
  <2>1. End \in Nat /\ pc'[r] \in Nat
    BY <1>1, Shapes DEF Shape, Types
  <2>2. CASE pc'[r] > 1 /\ pc'[r] < End
    BY <1>4, <1>5, <1>6, <1>7, <1>8, <2>1, <2>2, OwnWork DEF Next
  <2>3. QED
    BY <1>2, <2>1, <2>2

(* A bundle that is moved into place is good.                                 *)
LEMMA Rotating ==
  ASSUME Apart, Types, WorkInv, NEW p \in Procs, pc[p] > 0,
         Op(pc[p]) \in {"drop", "retire", "publish"}
  PROVE  Good(Bundle(p)) /\ Bundle(p) # None
<1> DEFINE n == pc[p]
           b == Bundle(p)
<1> SUFFICES b # None /\ Good(b)
  OBVIOUS
<1>1. app \in AllApps /\ n \in 1..Len(Program(app)) /\ Len(Program(app)) \in Nat
  BY Shapes DEF Types, Shape
<1>2. b \in Bundles(app) \cup {None} /\ Done(n, b, seen[p], remote[p])
  BY Held DEF WorkInv
<1>3. live \in [Parts(app) -> Nat \ {0}]
  BY DEF Types
<1>4. CASE app = "stash"
  <2>1. n \in 16..18
    <3>1. StashTable /\ n \in 1..Len(Program(app))
      BY <1>1, <1>4, StashSteps
    <3>2. QED
      BY <3>1, SMTT(30) DEF StashTable
  <2>2. StashDone(n, b, seen[p]) /\ Parts(app) = {"db", "config", "blobs", "plugins"}
        /\ Hashed(app) = Parts(app) /\ Linked(app) = Parts(app)
    BY <1>2, <1>4 DEF Done, Parts, Hashed, Linked
  <2> HIDE DEF n, b
  <2>3. /\ b # None /\ Moment(b)
        /\ \A q \in Parts(app) : b.parts[q] = b.at[q] /\ b.seal[q] = b.parts[q]
    BY <2>1, <2>2 DEF StashDone
  <2>4. b.parts \in [Parts(app) -> Nat] /\ b.at \in [Parts(app) -> Nat]
    BY <1>2, <2>3 DEF Bundles
  <2>5. QED
    BY <2>2, <2>3, <2>4 DEF Good, Whole, Matches, Moment
<1>5. CASE app = "tube"
  <2>1. n \in 9..11
    <3>1. TubeTable /\ n \in 1..Len(Program(app))
      BY <1>1, <1>5, TubeSteps
    <3>2. QED
      BY <3>1, SMTT(30) DEF TubeTable
  <2>2. TubeDone(n, b, seen[p], remote[p]) /\ Parts(app) = {"schema", "docs"}
        /\ Hashed(app) = {"docs"} /\ Linked(app) = Parts(app)
    BY <1>2, <1>5 DEF Done, Parts, Hashed, Linked
  <2> HIDE DEF n, b
  <2>3. /\ b # None /\ Moment(b) /\ b.seal["docs"] = b.parts["docs"]
        /\ b.parts["docs"] = b.at["docs"] /\ b.parts["schema"] = b.at["schema"]
    BY <2>1, <2>2 DEF TubeDone
  <2>4. b.parts \in [Parts(app) -> Nat] /\ b.at \in [Parts(app) -> Nat]
    BY <1>2, <2>3 DEF Bundles
  <2>5. QED
    BY <2>2, <2>3, <2>4 DEF Good, Whole, Matches, Moment
<1>6. CASE app = "viking"
  <2>1. n \in 10..12
    <3>1. VikingTable /\ n \in 1..Len(Program(app))
      BY <1>1, <1>6, VikingSteps
    <3>2. QED
      BY <3>1, SMTT(30) DEF VikingTable
  <2>2. VikingDone(n, b, seen[p]) /\ Parts(app) = {"pack1", "pack2", "auth"}
        /\ Hashed(app) = Parts(app) /\ Linked(app) = {}
    BY <1>2, <1>6 DEF Done, Parts, Hashed, Linked
  <2> HIDE DEF n, b
  <2>3. QED
    BY <2>1, <2>2 DEF Good, Whole, Matches, VikingDone
<1>7. CASE app = "metrics"
  <2>1. n \in 6..8
    <3>1. MetricsTable /\ n \in 1..Len(Program(app))
      BY <1>1, <1>7, MetricsSteps
    <3>2. QED
      BY <3>1, SMTT(30) DEF MetricsTable
  <2>2. MetricsDone(n, b, remote[p]) /\ Parts(app) = {"data"}
        /\ Hashed(app) = Parts(app) /\ Linked(app) = {}
    BY <1>2, <1>7 DEF Done, Parts, Hashed, Linked
  <2> HIDE DEF n, b
  <2>3. QED
    BY <2>1, <2>2 DEF Good, Whole, Matches, MetricsDone
<1>8. CASE app = "home"
  <2>1. n \in 10..12
    <3>1. HomeTable /\ n \in 1..Len(Program(app))
      BY <1>1, <1>8, HomeSteps
    <3>2. QED
      BY <3>1, SMTT(30) DEF HomeTable
  <2>2. HomeDone(n, b, remote[p]) /\ Parts(app) = {"tar", "dump"}
        /\ Hashed(app) = {"tar"} /\ Linked(app) = {}
    BY <1>2, <1>8 DEF Done, Parts, Hashed, Linked
  <2> HIDE DEF n, b
  <2>3. QED
    BY <2>1, <2>2 DEF Good, Whole, Matches, HomeDone
<1>9. QED
  BY <1>1, <1>4, <1>5, <1>6, <1>7, <1>8 DEF AllApps

(* Two processes are not both rotating the generations.                       *)
LEMMA Single ==
  ASSUME Types, Alone, NEW p \in Procs, NEW r \in Procs, pc[p] > 0, pc[r] > 0,
         Op(pc[p]) \in {"drop", "retire", "publish"}, Op(pc[r]) \in {"drop", "retire", "publish"}
  PROVE  p = r
<1>1. ASSUME NEW s \in Procs, pc[s] > 0, Op(pc[s]) \in {"drop", "retire", "publish"}
      PROVE  InBody(s) /\ (Locked => pc[s] > 1)
  <2>1. Shape /\ pc[s] \in 1..Len(Program(app)) /\ Len(Program(app)) \in Nat
    BY <1>1, Shapes DEF Types, Shape
  <2>2. ~(pc[s] >= End) /\ (Locked => pc[s] # 1)
    BY <1>1, <2>1 DEF Shape
  <2>3. QED
    BY <1>1, <2>1, <2>2, AtOp DEF Shape
<1>2. QED
  BY <1>1 DEF Alone

(* Where the generations and what a process has open change.                  *)
LEMMA Ledger ==
  ASSUME NEW p \in Procs, Do(p)
  PROVE  /\ Op(pc[p]) \notin {"drop", "retire", "publish"} =>
              UNCHANGED <<current, previous, published>>
         /\ Op(pc[p]) \notin {"open", "close"} => UNCHANGED <<remote, open, unclosed>>
         /\ litter' => litter
<1> USE DEF staging, disk, source, generations, run, server, ledger
<1>1. Op(pc[p]) \notin {"drop", "retire", "publish"} => UNCHANGED <<current, previous, published>>
  <2>1. Lock(p) \/ Busy(p) \/ Unmark(p) \/ Sweep(p) \/ Make(p) \/ Prepare(p) \/ Anchor(p)
          => UNCHANGED <<current, previous, published>>
    BY DEF Lock, Busy, Unmark, Sweep, Make, Prepare, Anchor
  <2>2. Look(p) \/ Copy(p) \/ Write(p) \/ Fetch(p) \/ Open(p) \/ Again(p) \/ Seal(p)
          => UNCHANGED <<current, previous, published>>
    BY DEF Look, Copy, Write, Fetch, Open, Again, Seal
  <2>3. Resume(p) \/ Create(p) \/ Receive(p) \/ Seat(p) \/ Present(p) \/ Mark(p)
          => UNCHANGED <<current, previous, published>>
    BY DEF Resume, Create, Receive, Seat, Present, Mark
  <2>4. Finally(p) \/ Close(p) \/ Tidy(p) => UNCHANGED <<current, previous, published>>
    BY DEF Finally, Close, Tidy
  <2>5. Drop(p) \/ Retire(p) \/ Publish(p) => Op(pc[p]) \in {"drop", "retire", "publish"}
    BY AtOp DEF Drop, Retire, Publish
  <2>6. QED
    BY <2>1, <2>2, <2>3, <2>4, <2>5 DEF Do
<1>2. Op(pc[p]) \notin {"open", "close"} => UNCHANGED <<remote, open, unclosed>>
  <2>1. Lock(p) \/ Busy(p) \/ Unmark(p) \/ Sweep(p) \/ Make(p) \/ Prepare(p) \/ Anchor(p)
          => UNCHANGED <<remote, open, unclosed>>
    BY DEF Lock, Busy, Unmark, Sweep, Make, Prepare, Anchor
  <2>2. Look(p) \/ Copy(p) \/ Write(p) \/ Fetch(p) \/ Again(p) \/ Seal(p) => UNCHANGED <<remote, open, unclosed>>
    BY DEF Look, Copy, Write, Fetch, Again, Seal
  <2>3. Resume(p) \/ Create(p) \/ Receive(p) \/ Seat(p) \/ Present(p) => UNCHANGED <<remote, open, unclosed>>
    BY DEF Resume, Create, Receive, Seat, Present
  <2>4. Drop(p) \/ Retire(p) \/ Publish(p) \/ Mark(p) \/ Finally(p) \/ Tidy(p) => UNCHANGED <<remote, open, unclosed>>
    BY DEF Drop, Retire, Publish, Mark, Finally, Tidy
  <2>5. Open(p) \/ Close(p) => Op(pc[p]) \in {"open", "close"}
    BY AtOp DEF Open, Close
  <2>6. QED
    BY <2>1, <2>2, <2>3, <2>4, <2>5 DEF Do
<1>3. litter' => litter
  <2>1. Lock(p) \/ Busy(p) \/ Unmark(p) \/ Make(p) \/ Prepare(p) \/ Anchor(p) => UNCHANGED litter
    BY DEF Lock, Busy, Unmark, Make, Prepare, Anchor
  <2>2. Look(p) \/ Copy(p) \/ Write(p) \/ Fetch(p) \/ Open(p) \/ Again(p) \/ Seal(p)
          => UNCHANGED litter
    BY DEF Look, Copy, Write, Fetch, Open, Again, Seal
  <2>3. Resume(p) \/ Create(p) \/ Receive(p) \/ Seat(p) \/ Present(p) \/ Drop(p)
          => UNCHANGED litter
    BY DEF Resume, Create, Receive, Seat, Present, Drop
  <2>4. Retire(p) \/ Publish(p) \/ Mark(p) \/ Finally(p) \/ Close(p) \/ Tidy(p)
          => UNCHANGED litter
    BY DEF Retire, Publish, Mark, Finally, Close, Tidy
  <2>5. Sweep(p) => UNCHANGED litter \/ litter' = FALSE
    BY DEF Sweep
  <2>6. QED
    BY <2>1, <2>2, <2>3, <2>4, <2>5 DEF Do
<1>4. QED
  BY <1>1, <1>2, <1>3

(* Every step keeps a whole bundle on the volume, as far as KeepInv says.     *)
LEMMA KeepStep ==
  ASSUME Apart, Types, WorkInv, Alone, KeepInv, [Next]_vars
  PROVE  KeepInv'
<1> DEFINE Publishing == \E r \in Procs : pc[r] > 0 /\ Op(pc[r]) = "publish"
           Retiring == \E r \in Procs : pc[r] > 0 /\ Op(pc[r]) = "retire"
           Pub == \E r \in Procs : pc'[r] > 0 /\ Op(pc'[r]) = "publish"
           Ret == \E r \in Procs : pc'[r] > 0 /\ Op(pc'[r]) = "retire"
<1>1. /\ app' = app /\ Shape /\ pc \in [Procs -> 0..Len(Program(app))] /\ faults \in Nat
      /\ Len(Program(app)) \in Nat /\ Types'
  BY SameApp, Shapes, TypesStep DEF Types, Shape, vars
<1>2. /\ \A i : Op(i)' = Op(i)
      /\ Whole(current)' <=> Whole(current')
      /\ Whole(previous)' <=> Whole(previous')
      /\ Good(current)' <=> Good(current')
  BY <1>1, SameHook DEF Whole, Good, Matches
<1>3. /\ \A r \in Procs : At(r, "publish") <=> pc[r] > 0 /\ Op(pc[r]) = "publish"
      /\ \A r \in Procs : At(r, "retire") <=> pc[r] > 0 /\ Op(pc[r]) = "retire"
  BY AtOp
<1>4. /\ \A r \in Procs : At(r, "publish")' <=> pc'[r] > 0 /\ Op(pc'[r]) = "publish"
      /\ \A r \in Procs : At(r, "retire")' <=> pc'[r] > 0 /\ Op(pc'[r]) = "retire"
  BY <1>1 DEF At, Step, Op
<1>5. SUFFICES /\ current' # None => Good(current')
               /\ published' /\ faults' = 0 => Whole(current') \/ (Whole(previous') /\ Pub)
               /\ published' /\ faults' <= 1 => Whole(current') \/ Whole(previous') \/ Ret \/ Pub
  BY <1>2, <1>4 DEF KeepInv
<1>6. /\ current # None => Good(current)
      /\ published /\ faults = 0 => Whole(current) \/ (Whole(previous) /\ Publishing)
      /\ published /\ faults <= 1 => Whole(current) \/ Whole(previous) \/ Retiring \/ Publishing
  BY <1>3 DEF KeepInv
<1>7. CASE UNCHANGED <<current, previous, published, faults>> /\ (Publishing => Pub)
           /\ (Retiring => Ret)
  BY <1>6, <1>7
<1>8. CASE UNCHANGED vars
  BY <1>7, <1>8 DEF vars
<1>9. ASSUME NEW q \in Parts(app), Change(q)
      PROVE  UNCHANGED <<current, previous, published, faults>> /\ (Publishing => Pub)
             /\ (Retiring => Ret)
  BY <1>9, ChangeFrame
<1>10. ASSUME NEW p \in Procs, Start(p)
       PROVE  UNCHANGED <<current, previous, published, faults>> /\ (Publishing => Pub)
              /\ (Retiring => Ret)
  <2>1. UNCHANGED <<current, previous, published, faults>> /\ pc[p] = 0
        /\ \A r \in Procs : r # p => pc'[r] = pc[r]
    BY <1>1, <1>10, StartFrame
  <2>2. QED
    BY <2>1
<1>11. ASSUME NEW p \in Procs, Fail(p) \/ Kill(p)
       PROVE  /\ current' # None => Good(current')
              /\ published' /\ faults' = 0 => Whole(current') \/ (Whole(previous') /\ Pub)
              /\ published' /\ faults' <= 1 => Whole(current') \/ Whole(previous') \/ Ret \/ Pub
  <2>1. /\ UNCHANGED <<current, published>> /\ faults' = faults + 1 /\ pc[p] > 0
        /\ previous' = previous \/ (pc[p] > 0 /\ Op(pc[p]) = "drop")
    BY <1>11, FaultFrame, AtOp
  <2>2. Publishing => previous' = previous
    BY <2>1, Single
  <2>3. faults' # 0 /\ (faults' <= 1 => faults = 0)
    BY <1>1, <2>1
  <2>4. QED
    BY <1>6, <2>1, <2>2, <2>3
<1>12. ASSUME NEW p \in Procs, Do(p), Op(pc[p]) \notin {"drop", "retire", "publish"}
       PROVE  UNCHANGED <<current, previous, published, faults>> /\ (Publishing => Pub)
              /\ (Retiring => Ret)
  <2>1. UNCHANGED <<current, previous, published>> /\ faults' = faults
        /\ \A r \in Procs : r # p => pc'[r] = pc[r]
    BY <1>12, Ledger, DoFrame
  <2>2. QED
    BY <1>12, <2>1
<1>13. ASSUME NEW p \in Procs, Do(p), Op(pc[p]) \in {"drop", "retire", "publish"}
       PROVE  /\ current' # None => Good(current')
              /\ published' /\ faults' = 0 => Whole(current') \/ (Whole(previous') /\ Pub)
              /\ published' /\ faults' <= 1 => Whole(current') \/ Whole(previous') \/ Ret \/ Pub
  <2>1. /\ pc[p] \in 1..Len(Program(app)) /\ pc[p] > 0 /\ faults' = faults
        /\ Good(Bundle(p)) /\ Whole(Bundle(p))
    BY <1>13, Goes, DoFrame, Rotating DEF Good
  <2>2. \A r \in Procs : pc[r] > 0 /\ Op(pc[r]) \in {"drop", "retire", "publish"} => r = p
    BY <1>13, <2>1, Single
  <2>3. pc[p] + 1 > 0
    BY <2>1
  <2>4. CASE Op(pc[p]) = "drop"
    <3>1. Drop(p)
      BY <1>13, <2>4, Act
    <3>2. current' = current /\ published' = published /\ pc'[p] = pc[p] + 1
      BY <1>1, <3>1 DEF Drop, Forward, ledger
    <3>3. Ret
      BY <1>1, <2>1, <2>3, <2>4, <3>2 DEF Shape
    <3>4. ~Publishing
      BY <2>2, <2>4
    <3>5. QED
      BY <1>6, <2>1, <3>2, <3>3, <3>4
  <2>5. CASE Op(pc[p]) = "retire"
    <3>1. Retire(p)
      BY <1>13, <2>5, Act
    <3>2. /\ published' = published /\ pc'[p] = pc[p] + 1
          /\ current = None => current' = current /\ previous' = previous
          /\ current # None => previous' = current /\ current' = None
      BY <1>1, <3>1 DEF Retire, Forward, ledger
    <3>3. Pub
      BY <1>1, <2>1, <2>3, <2>5, <3>2 DEF Shape
    <3>4. ~Publishing
      BY <2>2, <2>5
    <3>5. Whole(current) => current # None
      BY DEF Whole
    <3>6. QED
      BY <1>6, <2>1, <3>2, <3>3, <3>4, <3>5
  <2>6. CASE Op(pc[p]) = "publish"
    <3>1. Publish(p)
      BY <1>13, <2>6, Act
    <3>2. current' = Bundle(p)
      BY <3>1 DEF Publish
    <3>3. QED
      BY <2>1, <3>2
  <2>7. QED
    BY <1>13, <2>4, <2>5, <2>6
<1>14. QED
  <2> HIDE DEF Publishing, Retiring, Pub, Ret
  <2>1. ASSUME NEW p \in Procs, Do(p)
        PROVE  /\ current' # None => Good(current')
               /\ published' /\ faults' = 0 => Whole(current') \/ (Whole(previous') /\ Pub)
               /\ published' /\ faults' <= 1 => Whole(current') \/ Whole(previous') \/ Ret \/ Pub
    BY <1>7, <1>12, <1>13, <2>1
  <2>2. QED
    BY <1>7, <1>8, <1>9, <1>10, <1>11, <2>1 DEF Next

(* Where a hook opens and closes.                                             *)
LEMMA Span ==
  ASSUME Types, Serves
  PROVE  /\ Len(Program(app)) \in Nat /\ Lo \in Nat /\ Hi \in Nat /\ 2 < Lo
         /\ End \in Nat /\ Lo <= End /\ Hi = End + 1 /\ Hi <= Len(Program(app))
         /\ Op(End) = "finally"
         /\ \A i \in 1..Len(Program(app)) : /\ Op(i) = "open" => i + 1 = Lo
                                            /\ Op(i) = "close" <=> i = Hi
<1>1. CASE app = "tube"
  <2>1. TubeTable /\ Lo = 5 /\ Hi = 13 /\ Shape
    BY <1>1, TubeSteps, Shapes DEF Lo, Hi, Types
  <2>2. \A i \in 1..13 : Op(i) = "open" => i = 4
    BY <2>1, SMTT(30) DEF TubeTable
  <2>3. \A i \in 1..13 : Op(i) = "close" => i = 13
    BY <2>1, SMTT(30) DEF TubeTable
  <2>4. Op(13) = "close"
    <3>1. Op(13) \in {"finally", "close", "tidy"}
      BY <2>1, SMTT(30) DEF TubeTable, Shape
    <3>2. Op(13) # "finally" /\ Op(13) # "tidy"
      BY <2>1, SMTT(30) DEF TubeTable
    <3>3. QED
      BY <3>1, <3>2
  <2>5. Op(12) = "finally"
    <3>1. Op(12) \in {"finally", "close", "tidy"}
      BY <2>1, SMTT(30) DEF TubeTable, Shape
    <3>2. Op(12) # "close" /\ Op(12) # "tidy"
      BY <2>1, SMTT(30) DEF TubeTable
    <3>3. QED
      BY <3>1, <3>2
  <2>6. QED
    BY <2>1, <2>2, <2>3, <2>4, <2>5 DEF TubeTable
<1>2. CASE app = "metrics"
  <2>1. MetricsTable /\ Lo = 3 /\ Hi = 10 /\ Shape
    BY <1>2, MetricsSteps, Shapes DEF Lo, Hi, Types
  <2>2. \A i \in 1..11 : Op(i) = "open" => i = 2
    BY <2>1, SMTT(30) DEF MetricsTable
  <2>3. \A i \in 1..11 : Op(i) = "close" => i = 10
    BY <2>1, SMTT(30) DEF MetricsTable
  <2>4. Op(10) = "close"
    <3>1. Op(10) \in {"finally", "close", "tidy"}
      BY <2>1, SMTT(30) DEF MetricsTable, Shape
    <3>2. Op(10) # "finally" /\ Op(10) # "tidy"
      BY <2>1, SMTT(30) DEF MetricsTable
    <3>3. QED
      BY <3>1, <3>2
  <2>5. Op(9) = "finally"
    <3>1. Op(9) \in {"finally", "close", "tidy"}
      BY <2>1, SMTT(30) DEF MetricsTable, Shape
    <3>2. Op(9) # "close" /\ Op(9) # "tidy"
      BY <2>1, SMTT(30) DEF MetricsTable
    <3>3. QED
      BY <3>1, <3>2
  <2>6. QED
    BY <2>1, <2>2, <2>3, <2>4, <2>5 DEF MetricsTable
<1>3. QED
  BY <1>1, <1>2 DEF Serves

(* A step of a hook that has nothing open but its open opens nothing, and one *)
(* that has something open is on its way to the close.                        *)
LEMMA HoldsOwn ==
  ASSUME Types, Serves, NEW p \in Procs, Do(p), Holds(p) => pc[p] \in Lo..Hi
  PROVE  /\ Op(pc[p]) = "open" => ~Holds(p) /\ pc'[p] = Lo
         /\ Op(pc[p]) = "close" => remote'[p] = None
         /\ Op(pc[p]) \notin {"open", "close"} =>
              (pc'[p] > 0 /\ remote'[p] # None <=> Holds(p))
         /\ pc'[p] > 0 /\ remote'[p] # None => pc'[p] \in Lo..Hi
<1>1. /\ pc \in [Procs -> 0..Len(Program(app))] /\ Shape /\ app # "home"
      /\ remote \in [Procs -> [Parts(app) -> Nat \ {0}] \cup {None}]
      /\ pc[p] \in 1..Len(Program(app)) /\ pc[p] > 0
  BY Shapes, Goes DEF Types, Serves
<1>2. Op(pc[p]) = "close" => remote'[p] = None
  BY <1>1, Act DEF Close
<1>3. Op(pc[p]) = "open" => ~Holds(p) /\ pc'[p] = Lo
  <2>1. ASSUME Op(pc[p]) = "open" PROVE pc'[p] = pc[p] + 1 /\ pc[p] + 1 = Lo
    BY <1>1, <2>1, Act, Span DEF Open, Forward
  <2>2. Op(pc[p]) = "open" => ~(pc[p] \in Lo..Hi)
    BY <1>1, <2>1, Span
  <2>3. QED
    BY <1>1, <2>1, <2>2
<1>4. ASSUME Holds(p), Op(pc[p]) # "close" PROVE pc'[p] \in Lo..Hi /\ pc'[p] > 0
  <2>1. pc[p] \in Lo..Hi /\ pc[p] # Hi
    BY <1>1, <1>4, Span
  <2>2. ~Busy(p)
    <3>1. Busy(p) => Op(pc[p]) = "lock"
      BY AtOp DEF Busy
    <3>2. Op(pc[p]) = "lock" => pc[p] = 1
      BY <1>1 DEF Shape
    <3>3. QED
      BY <2>1, <3>1, <3>2, Span
  <2>3. pc[p] # Len(Program(app))
    BY <2>1, Span
  <2>4. pc' = [pc EXCEPT ![p] = pc[p] + 1] \/ pc' = [pc EXCEPT ![p] = End]
    BY <1>1, <2>2, <2>3, Goes, Zenon
  <2>5. pc'[p] = pc[p] + 1 \/ pc'[p] = End
    BY <1>1, <2>4
  <2>6. QED
    BY <2>1, <2>5, Span
<1>5. Op(pc[p]) \notin {"open", "close"} => remote' = remote
  BY Ledger
<1>6. Holds(p) <=> remote[p] # None
  BY <1>1 DEF Holds
<1>7. pc'[p] > 0 /\ remote'[p] # None => pc'[p] \in Lo..Hi
  <2>1. CASE Op(pc[p]) = "open"
    BY <1>3, <2>1, Span
  <2>2. CASE Op(pc[p]) # "open"
    BY <1>2, <1>4, <1>5, <1>6, <2>2
  <2>3. QED
    BY <2>1, <2>2
<1>8. QED
  BY <1>2, <1>3, <1>4, <1>5, <1>6, <1>7

(* While a hook with a lock holds something open, so does it hold the lock.   *)
LEMMA HoldsLock ==
  ASSUME Apart, Types, WorkInv, Alone, OpenInv, app = "metrics", NEW p \in Procs, Do(p),
         NEW r \in Procs, pc'[r] > 0, remote'[r] # None
  PROVE  lock' = r
<1>1. /\ Serves /\ Locked /\ Shape /\ None \notin Procs
      /\ pc \in [Procs -> 0..Len(Program(app))] /\ pc[p] \in 1..Len(Program(app)) /\ pc[p] > 0
      /\ \A q \in Procs : Holds(q) => pc[q] \in Lo..Hi /\ lock = q
  BY Shapes, Goes DEF Serves, Locked, OpenInv, Apart, Types
<1>2. Leave(p) => pc'[p] = 0 /\ (lock # p => lock' = lock)
  BY <1>1 DEF Leave
<1>3. CASE r # p
  <2>1. Holds(r)
    BY <1>1, <1>3, DoFrame DEF Holds
  <2>2. QED
    BY <1>1, <1>2, <1>3, <2>1, LockMoves
<1>4. CASE r = p
  <2>1. lock = p /\ pc[p] # 1
    <3>1. CASE Op(pc[p]) = "open"
      <4>1. pc[p] + 1 = Lo /\ Lo > 2
        BY <1>1, <3>1, Span
      <4>2. InBody(p)
        BY <1>1, <3>1, AtOp, Goes DEF Shape
      <4>3. QED
        BY <1>1, <4>1, <4>2 DEF Alone
    <3>2. CASE Op(pc[p]) # "open"
      <4>1. Holds(p)
        BY <1>1, <1>4, <3>2, HoldsOwn
      <4>2. QED
        BY <1>1, <4>1, Span
    <3>3. QED
      BY <3>1, <3>2
  <2>2. QED
    BY <1>2, <1>4, <2>1, LockMoves
<1>5. QED
  BY <1>3, <1>4

(* A hook that opens is the only one that may have something open.            *)
LEMMA OpensAlone ==
  ASSUME Types, Alone, OpenInv, Serves, NEW p \in Procs, pc[p] > 0, Op(pc[p]) = "open",
         NEW r \in Procs
  PROVE  ~Holds(r)
<1>1. /\ Shape /\ pc[p] \in 1..Len(Program(app)) /\ pc[p] + 1 = Lo /\ Lo > 2
      /\ Lo \in Nat /\ Hi \in Nat
  BY Shapes, Span DEF Types
<1>2. ~Holds(p)
  BY <1>1 DEF OpenInv
<1>3. InBody(p) /\ pc[p] > 1
  BY <1>1, AtOp DEF Shape
<1>4. CASE app = "metrics"
  BY <1>2, <1>3, <1>4 DEF Alone, Locked, OpenInv
<1>5. CASE app = "tube"
  BY <1>2, <1>5 DEF Alone, Locked, Holds
<1>6. QED
  BY <1>4, <1>5 DEF Serves

(* An exception in the body ends in the finally block, any other fault the    *)
(* hook.                                                                      *)
LEMMA FaultEnds ==
  ASSUME Types, NEW p \in Procs, Fail(p) \/ Kill(p)
  PROVE  pc'[p] = 0 \/ (Fail(p) /\ InBody(p) /\ pc'[p] = End)
<1>1. pc \in [Procs -> 0..Len(Program(app))]
  BY DEF Types
<1>2. CASE Fail(p) /\ InBody(p)
  BY <1>1, <1>2 DEF Fail, Raise, End
<1>3. CASE ~(Fail(p) /\ InBody(p))
  <2>1. Leave(p)
    BY <1>3 DEF Fail, Kill
  <2>2. QED
    BY <1>1, <2>1 DEF Leave
<1>4. QED
  BY <1>2, <1>3

(* What a fault leaves at the server.                                         *)
LEMMA OpenFault ==
  ASSUME Apart, Types, WorkInv, Alone, OpenInv, NEW p \in Procs, Fail(p) \/ Kill(p)
  PROVE  /\ open' \in Int /\ unclosed' \in Int /\ open' <= unclosed' + 1
         /\ (\A r \in Procs : ~(Serves /\ pc'[r] > 0 /\ remote'[r] # None)) => open' <= unclosed'
<1>1. /\ UNCHANGED remote /\ pc[p] > 0 /\ \A r \in Procs : r # p => pc'[r] = pc[r]
      /\ pc'[p] = 0 \/ pc'[p] = End
      /\ pc \in [Procs -> 0..Len(Program(app))] /\ Shape /\ End > 0
      /\ open \in Int /\ unclosed \in Int /\ open <= unclosed + 1
  BY FaultFrame, Shapes DEF OpenInv, Types, Shape
<1>2. /\ open' \in {open, open + 1, open - 1} /\ unclosed' \in {unclosed, unclosed + 1}
      /\ open' = open + 1 => Serves /\ Op(pc[p]) = "open" /\ unclosed' = unclosed + 1
  BY <1>1, AtOp DEF Fail, Kill, Unheard
<1>3. CASE open' = open + 1
  <2>1. open <= unclosed
    BY <1>1, <1>2, <1>3, OpensAlone DEF OpenInv
  <2>2. QED
    BY <1>1, <1>2, <1>3, <2>1
<1>4. CASE open' # open + 1
  <2>1. open' <= unclosed' + 1 /\ (unclosed' = unclosed + 1 => open' <= unclosed')
    <3>1. open' \in Int /\ open' <= open
      BY <1>1, <1>2, <1>4
    <3>2. unclosed' = unclosed \/ unclosed' = unclosed + 1
      BY <1>2
    <3>3. QED
      BY <1>1, <3>1, <3>2
  <2>2. ASSUME unclosed' = unclosed, Holds(p)
        PROVE  Serves /\ pc'[p] > 0 /\ remote'[p] # None
    <3>1. Fail(p)
      BY <2>2, <1>1 DEF Kill
    <3>2. ~At(p, "close")
      BY <1>1, <2>2, <3>1 DEF Fail
    <3>3. Serves /\ remote[p] # None /\ pc[p] \in Lo..Hi
      BY <2>2 DEF Holds, OpenInv
    <3>4. pc[p] # Hi /\ pc[p] \in 1..Len(Program(app))
      <4>1. pc[p] \in 1..Len(Program(app))
        BY <1>1
      <4>2. QED
        BY <1>1, <3>2, <3>3, <4>1, Span, AtOp
    <3>5. InBody(p)
      <4>1. pc[p] # End
        BY <1>1, <3>1, <3>3, Span, AtOp DEF Fail
      <4>2. QED
        BY <1>1, <3>3, <3>4, <4>1, Span, AtOp
    <3>6. pc'[p] = End
      BY <1>1, <3>1, <3>5 DEF Fail, Raise, End
    <3>7. QED
      BY <1>1, <3>3, <3>6
  <2>3. ASSUME unclosed' = unclosed,
               \A r \in Procs : ~(Serves /\ pc'[r] > 0 /\ remote'[r] # None)
        PROVE  open' <= unclosed'
    <3>1. \A r \in Procs : ~Holds(r)
      BY <1>1, <2>2, <2>3 DEF Holds
    <3>2. open <= unclosed
      BY <3>1 DEF OpenInv
    <3>3. QED
      BY <1>1, <1>2, <1>4, <2>3, <3>2
  <2>4. QED
    BY <1>1, <1>2, <1>4, <2>1, <2>3
<1>5. QED
  BY <1>3, <1>4

(* Every step leaves open only what a hook will still close, or what unclosed *)
(* counts.                                                                    *)
LEMMA OpenStep ==
  ASSUME Apart, Types, WorkInv, Alone, OpenInv, [Next]_vars
  PROVE  OpenInv'
<1>1. /\ app' = app /\ app \in AllApps /\ Shape /\ pc \in [Procs -> 0..Len(Program(app))]
      /\ remote \in [Procs -> [Parts(app) -> Nat \ {0}] \cup {None}]
      /\ open \in Int /\ unclosed \in Int
  BY SameApp, Shapes DEF Types, OpenInv, vars
<1>2. /\ Lo' = Lo /\ Hi' = Hi /\ (Serves' <=> Serves)
      /\ \A r \in Procs : Holds(r)' <=> Serves /\ pc'[r] > 0 /\ remote'[r] # None
  BY <1>1 DEF Lo, Hi, Serves, Holds
<1>3. CASE UNCHANGED vars
  BY <1>1, <1>2, <1>3 DEF vars, OpenInv, Holds
<1>4. ASSUME NEW q \in Parts(app), Change(q) PROVE OpenInv'
  BY <1>1, <1>2, <1>4, ChangeFrame DEF OpenInv, Holds
<1>5. ASSUME NEW p \in Procs, Start(p) PROVE OpenInv'
  <2>1. /\ UNCHANGED <<litter, abandoned, lock, open, unclosed>> /\ pc[p] = 0
        /\ remote'[p] = None
        /\ \A r \in Procs : r # p => pc'[r] = pc[r] /\ remote'[r] = remote[r]
    BY <1>1, <1>5, StartFrame
  <2>2. \A r \in Procs : (Holds(r)' <=> Holds(r)) /\ (Holds(r) => pc'[r] = pc[r])
    BY <1>1, <1>2, <2>1 DEF Holds
  <2>3. QED
    BY <1>1, <1>2, <2>1, <2>2 DEF OpenInv
<1>6. ASSUME NEW p \in Procs, Fail(p) \/ Kill(p) PROVE OpenInv'
  <2>1. /\ UNCHANGED <<app, remote>> /\ (litter' => litter \/ abandoned')
        /\ (abandoned => abandoned') /\ (UNCHANGED lock \/ lock = p) /\ pc[p] > 0
        /\ pc'[p] = 0 \/ (Fail(p) /\ InBody(p) /\ pc'[p] = End)
        /\ \A r \in Procs : r # p => pc'[r] = pc[r]
    BY <1>1, <1>6, FaultFrame, FaultEnds
  <2>2. ASSUME NEW r \in Procs, Holds(r)'
        PROVE  pc'[r] \in Lo..Hi /\ (app = "metrics" => lock' = r)
    <3>1. Serves /\ Holds(r)
      BY <1>2, <2>1, <2>2 DEF Holds
    <3>2. CASE r # p
      BY <2>1, <3>1, <3>2 DEF OpenInv
    <3>3. CASE r = p
      <4>1. pc'[p] = End /\ Fail(p) /\ InBody(p)
        BY <1>2, <2>1, <2>2, <3>3
      <4>2. lock' = lock
        BY <4>1 DEF Fail
      <4>3. QED
        BY <3>1, <3>3, <4>1, <4>2, Span DEF OpenInv
    <3>4. QED
      BY <3>2, <3>3
  <2>3. litter' => abandoned'
    BY <2>1 DEF OpenInv
  <2>4. QED
    BY <1>1, <1>2, <1>6, <2>2, <2>3, OpenFault DEF OpenInv
<1>7. ASSUME NEW p \in Procs, Do(p) PROVE OpenInv'
  <2>1. /\ abandoned' = abandoned /\ (litter' => litter) /\ pc[p] > 0
        /\ \A r \in Procs : r # p => pc'[r] = pc[r] /\ remote'[r] = remote[r]
        /\ Op(pc[p]) \notin {"open", "close"} => UNCHANGED <<remote, open, unclosed>>
    BY <1>1, <1>7, DoFrame, Ledger, Goes
  <2>2. /\ Op(pc[p]) = "open" => /\ open' = (IF Serves THEN open + 1 ELSE open)
                                 /\ unclosed' = unclosed
        /\ Op(pc[p]) = "close" => /\ open' = (IF remote[p] # None THEN open - 1 ELSE open)
                                  /\ unclosed' = unclosed
    BY <1>7, Act DEF Open, Close
  <2>3. Serves => \A r \in Procs : r # p => (Holds(r)' <=> Holds(r)) /\ pc'[r] = pc[r]
    BY <1>2, <2>1 DEF Holds
  <2>4. ASSUME NEW r \in Procs, Holds(r)'
        PROVE  pc'[r] \in Lo..Hi /\ (app = "metrics" => lock' = r)
    <3>1. pc'[r] \in Lo..Hi
      <4>1. CASE r # p
        BY <1>2, <2>3, <2>4, <4>1 DEF OpenInv
      <4>2. CASE r = p
        BY <1>2, <1>7, <2>4, <4>2, HoldsOwn DEF OpenInv
      <4>3. QED
        BY <4>1, <4>2
    <3>2. app = "metrics" => lock' = r
      BY <1>2, <1>7, <2>4, HoldsLock
    <3>3. QED
      BY <3>1, <3>2
  <2>5. /\ open' \in Int /\ unclosed' \in Int /\ open' <= unclosed' + 1
        /\ (\A r \in Procs : ~Holds(r)') => open' <= unclosed'
    <3>1. CASE ~Serves
      <4>1. open <= unclosed
        BY <3>1 DEF OpenInv, Holds
      <4>2. open' \in {open, open - 1} /\ unclosed' = unclosed
        BY <2>1, <2>2, <3>1
      <4>3. QED
        BY <1>1, <4>1, <4>2
    <3>2. CASE Serves /\ Op(pc[p]) \notin {"open", "close"}
      <4>1. \A r \in Procs : Holds(r)' <=> Holds(r)
        BY <1>2, <1>7, <2>3, <3>2, HoldsOwn DEF OpenInv
      <4>2. QED
        BY <1>1, <2>1, <3>2, <4>1 DEF OpenInv
    <3>3. CASE Serves /\ Op(pc[p]) = "open"
      <4>1. open <= unclosed
        BY <2>1, <3>3, OpensAlone DEF OpenInv
      <4>2. Holds(p)'
        <5>1. remote'[p] # None
          <6>1. remote'[p] = live
            BY <1>1, <1>7, <3>3, Act DEF Open
          <6>2. live \in [Parts(app) -> Nat]
            BY DEF Types
          <6>3. QED
            BY <1>1, <6>1, <6>2 DEF Apart
        <5>2. pc'[p] > 0
          BY <1>7, <3>3, HoldsOwn, Span DEF OpenInv
        <5>3. QED
          BY <1>2, <3>3, <5>1, <5>2
      <4>3. QED
        BY <1>1, <2>2, <3>3, <4>1, <4>2
    <3>4. CASE Serves /\ Op(pc[p]) = "close"
      <4>1. CASE remote[p] # None
        BY <1>1, <2>2, <3>4, <4>1 DEF OpenInv
      <4>2. CASE remote[p] = None
        <5>1. ~Holds(p) /\ open' = open /\ unclosed' = unclosed
          BY <2>2, <3>4, <4>2 DEF Holds
        <5>2. (\A r \in Procs : ~Holds(r)') => \A r \in Procs : ~Holds(r)
          BY <2>3, <3>4, <5>1
        <5>3. QED
          BY <1>1, <5>1, <5>2 DEF OpenInv
      <4>3. QED
        BY <4>1, <4>2
    <3>5. QED
      BY <3>1, <3>2, <3>3, <3>4
  <2>6. litter' => abandoned'
    BY <2>1 DEF OpenInv
  <2>7. QED
    BY <1>1, <1>2, <2>4, <2>5, <2>6 DEF OpenInv
<1>8. QED
  BY <1>3, <1>4, <1>5, <1>6, <1>7 DEF Next

(* The invariant holds at first, and every step keeps it.                     *)
LEMMA HookInit ==
  ASSUME Apart, Apps \subseteq AllApps, Init
  PROVE  HookInv
<1>1. /\ app \in AllApps /\ Shape /\ pc = [p \in Procs |-> 0] /\ Len(Program(app)) \in Nat
  BY Shapes DEF Init, Shape
<1>2. Types
  <2>1. live \in [Parts(app) -> Nat \ {0}]
    BY DEF Init
  <2>2. /\ pending \in [Stagings -> Bundles(app) \cup {None}]
        /\ retained \in [version : Nat \ {0}, whole : BOOLEAN] \cup {None}
        /\ lock \in Procs \cup {None} /\ faults \in Nat
    BY DEF Init
  <2>3. pc \in [Procs -> 0..Len(Program(app))]
    BY <1>1
  <2>4. seen \in [Procs -> [Parts(app) -> Nat]]
    BY EmptyType DEF Init
  <2>5. remote \in [Procs -> [Parts(app) -> Nat \ {0}] \cup {None}]
    BY DEF Init
  <2>6. QED
    BY <1>1, <2>1, <2>2, <2>3, <2>4, <2>5 DEF Types
<1>3. Alone
  BY <1>1 DEF Alone, InBody
<1>4. WorkInv
  <2>1. ASSUME NEW n \in Nat, n <= 1, NEW b, NEW s, NEW m PROVE Done(n, b, s, m)
    BY <1>1, <2>1 DEF Done, StashDone, TubeDone, VikingDone, MetricsDone, HomeDone
  <2>2. QED
    BY <1>1, <2>1 DEF WorkInv
<1>5. KeepInv
  BY DEF Init, KeepInv
<1>6. OpenInv
  <2>1. \A p \in Procs : ~Holds(p)
    BY <1>1 DEF Holds
  <2>2. QED
    BY <2>1 DEF Init, OpenInv
<1>7. QED
  BY <1>2, <1>3, <1>4, <1>5, <1>6 DEF HookInv

LEMMA HookStep ==
  ASSUME Apart, HookInv, [Next]_vars
  PROVE  HookInv'
  BY TypesStep, AloneStep, WorkStep, KeepStep, OpenStep DEF HookInv

LEMMA HookAlways ==
  ASSUME Apart, Apps \subseteq AllApps
  PROVE  Spec => []HookInv
<1>1. Init => HookInv
  BY HookInit
<1>2. HookInv /\ [Next]_vars => HookInv'
  BY HookStep
<1>3. QED
  BY <1>1, <1>2, PTL DEF Spec

(* The types of the state hold, and one process at most is in its body past   *)
(* the flock: what capture.py reads, writes and renames there is its own.     *)
THEOREM HooksApart ==
  ASSUME Apart, Apps \subseteq AllApps
  PROVE  Spec => [](Types /\ Alone)
<1>1. HookInv => Types /\ Alone
  BY DEF HookInv
<1>2. QED
  BY <1>1, HookAlways, PTL

(* Whatever moment a snapshot is taken at, a bundle that the consumer accepts *)
(* has every part, and those that belong together are of one moment.          *)
THEOREM OneMoment ==
  ASSUME Apart, Apps \subseteq AllApps
  PROVE  Spec => []AcceptedIsOneMoment
<1>1. HookInv => AcceptedIsOneMoment
  <2> SUFFICES ASSUME HookInv, Accepts(Snapshot, Snapshot)
               PROVE  Whole(current) /\ \A q \in Linked(app) : current.parts[q] = current.at[q]
    BY DEF AcceptedIsOneMoment
  <2>1. Snapshot.current = current /\ app \in AllApps
    BY DEF Snapshot, HookInv, Types
  <2>2. current # None
    BY <2>1 DEF Accepts, StashNative, TubeMain, TubeVerify, VikingNative, HomeNative, AllApps
  <2>3. QED
    BY <2>2 DEF HookInv, KeepInv, Good
<1>2. QED
  BY <1>1, HookAlways, PTL

(* Once a bundle was published, one interrupted run never leaves the volume   *)
(* without a whole one.                                                       *)
THEOREM PriorTheorem ==
  ASSUME Apart, Apps \subseteq AllApps
  PROVE  Spec => []PriorKept
<1>1. HookInv => PriorKept
  <2> SUFFICES ASSUME HookInv, published, faults <= 1
               PROVE  \E b \in {current, previous} \cup {pending[n] : n \in Stagings} : Whole(b)
    BY DEF PriorKept
  <2>1. Whole(current) \/ Whole(previous) \/ \E p \in Procs : At(p, "retire") \/ At(p, "publish")
    BY DEF HookInv, KeepInv
  <2>2. ASSUME NEW p \in Procs, At(p, "retire") \/ At(p, "publish")
        PROVE  \E n \in Stagings : Whole(pending[n])
    <3>1. pc[p] > 0 /\ Op(pc[p]) \in {"drop", "retire", "publish"}
      BY <2>2, AtOp
    <3>2. Whole(Bundle(p))
      BY <3>1, Rotating DEF HookInv, Good
    <3>3. QED
      BY <3>2 DEF Bundle, Staging, Stagings
  <2>3. QED
    BY <2>1, <2>2
<1>2. QED
  BY <1>1, HookAlways, PTL

(* When no hook runs, no more is open at the server than hooks were killed    *)
(* while they held one, failed to close theirs, or never got the answer to    *)
(* the request that opened it; no staging directory is left without a kill or *)
(* a failure in a finally block.                                              *)
THEOREM OpenTheorem ==
  ASSUME Apart, Apps \subseteq AllApps
  PROVE  Spec => []NothingLeftOpen
<1>1. HookInv => NothingLeftOpen
  <2> SUFFICES ASSUME HookInv, \A p \in Procs : pc[p] = 0
               PROVE  open <= unclosed /\ (litter => abandoned)
    BY DEF NothingLeftOpen
  <2>1. \A p \in Procs : ~Holds(p)
    BY DEF Holds
  <2>2. QED
    BY <2>1 DEF HookInv, OpenInv
<1>2. QED
  BY <1>1, HookAlways, PTL
=============================================================================
