----------------------- MODULE DrillAndGuardProofs -----------------------
(***************************************************************************)
(* Two components that share nothing but this module.                      *)
(*                                                                         *)
(* The drills, for any set of the six scripts and any number of faults: a  *)
(* cleanup without a fault of its own leaves nothing behind, a receipt is  *)
(* honest, originals boot offline, and what is mounted exists.  First what *)
(* the programs are, part by part and block by block; then what every step *)
(* does to the position, the ledgers, the host and the backends; then one  *)
(* lemma for each conjunct of the inductive invariant, TidyInv.            *)
(*                                                                         *)
(* The guard, for every polling period, gap and hold time: it resumes only *)
(* what it has paused and confirmed, and at most once; sends no command in *)
(* doubt; resumes only after a calm time; and owns only what it saw        *)
(* running.                                                                *)
(***************************************************************************)
EXTENDS DockerDrill, SabWanGuard, TLAPS, SequenceTheorems, NaturalsInduction,
        WellFoundedInduction

-----------------------------------------------------------------------------
(* What each block of a program is for *)

Roles == [radarr   |-> <<"setup", "body", "movers", "receipt", "last">>,
          pds      |-> <<"setup", "setup", "body", "movers", "clean", "receipt", "last">>,
          original |-> <<"setup", "setup", "body", "clean", "receipt", "last">>,
          grimmory |-> <<"setup", "setup", "body", "clean", "receipt", "last">>,
          bazarr   |-> <<"setup", "body", "clean", "receipt">>,
          fence    |-> <<"body", "clean", "receipt">>]

RoleAt(x, b) == IF b = 0 THEN "end" ELSE Roles[x][b]
Role == RoleAt(script, block)
Moving == {"radarr", "pds"}         \* the scripts with movers
Reading == {"original", "grimmory", "bazarr"}

\* Names a script may use.
Parts == {"restored", "app", "books", "restore", "boot", "work", "tools", "db", "check",
          "runtime", "database", "target", "restorer", "reader", "native", "rollback",
          "immutable-point", "checker", "pds"}
Owners == {"nas", "r2", "run"}
Names == {Tools} \cup ({"movers"} \X Nat)
           \cup ({"volumes", "containers"} \X Owners \X Parts)
           \cup ({"containers"} \X Owners \X {"keep"} \X Parts)
Includes(s, n) == \E i \in 1..Len(s) : s[i] = n

\* Who may have something in a ledger at all.
Uses(l) == CASE l = "movers" -> script \in Moving
             [] l = "containers" -> script # "radarr"
             [] l = "volumes" -> script \notin {"radarr", "bazarr"}
             [] OTHER -> script # "fence"

\* Every container and every volume is in a ledger, or the cleanup cannot know it.
ListInv ==
  /\ listed \in [Ledgers -> Seq(Names)]
  /\ \A l \in Ledgers : \A i \in 1..Len(listed[l]) : listed[l][i][1] = l
  /\ \A c \in DOMAIN containers :
       /\ c \in Names /\ c[1] \in {"movers", "containers"} /\ Uses(c[1])
       /\ Includes(listed[c[1]], c)
  /\ \A v \in volumes :
       /\ v \in Names /\ Uses(v[1])
       /\ v # Tools => v[1] = "volumes" /\ (v \in orphans \/ Includes(listed["volumes"], v))
  /\ Role = "setup" => \A l \in Ledgers : listed[l] = << >>
  /\ Role = "setup" /\ B.catch = 0 => Tools \notin volumes

PlaceInv ==
  /\ script \in Scripts /\ block \in 0..Len(Program)
  /\ Running => step \in 1..Len(B.steps)
  /\ todo # NoSweep => /\ At("sweep") /\ todo \in Seq(Names)
                       /\ \A i \in 1..Len(todo) : todo[i][1] = S.on[1]
                       /\ script = "bazarr" => Len(todo) <= 1

\* Until the body is left nothing has failed; what is Bounded and goes on after
\* the cleanup's deadline has hindered it.
FaultInv ==
  /\ {raised, failures, expired, hindered, receipt} \subseteq BOOLEAN
  /\ Role \in {"setup", "body"} => ~raised /\ ~failures /\ ~hindered
  /\ Role = "receipt" => ~raised /\ ~failures
  /\ ~raised => orphans = {}
  /\ failures => script \notin {"bazarr", "fence"}
  /\ Cleaning /\ Bounded /\ expired => hindered

Newest == <<"movers", Len(listed["movers"]) - 1>>

CaptureInv ==
  /\ repos \subseteq Kinds /\ busy \subseteq (DOMAIN containers) \X Kinds
  /\ \A b \in busy : b[1][1] = "movers"
  /\ script \notin Moving => repos = {} /\ busy = {}
  /\ Role = "body" /\ step > 1 /\ B.steps[step - 1].op = "run" /\ B.steps[step - 1].on = Mover
       => Newest \in DOMAIN containers

-----------------------------------------------------------------------------
(* What a cleanup that meets no fault has achieved at each of its steps *)

Smooth == ~hindered \/ (~raised /\ ~failures)

Empty(l) == IF l = "volumes" THEN \A v \in volumes : v[1] = "volumes" => v \in orphans
                             ELSE \A c \in DOMAIN containers : c[1] # l

Behind(l) ==
  \/ Role \in {"setup", "receipt", "last", "end"}
  \/ Role = "clean" /\ (l = "movers" \/ \E i \in 1..step - 1 : B.steps[i] = Sweep(l))
  \/ Role = "movers" /\ l = "movers" /\ step \in {3, 7}

Remaining(l) == CASE l = "volumes" -> {v \in volumes : v[1] = "volumes"} \ orphans
                  [] l = "tools" -> {v \in volumes : v[1] = "tools"}
                  [] OTHER -> {c \in DOMAIN containers : c[1] = l}

SweptInv == Smooth =>
  /\ \A l \in {"movers", "containers", "volumes"} : Behind(l) => Empty(l)
  /\ todo # NoSweep => \A n \in Remaining(S.on[1]) : Includes(todo, n)
  /\ Role \in {"setup", "clean", "receipt", "last", "end"} => repos = {} /\ busy = {}
  /\ Role = "movers" /\ step >= 3 => busy = {}
  /\ Role = "movers" /\ step >= 5 => "nas" \notin repos
  /\ Role = "movers" /\ step >= 6 => "r2" \notin repos
  /\ Role = "end" /\ script # "bazarr" => Tools \notin volumes \/ Tools \in orphans
  /\ Role = "setup" => listed["movers"] = << >> /\ listed["containers"] = << >>

-----------------------------------------------------------------------------
(* What the first n steps of a body have verified, and the networks they have *)
(* opened                                                                     *)

PassedBy(p, n, kind) == \E i \in 1..n :
  /\ p[i].op = "check" /\ p[i].kind = kind
  /\ \A j \in i + 1..n : ~(p[j].op = "restore" /\ p[j].kind = kind)
GotBy(p, n, kind) == \E i \in 1..n : p[i].op = "restore" /\ p[i].kind = kind
MatchedBy(p, n) == \E i \in 1..n :
  p[i].op = "compare" /\ \A j \in i + 1..n : p[j].op # "restore"

Known(p, n, r) == /\ \A k \in Kinds : /\ PassedBy(p, n, k) => r[k] = 1
                                      /\ GotBy(p, n, k) => r[k] # 0
                  /\ MatchedBy(p, n) => r["nas"] = r["r2"]

Verified == /\ script # "fence" => restored["nas"] # 0 /\ restored["nas"] = restored["r2"]
            /\ script \notin {"fence", "bazarr"} => restored["nas"] = 1

PointInv ==
  /\ restored \in [Kinds -> 0..2]
  /\ Role = "body" => Known(B.steps, step - 1, restored)
  /\ ~raised /\ Role \in {"movers", "clean", "receipt"} => Verified
  /\ receipt => Role \in {"last", "end"} /\ ReceiptHonest

\* What is online or booted was started by one of the first n steps and is still there.
OpenBy(p, n, cs) == \A c \in DOMAIN cs : cs[c].net \/ cs[c].boot =>
  \E i \in 1..n : /\ p[i].op = "run" /\ p[i].on = c
                  /\ p[i].net = cs[c].net /\ p[i].boot = cs[c].boot
                  /\ \A j \in i + 1..n : p[j] # Drop(c)
OneBy(p, n, names) == \/ names = << >>
                      \/ \E i \in 1..n : /\ p[i].op = "run" /\ names = << p[i].on >>
                                        /\ \A j \in i + 1..n : p[j] # Drop(p[i].on)
NetInv ==
  /\ script \in Reading /\ Role = "body" => OpenBy(B.steps, step - 1, containers)
  /\ script = "bazarr" /\ Role = "body" => OneBy(B.steps, step - 1, listed["containers"])
  /\ script = "bazarr" => Len(listed["containers"]) <= 1
  /\ script = "radarr" => \A c \in DOMAIN containers : ~containers[c].boot
  /\ script = "fence" => \A c \in DOMAIN containers : ~containers[c].net
  /\ BootsAlone
-----------------------------------------------------------------------------
(* Sequences of commands.  What a part of a script has to be is closed under  *)
(* concatenation, so that each program is examined part by part.              *)

Prog(p) == \E T : p \in Seq(T)

LEMMA Join ==
  ASSUME NEW p, NEW q, Prog(p), Prog(q)
  PROVE  /\ Prog(p \o q)
         /\ Len(p) \in Nat /\ Len(q) \in Nat /\ Len(p \o q) = Len(p) + Len(q)
         /\ \A i \in 1..Len(p) : (p \o q)[i] = p[i]
         /\ \A i \in 1..Len(q) : (p \o q)[Len(p) + i] = q[i]
         /\ \A i \in 1..Len(p \o q) :
              \/ i \in 1..Len(p) /\ (p \o q)[i] = p[i]
              \/ i - Len(p) \in 1..Len(q) /\ (p \o q)[i] = q[i - Len(p)]
<1>1. PICK T : p \in Seq(T)
  BY DEF Prog
<1>2. PICK U : q \in Seq(U)
  BY DEF Prog
<1>3. p \in Seq(T \cup U) /\ q \in Seq(T \cup U)
  BY <1>1, <1>2, SeqMonotonic
<1>4. /\ p \o q \in Seq(T \cup U)
      /\ Len(p \o q) = Len(p) + Len(q)
      /\ \A i \in 1..Len(p) + Len(q) : (p \o q)[i] = IF i <= Len(p) THEN p[i] ELSE q[i - Len(p)]
  BY <1>3, ConcatProperties
<1>5. Len(p) \in Nat /\ Len(q) \in Nat
  BY <1>3, LenProperties
<1>6. Prog(p \o q)
  BY <1>4 DEF Prog
<1>7. QED
  BY <1>4, <1>5, <1>6

\* What a step of the body may be.
WorkOps == {"create", "run", "task", "exec", "capture", "restore", "check", "compare", "remove",
            "boot"}
BodyStep(x, c) ==
  /\ c.op \in WorkOps
  /\ c.op = "create" => /\ c.on \in Names /\ c.on[1] = "volumes" /\ c.early \in BOOLEAN
                        /\ x \notin {"radarr", "bazarr"}
  /\ c.op = "run" => /\ \/ c.on = Mover /\ x \in Moving
                        \/ c.on \in Names /\ c.on[1] = "containers" /\ x # "radarr"
                     /\ c.net \in BOOLEAN /\ c.boot \in BOOLEAN
                     /\ x = "radarr" => ~c.boot
                     /\ x = "fence" => ~c.net
                     /\ x \in Reading => c.on # Mover /\ ~(c.net /\ c.boot)
  /\ c.op = "capture" => c.on = Mover /\ c.kind \in Kinds /\ x \in Moving
  /\ c.op \in {"restore", "check"} => c.kind \in Kinds
  /\ c.op = "remove" => \/ c.on = Mover /\ x \in Moving
                        \/ c.on \in Names /\ c.on[1] \in {"containers", "volumes"}
  /\ c.op = "boot" => x \notin {"radarr", "fence"}

All(x, p) == Prog(p) /\ \A i \in 1..Len(p) : BodyStep(x, p[i])

\* A capture is made in the container that was started just before it.
Starts(p) == \A i \in 1..Len(p) : p[i].op = "capture" =>
  i - 1 \in 1..Len(p) /\ p[i - 1].op = "run" /\ p[i - 1].on = Mover

\* A container with a network is removed before anything boots, and what was
\* booted before a network is opened again.
Nets(c) == c.op = "run" /\ c.net
Boots(c) == c.op = "boot" \/ (c.op = "run" /\ c.boot)
Lone(p) == \A i \in 1..Len(p) :
  /\ Nets(p[i]) => \E j \in i + 1..Len(p) :
       p[j] = Drop(p[i].on) /\ \A k \in i + 1..j : ~Boots(p[k])
  /\ p[i].op = "run" /\ p[i].boot => \E j \in i + 1..Len(p) :
       p[j] = Drop(p[i].on) /\ \A k \in i + 1..j : ~Nets(p[k])

\* One container at a time.
Single(p) == \A i \in 1..Len(p) : p[i].op = "run" => \E j \in i + 1..Len(p) :
  p[j] = Drop(p[i].on) /\ \A k \in i + 1..j : p[k].op # "run"

Piece(x, p) == /\ All(x, p) /\ Starts(p)
               /\ x \in Reading => Lone(p)
               /\ x = "bazarr" => Single(p)

LEMMA JoinAll ==
  ASSUME NEW x, NEW p, NEW q, All(x, p), All(x, q) PROVE All(x, p \o q)
<1>1. Prog(p) /\ Prog(q)
  BY DEF All
<1>2. QED
  BY <1>1, Join DEF All

LEMMA JoinStarts ==
  ASSUME NEW p, NEW q, Prog(p), Prog(q), Starts(p), Starts(q) PROVE Starts(p \o q)
<1> DEFINE r == p \o q
<1> SUFFICES ASSUME NEW i \in 1..Len(r), r[i].op = "capture"
             PROVE  i - 1 \in 1..Len(r) /\ r[i - 1].op = "run" /\ r[i - 1].on = Mover
  BY DEF Starts
<1>1. CASE i \in 1..Len(p) /\ r[i] = p[i]
  <2>1. i - 1 \in 1..Len(p) /\ p[i - 1].op = "run" /\ p[i - 1].on = Mover
    BY <1>1 DEF Starts
  <2>2. r[i - 1] = p[i - 1] /\ i - 1 \in 1..Len(r)
    BY <2>1, Join
  <2>3. QED
    BY <2>1, <2>2
<1>2. CASE i - Len(p) \in 1..Len(q) /\ r[i] = q[i - Len(p)]
  <2> DEFINE m == i - Len(p)
  <2>1. m - 1 \in 1..Len(q) /\ q[m - 1].op = "run" /\ q[m - 1].on = Mover
    BY <1>2 DEF Starts
  <2>2. Len(p) \in Nat /\ Len(p) + (m - 1) = i - 1
    BY Join
  <2>3. r[Len(p) + (m - 1)] = q[m - 1] /\ i - 1 \in 1..Len(r)
    BY <2>1, <2>2, Join
  <2>4. QED
    BY <2>1, <2>2, <2>3
<1>3. QED
  BY <1>1, <1>2, Join

LEMMA JoinLone ==
  ASSUME NEW p, NEW q, Prog(p), Prog(q), Lone(p), Lone(q) PROVE Lone(p \o q)
<1> DEFINE r == p \o q
           n == Len(p)
<1>0. n \in Nat /\ Len(q) \in Nat /\ Len(r) = n + Len(q)
  BY Join
<1> SUFFICES ASSUME NEW i \in 1..Len(r)
             PROVE  /\ Nets(r[i]) => \E j \in i + 1..Len(r) :
                         r[j] = Drop(r[i].on) /\ \A k \in i + 1..j : ~Boots(r[k])
                    /\ r[i].op = "run" /\ r[i].boot => \E j \in i + 1..Len(r) :
                         r[j] = Drop(r[i].on) /\ \A k \in i + 1..j : ~Nets(r[k])
  BY DEF Lone
<1>1. CASE i \in 1..n /\ r[i] = p[i]
  <2>1. \A j \in i + 1..n : r[j] = p[j] /\ j \in i + 1..Len(r) /\ \A k \in i + 1..j : r[k] = p[k]
    BY <1>0, <1>1, Join
  <2>2. ASSUME Nets(r[i])
        PROVE  \E j \in i + 1..Len(r) : r[j] = Drop(r[i].on) /\ \A k \in i + 1..j : ~Boots(r[k])
    <3>1. PICK j \in i + 1..n : p[j] = Drop(p[i].on) /\ \A k \in i + 1..j : ~Boots(p[k])
      BY <1>1, <2>2 DEF Lone
    <3>2. WITNESS j \in i + 1..Len(r)
    <3>3. QED
      BY <1>1, <2>1, <3>1
  <2>3. ASSUME r[i].op = "run", r[i].boot
        PROVE  \E j \in i + 1..Len(r) : r[j] = Drop(r[i].on) /\ \A k \in i + 1..j : ~Nets(r[k])
    <3>1. PICK j \in i + 1..n : p[j] = Drop(p[i].on) /\ \A k \in i + 1..j : ~Nets(p[k])
      BY <1>1, <2>3 DEF Lone
    <3>2. QED
      BY <1>1, <2>1, <3>1
  <2>4. QED
    BY <2>2, <2>3
<1>2. CASE i - n \in 1..Len(q) /\ r[i] = q[i - n]
  <2> DEFINE m == i - n
  <2>1. \A j \in m + 1..Len(q) : /\ r[n + j] = q[j] /\ n + j \in i + 1..Len(r)
                                 /\ \A k \in i + 1..n + j : k - n \in m + 1..j /\ r[k] = q[k - n]
    BY <1>0, <1>2, Join
  <2>2. ASSUME Nets(r[i])
        PROVE  \E j \in i + 1..Len(r) : r[j] = Drop(r[i].on) /\ \A k \in i + 1..j : ~Boots(r[k])
    <3>1. PICK j \in m + 1..Len(q) : q[j] = Drop(q[m].on) /\ \A k \in m + 1..j : ~Boots(q[k])
      BY <1>2, <2>2 DEF Lone
    <3>2. /\ n + j \in i + 1..Len(r) /\ r[n + j] = Drop(r[i].on)
          /\ \A k \in i + 1..n + j : ~Boots(r[k])
      BY <1>2, <2>1, <3>1
    <3>3. QED
      BY <3>2
  <2>3. ASSUME r[i].op = "run", r[i].boot
        PROVE  \E j \in i + 1..Len(r) : r[j] = Drop(r[i].on) /\ \A k \in i + 1..j : ~Nets(r[k])
    <3>1. PICK j \in m + 1..Len(q) : q[j] = Drop(q[m].on) /\ \A k \in m + 1..j : ~Nets(q[k])
      BY <1>2, <2>3 DEF Lone
    <3>2. n + j \in i + 1..Len(r) /\ r[n + j] = Drop(r[i].on) /\ \A k \in i + 1..n + j : ~Nets(r[k])
      BY <1>2, <2>1, <3>1
    <3>3. QED
      BY <3>2
  <2>4. QED
    BY <2>2, <2>3
<1>3. QED
  BY <1>1, <1>2, Join

LEMMA JoinSingle ==
  ASSUME NEW p, NEW q, Prog(p), Prog(q), Single(p), Single(q) PROVE Single(p \o q)
<1> DEFINE r == p \o q
           n == Len(p)
<1>0. n \in Nat /\ Len(q) \in Nat /\ Len(r) = n + Len(q)
  BY Join
<1> SUFFICES ASSUME NEW i \in 1..Len(r), r[i].op = "run"
             PROVE  \E j \in i + 1..Len(r) :
                      r[j] = Drop(r[i].on) /\ \A k \in i + 1..j : r[k].op # "run"
  BY DEF Single
<1>1. CASE i \in 1..n /\ r[i] = p[i]
  <2>1. \A j \in i + 1..n : r[j] = p[j] /\ j \in i + 1..Len(r) /\ \A k \in i + 1..j : r[k] = p[k]
    BY <1>0, <1>1, Join
  <2>2. PICK j \in i + 1..n : p[j] = Drop(p[i].on) /\ \A k \in i + 1..j : p[k].op # "run"
    BY <1>1 DEF Single
  <2>3. QED
    BY <1>1, <2>1, <2>2
<1>2. CASE i - n \in 1..Len(q) /\ r[i] = q[i - n]
  <2> DEFINE m == i - n
  <2>1. \A j \in m + 1..Len(q) : /\ r[n + j] = q[j] /\ n + j \in i + 1..Len(r)
                                 /\ \A k \in i + 1..n + j : k - n \in m + 1..j /\ r[k] = q[k - n]
    BY <1>0, <1>2, Join
  <2>2. PICK j \in m + 1..Len(q) : q[j] = Drop(q[m].on) /\ \A k \in m + 1..j : q[k].op # "run"
    BY <1>2 DEF Single
  <2>3. /\ n + j \in i + 1..Len(r) /\ r[n + j] = Drop(r[i].on)
        /\ \A k \in i + 1..n + j : r[k].op # "run"
    BY <1>2, <2>1, <2>2
  <2>4. QED
    BY <2>3
<1>3. QED
  BY <1>1, <1>2, Join

LEMMA JoinPiece ==
  ASSUME NEW x, NEW p, NEW q, Piece(x, p), Piece(x, q) PROVE Piece(x, p \o q)
  BY JoinAll, JoinStarts, JoinLone, JoinSingle DEF Piece, All
-----------------------------------------------------------------------------
(* The commands the bodies are made of *)

LEMMA Named ==
  ASSUME NEW a \in Owners, NEW b \in Parts
  PROVE  /\ Vol(a, b) \in Names /\ Vol(a, b)[1] = "volumes"
         /\ Con(a, b) \in Names /\ Con(a, b)[1] = "containers"
         /\ <<"containers", a, "keep", b>> \in Names
         /\ <<"containers", a, "keep", b>>[1] = "containers"
         /\ Vol(a, b) # Mover /\ Con(a, b) # Mover
         /\ <<"containers", a, "keep", b>> # Mover
<1>1. /\ Vol(a, b) \in {"volumes", "containers"} \X Owners \X Parts
      /\ Con(a, b) \in {"volumes", "containers"} \X Owners \X Parts
      /\ <<"containers", a, "keep", b>> \in {"containers"} \X Owners \X {"keep"} \X Parts
  BY DEF Vol, Con
<1>2. QED
  BY <1>1 DEF Vol, Con, Names, Mover

\* Steps that capture nothing, and that start no container either.
Tame(x, c) == BodyStep(x, c) /\ c.op # "capture"
Calm(x, c) == BodyStep(x, c) /\ c.op \notin {"capture", "run"}

LEMMA CalmTame == ASSUME NEW x, NEW c, Calm(x, c) PROVE Tame(x, c)
  BY DEF Calm, Tame

LEMMA ExecStep == ASSUME NEW x, NEW c PROVE Calm(x, Exec(c)) /\ Exec(c).op = "exec"
  BY DEF BodyStep, WorkOps, Exec, Calm
LEMMA TaskStep == ASSUME NEW x, NEW m PROVE Calm(x, Task(m)) /\ Task(m).op = "task"
  BY DEF BodyStep, WorkOps, Task, Calm
LEMMA CompareStep == ASSUME NEW x PROVE Calm(x, Compare) /\ Compare.op = "compare"
  BY DEF BodyStep, WorkOps, Compare, Calm
LEMMA RestoreStep ==
  ASSUME NEW x, NEW c, NEW k \in Kinds
  PROVE  Calm(x, Restore(c, k)) /\ Restore(c, k).op = "restore" /\ Restore(c, k).kind = k
  BY DEF BodyStep, WorkOps, Restore, Calm
LEMMA CheckStep ==
  ASSUME NEW x, NEW c, NEW k \in Kinds
  PROVE  Calm(x, Check(c, k)) /\ Check(c, k).op = "check" /\ Check(c, k).kind = k
  BY DEF BodyStep, WorkOps, Check, Calm
LEMMA DropStep ==
  ASSUME NEW x, NEW n,
         \/ n \in Names /\ n[1] \in {"containers", "volumes"}
         \/ n = Mover /\ x \in Moving
  PROVE  Calm(x, Drop(n)) /\ Drop(n).op = "remove" /\ Drop(n).on = n
  BY DEF BodyStep, WorkOps, Drop, Calm
LEMMA CreateStep ==
  ASSUME NEW x, x \notin {"radarr", "bazarr"}, NEW e \in BOOLEAN,
         NEW v \in Names, v[1] = "volumes"
  PROVE  Calm(x, Create(v, e)) /\ Create(v, e).op = "create"
  BY DEF BodyStep, WorkOps, Create, Calm
LEMMA CaptureStep ==
  ASSUME NEW x \in Moving, NEW k \in Kinds
  PROVE  BodyStep(x, Capture(Mover, k)) /\ Capture(Mover, k).op = "capture"
  BY DEF BodyStep, WorkOps, Capture
LEMMA StartStep ==
  ASSUME NEW x \in Moving, NEW v
  PROVE  Tame(x, StartMover(v)) /\ StartMover(v).op = "run" /\ StartMover(v).on = Mover
  BY DEF BodyStep, WorkOps, StartMover, RunOnline, Run, Moving, Reading, Mover, Tame
LEMMA RunStep ==
  ASSUME NEW x, NEW n, NEW m, n \in Names, n[1] = "containers", n # Mover, x # "radarr"
  PROVE  /\ Tame(x, Run(n, m)) /\ Tame(x, RunBoot(n, m))
         /\ x # "fence" => Tame(x, RunOnline(n, m))
         /\ \A c \in {Run(n, m), RunOnline(n, m), RunBoot(n, m)} : c.op = "run" /\ c.on = n
         /\ ~Run(n, m).net /\ ~Run(n, m).boot
         /\ RunOnline(n, m).net /\ ~RunOnline(n, m).boot
         /\ ~RunBoot(n, m).net /\ RunBoot(n, m).boot
  BY DEF BodyStep, WorkOps, Run, RunOnline, RunBoot, Moving, Reading, Mover, Tame
-----------------------------------------------------------------------------
(* The parts of the bodies *)

LEMMA One ==
  ASSUME NEW a PROVE Prog(<< a >>) /\ Len(<< a >>) = 1 /\ << a >>[1] = a
<1>1. << a >> \in Seq({a})
  OBVIOUS
<1>2. QED
  BY <1>1 DEF Prog

\* A part that captures nothing, and one that starts no container either.
Plain(x, p) == All(x, p) /\ \A i \in 1..Len(p) : p[i].op # "capture"
Still(x, p) == All(x, p) /\ \A i \in 1..Len(p) : p[i].op \notin {"capture", "run"}

LEMMA StillPiece == ASSUME NEW x, NEW p, Still(x, p) PROVE Piece(x, p)
  BY DEF Still, Piece, All, Starts, Lone, Single, Nets

LEMMA MoverPiece == ASSUME NEW x \in Moving, NEW p, Plain(x, p) PROVE Piece(x, p)
<1>1. x \notin Reading /\ x # "bazarr"
  BY DEF Moving, Reading
<1>2. QED
  BY <1>1 DEF Plain, Piece, Starts

LEMMA StillOne == ASSUME NEW x, NEW a, Calm(x, a) PROVE Still(x, << a >>)
  BY One DEF Still, All, Calm

LEMMA FromSet ==
  ASSUME NEW x, NEW s, NEW p \in Seq(s)
  PROVE  /\ (\A y \in s : BodyStep(x, y)) => All(x, p)
         /\ (\A y \in s : Tame(x, y)) => Plain(x, p)
         /\ (\A y \in s : Calm(x, y)) => Still(x, p)
<1>1. Len(p) \in Nat /\ \A i \in 1..Len(p) : p[i] \in s
  OBVIOUS
<1>2. QED
  BY <1>1 DEF All, Prog, Plain, Still, Tame, Calm

\* What the transports do with a mover.
MoverWork(v, k) == {StartMover(v), Exec(Mover), Drop(Mover), Restore(Mover, k), Check(Mover, k)}
LEMMA MoverWorks ==
  ASSUME NEW x \in Moving, NEW v, NEW k \in Kinds
  PROVE  \A y \in MoverWork(v, k) : Tame(x, y)
<1>1. Tame(x, StartMover(v)) /\ Tame(x, Exec(Mover)) /\ Tame(x, Drop(Mover))
  BY StartStep, ExecStep, DropStep, CalmTame
<1>2. Tame(x, Restore(Mover, k)) /\ Tame(x, Check(Mover, k))
  BY RestoreStep, CheckStep, CalmTame
<1>3. QED
  BY <1>1, <1>2 DEF MoverWork

LEMMA MoverWorkPiece ==
  ASSUME NEW x \in Moving, NEW v, NEW k \in Kinds, NEW p \in Seq(MoverWork(v, k))
  PROVE  Piece(x, p)
<1>1. Plain(x, p)
  BY MoverWorks, FromSet
<1>2. QED
  BY <1>1, MoverPiece

LEMMA CapturePiece ==
  ASSUME NEW x \in Moving, NEW v, NEW k \in Kinds,
         NEW p \in Seq(MoverWork(v, k) \cup {Capture(Mover, k)}),
         p[1] = StartMover(v), \A i \in 1..Len(p) : i # 2 => p[i].op # "capture"
  PROVE  Piece(x, p)
<1> DEFINE s == MoverWork(v, k) \cup {Capture(Mover, k)}
<1>1. \A y \in s : BodyStep(x, y)
  BY MoverWorks, CaptureStep DEF Tame
<1>2. Starts(p)
  <2>1. Len(p) \in Nat
    OBVIOUS
  <2>2. QED
    BY <2>1, StartStep DEF Starts
<1>3. x \notin Reading /\ x # "bazarr"
  BY DEF Moving, Reading
<1>4. p \in Seq(s)
  OBVIOUS
<1> HIDE DEF s
<1>5. All(x, p)
  BY <1>1, <1>4, FromSet
<1>6. QED
  BY <1>2, <1>3, <1>5 DEF Piece

LEMMA ExercisePiece ==
  ASSUME NEW k \in Kinds PROVE Piece("radarr", Exercise(k))
<1> DEFINE a == << StartMover({}), Capture(Mover, k) >>
           b == IF k = "nas" THEN << Exec(Mover) >> ELSE << >>
           c == << Drop(Mover), StartMover({}), Exec(Mover), Drop(Mover),
                   StartMover({}), Restore(Mover, k), Check(Mover, k), Drop(Mover) >>
<1>1. "radarr" \in Moving
  BY DEF Moving
<1>2. Piece("radarr", a)
  <2>1. /\ a \in Seq(MoverWork({}, k) \cup {Capture(Mover, k)})
        /\ Len(a) = 2 /\ a[1] = StartMover({})
    BY DEF MoverWork
  <2>2. \A i \in 1..Len(a) : i # 2 => a[i].op # "capture"
    BY <1>1, <2>1, StartStep DEF Tame
  <2>3. QED
    BY <1>1, <2>1, <2>2, CapturePiece
<1>3. Piece("radarr", b)
  <2>1. CASE k = "nas"
    BY <2>1, ExecStep, StillOne, StillPiece
  <2>2. CASE k # "nas"
    <3>1. b \in Seq(MoverWork({}, k))
      BY <2>2
    <3>2. QED
      BY <1>1, <3>1, MoverWorkPiece
  <2>3. QED
    BY <2>1, <2>2
<1>4. Piece("radarr", c)
  <2>1. c \in Seq(MoverWork({}, k))
    BY DEF MoverWork
  <2>2. QED
    BY <1>1, <2>1, MoverWorkPiece
<1>5. QED
  BY <1>2, <1>3, <1>4, JoinPiece DEF Exercise

LEMMA OwnVolumePiece ==
  ASSUME NEW x, x \notin {"radarr", "bazarr"}, NEW v \in Names, v[1] = "volumes"
  PROVE  Piece(x, OwnVolume(v))
<1> DEFINE s == {Create(v, FALSE), Task({v})}
<1>1. \A y \in s : Calm(x, y)
  BY CreateStep, TaskStep
<1>2. OwnVolume(v) \in Seq(s)
  BY DEF OwnVolume
<1> HIDE DEF s
<1>3. QED
  BY <1>1, <1>2, FromSet, StillPiece

LEMMA TransportCapturePiece ==
  ASSUME NEW k \in Kinds, NEW v PROVE Piece("pds", TransportCapture(k, v))
<1> DEFINE p == TransportCapture(k, v)
<1>1. "pds" \in Moving
  BY DEF Moving
<1>2. /\ p \in Seq(MoverWork({v}, k) \cup {Capture(Mover, k)})
      /\ Len(p) = 3 /\ p[1] = StartMover({v}) /\ p[3] = Drop(Mover)
  BY DEF MoverWork, TransportCapture
<1>3. \A i \in 1..Len(p) : i # 2 => p[i].op # "capture"
  BY <1>1, <1>2, StartStep, DropStep DEF Tame
<1> HIDE DEF p
<1>4. QED
  BY <1>1, <1>2, <1>3, CapturePiece DEF p

LEMMA TransportRestorePiece ==
  ASSUME NEW k \in Kinds, NEW v PROVE Piece("pds", TransportRestore(k, v))
<1> DEFINE s == MoverWork({}, k) \cup MoverWork({v}, k)
<1>1. "pds" \in Moving
  BY DEF Moving
<1>2. TransportRestore(k, v) \in Seq(s)
  BY DEF MoverWork, TransportRestore
<1>3. \A y \in s : Tame("pds", y)
  BY <1>1, MoverWorks
<1> HIDE DEF s
<1>4. QED
  BY <1>1, <1>2, <1>3, FromSet, MoverPiece

LEMMA KindNames ==
  ASSUME NEW k \in Kinds, NEW r \in Parts
  PROVE  /\ Vol(k, r) \in Names /\ Vol(k, r)[1] = "volumes"
         /\ Con(k, r) \in Names /\ Con(k, r)[1] = "containers" /\ Con(k, r) # Mover
<1>1. k \in Owners
  BY DEF Kinds, Owners
<1>2. QED
  BY <1>1, Named

LEMMA PdsNames ==
  /\ \A k \in Kinds : /\ Vol(k, "restored") \in Names /\ Vol(k, "restored")[1] = "volumes"
                     /\ Con(k, "target") \in Names /\ Con(k, "target")[1] = "containers"
                     /\ Con(k, "target") # Mover
  /\ PdsSource \in Names /\ PdsSource[1] = "volumes"
  /\ Point \in Names /\ Point[1] = "volumes"
  /\ PdsApp \in Names /\ PdsApp[1] = "containers" /\ PdsApp # Mover
<1>1. "run" \in Owners /\ "restored" \in Parts /\ "target" \in Parts /\ "pds" \in Parts
      /\ "immutable-point" \in Parts
  BY DEF Owners, Parts
<1>2. \A k \in Kinds : /\ Vol(k, "restored") \in Names /\ Vol(k, "restored")[1] = "volumes"
                     /\ Con(k, "target") \in Names /\ Con(k, "target")[1] = "containers"
                     /\ Con(k, "target") # Mover
  BY <1>1, KindNames
<1>3. /\ PdsSource \in Names /\ PdsSource[1] = "volumes"
      /\ Point \in Names /\ Point[1] = "volumes"
      /\ PdsApp \in Names /\ PdsApp[1] = "containers" /\ PdsApp # Mover
  BY <1>1, Named DEF PdsSource, Point, PdsApp
<1>4. QED
  BY <1>2, <1>3

LEMMA QuiescePiece == Piece("pds", QuiesceCopyResume)
<1> DEFINE a == << Exec(PdsApp), Exec(PdsApp), Task({PdsSource, Point}), Task({Point}) >>
           b == << Drop(PdsApp), Drop(PdsSource), Drop(Point) >>
           s == {Exec(PdsApp), Task({PdsSource, Point}), Task({Point}), Drop(PdsApp),
                 Drop(PdsSource), Drop(Point)}
           c(k) == << Check(Con("run", "anonymous"), k) >>
<1>1. \A y \in s : Calm("pds", y)
  <2>1. Calm("pds", Drop(PdsApp)) /\ Calm("pds", Drop(PdsSource)) /\ Calm("pds", Drop(Point))
    BY DropStep, PdsNames
  <2>2. QED
    BY <2>1, ExecStep, TaskStep
<1>2. a \in Seq(s) /\ b \in Seq(s)
  OBVIOUS
<1>3. \A k \in Kinds : Piece("pds", c(k))
  BY CheckStep, StillOne, StillPiece
<1> HIDE DEF s, a, b, c
<1>4. Piece("pds", a) /\ Piece("pds", b)
  BY <1>1, <1>2, FromSet, StillPiece
<1>5. "nas" \in Kinds /\ "r2" \in Kinds
  BY DEF Kinds
<1>6. Piece("pds", OwnVolume(Point)) /\ Piece("pds", OwnVolume(Vol("r2", "restored")))
  BY <1>5, PdsNames, OwnVolumePiece
<1>7. /\ Piece("pds", TransportCapture("nas", Point)) /\ Piece("pds", TransportCapture("r2", Point))
      /\ Piece("pds", TransportRestore("nas", Vol("nas", "restored")))
      /\ Piece("pds", TransportRestore("r2", Vol("r2", "restored")))
  BY <1>5, TransportCapturePiece, TransportRestorePiece
<1>8. QED
  BY <1>3, <1>4, <1>5, <1>6, <1>7, JoinPiece DEF QuiesceCopyResume, a, b, c

LEMMA PdsVerifyPiece ==
  ASSUME NEW k \in Kinds PROVE Piece("pds", PdsVerify(k))
<1> DEFINE v == Vol(k, "restored")
           t == Con(k, "target")
           s == {Task({v}), RunBoot(t, {v}), Exec(t)}
<1>1. "pds" \in Moving
  BY DEF Moving
<1>2. \A y \in s : Tame("pds", y)
  <2>1. Tame("pds", RunBoot(t, {v}))
    BY RunStep, PdsNames
  <2>2. QED
    BY <2>1, ExecStep, TaskStep, CalmTame
<1>3. PdsVerify(k) \in Seq(s)
  BY DEF PdsVerify
<1> HIDE DEF s
<1>4. QED
  BY <1>1, <1>2, <1>3, FromSet, MoverPiece

LEMMA PdsPiece == Piece("pds", Pds)
<1> DEFINE a == << Run(PdsApp, {PdsSource}), Exec(PdsApp) >>
           s == {Run(PdsApp, {PdsSource}), Exec(PdsApp)}
<1>1. "pds" \in Moving /\ "nas" \in Kinds /\ "r2" \in Kinds
  BY DEF Moving, Kinds
<1>2. \A y \in s : Tame("pds", y)
  <2>1. Tame("pds", Run(PdsApp, {PdsSource}))
    BY RunStep, PdsNames
  <2>2. QED
    BY <2>1, ExecStep, CalmTame
<1>3. a \in Seq(s)
  OBVIOUS
<1> HIDE DEF s, a
<1>4. Piece("pds", a)
  BY <1>1, <1>2, <1>3, FromSet, MoverPiece
<1>5. Piece("pds", OwnVolume(PdsSource)) /\ Piece("pds", OwnVolume(Vol("nas", "restored")))
  BY <1>1, PdsNames, OwnVolumePiece
<1>6. Piece("pds", PdsVerify("nas")) /\ Piece("pds", PdsVerify("r2"))
  BY <1>1, PdsVerifyPiece
<1>7. QED
  BY <1>4, <1>5, <1>6, QuiescePiece, JoinPiece DEF Pds, a

\* A step that opens no network and boots nothing but what is in d.
Dark(x, c, d) == Tame(x, c) /\ (c.op = "run" => ~c.net /\ (c.boot => c.on \in d))
Offline(x, p, d) == /\ Prog(p)
                    /\ \A i \in 1..Len(p) : Dark(x, p[i], d)

LEMMA CalmDark == ASSUME NEW x, NEW c, Calm(x, c), NEW d PROVE Dark(x, c, d)
  BY DEF Calm, Tame, Dark

LEMMA RunDark ==
  ASSUME NEW x, NEW n \in Names, NEW m, n[1] = "containers", n # Mover, x # "radarr", NEW d
  PROVE  Dark(x, Run(n, m), d) /\ (n \in d => Dark(x, RunBoot(n, m), d))
  BY RunStep DEF Dark

LEMMA FromDark ==
  ASSUME NEW x, NEW s, NEW p \in Seq(s), NEW d, \A y \in s : Dark(x, y, d)
  PROVE  Offline(x, p, d)
<1>1. Len(p) \in Nat /\ \A i \in 1..Len(p) : p[i] \in s
  OBVIOUS
<1>2. QED
  BY <1>1 DEF Offline, Prog

LEMMA DarkOne == ASSUME NEW x, NEW a, NEW d, Dark(x, a, d) PROVE Offline(x, << a >>, d)
  BY One DEF Offline

LEMMA JoinOffline ==
  ASSUME NEW x, NEW p, NEW q, NEW d, Offline(x, p, d), Offline(x, q, d)
  PROVE  Offline(x, p \o q, d)
  BY Join DEF Offline

LEMMA OfflinePiece ==
  ASSUME NEW x, x # "bazarr", NEW p, Offline(x, p, {}) PROVE Piece(x, p)
  BY DEF Offline, Dark, Tame, Piece, All, Starts, Lone, Nets

\* What was booted is removed at the end.
LEMMA ClosePiece ==
  ASSUME NEW x, x # "bazarr", NEW p, NEW q, NEW d, Offline(x, p, d), Offline(x, q, {}),
         \A n \in d : \E j \in 1..Len(q) : q[j] = Drop(n)
  PROVE  Piece(x, p \o q)
<1> DEFINE r == p \o q
<1>1. Prog(p) /\ Prog(q)
  BY DEF Offline
<1>2. \A i \in 1..Len(r) : Tame(x, r[i]) /\ ~Nets(r[i])
  BY <1>1, Join DEF Offline, Dark, Nets
<1>3. ASSUME NEW i \in 1..Len(r), r[i].op = "run", r[i].boot
      PROVE  \E j \in i + 1..Len(r) : r[j] = Drop(r[i].on) /\ \A k \in i + 1..j : ~Nets(r[k])
  <2>1. CASE i \in 1..Len(p) /\ r[i] = p[i]
    <3>1. r[i].on \in d
      BY <1>3, <2>1 DEF Offline, Dark
    <3>2. PICK j \in 1..Len(q) : q[j] = Drop(r[i].on)
      BY <3>1
    <3>3. /\ Len(p) + j \in i + 1..Len(r) /\ r[Len(p) + j] = Drop(r[i].on)
          /\ \A k \in i + 1..Len(p) + j : k \in 1..Len(r)
      BY <1>1, <2>1, <3>2, Join
    <3>4. QED
      BY <1>2, <3>3
  <2>2. CASE i - Len(p) \in 1..Len(q) /\ r[i] = q[i - Len(p)]
    BY <1>3, <2>2 DEF Offline, Dark
  <2>3. QED
    BY <1>1, <2>1, <2>2, Join
<1>4. All(x, r) /\ Starts(r)
  BY <1>1, <1>2, Join DEF All, Starts, Tame
<1>5. Lone(r)
  BY <1>2, <1>3 DEF Lone
<1>6. QED
  BY <1>4, <1>5 DEF Piece

\* A reader with a network, removed before anything else.
LEMMA OnlinePiece ==
  ASSUME NEW x, x # "bazarr", NEW s, NEW p \in Seq(s), NEW n, NEW m,
         n \in Names, n[1] = "containers", n # Mover, x \notin {"radarr", "fence"},
         \A y \in s : y = RunOnline(n, m) \/ Dark(x, y, {}),
         Len(p) >= 4, p[1] = RunOnline(n, m), p[4] = Drop(n),
         p[2].op \notin {"run", "boot"}, p[3].op \notin {"run", "boot"},
         \A i \in 2..Len(p) : p[i] # RunOnline(n, m)
  PROVE  Piece(x, p)
<1>1. Len(p) \in Nat /\ \A i \in 1..Len(p) : p[i] \in s
  OBVIOUS
<1>2. \A i \in 2..Len(p) : Dark(x, p[i], {})
  BY <1>1
<1>3. Tame(x, p[1]) /\ p[1].on = n /\ ~p[1].boot
  BY RunStep
<1>4. \A i \in 1..Len(p) : Tame(x, p[i])
  BY <1>1, <1>2, <1>3 DEF Dark
<1>5. All(x, p) /\ Starts(p)
  BY <1>1, <1>4 DEF All, Prog, Starts, Tame
<1>6. \A i \in 2..Len(p) : p[i].op = "run" => ~p[i].net /\ ~p[i].boot
  BY <1>2 DEF Dark
<1>7. Lone(p)
  <2> SUFFICES ASSUME NEW i \in 1..Len(p)
               PROVE  /\ Nets(p[i]) => \E j \in i + 1..Len(p) :
                           p[j] = Drop(p[i].on) /\ \A k \in i + 1..j : ~Boots(p[k])
                      /\ ~(p[i].op = "run" /\ p[i].boot)
    BY DEF Lone
  <2>1. CASE i = 1
    BY <1>1, <1>3, <1>6, <2>1 DEF Boots, Drop, Nets
  <2>2. CASE i # 1
    BY <1>1, <1>6, <2>2 DEF Nets
  <2>3. QED
    BY <2>1, <2>2
<1>8. QED
  BY <1>5, <1>7 DEF Piece

LEMMA KeptVolumePiece ==
  ASSUME NEW x, x \notin {"radarr", "bazarr"}, NEW k \in Kinds, NEW r \in Parts
  PROVE  Piece(x, KeptVolume(Vol(k, r)))
<1> DEFINE v == Vol(k, r)
           n == <<"containers", v[2], "keep", v[3]>>
           s == {Create(v, FALSE), Run(n, {v})}
<1>1. v \in Names /\ v[1] = "volumes"
  BY KindNames
<1>2. n \in Names /\ n[1] = "containers" /\ n # Mover
  <2>1. n = <<"containers", k, "keep", r>> /\ k \in Owners
    BY DEF Vol, Kinds, Owners
  <2>2. QED
    BY <2>1, Named
<1>3. \A y \in s : Dark(x, y, {})
  <2>1. Dark(x, Create(v, FALSE), {})
    BY <1>1, CreateStep, CalmDark
  <2>2. Dark(x, Run(n, {v}), {})
    BY <1>2, RunDark
  <2>3. QED
    BY <2>1, <2>2
<1>4. KeptVolume(v) \in Seq(s)
  BY DEF KeptVolume
<1> HIDE DEF s, v
<1>5. Offline(x, KeptVolume(v), {})
  BY <1>3, <1>4, FromDark
<1>6. QED
  BY <1>5, OfflinePiece DEF v

LEMMA PdsReadPiece == ASSUME NEW k \in Kinds PROVE Piece("original", PdsRead(k))
<1> DEFINE n == Con(k, "reader")
           c == Con(k, "check")
           m == {Vol(k, "work"), Vol(k, "restore"), Tools}
           w == {Vol(k, "restore"), Vol(k, "tools")}
           s == {RunOnline(n, m), Exec(n), Restore(n, k), Drop(n), Run(c, w), Check(c, k), Exec(c),
                 Drop(c)}
           p == PdsRead(k)
<1>1. /\ n \in Names /\ n[1] = "containers" /\ n # Mover
      /\ c \in Names /\ c[1] = "containers" /\ c # Mover
  <2>1. "reader" \in Parts /\ "check" \in Parts
    BY DEF Parts
  <2>2. QED
    BY <2>1, KindNames
<1>2. n # c
  BY DEF Con
<1>3. /\ p \in Seq(s) /\ Len(p) = 8 /\ p[1] = RunOnline(n, m) /\ p[2] = Exec(n)
      /\ p[3] = Restore(n, k) /\ p[4] = Drop(n) /\ p[5] = Run(c, w) /\ p[6] = Check(c, k)
      /\ p[7] = Exec(c) /\ p[8] = Drop(c)
  BY DEF PdsRead
<1> HIDE DEF n, c, m, w, p
<1>4. /\ Dark("original", Exec(n), {}) /\ Dark("original", Exec(c), {})
      /\ Dark("original", Drop(n), {}) /\ Dark("original", Drop(c), {})
  BY <1>1, ExecStep, DropStep, CalmDark
<1>5. Dark("original", Restore(n, k), {}) /\ Dark("original", Check(c, k), {})
  BY RestoreStep, CheckStep, CalmDark
<1>6. Dark("original", Run(c, w), {})
  BY <1>1, RunDark
<1>7. \A y \in s : y = RunOnline(n, m) \/ Dark("original", y, {})
  BY <1>4, <1>5, <1>6
<1>8. /\ Exec(n).op = "exec" /\ Restore(n, k).op = "restore" /\ Drop(n).op = "remove"
      /\ Run(c, w).on = c /\ Check(c, k).op = "check" /\ Exec(c).op = "exec"
      /\ Drop(c).op = "remove" /\ RunOnline(n, m).op = "run" /\ RunOnline(n, m).on = n
  BY <1>1, ExecStep, RestoreStep, DropStep, RunStep, CheckStep
<1>9. \A i \in 2..Len(p) : p[i] # RunOnline(n, m)
  BY <1>2, <1>3, <1>8
<1> HIDE DEF s
<1>10. p[2].op \notin {"run", "boot"} /\ p[3].op \notin {"run", "boot"}
  BY <1>3, <1>8
<1>11. QED
  BY <1>1, <1>3, <1>7, <1>9, <1>10, OnlinePiece DEF p

LEMMA PdsBootPiece == ASSUME NEW k \in Kinds PROVE Piece("original", PdsBoot(k))
<1> DEFINE t == Con(k, "boot")
           m == {Vol(k, "restore"), Vol(k, "tools")}
           a == << RunBoot(t, m), Exec(t) >>
           s == {RunBoot(t, m), Exec(t)}
           e == << Exec(t) >>
           q == << Drop(t) >>
<1>1. t \in Names /\ t[1] = "containers" /\ t # Mover
  <2>1. "boot" \in Parts
    BY DEF Parts
  <2>2. QED
    BY <2>1, KindNames
<1>2. PdsBoot(k) = a \o e \o (e \o e \o (e \o e) \o (e \o e)) \o q
  BY DEF PdsBoot, OriginalApi, ConsumerRecovery, HeldRound
<1>3. \A y \in s : Dark("original", y, {t})
  <2>1. Dark("original", RunBoot(t, m), {t})
    BY <1>1, RunDark
  <2>2. QED
    BY <2>1, ExecStep, CalmDark
<1>4. a \in Seq(s)
  OBVIOUS
<1>5. Offline("original", e, {t})
  BY ExecStep, CalmDark, DarkOne
<1>6. Offline("original", q, {}) /\ Len(q) = 1 /\ q[1] = Drop(t)
  BY <1>1, DropStep, CalmDark, DarkOne
<1> HIDE DEF a, s, e, q, t
<1>7. Offline("original", a, {t})
  BY <1>3, <1>4, FromDark
<1>8. Offline("original", a \o e \o (e \o e \o (e \o e) \o (e \o e)), {t})
  BY <1>5, <1>7, JoinOffline
<1>9. \A n \in {t} : \E j \in 1..Len(q) : q[j] = Drop(n)
  BY <1>6
<1>10. QED
  BY <1>2, <1>6, <1>8, <1>9, ClosePiece

LEMMA PdsOriginalPiece == ASSUME NEW k \in Kinds PROVE Piece("original", PdsOriginal(k))
<1>1. "work" \in Parts /\ "restore" \in Parts /\ "tools" \in Parts
  BY DEF Parts
<1>2. /\ Piece("original", KeptVolume(Vol(k, "work")))
      /\ Piece("original", KeptVolume(Vol(k, "restore")))
      /\ Piece("original", KeptVolume(Vol(k, "tools")))
  BY <1>1, KeptVolumePiece
<1>3. QED
  BY <1>2, PdsReadPiece, PdsBootPiece, JoinPiece DEF PdsOriginal

LEMMA GrimmoryNames ==
  ASSUME NEW k \in Kinds
  PROVE  /\ App(k) \in Names /\ App(k)[1] = "containers" /\ App(k) # Mover
         /\ Database(k) \in Names /\ Database(k)[1] = "containers" /\ Database(k) # Mover
         /\ Con(k, "reader") \in Names /\ Con(k, "reader")[1] = "containers"
         /\ Con(k, "reader") # Mover
         /\ Con(k, "checker") \in Names /\ Con(k, "checker")[1] = "containers"
         /\ Con(k, "checker") # Mover
<1>1. "app" \in Parts /\ "database" \in Parts /\ "reader" \in Parts /\ "checker" \in Parts
  BY DEF Parts
<1>2. QED
  BY <1>1, KindNames DEF App, Database

LEMMA GrimmoryReadPiece == ASSUME NEW k \in Kinds PROVE Piece("grimmory", GrimmoryRead(k))
<1> DEFINE n == Con(k, "reader")
           m == Held(k, {"work", "restored"}) \cup {Tools}
           s == {RunOnline(n, m), Exec(n), Restore(n, k), Drop(n)}
           p == GrimmoryRead(k)
<1>1. n \in Names /\ n[1] = "containers" /\ n # Mover
  BY GrimmoryNames
<1>2. /\ p \in Seq(s) /\ Len(p) = 4 /\ p[1] = RunOnline(n, m) /\ p[2] = Exec(n)
      /\ p[3] = Restore(n, k) /\ p[4] = Drop(n)
  BY DEF GrimmoryRead
<1> HIDE DEF n, m, p
<1>3. Dark("grimmory", Exec(n), {}) /\ Dark("grimmory", Drop(n), {})
  BY <1>1, ExecStep, DropStep, CalmDark
<1>4. Dark("grimmory", Restore(n, k), {})
  BY RestoreStep, CalmDark
<1>5. \A y \in s : y = RunOnline(n, m) \/ Dark("grimmory", y, {})
  BY <1>3, <1>4
<1>6. /\ Exec(n).op = "exec" /\ Restore(n, k).op = "restore" /\ Drop(n).op = "remove"
      /\ RunOnline(n, m).op = "run"
  BY <1>1, ExecStep, RestoreStep, DropStep, RunStep
<1>7. \A i \in 2..Len(p) : p[i] # RunOnline(n, m)
  BY <1>2, <1>6
<1> HIDE DEF s
<1>8. p[2].op \notin {"run", "boot"} /\ p[3].op \notin {"run", "boot"}
  BY <1>2, <1>6
<1>9. QED
  BY <1>1, <1>2, <1>5, <1>7, <1>8, OnlinePiece DEF p

LEMMA GrimmoryCheckedPiece == ASSUME NEW k \in Kinds PROVE Piece("grimmory", GrimmoryChecked(k))
<1> DEFINE c == Con(k, "checker")
           m == Held(k, {"restored", "app", "tools", "books"})
           s == {Run(c, m), Check(c, k), Exec(c), Drop(c)}
<1>1. Dark("grimmory", Run(c, m), {})
  BY GrimmoryNames, RunDark
<1>2. Dark("grimmory", Drop(c), {}) /\ Dark("grimmory", Exec(c), {})
  BY GrimmoryNames, DropStep, ExecStep, CalmDark
<1>3. Dark("grimmory", Check(c, k), {})
  BY CheckStep, CalmDark
<1>4. GrimmoryChecked(k) \in Seq(s)
  BY DEF GrimmoryChecked
<1>5. \A y \in s : Dark("grimmory", y, {})
  BY <1>1, <1>2, <1>3
<1> HIDE DEF s
<1>6. Offline("grimmory", GrimmoryChecked(k), {})
  BY <1>4, <1>5, FromDark
<1>7. QED
  BY <1>6, OfflinePiece

\* What the application and its database do until they are removed.
Serving(k) == {RunBoot(Database(k), Held(k, {"database", "restored", "tools"})), StartConsumer(k),
               Exec(Database(k)), Exec(App(k)), DataDigest(k), ConsumerBooks(k), Drop(App(k))}

LEMMA ServingDark ==
  ASSUME NEW k \in Kinds
  PROVE  \A y \in Serving(k) : Dark("grimmory", y, {App(k), Database(k)})
<1> DEFINE d == {App(k), Database(k)}
<1>1. /\ Dark("grimmory", RunBoot(Database(k), Held(k, {"database", "restored", "tools"})), d)
      /\ Dark("grimmory", StartConsumer(k), d)
  BY GrimmoryNames, RunDark DEF StartConsumer
<1>2. /\ Dark("grimmory", Exec(Database(k)), d) /\ Dark("grimmory", Exec(App(k)), d)
      /\ Dark("grimmory", Drop(App(k)), d)
  BY GrimmoryNames, DropStep, ExecStep, CalmDark
<1>3. Dark("grimmory", DataDigest(k), d) /\ Dark("grimmory", ConsumerBooks(k), d)
  BY CheckStep, TaskStep, CalmDark DEF DataDigest, ConsumerBooks
<1>4. QED
  BY <1>1, <1>2, <1>3 DEF Serving

LEMMA GrimmoryServePiece == ASSUME NEW k \in Kinds PROVE Piece("grimmory", GrimmoryServe(k))
<1> DEFINE a == << RunBoot(Database(k), Held(k, {"database", "restored", "tools"})),
                   Exec(Database(k)), DataDigest(k), StartConsumer(k), Serves(k),
                   ConsumerBooks(k), Exec(App(k)), Serves(k), ConsumerBooks(k), DataDigest(k) >>
           b == RecreateConsumer(k)
           q == << ConsumerBooks(k), Drop(App(k)), Drop(Database(k)) >>
           s == Serving(k)
           t == {ConsumerBooks(k), Drop(App(k)), Drop(Database(k))}
           d == {App(k), Database(k)}
<1>1. a \in Seq(s) /\ b \in Seq(s)
  BY DEF Serving, Serves, RecreateConsumer
<1>2. q \in Seq(t) /\ Len(q) = 3 /\ q[2] = Drop(App(k)) /\ q[3] = Drop(Database(k))
  OBVIOUS
<1>3. \A y \in t : Dark("grimmory", y, {})
  <2>1. Dark("grimmory", Drop(App(k)), {}) /\ Dark("grimmory", Drop(Database(k)), {})
    BY GrimmoryNames, DropStep, CalmDark
  <2>2. Dark("grimmory", ConsumerBooks(k), {})
    BY TaskStep, CalmDark DEF ConsumerBooks
  <2>3. QED
    BY <2>1, <2>2
<1>4. GrimmoryServe(k) = a \o b \o q
  BY DEF GrimmoryServe
<1>5. \A y \in s : Dark("grimmory", y, d)
  BY ServingDark
<1>6. \A n \in d : \E j \in 1..Len(q) : q[j] = Drop(n)
  BY <1>2
<1> HIDE DEF a, b, q, s, t, d
<1>7. Offline("grimmory", a, d) /\ Offline("grimmory", b, d) /\ Offline("grimmory", q, {})
  BY <1>1, <1>2, <1>3, <1>5, FromDark
<1>8. Offline("grimmory", a \o b, d)
  BY <1>7, JoinOffline
<1>9. QED
  BY <1>4, <1>6, <1>7, <1>8, ClosePiece

LEMMA GrimmoryPiece == ASSUME NEW k \in Kinds PROVE Piece("grimmory", GrimmoryOriginal(k))
<1>1. /\ "work" \in Parts /\ "restored" \in Parts /\ "tools" \in Parts /\ "app" \in Parts
      /\ "database" \in Parts /\ "books" \in Parts
  BY DEF Parts
<1>2. /\ Piece("grimmory", KeptVolume(Vol(k, "work")))
      /\ Piece("grimmory", KeptVolume(Vol(k, "restored")))
      /\ Piece("grimmory", KeptVolume(Vol(k, "app")))
      /\ Piece("grimmory", KeptVolume(Vol(k, "tools")))
      /\ Piece("grimmory", KeptVolume(Vol(k, "database")))
      /\ Piece("grimmory", KeptVolume(Vol(k, "books")))
  BY <1>1, KeptVolumePiece
<1>3. Piece("grimmory", GrimmoryVolumes(k))
  BY <1>2, JoinPiece DEF GrimmoryVolumes
<1>4. QED
  BY <1>3, GrimmoryReadPiece, GrimmoryCheckedPiece, GrimmoryServePiece, JoinPiece
  DEF GrimmoryOriginal

LEMMA BazarrSteps ==
  ASSUME NEW k \in Kinds
  PROVE  LET p == Bazarr(k)  n == Con(k, "restorer") IN
         /\ Prog(p) /\ Len(p) = 6 /\ p[1] = RunOnline(n, {Tools}) /\ p[2] = Restore(n, k)
         /\ p[3] = Exec(n) /\ p[4] = Exec(n) /\ p[5] = Drop(n)
         /\ p[6] = [op |-> "boot", on |-> Con(k, "native")]
<1> DEFINE n == Con(k, "restorer")
           a == << RunOnline(n, {Tools}), Restore(n, k), Exec(n) >>
           e == << Exec(n) >>
           d == << Drop(n), [op |-> "boot", on |-> Con(k, "native")] >>
           c == [op |-> "boot", on |-> Con(k, "native")]
<1>1. /\ Len(a) = 3 /\ a[1] = RunOnline(n, {Tools}) /\ a[2] = Restore(n, k) /\ a[3] = Exec(n)
      /\ Len(d) = 2 /\ d[1] = Drop(n) /\ d[2] = c /\ Len(e) = 1 /\ e[1] = Exec(n)
  OBVIOUS
<1>2. /\ a \in Seq({RunOnline(n, {Tools}), Restore(n, k), Exec(n)}) /\ e \in Seq({Exec(n)})
      /\ d \in Seq({Drop(n), c})
  OBVIOUS
<1>3. Bazarr(k) = a \o e \o d
  BY DEF Bazarr, ExtractOriginal
<1> HIDE DEF n, a, e, d, c
<1>4. Prog(a) /\ Prog(e) /\ Prog(d)
  BY <1>2 DEF Prog
<1>5. /\ Prog(a \o e) /\ Len(a \o e) = Len(a) + Len(e)
      /\ \A i \in 1..Len(a) : (a \o e)[i] = a[i]
      /\ \A i \in 1..Len(e) : (a \o e)[Len(a) + i] = e[i]
  BY <1>4, Join
<1>6. /\ Prog(a \o e \o d) /\ Len(a \o e \o d) = Len(a \o e) + Len(d)
      /\ \A i \in 1..Len(a \o e) : (a \o e \o d)[i] = (a \o e)[i]
      /\ \A i \in 1..Len(d) : (a \o e \o d)[Len(a \o e) + i] = d[i]
  BY <1>4, <1>5, Join
<1>7. QED
  BY <1>1, <1>3, <1>5, <1>6 DEF n, c

LEMMA BazarrPiece == ASSUME NEW k \in Kinds PROVE Piece("bazarr", Bazarr(k))
<1> DEFINE p == Bazarr(k)
           n == Con(k, "restorer")
<1>1. n \in Names /\ n[1] = "containers" /\ n # Mover
  <2>1. "restorer" \in Parts
    BY DEF Parts
  <2>2. QED
    BY <2>1, KindNames
<1>2. /\ Prog(p) /\ Len(p) = 6 /\ p[1] = RunOnline(n, {Tools}) /\ p[2] = Restore(n, k)
      /\ p[3] = Exec(n) /\ p[4] = Exec(n) /\ p[5] = Drop(n)
      /\ p[6] = [op |-> "boot", on |-> Con(k, "native")]
  BY BazarrSteps
<1> HIDE DEF p, n
<1>3. /\ BodyStep("bazarr", p[1]) /\ p[1].op = "run" /\ p[1].on = n /\ ~p[1].boot
  BY <1>1, <1>2, RunStep DEF Tame
<1>4. /\ BodyStep("bazarr", p[2]) /\ p[2].op = "restore"
      /\ BodyStep("bazarr", p[3]) /\ p[3].op = "exec"
      /\ BodyStep("bazarr", p[4]) /\ p[4].op = "exec"
      /\ BodyStep("bazarr", p[5]) /\ p[5].op = "remove"
  BY <1>1, <1>2, RestoreStep, ExecStep, DropStep DEF Calm
<1>5. BodyStep("bazarr", p[6])
  BY <1>2 DEF BodyStep, WorkOps
<1>6. \A i \in 1..6 : BodyStep("bazarr", p[i]) /\ (i # 1 => p[i].op # "run") /\ p[i].op # "capture"
  BY <1>2, <1>3, <1>4, <1>5
<1>7. All("bazarr", p) /\ Starts(p)
  BY <1>2, <1>6 DEF All, Starts
<1>8. \A i \in 2..5 : ~Boots(p[i]) /\ p[i].op # "run"
  BY <1>2, <1>4 DEF Boots
<1>9. Lone(p) /\ Single(p)
  <2> SUFFICES ASSUME NEW i \in 1..Len(p), p[i].op = "run"
               PROVE  /\ Nets(p[i]) => \E j \in i + 1..Len(p) :
                           p[j] = Drop(p[i].on) /\ \A k2 \in i + 1..j : ~Boots(p[k2])
                      /\ ~p[i].boot
                      /\ \E j \in i + 1..Len(p) :
                           p[j] = Drop(p[i].on) /\ \A k2 \in i + 1..j : p[k2].op # "run"
    BY DEF Lone, Single, Nets
  <2>1. i = 1
    BY <1>2, <1>6
  <2>2. QED
    BY <1>2, <1>3, <1>8, <2>1
<1>10. QED
  BY <1>7, <1>9 DEF Piece, p

LEMMA FencePiece == Piece("fence", FenceNative)
<1> DEFINE f == [i \in 1..4 |-> Create(FenceVolume(<<"runtime", "app", "books", "db">>[i]), TRUE)]
           dm == {FenceVolume("db"), FenceVolume("runtime")}
           am == {FenceVolume(r) : r \in {"app", "books", "runtime", "db"}}
           rm == {FenceVolume("app"), FenceVolume("books")}
           b == << Run(FenceDb, dm), Exec(FenceDb), Exec(FenceDb), Run(FenceApp, am),
                   Exec(FenceApp) >>
           r == << Exec(FenceApp), Run(Rollback, rm), Exec(Rollback) >>
           s == {Run(FenceDb, dm), Run(FenceApp, am), Run(Rollback, rm), Exec(FenceDb),
                 Exec(FenceApp), Exec(Rollback)}
           w == {Create(FenceVolume(v), TRUE) : v \in {"runtime", "app", "books", "db"}}
<1>1. "run" \in Owners /\ {"runtime", "app", "books", "db", "rollback"} \subseteq Parts
  BY DEF Owners, Parts
<1>2. /\ \A v \in {"runtime", "app", "books", "db"} :
           FenceVolume(v) \in Names /\ FenceVolume(v)[1] = "volumes"
      /\ \A n \in {FenceDb, FenceApp, Rollback} : n \in Names /\ n[1] = "containers" /\ n # Mover
  BY <1>1, Named DEF FenceVolume, FenceDb, FenceApp, Rollback
<1>3. f \in Seq(w)
  <2>1. \A i \in 1..4 : <<"runtime", "app", "books", "db">>[i] \in {"runtime", "app", "books", "db"}
    OBVIOUS
  <2>2. f \in [1..4 -> w]
    BY <2>1
  <2> HIDE DEF f, w
  <2>3. QED
    BY <2>2, SeqDef
<1>4. b \in Seq(s) /\ FenceRounds \in Seq(s) /\ FenceReplacement \in Seq(s) /\ r \in Seq(s)
  BY DEF FenceRounds, FenceReplacement
<1>5. FenceNative = f \o b \o FenceRounds \o FenceReplacement \o r
  BY DEF FenceNative, FenceBoot, FenceRollback
<1>6. \A y \in w : Dark("fence", y, {})
  BY <1>2, CreateStep, CalmDark
<1>7. \A y \in s : Dark("fence", y, {})
  <2>1. /\ Dark("fence", Run(FenceDb, dm), {}) /\ Dark("fence", Run(FenceApp, am), {})
        /\ Dark("fence", Run(Rollback, rm), {})
    BY <1>2, RunDark
  <2>2. QED
    BY <2>1, ExecStep, CalmDark
<1> HIDE DEF f, b, r, s, w
<1>8. /\ Offline("fence", f, {}) /\ Offline("fence", b, {}) /\ Offline("fence", r, {})
      /\ Offline("fence", FenceRounds, {}) /\ Offline("fence", FenceReplacement, {})
  BY <1>3, <1>4, <1>6, <1>7, FromDark
<1>9. Offline("fence", FenceNative, {})
  BY <1>5, <1>8, JoinOffline
<1>10. QED
  BY <1>9, OfflinePiece
-----------------------------------------------------------------------------
(* What the bodies verify: after the last restore of a backend its point is   *)
(* checked.                                                                    *)

NoRestore(p, k) == \A i \in 1..Len(p) : ~(p[i].op = "restore" /\ p[i].kind = k)
Checked(p, k) == PassedBy(p, Len(p), k)
Restores(p, k) == GotBy(p, Len(p), k)

LEMMA JoinNoRestore ==
  ASSUME NEW p, NEW q, Prog(p), Prog(q), NEW k, NoRestore(p, k), NoRestore(q, k)
  PROVE  NoRestore(p \o q, k)
  BY Join DEF NoRestore

LEMMA JoinChecked ==
  ASSUME NEW p, NEW q, Prog(p), Prog(q), NEW k
  PROVE  /\ Checked(q, k) => Checked(p \o q, k)
         /\ Checked(p, k) /\ NoRestore(q, k) => Checked(p \o q, k)
<1> DEFINE r == p \o q
           n == Len(p)
<1>1. /\ n \in Nat /\ Len(q) \in Nat /\ Len(r) = n + Len(q)
      /\ \A i \in 1..n : r[i] = p[i]
      /\ \A i \in 1..Len(q) : r[n + i] = q[i]
  BY Join
<1> HIDE DEF r, n
<1>2. ASSUME Checked(q, k) PROVE Checked(r, k)
  <2>1. PICK i \in 1..Len(q) : /\ q[i].op = "check" /\ q[i].kind = k
                               /\ \A j \in i + 1..Len(q) : ~(q[j].op = "restore" /\ q[j].kind = k)
    BY <1>2 DEF Checked, PassedBy
  <2>2. n + i \in 1..Len(r) /\ r[n + i] = q[i]
    BY <1>1
  <2>3. \A j \in n + i + 1..Len(r) :
          j - n \in i + 1..Len(q) /\ r[n + (j - n)] = q[j - n] /\ n + (j - n) = j
    BY <1>1
  <2>4. QED
    BY <2>1, <2>2, <2>3 DEF Checked, PassedBy
<1>3. ASSUME Checked(p, k), NoRestore(q, k) PROVE Checked(r, k)
  <2>1. PICK i \in 1..n : /\ p[i].op = "check" /\ p[i].kind = k
                          /\ \A j \in i + 1..n : ~(p[j].op = "restore" /\ p[j].kind = k)
    BY <1>3 DEF Checked, PassedBy, n
  <2>2. \A j \in i + 1..Len(r) :
          j > n => j - n \in 1..Len(q) /\ r[n + (j - n)] = q[j - n] /\ n + (j - n) = j
    BY <1>1
  <2>3. ASSUME NEW j \in i + 1..Len(r) PROVE ~(r[j].op = "restore" /\ r[j].kind = k)
    <3>1. CASE j <= n
      BY <1>1, <2>1, <3>1
    <3>2. CASE j > n
      BY <1>1, <1>3, <2>2, <3>2 DEF NoRestore
    <3>3. QED
      BY <1>1, <3>1, <3>2
  <2>4. i \in 1..Len(r) /\ r[i] = p[i]
    BY <1>1
  <2>5. QED
    BY <2>1, <2>3, <2>4 DEF Checked, PassedBy
<1>4. QED
  BY <1>2, <1>3 DEF r

LEMMA JoinRestores ==
  ASSUME NEW p, NEW q, Prog(p), Prog(q), NEW k, Restores(p, k) \/ Restores(q, k)
  PROVE  Restores(p \o q, k)
<1>1. CASE Restores(p, k)
  BY <1>1, Join DEF Restores, GotBy
<1>2. CASE Restores(q, k)
  <2>1. PICK i \in 1..Len(q) : q[i].op = "restore" /\ q[i].kind = k
    BY <1>2 DEF Restores, GotBy
  <2>2. Len(p) + i \in 1..Len(p \o q) /\ (p \o q)[Len(p) + i] = q[i]
    BY Join
  <2>3. QED
    BY <2>1, <2>2 DEF Restores, GotBy
<1>3. QED
  BY <1>1, <1>2

LEMMA NoRestoreSet ==
  ASSUME NEW s, NEW p \in Seq(s), NEW k, \A y \in s : ~(y.op = "restore" /\ y.kind = k)
  PROVE  NoRestore(p, k) /\ Prog(p)
<1>1. Len(p) \in Nat /\ \A i \in 1..Len(p) : p[i] \in s
  OBVIOUS
<1>2. QED
  BY <1>1 DEF NoRestore, Prog

LEMMA PieceProg == ASSUME NEW x, NEW p, Piece(x, p) PROVE Prog(p)
  BY DEF Piece, All

Other(k) == Kinds \ {k}

LEMMA ExerciseChecks ==
  ASSUME NEW k \in Kinds
  PROVE  Checked(Exercise(k), k) /\ \A o \in Other(k) : NoRestore(Exercise(k), o)
<1> DEFINE a == << StartMover({}), Capture(Mover, k) >>
           b == IF k = "nas" THEN << Exec(Mover) >> ELSE << >>
           c == << Drop(Mover), StartMover({}), Exec(Mover), Drop(Mover),
                   StartMover({}), Restore(Mover, k), Check(Mover, k), Drop(Mover) >>
           s == MoverWork({}, k) \cup {Capture(Mover, k)}
<1>1. "radarr" \in Moving
  BY DEF Moving
<1>2. /\ Check(Mover, k).op = "check" /\ Check(Mover, k).kind = k /\ Drop(Mover).op = "remove"
      /\ Restore(Mover, k).op = "restore" /\ Restore(Mover, k).kind = k
      /\ StartMover({}).op = "run" /\ Exec(Mover).op = "exec" /\ Capture(Mover, k).op = "capture"
  BY <1>1, CheckStep, DropStep, RestoreStep, StartStep, ExecStep, CaptureStep
<1>3. a \in Seq(s) /\ c \in Seq(s) /\ Len(c) = 8 /\ c[7] = Check(Mover, k) /\ c[8] = Drop(Mover)
  BY DEF MoverWork
<1>4. b \in Seq(s)
  <2>1. CASE k = "nas"
    <3>1. << Exec(Mover) >> \in Seq(s)
      BY DEF MoverWork
    <3>2. QED
      BY <2>1, <3>1
  <2>2. CASE k # "nas"
    <3>1. << >> \in Seq(s)
      OBVIOUS
    <3>2. QED
      BY <2>2, <3>1
  <2>3. QED
    BY <2>1, <2>2
<1>5. \A y \in s, o \in Other(k) : ~(y.op = "restore" /\ y.kind = o)
  BY <1>2 DEF MoverWork, Other
<1>6. Exercise(k) = a \o b \o c
  BY DEF Exercise
<1> HIDE DEF a, b, c, s
<1>7. Checked(c, k)
  BY <1>2, <1>3 DEF Checked, PassedBy
<1>8. Prog(a) /\ Prog(b) /\ Prog(c) /\ Prog(a \o b)
  BY <1>3, <1>4, Join DEF Prog
<1>9. \A o \in Other(k) : NoRestore(a, o) /\ NoRestore(b, o) /\ NoRestore(c, o)
  BY <1>3, <1>4, <1>5, NoRestoreSet
<1>10. QED
  BY <1>6, <1>7, <1>8, <1>9, JoinChecked, JoinNoRestore

LEMMA CheckOne ==
  ASSUME NEW c, NEW k \in Kinds
  PROVE  LET p == << Check(c, k) >> IN Prog(p) /\ Checked(p, k) /\ \A o : NoRestore(p, o)
<1>1. Check(c, k).op = "check" /\ Check(c, k).kind = k
  BY CheckStep
<1> DEFINE p == << Check(c, k) >>
<1>2. Prog(p) /\ Len(p) = 1 /\ p[1] = Check(c, k)
  BY One
<1> HIDE DEF p
<1>3. QED
  BY <1>1, <1>2 DEF Checked, PassedBy, NoRestore, p

LEMMA TransportRestoreOne ==
  ASSUME NEW k \in Kinds, NEW v, NEW o \in Other(k) PROVE NoRestore(TransportRestore(k, v), o)
<1> DEFINE s == MoverWork({}, k) \cup MoverWork({v}, k)
<1>1. "pds" \in Moving
  BY DEF Moving
<1>2. TransportRestore(k, v) \in Seq(s)
  BY DEF MoverWork, TransportRestore
<1>3. /\ \A u : StartMover(u).op = "run"
      /\ Exec(Mover).op = "exec" /\ Drop(Mover).op = "remove" /\ Restore(Mover, k).kind = k
      /\ Check(Mover, k).op = "check"
  BY <1>1, StartStep, ExecStep, DropStep, RestoreStep, CheckStep
<1>4. \A y \in s : ~(y.op = "restore" /\ y.kind = o)
  BY <1>3 DEF MoverWork, Other
<1> HIDE DEF s
<1>5. QED
  BY <1>2, <1>4, NoRestoreSet

LEMMA QuiesceChecks == Checked(QuiesceCopyResume, "nas") /\ Checked(QuiesceCopyResume, "r2")
<1> DEFINE a == << Exec(PdsApp), Exec(PdsApp), Task({PdsSource, Point}), Task({Point}) >>
           b == << Drop(PdsApp), Drop(PdsSource), Drop(Point) >>
           s == {Exec(PdsApp), Task({PdsSource, Point}), Task({Point}), Drop(PdsApp),
                 Drop(PdsSource), Drop(Point)}
           w == OwnVolume(Point) \o a \o TransportCapture("nas", Point)
                  \o TransportCapture("r2", Point) \o b \o OwnVolume(Vol("r2", "restored"))
           rn == TransportRestore("nas", Vol("nas", "restored"))
           rr == TransportRestore("r2", Vol("r2", "restored"))
           c(k) == << Check(Con("run", "anonymous"), k) >>
<1>1. "nas" \in Kinds /\ "r2" \in Kinds /\ "nas" \in Other("r2")
  BY DEF Kinds, Other
<1>2. a \in Seq(s) /\ b \in Seq(s)
  OBVIOUS
<1>3. QuiesceCopyResume = w \o rn \o c("nas") \o rr \o c("r2")
  BY DEF QuiesceCopyResume
<1>4. Prog(a) /\ Prog(b)
  BY <1>2 DEF Prog
<1>5. /\ Prog(OwnVolume(Point)) /\ Prog(OwnVolume(Vol("r2", "restored")))
      /\ Prog(TransportCapture("nas", Point)) /\ Prog(TransportCapture("r2", Point))
      /\ Prog(rn) /\ Prog(rr)
  BY <1>1, PdsNames, OwnVolumePiece, TransportCapturePiece, TransportRestorePiece, PieceProg
<1>6. \A k \in Kinds : Prog(c(k)) /\ Checked(c(k), k) /\ \A o : NoRestore(c(k), o)
  BY CheckOne
<1>7. NoRestore(rr, "nas")
  BY <1>1, TransportRestoreOne
<1> HIDE DEF a, b, s, rn, rr, c
<1>8. Prog(w)
  BY <1>4, <1>5, Join
<1> HIDE DEF w
<1>9. Prog(w \o rn) /\ Prog(w \o rn \o c("nas")) /\ Prog(w \o rn \o c("nas") \o rr)
  BY <1>1, <1>5, <1>6, <1>8, Join
<1>10. Checked(w \o rn \o c("nas"), "nas")
  BY <1>1, <1>6, <1>9, JoinChecked
<1>11. Checked(w \o rn \o c("nas") \o rr, "nas")
  BY <1>5, <1>7, <1>9, <1>10, JoinChecked
<1>12. QED
  BY <1>1, <1>3, <1>6, <1>9, <1>11, JoinChecked

LEMMA PdsVerifyNone ==
  ASSUME NEW k \in Kinds, NEW o PROVE NoRestore(PdsVerify(k), o)
<1> DEFINE v == Vol(k, "restored")
           t == Con(k, "target")
           s == {Task({v}), RunBoot(t, {v}), Exec(t)}
<1>1. Task({v}).op = "task" /\ RunBoot(t, {v}).op = "run" /\ Exec(t).op = "exec"
  BY TaskStep, ExecStep, RunStep, PdsNames
<1>2. PdsVerify(k) \in Seq(s)
  BY DEF PdsVerify
<1>3. \A y \in s : ~(y.op = "restore" /\ y.kind = o)
  BY <1>1
<1> HIDE DEF s
<1>4. QED
  BY <1>2, <1>3, NoRestoreSet

LEMMA PdsChecks == \A k \in Kinds : Checked(Pds, k)
<1> DEFINE a == << Run(PdsApp, {PdsSource}), Exec(PdsApp) >>
           w == OwnVolume(PdsSource) \o OwnVolume(Vol("nas", "restored")) \o a
<1>1. "nas" \in Kinds /\ "r2" \in Kinds /\ Kinds = {"nas", "r2"}
  BY DEF Kinds
<1>2. a \in Seq({Run(PdsApp, {PdsSource}), Exec(PdsApp)})
  OBVIOUS
<1>3. Pds = w \o QuiesceCopyResume \o PdsVerify("nas") \o PdsVerify("r2")
  BY DEF Pds
<1> HIDE DEF a
<1>4. /\ Prog(OwnVolume(PdsSource)) /\ Prog(OwnVolume(Vol("nas", "restored"))) /\ Prog(a)
      /\ Prog(QuiesceCopyResume) /\ Prog(PdsVerify("nas")) /\ Prog(PdsVerify("r2"))
  <2>1. Prog(a)
    BY <1>2 DEF Prog
  <2>2. QED
    BY <1>1, <2>1, PdsNames, OwnVolumePiece, QuiescePiece, PdsVerifyPiece, PieceProg
<1>5. Prog(w) /\ Prog(w \o QuiesceCopyResume) /\ Prog(w \o QuiesceCopyResume \o PdsVerify("nas"))
  BY <1>4, Join
<1> HIDE DEF w
<1>6. ASSUME NEW k \in Kinds PROVE Checked(Pds, k)
  <2>1. Checked(w \o QuiesceCopyResume, k)
    BY <1>1, <1>4, <1>5, QuiesceChecks, JoinChecked
  <2>2. NoRestore(PdsVerify("nas"), k) /\ NoRestore(PdsVerify("r2"), k)
    BY <1>1, PdsVerifyNone
  <2>3. Checked(w \o QuiesceCopyResume \o PdsVerify("nas"), k)
    BY <1>4, <1>5, <2>1, <2>2, JoinChecked
  <2>4. QED
    BY <1>3, <1>4, <1>5, <2>2, <2>3, JoinChecked
<1>7. QED
  BY <1>6

LEMMA KeptVolumeNone ==
  ASSUME NEW k \in Kinds, NEW r \in Parts, NEW o
  PROVE  NoRestore(KeptVolume(Vol(k, r)), o) /\ Prog(KeptVolume(Vol(k, r)))
<1> DEFINE v == Vol(k, r)
           n == <<"containers", v[2], "keep", v[3]>>
           s == {Create(v, FALSE), Run(n, {v})}
<1>1. KeptVolume(v) \in Seq(s)
  BY DEF KeptVolume
<1>2. Create(v, FALSE).op = "create" /\ Run(n, {v}).op = "run"
  BY DEF Create, Run
<1>3. \A y \in s : ~(y.op = "restore" /\ y.kind = o)
  BY <1>2
<1> HIDE DEF s, v
<1>4. QED
  BY <1>1, <1>3, NoRestoreSet DEF v

LEMMA PdsReadChecks ==
  ASSUME NEW k \in Kinds
  PROVE  Checked(PdsRead(k), k) /\ \A o \in Other(k) : NoRestore(PdsRead(k), o)
<1> DEFINE n == Con(k, "reader")
           c == Con(k, "check")
           m == {Vol(k, "work"), Vol(k, "restore"), Tools}
           w == {Vol(k, "restore"), Vol(k, "tools")}
           s == {RunOnline(n, m), Exec(n), Restore(n, k), Drop(n), Run(c, w), Check(c, k), Exec(c),
                 Drop(c)}
           p == PdsRead(k)
<1>1. p \in Seq(s) /\ Len(p) = 8 /\ p[6] = Check(c, k) /\ p[7] = Exec(c) /\ p[8] = Drop(c)
  BY DEF PdsRead
<1>2. /\ Exec(n).op = "exec" /\ Exec(c).op = "exec" /\ Drop(n).op = "remove"
      /\ Drop(c).op = "remove" /\ RunOnline(n, m).op = "run" /\ Run(c, w).op = "run"
      /\ Restore(n, k).kind = k /\ Check(c, k).op = "check" /\ Check(c, k).kind = k
  BY DEF Exec, Drop, RunOnline, Run, Restore, Check
<1>3. \A y \in s, o \in Other(k) : ~(y.op = "restore" /\ y.kind = o)
  BY <1>2 DEF Other
<1> HIDE DEF s, p, n, c, m, w
<1>4. Checked(p, k)
  BY <1>1, <1>2 DEF Checked, PassedBy
<1>5. QED
  BY <1>1, <1>3, <1>4, NoRestoreSet DEF p

LEMMA PdsBootNone == ASSUME NEW k \in Kinds, NEW o PROVE NoRestore(PdsBoot(k), o)
<1> DEFINE t == Con(k, "boot")
           m == {Vol(k, "restore"), Vol(k, "tools")}
           a == << RunBoot(t, m), Exec(t) >>
           e == << Exec(t) >>
           q == << Drop(t) >>
           s == {RunBoot(t, m), Exec(t), Drop(t)}
<1>1. PdsBoot(k) = a \o e \o (e \o e \o (e \o e) \o (e \o e)) \o q
  BY DEF PdsBoot, OriginalApi, ConsumerRecovery, HeldRound
<1>2. a \in Seq(s) /\ e \in Seq(s) /\ q \in Seq(s)
  OBVIOUS
<1>3. RunBoot(t, m).op = "run" /\ Exec(t).op = "exec" /\ Drop(t).op = "remove"
  BY DEF RunBoot, Run, Exec, Drop
<1>4. \A y \in s : ~(y.op = "restore" /\ y.kind = o)
  BY <1>3
<1> HIDE DEF a, e, q, s, t
<1>5. /\ Prog(a) /\ Prog(e) /\ Prog(q)
      /\ NoRestore(a, o) /\ NoRestore(e, o) /\ NoRestore(q, o)
  BY <1>2, <1>4, NoRestoreSet
<1>6. NoRestore(a \o e, o) /\ Prog(a \o e) /\ NoRestore(e \o e, o) /\ Prog(e \o e)
  BY <1>5, Join, JoinNoRestore
<1>7. NoRestore(e \o e \o (e \o e) \o (e \o e), o) /\ Prog(e \o e \o (e \o e) \o (e \o e))
  BY <1>6, Join, JoinNoRestore
<1>8. /\ NoRestore(a \o e \o (e \o e \o (e \o e) \o (e \o e)), o)
      /\ Prog(a \o e \o (e \o e \o (e \o e) \o (e \o e)))
  BY <1>6, <1>7, Join, JoinNoRestore
<1>9. QED
  BY <1>1, <1>5, <1>8, JoinNoRestore

LEMMA PdsOriginalChecks ==
  ASSUME NEW k \in Kinds
  PROVE  Checked(PdsOriginal(k), k) /\ \A o \in Other(k) : NoRestore(PdsOriginal(k), o)
<1> DEFINE v == KeptVolume(Vol(k, "work")) \o KeptVolume(Vol(k, "restore"))
                  \o KeptVolume(Vol(k, "tools"))
<1>1. "work" \in Parts /\ "restore" \in Parts /\ "tools" \in Parts
  BY DEF Parts
<1>2. Prog(v) /\ \A o : NoRestore(v, o)
  BY <1>1, KeptVolumeNone, Join, JoinNoRestore
<1>3. Prog(PdsRead(k)) /\ Prog(PdsBoot(k))
  BY PdsReadPiece, PdsBootPiece, PieceProg
<1>4. PdsOriginal(k) = v \o PdsRead(k) \o PdsBoot(k)
  BY DEF PdsOriginal
<1> HIDE DEF v
<1>5. Prog(v \o PdsRead(k)) /\ Checked(v \o PdsRead(k), k)
  BY <1>2, <1>3, PdsReadChecks, Join, JoinChecked
<1>6. \A o \in Other(k) : NoRestore(v \o PdsRead(k), o)
  BY <1>2, <1>3, PdsReadChecks, JoinNoRestore
<1>7. QED
  BY <1>3, <1>4, <1>5, <1>6, PdsBootNone, JoinChecked, JoinNoRestore

LEMMA GrimmoryReadOne ==
  ASSUME NEW k \in Kinds, NEW o \in Other(k) PROVE NoRestore(GrimmoryRead(k), o)
<1> DEFINE n == Con(k, "reader")
           m == Held(k, {"work", "restored"}) \cup {Tools}
           s == {RunOnline(n, m), Exec(n), Restore(n, k), Drop(n)}
<1>1. GrimmoryRead(k) \in Seq(s)
  BY DEF GrimmoryRead
<1>2. /\ RunOnline(n, m).op = "run" /\ Exec(n).op = "exec" /\ Drop(n).op = "remove"
      /\ Restore(n, k).kind = k
  BY DEF RunOnline, Run, Exec, Drop, Restore
<1>3. \A y \in s : ~(y.op = "restore" /\ y.kind = o)
  BY <1>2 DEF Other
<1> HIDE DEF s
<1>4. QED
  BY <1>1, <1>3, NoRestoreSet

LEMMA GrimmoryCheckedChecks ==
  ASSUME NEW k \in Kinds
  PROVE  Checked(GrimmoryChecked(k), k) /\ \A o : NoRestore(GrimmoryChecked(k), o)
<1> DEFINE c == Con(k, "checker")
           m == Held(k, {"restored", "app", "tools", "books"})
           s == {Run(c, m), Check(c, k), Exec(c), Drop(c)}
           p == GrimmoryChecked(k)
<1>1. p \in Seq(s) /\ Len(p) = 4 /\ p[2] = Check(c, k) /\ p[3] = Exec(c) /\ p[4] = Drop(c)
  BY DEF GrimmoryChecked
<1>2. /\ Run(c, m).op = "run" /\ Exec(c).op = "exec" /\ Drop(c).op = "remove"
      /\ Check(c, k).op = "check" /\ Check(c, k).kind = k
  BY DEF Run, Exec, Drop, Check
<1>3. \A y \in s : y.op # "restore"
  BY <1>2
<1> HIDE DEF s, p, c, m
<1>4. Checked(p, k)
  BY <1>1, <1>2 DEF Checked, PassedBy
<1>5. QED
  BY <1>1, <1>3, <1>4, NoRestoreSet DEF p

LEMMA GrimmoryServeNone == ASSUME NEW k \in Kinds, NEW o PROVE NoRestore(GrimmoryServe(k), o)
<1> DEFINE a == << RunBoot(Database(k), Held(k, {"database", "restored", "tools"})),
                   Exec(Database(k)), DataDigest(k), StartConsumer(k), Serves(k),
                   ConsumerBooks(k), Exec(App(k)), Serves(k), ConsumerBooks(k), DataDigest(k) >>
           b == RecreateConsumer(k)
           q == << ConsumerBooks(k), Drop(App(k)), Drop(Database(k)) >>
           s == Serving(k) \cup {Drop(Database(k))}
<1>1. a \in Seq(s) /\ b \in Seq(s) /\ q \in Seq(s)
  BY DEF Serving, Serves, RecreateConsumer
<1>2. GrimmoryServe(k) = a \o b \o q
  BY DEF GrimmoryServe
<1>3. \A y \in s : y.op # "restore"
  BY DEF Serving, RunBoot, Run, StartConsumer, Exec, DataDigest, Check, ConsumerBooks, Task, Drop
<1> HIDE DEF a, b, q, s
<1>4. /\ Prog(a) /\ Prog(b) /\ Prog(q)
      /\ NoRestore(a, o) /\ NoRestore(b, o) /\ NoRestore(q, o)
  BY <1>1, <1>3, NoRestoreSet
<1>5. QED
  BY <1>2, <1>4, Join, JoinNoRestore

LEMMA GrimmoryChecks ==
  ASSUME NEW k \in Kinds
  PROVE  Checked(GrimmoryOriginal(k), k) /\ \A o \in Other(k) : NoRestore(GrimmoryOriginal(k), o)
<1> DEFINE v == GrimmoryVolumes(k)
           r == GrimmoryRead(k)
           c == GrimmoryChecked(k)
           e == GrimmoryServe(k)
<1>1. /\ "work" \in Parts /\ "restored" \in Parts /\ "tools" \in Parts /\ "app" \in Parts
      /\ "database" \in Parts /\ "books" \in Parts
  BY DEF Parts
<1>2. Prog(v) /\ \A o : NoRestore(v, o)
  BY <1>1, KeptVolumeNone, Join, JoinNoRestore DEF GrimmoryVolumes
<1>3. Prog(r) /\ Prog(c) /\ Prog(e)
  BY GrimmoryReadPiece, GrimmoryCheckedPiece, GrimmoryServePiece, PieceProg
<1>4. GrimmoryOriginal(k) = v \o r \o c \o e
  BY DEF GrimmoryOriginal
<1>5. /\ Checked(c, k)
      /\ \A o \in Other(k) : NoRestore(r, o) /\ NoRestore(c, o) /\ NoRestore(e, o)
      /\ NoRestore(e, k)
  BY GrimmoryReadOne, GrimmoryCheckedChecks, GrimmoryServeNone
<1> HIDE DEF v, r, c, e
<1>6. Prog(v \o r) /\ Prog(v \o r \o c) /\ Checked(v \o r \o c, k)
  BY <1>2, <1>3, <1>5, Join, JoinChecked
<1>7. Checked(v \o r \o c \o e, k)
  BY <1>3, <1>5, <1>6, JoinChecked
<1>8. \A o \in Other(k) : NoRestore(v \o r \o c \o e, o)
  BY <1>2, <1>3, <1>5, <1>6, JoinNoRestore
<1>9. QED
  BY <1>4, <1>7, <1>8

LEMMA BazarrRestores == ASSUME NEW k \in Kinds PROVE Restores(Bazarr(k), k)
<1>1. Len(Bazarr(k)) = 6 /\ Bazarr(k)[2] = Restore(Con(k, "restorer"), k)
  BY BazarrSteps
<1>2. QED
  BY <1>1, RestoreStep DEF Restores, GotBy

\* The steps that end the bodies of the originals.
LEMMA CompareLast ==
  ASSUME NEW p, Prog(p)
  PROVE  MatchedBy(p \o << Compare >>, Len(p \o << Compare >>))
<1>1. Prog(<< Compare >>) /\ Len(<< Compare >>) = 1 /\ << Compare >>[1] = Compare
  BY One
<1> DEFINE q == << Compare >>
           r == p \o q
<1>2. Len(p) \in Nat /\ Len(r) = Len(p) + 1 /\ r[Len(p) + 1] = Compare
  BY <1>1, Join
<1> HIDE DEF q, r
<1>3. QED
  BY <1>2, CompareStep DEF MatchedBy, q, r
-----------------------------------------------------------------------------
(* The volumes that commands mount have been created and not removed          *)

Takes(c, v) == c.op = "remove" /\ c.on = v
Mounts(c) == IF c.op \in {"run", "task"} THEN c.mounts ELSE {}

\* The first n commands of p have made v, or had it at their start and keep it.
MadeBy(p, n, v) == \E j \in 1..n : /\ p[j].op = "create" /\ p[j].on = v
                                   /\ \A k \in j + 1..n : ~Takes(p[k], v)
HasAt(p, a, n, v) == \/ v \in a /\ \A k \in 1..n : ~Takes(p[k], v)
                     \/ MadeBy(p, n, v)

\* With the volumes a at its start, p mounts what is there and ends with at least b.
Has(p, a, b) == /\ Prog(p)
                /\ \A i \in 1..Len(p) : \A v \in Mounts(p[i]) : HasAt(p, a, i - 1, v)
                /\ \A v \in b : HasAt(p, a, Len(p), v)

\* A command for which the volumes a suffice, and which removes none of them.
Fits(c, a) == Mounts(c) \subseteq a /\ \A v \in a : ~Takes(c, v)
Vols(a) == \A v \in a : v[1] \in {"tools", "volumes"}

LEMMA JoinHas ==
  ASSUME NEW p, NEW q, NEW a, NEW b, NEW c, Has(p, a, b), Has(q, b, c)
  PROVE  Has(p \o q, a, c)
<1> DEFINE r == p \o q
           n == Len(p)
<1>1. /\ Prog(r) /\ n \in Nat /\ Len(q) \in Nat /\ Len(r) = n + Len(q)
      /\ \A i \in 1..n : r[i] = p[i]
      /\ \A i \in 1..Len(q) : r[n + i] = q[i]
  BY Join DEF Has
<1> HIDE DEF r, n
<1>2. ASSUME NEW m \in 0..n, NEW v, HasAt(p, a, m, v) PROVE HasAt(r, a, m, v)
  <2>1. \A k \in 1..m : r[k] = p[k]
    BY <1>1
  <2>2. CASE v \in a /\ \A k \in 1..m : ~Takes(p[k], v)
    BY <2>1, <2>2 DEF HasAt
  <2>3. CASE MadeBy(p, m, v)
    <3>1. PICK j \in 1..m : /\ p[j].op = "create" /\ p[j].on = v
                            /\ \A k \in j + 1..m : ~Takes(p[k], v)
      BY <2>3 DEF MadeBy
    <3>2. \A k \in j + 1..m : k \in 1..m
      BY <1>1
    <3>3. QED
      BY <2>1, <3>1, <3>2 DEF HasAt, MadeBy
  <2>4. QED
    BY <1>2, <2>2, <2>3 DEF HasAt
<1>3. ASSUME NEW m \in 0..Len(q), NEW v, HasAt(q, b, m, v) PROVE HasAt(r, a, n + m, v)
  <2>1. \A k \in 1..n + m : k > n => k - n \in 1..m /\ r[k] = q[k - n]
    <3> SUFFICES ASSUME NEW k \in 1..n + m, k > n PROVE k - n \in 1..m /\ r[k] = q[k - n]
      OBVIOUS
    <3>1. k - n \in 1..m /\ k - n \in 1..Len(q) /\ n + (k - n) = k
      BY <1>1
    <3>2. QED
      BY <1>1, <3>1
  <2>2. CASE v \in b /\ \A k \in 1..m : ~Takes(q[k], v)
    <3>1. HasAt(r, a, n, v)
      BY <1>1, <1>2, <2>2 DEF Has, n
    <3>2. \A k \in n + 1..n + m : ~Takes(r[k], v)
      <4> SUFFICES ASSUME NEW k \in n + 1..n + m PROVE ~Takes(r[k], v)
        OBVIOUS
      <4>1. k \in 1..n + m /\ k > n
        BY <1>1
      <4>2. k - n \in 1..m /\ r[k] = q[k - n]
        BY <2>1, <4>1
      <4>3. QED
        BY <2>2, <4>2
    <3>3. CASE v \in a /\ \A k \in 1..n : ~Takes(r[k], v)
      <4>1. \A k \in 1..n + m : ~Takes(r[k], v)
        BY <1>1, <3>2, <3>3
      <4>2. QED
        BY <3>3, <4>1 DEF HasAt
    <3>4. CASE MadeBy(r, n, v)
      <4>1. PICK j \in 1..n : /\ r[j].op = "create" /\ r[j].on = v
                              /\ \A k \in j + 1..n : ~Takes(r[k], v)
        BY <3>4 DEF MadeBy
      <4>2. j \in 1..n + m /\ \A k \in j + 1..n + m : ~Takes(r[k], v)
        BY <1>1, <3>2, <4>1
      <4>3. QED
        BY <4>1, <4>2 DEF HasAt, MadeBy
    <3>5. QED
      BY <3>1, <3>3, <3>4 DEF HasAt
  <2>3. CASE MadeBy(q, m, v)
    <3>1. PICK j \in 1..m : /\ q[j].op = "create" /\ q[j].on = v
                            /\ \A k \in j + 1..m : ~Takes(q[k], v)
      BY <2>3 DEF MadeBy
    <3>2. n + j \in 1..n + m /\ r[n + j] = q[j]
      BY <1>1
    <3>3. \A k \in n + j + 1..n + m : ~Takes(r[k], v)
      <4> SUFFICES ASSUME NEW k \in n + j + 1..n + m PROVE ~Takes(r[k], v)
        OBVIOUS
      <4>1. k \in 1..n + m /\ k > n /\ k - n \in j + 1..m
        BY <1>1
      <4>2. QED
        BY <2>1, <3>1, <4>1
    <3>4. QED
      BY <3>1, <3>2, <3>3 DEF HasAt, MadeBy
  <2>4. QED
    BY <1>3, <2>2, <2>3 DEF HasAt
<1>4. ASSUME NEW i \in 1..Len(r), NEW v \in Mounts(r[i]) PROVE HasAt(r, a, i - 1, v)
  <2>1. CASE i <= n
    <3>1. i \in 1..n /\ r[i] = p[i] /\ i - 1 \in 0..n
      BY <1>1, <2>1
    <3>2. HasAt(p, a, i - 1, v)
      BY <1>4, <3>1 DEF Has, n
    <3>3. QED
      BY <1>2, <3>1, <3>2
  <2>2. CASE i > n
    <3>1. /\ i - n \in 1..Len(q) /\ r[i] = q[i - n] /\ i - n - 1 \in 0..Len(q)
          /\ n + (i - n - 1) = i - 1
      <4>1. i - n \in 1..Len(q) /\ n + (i - n) = i
        BY <1>1, <2>2
      <4>2. QED
        BY <1>1, <4>1
    <3>2. HasAt(q, b, i - n - 1, v)
      BY <1>4, <3>1 DEF Has
    <3>3. HasAt(r, a, n + (i - n - 1), v)
      BY <1>3, <3>1, <3>2
    <3>4. QED
      BY <3>1, <3>3
  <2>3. QED
    BY <1>1, <2>1, <2>2
<1>5. ASSUME NEW v \in c PROVE HasAt(r, a, Len(r), v)
  <2>1. HasAt(q, b, Len(q), v)
    BY DEF Has
  <2>2. HasAt(r, a, n + Len(q), v)
    BY <1>1, <1>3, <2>1
  <2>3. QED
    BY <1>1, <2>2
<1>6. QED
  BY <1>1, <1>4, <1>5 DEF Has, r

\* More at the start, less at the end.
LEMMA HasMore ==
  ASSUME NEW p, NEW a, NEW b, NEW c, NEW d, Has(p, a, b), a \subseteq c, d \subseteq b
  PROVE  Has(p, c, d)
<1>1. ASSUME NEW n, NEW v, HasAt(p, a, n, v) PROVE HasAt(p, c, n, v)
  BY <1>1 DEF HasAt
<1>2. QED
  BY <1>1 DEF Has

LEMMA HasSet ==
  ASSUME NEW s, NEW p \in Seq(s), NEW a, \A y \in s : Fits(y, a) PROVE Has(p, a, a)
<1>1. Len(p) \in Nat /\ \A i \in 1..Len(p) : p[i] \in s
  OBVIOUS
<1>2. Prog(p)
  BY DEF Prog
<1>3. \A i \in 1..Len(p) : Fits(p[i], a)
  BY <1>1
<1>4. ASSUME NEW n \in 0..Len(p), NEW v \in a PROVE HasAt(p, a, n, v)
  <2>1. \A k \in 1..n : ~Takes(p[k], v)
    BY <1>1, <1>3 DEF Fits
  <2>2. QED
    BY <2>1 DEF HasAt
<1>5. ASSUME NEW i \in 1..Len(p), NEW v \in Mounts(p[i]) PROVE HasAt(p, a, i - 1, v)
  <2>1. v \in a /\ i - 1 \in 0..Len(p)
    BY <1>1, <1>3 DEF Fits
  <2>2. QED
    BY <1>4, <2>1
<1>6. Len(p) \in 0..Len(p)
  BY <1>1
<1>7. QED
  BY <1>2, <1>4, <1>5, <1>6 DEF Has

LEMMA HasCreate ==
  ASSUME NEW v, NEW e, NEW a PROVE Has(<< Create(v, e) >>, a, a \cup {v})
<1> DEFINE p == << Create(v, e) >>
<1>1. Prog(p) /\ Len(p) = 1 /\ p[1] = Create(v, e)
  BY One
<1>2. Create(v, e).op = "create" /\ Create(v, e).on = v
  BY DEF Create
<1> HIDE DEF p
<1>3. \A i \in 1..Len(p) : Mounts(p[i]) = {}
  BY <1>1, <1>2 DEF Mounts
<1>4. \A w \in a : HasAt(p, a, Len(p), w)
  BY <1>1, <1>2 DEF HasAt, Takes
<1>5. HasAt(p, a, Len(p), v)
  BY <1>1, <1>2 DEF HasAt, MadeBy
<1>6. QED
  BY <1>1, <1>3, <1>4, <1>5 DEF Has, p

LEMMA FitsStep ==
  ASSUME NEW c, NEW a, c.op \notin {"run", "task", "remove"} PROVE Fits(c, a)
  BY DEF Fits, Mounts, Takes
LEMMA FitsWork ==
  ASSUME NEW n, NEW k, NEW a
  PROVE  /\ Fits(Exec(n), a) /\ Fits(Restore(n, k), a) /\ Fits(Check(n, k), a)
         /\ Fits(Capture(n, k), a) /\ Fits(Compare, a)
  BY FitsStep DEF Exec, Restore, Check, Capture, Compare
LEMMA FitsRun ==
  ASSUME NEW n, NEW a, NEW m \in SUBSET a
  PROVE  /\ Fits(Run(n, m), a) /\ Fits(RunOnline(n, m), a) /\ Fits(RunBoot(n, m), a)
         /\ Fits(Task(m), a)
  BY DEF Fits, Mounts, Takes, Run, RunOnline, RunBoot, Task
LEMMA FitsStart ==
  ASSUME NEW a, NEW v \in SUBSET a, Tools \in a PROVE Fits(StartMover(v), a)
<1>1. {Tools} \cup v \in SUBSET a
  OBVIOUS
<1>2. QED
  BY <1>1, FitsRun DEF StartMover
LEMMA FitsDrop ==
  ASSUME NEW n, n[1] \notin {"tools", "volumes"}, NEW a, Vols(a) PROVE Fits(Drop(n), a)
<1>1. \A v \in a : n # v
  BY DEF Vols
<1>2. QED
  BY <1>1 DEF Fits, Mounts, Takes, Drop

LEMMA HasOne == ASSUME NEW c, NEW a, Fits(c, a) PROVE Has(<< c >>, a, a)
<1> DEFINE s == {c}
           p == << c >>
<1>1. p \in Seq(s) /\ \A y \in s : Fits(y, a)
  OBVIOUS
<1> HIDE DEF s, p
<1>2. QED
  BY <1>1, HasSet DEF p

LEMMA HasTwo ==
  ASSUME NEW x, NEW y, NEW a, NEW b, NEW c, Has(<< x >>, a, b), Has(<< y >>, b, c)
  PROVE  Has(<< x, y >>, a, c)
<1> DEFINE s == {x, y}
           p == << x >>
           q == << y >>
           r == << x, y >>
<1>1. /\ p \in Seq(s) /\ q \in Seq(s) /\ r \in Seq(s)
      /\ Len(p) = 1 /\ Len(q) = 1 /\ Len(r) = 2
      /\ p[1] = x /\ q[1] = y /\ r[1] = x /\ r[2] = y
  OBVIOUS
<1>2. Has(p, a, b) /\ Has(q, b, c)
  OBVIOUS
<1> HIDE DEF s, p, q, r
<1>3. /\ p \o q \in Seq(s) /\ Len(p \o q) = 2
      /\ (p \o q)[1] = x /\ (p \o q)[2] = y
  BY <1>1, ConcatProperties
<1>4. p \o q = r
  <2>1. \A i \in 1..2 : i = 1 \/ i = 2
    OBVIOUS
  <2>2. \A i \in 1..Len(r) : r[i] = (p \o q)[i]
    BY <1>1, <1>3, <2>1
  <2>3. QED
    BY <1>1, <1>3, <2>2, SeqEqual
<1>5. QED
  BY <1>2, <1>4, JoinHas DEF r

LEMMA OwnVolumeHas ==
  ASSUME NEW v, NEW a PROVE Has(OwnVolume(v), a, a \cup {v})
<1>1. Fits(Task({v}), a \cup {v})
  BY FitsRun
<1>2. Has(<< Task({v}) >>, a \cup {v}, a \cup {v})
  BY <1>1, HasOne
<1>3. Has(<< Create(v, FALSE) >>, a, a \cup {v})
  BY HasCreate
<1>4. Has(<< Create(v, FALSE), Task({v}) >>, a, a \cup {v})
  BY <1>2, <1>3, HasTwo
<1>5. QED
  BY <1>4 DEF OwnVolume

LEMMA KeptVolumeHas ==
  ASSUME NEW v, NEW a PROVE Has(KeptVolume(v), a, a \cup {v})
<1> DEFINE c == Run(<<"containers", v[2], "keep", v[3]>>, {v})
<1>1. Fits(c, a \cup {v})
  BY FitsRun
<1>2. KeptVolume(v) = << Create(v, FALSE), c >>
  BY DEF KeptVolume
<1> HIDE DEF c
<1>3. Has(<< c >>, a \cup {v}, a \cup {v})
  BY <1>1, HasOne
<1>4. Has(<< Create(v, FALSE) >>, a, a \cup {v})
  BY HasCreate
<1>5. QED
  BY <1>2, <1>3, <1>4, HasTwo
-----------------------------------------------------------------------------
(* The parts of the bodies, by what they need and keep *)

LEMMA VolKind == \A k, r : Vol(k, r)[1] = "volumes" /\ Con(k, r)[1] = "containers"
  BY DEF Vol, Con
LEMMA MoverKind == Mover[1] = "movers" /\ Tools[1] = "tools"
  BY DEF Mover, Tools

LEMMA ExerciseHas == ASSUME NEW k PROVE Has(Exercise(k), {Tools}, {Tools})
<1> DEFINE s == {StartMover({}), Capture(Mover, k), Exec(Mover), Drop(Mover), Restore(Mover, k),
                 Check(Mover, k)}
           a == {Tools}
           u == << StartMover({}), Capture(Mover, k) >>
           v == IF k = "nas" THEN << Exec(Mover) >> ELSE << >>
           w == << Drop(Mover), StartMover({}), Exec(Mover), Drop(Mover),
                   StartMover({}), Restore(Mover, k), Check(Mover, k), Drop(Mover) >>
<1>1. u \in Seq(s) /\ v \in Seq(s) /\ w \in Seq(s) /\ Exercise(k) = u \o v \o w
  <2>1. u \in Seq(s) /\ w \in Seq(s)
    OBVIOUS
  <2>2. << >> \in Seq(s) /\ << Exec(Mover) >> \in Seq(s)
    OBVIOUS
  <2>3. v \in Seq(s)
    BY <2>2
  <2>4. Exercise(k) = u \o v \o w
    BY Zenon DEF Exercise
  <2>5. QED
    BY <2>1, <2>3, <2>4
<1>2. \A y \in s : Fits(y, a)
  <2>1. Vols(a) /\ Mover[1] \notin {"tools", "volumes"}
    BY MoverKind DEF Vols
  <2>2. Fits(StartMover({}), a) /\ Fits(Drop(Mover), a)
    BY <2>1, FitsStart, FitsDrop
  <2>3. QED
    BY <2>2, FitsWork
<1> HIDE DEF s, a, u, v, w
<1>3. Has(u, a, a) /\ Has(v, a, a) /\ Has(w, a, a)
  BY <1>1, <1>2, HasSet
<1>4. Has(u \o v, a, a)
  BY <1>3, JoinHas
<1>5. QED
  BY <1>1, <1>3, <1>4, JoinHas DEF a

LEMMA TransportHas ==
  ASSUME NEW k, NEW a, NEW v \in a, Tools \in a, Vols(a)
  PROVE  Has(TransportCapture(k, v), a, a) /\ Has(TransportRestore(k, v), a, a)
<1> DEFINE s == {StartMover({}), StartMover({v}), Capture(Mover, k), Exec(Mover), Drop(Mover),
                 Restore(Mover, k)}
<1>1. TransportCapture(k, v) \in Seq(s) /\ TransportRestore(k, v) \in Seq(s)
  BY DEF TransportCapture, TransportRestore
<1>2. \A y \in s : Fits(y, a)
  <2>1. Fits(StartMover({}), a) /\ Fits(StartMover({v}), a)
    BY FitsStart
  <2>2. Fits(Drop(Mover), a)
    BY MoverKind, FitsDrop
  <2>3. QED
    BY <2>1, <2>2, FitsWork
<1> HIDE DEF s
<1>3. QED
  BY <1>1, <1>2, HasSet

\* What the body of pds keeps: before the point is made and after it is removed.
PdsKept == {Tools, Vol("nas", "restored")}

LEMMA CopyHas ==
  ASSUME NEW a, a = PdsKept \cup {PdsSource, Point}
  PROVE  /\ Has(<< Exec(PdsApp), Exec(PdsApp), Task({PdsSource, Point}), Task({Point}) >>, a, a)
         /\ Has(<< Drop(PdsApp), Drop(PdsSource), Drop(Point) >>, a, PdsKept)
<1> DEFINE s == {Exec(PdsApp), Task({PdsSource, Point}), Task({Point})}
           p == << Exec(PdsApp), Exec(PdsApp), Task({PdsSource, Point}), Task({Point}) >>
           t == {Drop(PdsApp), Drop(PdsSource), Drop(Point)}
           q == << Drop(PdsApp), Drop(PdsSource), Drop(Point) >>
<1>1. p \in Seq(s) /\ q \in Seq(t)
  OBVIOUS
<1>2. \A y \in s : Fits(y, a)
  <2>1. Fits(Task({PdsSource, Point}), a) /\ Fits(Task({Point}), a)
    BY FitsRun
  <2>2. QED
    BY <2>1, FitsWork
<1>3. \A y \in t : Fits(y, PdsKept)
  <2>1. PdsSource \notin PdsKept /\ Point \notin PdsKept /\ PdsApp \notin PdsKept
    BY DEF PdsSource, Point, PdsApp, PdsKept, Vol, Con, Tools
  <2>2. \A n : n \notin PdsKept => Fits(Drop(n), PdsKept)
    BY DEF Fits, Mounts, Takes, Drop
  <2>3. QED
    BY <2>1, <2>2
<1> HIDE DEF s, t, p, q
<1>4. Has(p, a, a) /\ Has(q, PdsKept, PdsKept)
  BY <1>1, <1>2, <1>3, HasSet
<1>5. Has(q, a, PdsKept)
  BY <1>4, HasMore
<1>6. QED
  BY <1>4, <1>5 DEF p, q

LEMMA CheckedHas == ASSUME NEW n, NEW k, NEW a PROVE Has(<< Check(n, k) >>, a, a)
  BY FitsWork, HasOne

LEMMA QuiesceHas ==
  Has(QuiesceCopyResume, PdsKept \cup {PdsSource}, PdsKept \cup {Vol("r2", "restored")})
<1> DEFINE n == Vol("nas", "restored")
           r == Vol("r2", "restored")
           a == PdsKept \cup {PdsSource}
           b == PdsKept \cup {PdsSource, Point}
           c == PdsKept \cup {r}
           p1 == OwnVolume(Point)
           p2 == << Exec(PdsApp), Exec(PdsApp), Task({PdsSource, Point}), Task({Point}) >>
           p3 == TransportCapture("nas", Point)
           p4 == TransportCapture("r2", Point)
           p5 == << Drop(PdsApp), Drop(PdsSource), Drop(Point) >>
           p6 == OwnVolume(r)
           p7 == TransportRestore("nas", n)
           p8 == << Check(Con("run", "anonymous"), "nas") >>
           p9 == TransportRestore("r2", r)
           p0 == << Check(Con("run", "anonymous"), "r2") >>
<1>1. QuiesceCopyResume = p1 \o p2 \o p3 \o p4 \o p5 \o p6 \o p7 \o p8 \o p9 \o p0
  BY DEF QuiesceCopyResume
<1>2. Vols(b) /\ Vols(c) /\ Tools \in b /\ Tools \in c /\ Point \in b /\ n \in c /\ r \in c
  BY VolKind, MoverKind DEF Vols, PdsKept, PdsSource, Point
<1>3. Has(p1, a, a \cup {Point}) /\ a \cup {Point} = b
  BY OwnVolumeHas
<1>4. Has(p2, b, b) /\ Has(p5, b, PdsKept)
  BY CopyHas
<1>5. Has(p3, b, b) /\ Has(p4, b, b)
  BY <1>2, TransportHas
<1>6. Has(p6, PdsKept, c)
  BY OwnVolumeHas
<1>7. Has(p7, c, c) /\ Has(p9, c, c)
  BY <1>2, TransportHas
<1>8. Has(p8, c, c) /\ Has(p0, c, c)
  BY CheckedHas
<1> HIDE DEF a, b, c, p1, p2, p3, p4, p5, p6, p7, p8, p9, p0
<1>9. Has(p1 \o p2, a, b)
  BY <1>3, <1>4, JoinHas
<1>10. Has(p1 \o p2 \o p3, a, b)
  BY <1>5, <1>9, JoinHas
<1>11. Has(p1 \o p2 \o p3 \o p4, a, b)
  BY <1>5, <1>10, JoinHas
<1>12. Has(p1 \o p2 \o p3 \o p4 \o p5, a, PdsKept)
  BY <1>4, <1>11, JoinHas
<1>13. Has(p1 \o p2 \o p3 \o p4 \o p5 \o p6, a, c)
  BY <1>6, <1>12, JoinHas
<1>14. Has(p1 \o p2 \o p3 \o p4 \o p5 \o p6 \o p7, a, c)
  BY <1>7, <1>13, JoinHas
<1>15. Has(p1 \o p2 \o p3 \o p4 \o p5 \o p6 \o p7 \o p8, a, c)
  BY <1>8, <1>14, JoinHas
<1>16. Has(p1 \o p2 \o p3 \o p4 \o p5 \o p6 \o p7 \o p8 \o p9, a, c)
  BY <1>7, <1>15, JoinHas
<1>17. Has(p1 \o p2 \o p3 \o p4 \o p5 \o p6 \o p7 \o p8 \o p9 \o p0, a, c)
  BY <1>8, <1>16, JoinHas
<1>18. QED
  BY <1>1, <1>17 DEF a, c, r

LEMMA PdsVerifyHas ==
  ASSUME NEW k, NEW a, Vol(k, "restored") \in a PROVE Has(PdsVerify(k), a, a)
<1> DEFINE v == Vol(k, "restored")
           n == Con(k, "target")
           s == {Task({v}), RunBoot(n, {v}), Exec(n)}
<1>1. PdsVerify(k) \in Seq(s)
  BY DEF PdsVerify
<1>2. \A y \in s : Fits(y, a)
  <2>1. Fits(Task({v}), a) /\ Fits(RunBoot(n, {v}), a)
    BY FitsRun
  <2>2. QED
    BY <2>1, FitsWork
<1> HIDE DEF s
<1>3. QED
  BY <1>1, <1>2, HasSet

LEMMA PdsHas == Has(Pds, {Tools}, {Tools})
<1> DEFINE n == Vol("nas", "restored")
           r == Vol("r2", "restored")
           a == {Tools, PdsSource}
           b == PdsKept \cup {PdsSource}
           c == PdsKept \cup {r}
           s == {Run(PdsApp, {PdsSource}), Exec(PdsApp)}
           p1 == OwnVolume(PdsSource)
           p2 == OwnVolume(n)
           p3 == << Run(PdsApp, {PdsSource}), Exec(PdsApp) >>
           p4 == QuiesceCopyResume
           p5 == PdsVerify("nas")
           p6 == PdsVerify("r2")
<1>1. Pds = p1 \o p2 \o p3 \o p4 \o p5 \o p6
  BY DEF Pds
<1>2. Has(p1, {Tools}, a)
  <2>1. {Tools} \cup {PdsSource} = a
    OBVIOUS
  <2>2. QED
    BY <2>1, OwnVolumeHas
<1>3. Has(p2, a, b)
  <2>1. a \cup {n} = b
    BY DEF PdsKept
  <2>2. QED
    BY <2>1, OwnVolumeHas
<1>4. Has(p3, b, b)
  <2>1. p3 \in Seq(s)
    OBVIOUS
  <2>2. Fits(Run(PdsApp, {PdsSource}), b)
    BY FitsRun
  <2>3. \A y \in s : Fits(y, b)
    BY <2>2, FitsWork
  <2> HIDE DEF s, p3, b
  <2>4. QED
    BY <2>1, <2>3, HasSet
<1>5. Has(p4, b, c)
  BY QuiesceHas
<1>6. Has(p5, c, c) /\ Has(p6, c, c)
  BY PdsVerifyHas DEF PdsKept
<1>7. {Tools} \subseteq c
  BY DEF PdsKept
<1> HIDE DEF a, b, c, p1, p2, p3, p4, p5, p6
<1>8. Has(p1 \o p2, {Tools}, b)
  BY <1>2, <1>3, JoinHas
<1>9. Has(p1 \o p2 \o p3, {Tools}, b)
  BY <1>4, <1>8, JoinHas
<1>10. Has(p1 \o p2 \o p3 \o p4, {Tools}, c)
  BY <1>5, <1>9, JoinHas
<1>11. Has(p1 \o p2 \o p3 \o p4 \o p5, {Tools}, c)
  BY <1>6, <1>10, JoinHas
<1>12. Has(p1 \o p2 \o p3 \o p4 \o p5 \o p6, {Tools}, c)
  BY <1>6, <1>11, JoinHas
<1>13. QED
  BY <1>1, <1>7, <1>12, HasMore

LEMMA PdsReadHas ==
  ASSUME NEW k, NEW a, Vols(a),
         {Tools, Vol(k, "work"), Vol(k, "restore"), Vol(k, "tools")} \subseteq a
  PROVE  Has(PdsRead(k), a, a)
<1> DEFINE n == Con(k, "reader")
           c == Con(k, "check")
           m == {Vol(k, "work"), Vol(k, "restore"), Tools}
           w == {Vol(k, "restore"), Vol(k, "tools")}
           s == {RunOnline(n, m), Exec(n), Restore(n, k), Drop(n), Run(c, w), Check(c, k), Exec(c),
                 Drop(c)}
<1>1. PdsRead(k) \in Seq(s)
  BY DEF PdsRead
<1>2. \A y \in s : Fits(y, a)
  <2>1. m \in SUBSET a /\ w \in SUBSET a
    OBVIOUS
  <2>2. n[1] = "containers" /\ c[1] = "containers"
    BY VolKind
  <2> HIDE DEF m, w, n, c
  <2>3. Fits(RunOnline(n, m), a) /\ Fits(Run(c, w), a)
    BY <2>1, FitsRun
  <2>4. Fits(Drop(n), a) /\ Fits(Drop(c), a)
    BY <2>2, FitsDrop
  <2>5. QED
    BY <2>3, <2>4, FitsWork
<1> HIDE DEF s
<1>3. QED
  BY <1>1, <1>2, HasSet

LEMMA PdsBootHas ==
  ASSUME NEW k, NEW a, Vols(a), {Vol(k, "restore"), Vol(k, "tools")} \subseteq a
  PROVE  Has(PdsBoot(k), a, a)
<1> DEFINE t == Con(k, "boot")
           m == {Vol(k, "restore"), Vol(k, "tools")}
           u == << RunBoot(t, m), Exec(t) >>
           e == << Exec(t) >>
           q == << Drop(t) >>
           s == {RunBoot(t, m), Exec(t)}
<1>1. PdsBoot(k) = u \o e \o (e \o e \o (e \o e) \o (e \o e)) \o q
  BY DEF PdsBoot, OriginalApi, ConsumerRecovery, HeldRound
<1>2. u \in Seq(s)
  OBVIOUS
<1>3. Fits(Drop(t), a) /\ Fits(RunBoot(t, m), a) /\ Fits(Exec(t), a)
  <2>1. m \in SUBSET a /\ t[1] = "containers"
    BY VolKind
  <2> HIDE DEF m, t
  <2>2. QED
    BY <2>1, FitsRun, FitsDrop, FitsWork
<1>4. \A y \in s : Fits(y, a)
  BY <1>3
<1>5. Has(e, a, a) /\ Has(q, a, a)
  BY <1>3, HasOne
<1> HIDE DEF u, e, q, s
<1>6. Has(u, a, a)
  BY <1>2, <1>4, HasSet
<1>7. Has(u \o e, a, a) /\ Has(e \o e, a, a)
  BY <1>5, <1>6, JoinHas
<1>8. Has(e \o e \o (e \o e), a, a)
  BY <1>7, JoinHas
<1>9. Has(e \o e \o (e \o e) \o (e \o e), a, a)
  BY <1>7, <1>8, JoinHas
<1>10. Has(u \o e \o (e \o e \o (e \o e) \o (e \o e)), a, a)
  BY <1>7, <1>9, JoinHas
<1>11. QED
  BY <1>1, <1>5, <1>10, JoinHas

LEMMA PdsOriginalHas == ASSUME NEW k PROVE Has(PdsOriginal(k), {Tools}, {Tools})
<1> DEFINE x == Vol(k, "work")
           y == Vol(k, "restore")
           z == Vol(k, "tools")
           a == {Tools, x, y, z}
           p1 == KeptVolume(x)
           p2 == KeptVolume(y)
           p3 == KeptVolume(z)
<1>1. PdsOriginal(k) = p1 \o p2 \o p3 \o PdsRead(k) \o PdsBoot(k)
  BY DEF PdsOriginal
<1>2. Vols(a)
  BY VolKind, MoverKind DEF Vols
<1> HIDE DEF x, y, z
<1>3. /\ {Tools} \cup {x} = {Tools, x} /\ {Tools, x} \cup {y} = {Tools, x, y}
      /\ {Tools, x, y} \cup {z} = a
  OBVIOUS
<1>4. /\ Has(p1, {Tools}, {Tools, x}) /\ Has(p2, {Tools, x}, {Tools, x, y})
      /\ Has(p3, {Tools, x, y}, a)
  BY <1>3, KeptVolumeHas
<1>5. Has(PdsRead(k), a, a) /\ Has(PdsBoot(k), a, a)
  BY <1>2, PdsReadHas, PdsBootHas DEF x, y, z
<1>6. {Tools} \subseteq a
  OBVIOUS
<1> HIDE DEF p1, p2, p3, a
<1>7. Has(p1 \o p2, {Tools}, {Tools, x, y})
  BY <1>4, JoinHas
<1>8. Has(p1 \o p2 \o p3, {Tools}, a)
  BY <1>4, <1>7, JoinHas
<1>9. Has(p1 \o p2 \o p3 \o PdsRead(k), {Tools}, a)
  BY <1>5, <1>8, JoinHas
<1>10. Has(p1 \o p2 \o p3 \o PdsRead(k) \o PdsBoot(k), {Tools}, a)
  BY <1>5, <1>9, JoinHas
<1>11. QED
  BY <1>1, <1>6, <1>10, HasMore

GrimmoryHeld(k) == {Vol(k, r) : r \in {"work", "restored", "app", "tools", "database", "books"}}
LEMMA GrimmoryVolumesHas ==
  ASSUME NEW k PROVE Has(GrimmoryVolumes(k), {Tools}, {Tools} \cup GrimmoryHeld(k))
<1> DEFINE v(r) == Vol(k, r)
           p(r) == KeptVolume(v(r))
           a1 == {Tools} \cup {v("work")}
           a2 == a1 \cup {v("restored")}
           a3 == a2 \cup {v("app")}
           a4 == a3 \cup {v("tools")}
           a5 == a4 \cup {v("database")}
           a6 == a5 \cup {v("books")}
<1>1. GrimmoryVolumes(k) = p("work") \o p("restored") \o p("app") \o p("tools") \o p("database")
                           \o p("books")
  BY DEF GrimmoryVolumes
<1>2. a6 = {Tools} \cup GrimmoryHeld(k)
  BY DEF GrimmoryHeld
<1>3. \A a, r : Has(p(r), a, a \cup {v(r)})
  BY KeptVolumeHas
<1> HIDE DEF p, v
<1>4. /\ Has(p("work"), {Tools}, a1) /\ Has(p("restored"), a1, a2) /\ Has(p("app"), a2, a3)
      /\ Has(p("tools"), a3, a4) /\ Has(p("database"), a4, a5) /\ Has(p("books"), a5, a6)
  BY <1>3
<1> HIDE DEF a1, a2, a3, a4, a5, a6
<1>5. Has(p("work") \o p("restored"), {Tools}, a2)
  BY <1>4, JoinHas
<1>6. Has(p("work") \o p("restored") \o p("app"), {Tools}, a3)
  BY <1>4, <1>5, JoinHas
<1>7. Has(p("work") \o p("restored") \o p("app") \o p("tools"), {Tools}, a4)
  BY <1>4, <1>6, JoinHas
<1>8. Has(p("work") \o p("restored") \o p("app") \o p("tools") \o p("database"), {Tools}, a5)
  BY <1>4, <1>7, JoinHas
<1>9. Has(p("work") \o p("restored") \o p("app") \o p("tools") \o p("database") \o p("books"),
          {Tools}, a6)
  BY <1>4, <1>8, JoinHas
<1>10. QED
  BY <1>1, <1>2, <1>9

LEMMA GrimmoryMounts ==
  ASSUME NEW k, NEW a, a = {Tools} \cup GrimmoryHeld(k)
  PROVE  /\ Vols(a) /\ Held(k, {"work", "restored"}) \cup {Tools} \in SUBSET a
         /\ Held(k, {"restored", "app", "tools", "books"}) \in SUBSET a
         /\ Held(k, {"database", "restored", "tools"}) \in SUBSET a /\ AppMounts(k) \in SUBSET a
         /\ App(k)[1] = "containers" /\ Database(k)[1] = "containers"
<1>1. Vols(a)
  BY VolKind, MoverKind DEF Vols, GrimmoryHeld
<1>2. QED
  BY <1>1, VolKind DEF Held, AppMounts, GrimmoryHeld, App, Database

LEMMA GrimmoryReadHas ==
  ASSUME NEW k, NEW a, a = {Tools} \cup GrimmoryHeld(k) PROVE Has(GrimmoryRead(k), a, a)
<1> DEFINE n == Con(k, "reader")
           m == Held(k, {"work", "restored"}) \cup {Tools}
           s == {RunOnline(n, m), Exec(n), Restore(n, k), Drop(n)}
<1>1. GrimmoryRead(k) \in Seq(s)
  BY DEF GrimmoryRead
<1>2. \A y \in s : Fits(y, a)
  <2>1. m \in SUBSET a /\ Vols(a) /\ n[1] = "containers"
    BY GrimmoryMounts, VolKind
  <2> HIDE DEF m, n
  <2>2. Fits(RunOnline(n, m), a) /\ Fits(Drop(n), a)
    BY <2>1, FitsRun, FitsDrop
  <2>3. QED
    BY <2>2, FitsWork
<1> HIDE DEF s
<1>3. QED
  BY <1>1, <1>2, HasSet

LEMMA GrimmoryCheckedHas ==
  ASSUME NEW k, NEW a, a = {Tools} \cup GrimmoryHeld(k) PROVE Has(GrimmoryChecked(k), a, a)
<1> DEFINE c == Con(k, "checker")
           m == Held(k, {"restored", "app", "tools", "books"})
           s == {Run(c, m), Check(c, k), Exec(c), Drop(c)}
<1>1. GrimmoryChecked(k) \in Seq(s)
  BY DEF GrimmoryChecked
<1>2. \A y \in s : Fits(y, a)
  <2>1. m \in SUBSET a /\ Vols(a) /\ c[1] = "containers"
    BY GrimmoryMounts, VolKind
  <2> HIDE DEF m, c
  <2>2. Fits(Run(c, m), a) /\ Fits(Drop(c), a)
    BY <2>1, FitsRun, FitsDrop
  <2>3. QED
    BY <2>2, FitsWork
<1> HIDE DEF s
<1>3. QED
  BY <1>1, <1>2, HasSet

LEMMA GrimmoryServeHas ==
  ASSUME NEW k, NEW a, a = {Tools} \cup GrimmoryHeld(k) PROVE Has(GrimmoryServe(k), a, a)
<1> DEFINE u == << RunBoot(Database(k), Held(k, {"database", "restored", "tools"})),
                   Exec(Database(k)), DataDigest(k), StartConsumer(k), Serves(k),
                   ConsumerBooks(k), Exec(App(k)), Serves(k), ConsumerBooks(k), DataDigest(k) >>
           b == RecreateConsumer(k)
           q == << ConsumerBooks(k), Drop(App(k)), Drop(Database(k)) >>
           s == Serving(k) \cup {Drop(Database(k))}
<1>1. u \in Seq(s) /\ b \in Seq(s) /\ q \in Seq(s)
  BY DEF Serving, Serves, RecreateConsumer
<1>2. GrimmoryServe(k) = u \o b \o q
  BY DEF GrimmoryServe
<1>3. \A y \in s : Fits(y, a)
  <2>1. /\ Vols(a) /\ Held(k, {"database", "restored", "tools"}) \in SUBSET a
        /\ AppMounts(k) \in SUBSET a /\ App(k)[1] = "containers" /\ Database(k)[1] = "containers"
    BY GrimmoryMounts
  <2>2. /\ Fits(RunBoot(Database(k), Held(k, {"database", "restored", "tools"})), a)
        /\ Fits(StartConsumer(k), a) /\ Fits(ConsumerBooks(k), a)
    BY <2>1, FitsRun DEF StartConsumer, ConsumerBooks
  <2>3. Fits(Drop(App(k)), a) /\ Fits(Drop(Database(k)), a)
    BY <2>1, FitsDrop
  <2>4. Fits(Exec(Database(k)), a) /\ Fits(Exec(App(k)), a) /\ Fits(DataDigest(k), a)
    BY FitsWork DEF DataDigest
  <2>5. QED
    BY <2>2, <2>3, <2>4 DEF Serving
<1> HIDE DEF u, b, q, s
<1>4. Has(u, a, a) /\ Has(b, a, a) /\ Has(q, a, a)
  BY <1>1, <1>3, HasSet
<1>5. Has(u \o b, a, a)
  BY <1>4, JoinHas
<1>6. QED
  BY <1>2, <1>4, <1>5, JoinHas

LEMMA GrimmoryHas == ASSUME NEW k PROVE Has(GrimmoryOriginal(k), {Tools}, {Tools})
<1> DEFINE a == {Tools} \cup GrimmoryHeld(k)
           v == GrimmoryVolumes(k)
           r == GrimmoryRead(k)
           c == GrimmoryChecked(k)
           e == GrimmoryServe(k)
<1>1. Has(v, {Tools}, a) /\ Has(r, a, a) /\ Has(c, a, a) /\ Has(e, a, a)
  BY GrimmoryVolumesHas, GrimmoryReadHas, GrimmoryCheckedHas, GrimmoryServeHas
<1>2. GrimmoryOriginal(k) = v \o r \o c \o e /\ {Tools} \subseteq a
  BY DEF GrimmoryOriginal
<1> HIDE DEF a, v, r, c, e
<1>3. Has(v \o r, {Tools}, a)
  BY <1>1, JoinHas
<1>4. Has(v \o r \o c, {Tools}, a)
  BY <1>1, <1>3, JoinHas
<1>5. Has(v \o r \o c \o e, {Tools}, a)
  BY <1>1, <1>4, JoinHas
<1>6. QED
  BY <1>2, <1>5, HasMore

LEMMA BazarrHas == ASSUME NEW k PROVE Has(Bazarr(k), {Tools}, {Tools})
<1> DEFINE n == Con(k, "restorer")
           b == [op |-> "boot", on |-> Con(k, "native")]
           a == {Tools}
           s == {RunOnline(n, a), Restore(n, k), Exec(n), Drop(n), b}
           u == << RunOnline(n, a), Restore(n, k), Exec(n) >>
           e == << Exec(n) >>
           d == << Drop(n), b >>
<1>1. u \in Seq(s) /\ e \in Seq(s) /\ d \in Seq(s)
  OBVIOUS
<1>2. Bazarr(k) = u \o e \o d
  BY DEF Bazarr, ExtractOriginal
<1>3. \A y \in s : Fits(y, a)
  <2>1. Vols(a) /\ n[1] = "containers" /\ a \in SUBSET a
    BY VolKind, MoverKind DEF Vols
  <2>2. Fits(b, a)
    BY FitsStep
  <2> HIDE DEF n, a, b
  <2>3. Fits(RunOnline(n, a), a) /\ Fits(Drop(n), a)
    BY <2>1, FitsRun, FitsDrop
  <2>4. QED
    BY <2>2, <2>3, FitsWork
<1> HIDE DEF u, e, d, s, a
<1>4. Has(u, a, a) /\ Has(e, a, a) /\ Has(d, a, a)
  BY <1>1, <1>3, HasSet
<1>5. Has(u \o e, a, a)
  BY <1>4, JoinHas
<1>6. QED
  BY <1>2, <1>4, <1>5, JoinHas DEF a

FenceVolumes == {FenceVolume(r) : r \in {"app", "books", "runtime", "db"}}

LEMMA FenceCreatesHas ==
  Has([i \in 1..4 |-> Create(FenceVolume(<<"runtime", "app", "books", "db">>[i]), TRUE)],
      {}, FenceVolumes)
<1> DEFINE t == <<"runtime", "app", "books", "db">>
           f == [i \in 1..4 |-> Create(FenceVolume(t[i]), TRUE)]
<1>1. t[1] = "runtime" /\ t[2] = "app" /\ t[3] = "books" /\ t[4] = "db"
  OBVIOUS
<1> HIDE DEF t
<1> DEFINE w == {f[i] : i \in 1..4}
<1>2. f \in Seq(w) /\ Len(f) = 4
  <2>1. f \in [1..4 -> w] /\ DOMAIN f = 1..4
    OBVIOUS
  <2> HIDE DEF f, w
  <2>2. f \in Seq(w)
    BY <2>1, SeqDef
  <2>3. QED
    BY <2>1, <2>2, LenProperties
<1>3. \A i \in 1..4 : f[i] = Create(FenceVolume(t[i]), TRUE)
  OBVIOUS
<1> HIDE DEF f
<1>4. \A i \in 1..4 : f[i].op = "create" /\ f[i].on = FenceVolume(t[i])
  BY <1>3 DEF Create
<1>5. Prog(f)
  BY <1>2 DEF Prog
<1>6. \A i \in 1..4 : Mounts(f[i]) = {} /\ \A v : ~Takes(f[i], v)
  BY <1>4 DEF Mounts, Takes
<1>7. \A v \in FenceVolumes : \E i \in 1..4 : v = FenceVolume(t[i])
  BY <1>1 DEF FenceVolumes
<1>8. \A v \in FenceVolumes : MadeBy(f, 4, v)
  BY <1>4, <1>6, <1>7 DEF MadeBy
<1>9. Has(f, {}, FenceVolumes)
  BY <1>2, <1>5, <1>6, <1>8 DEF Has, HasAt
<1>10. QED
  BY <1>9 DEF f, t

LEMMA FenceHas == Has(FenceNative, {}, {})
<1> DEFINE f == [i \in 1..4 |-> Create(FenceVolume(<<"runtime", "app", "books", "db">>[i]), TRUE)]
           a == FenceVolumes
           dm == {FenceVolume("db"), FenceVolume("runtime")}
           am == {FenceVolume(r) : r \in {"app", "books", "runtime", "db"}}
           rm == {FenceVolume("app"), FenceVolume("books")}
           b == << Run(FenceDb, dm), Exec(FenceDb), Exec(FenceDb), Run(FenceApp, am),
                   Exec(FenceApp) >>
           r == << Exec(FenceApp), Run(Rollback, rm), Exec(Rollback) >>
           s == {Run(FenceDb, dm), Run(FenceApp, am), Run(Rollback, rm), Exec(FenceDb),
                 Exec(FenceApp), Exec(Rollback)}
           x == FenceRounds
           y == FenceReplacement
<1>1. b \in Seq(s) /\ x \in Seq(s) /\ y \in Seq(s) /\ r \in Seq(s)
  BY DEF FenceRounds, FenceReplacement
<1>2. FenceNative = f \o b \o x \o y \o r
  BY DEF FenceNative, FenceBoot, FenceRollback
<1>3. \A c \in s : Fits(c, a)
  <2>1. dm \in SUBSET a /\ am \in SUBSET a /\ rm \in SUBSET a
    BY DEF FenceVolumes
  <2> HIDE DEF a, dm, am, rm
  <2>2. Fits(Run(FenceDb, dm), a) /\ Fits(Run(FenceApp, am), a) /\ Fits(Run(Rollback, rm), a)
    BY <2>1, FitsRun
  <2>3. QED
    BY <2>2, FitsWork
<1>4. Has(f, {}, a)
  BY FenceCreatesHas
<1> HIDE DEF f, a, b, r, s, x, y
<1>5. Has(b, a, a) /\ Has(x, a, a) /\ Has(y, a, a) /\ Has(r, a, a)
  BY <1>1, <1>3, HasSet
<1>6. Has(f \o b, {}, a)
  BY <1>4, <1>5, JoinHas
<1>7. Has(f \o b \o x, {}, a)
  BY <1>5, <1>6, JoinHas
<1>8. Has(f \o b \o x \o y, {}, a)
  BY <1>5, <1>7, JoinHas
<1>9. Has(f \o b \o x \o y \o r, {}, a)
  BY <1>5, <1>8, JoinHas
<1>10. QED
  BY <1>2, <1>9, HasMore

\* What the set-up leaves to the body.
Base(x) == IF x = "fence" THEN {} ELSE {Tools}

LEMMA BodiesHave ==
  /\ Has(Exercise("nas") \o Exercise("r2"), Base("radarr"), {})
  /\ Has(Pds, Base("pds"), {})
  /\ Has(PdsOriginal("nas") \o PdsOriginal("r2") \o << Compare >>, Base("original"), {})
  /\ Has(GrimmoryOriginal("nas") \o GrimmoryOriginal("r2") \o << Compare >>, Base("grimmory"), {})
  /\ Has(CopyTools \o Bazarr("nas") \o Bazarr("r2") \o << Compare >>, Base("bazarr"), {})
  /\ Has(FenceNative, Base("fence"), {})
<1> DEFINE a == {Tools}
           c == << Compare >>
<1>1. /\ \A x \in {"radarr", "pds", "original", "grimmory", "bazarr"} : Base(x) = a
      /\ Base("fence") = {}
  BY DEF Base
<1>2. Has(c, a, a)
  BY FitsWork, HasOne
<1>3. Has(CopyTools, a, a)
  BY FitsRun, HasOne DEF CopyTools
<1> HIDE DEF c
<1>4. \A k : /\ Has(Exercise(k), a, a) /\ Has(PdsOriginal(k), a, a)
             /\ Has(GrimmoryOriginal(k), a, a) /\ Has(Bazarr(k), a, a)
  BY ExerciseHas, PdsOriginalHas, GrimmoryHas, BazarrHas
<1>5. Has(Pds, a, a)
  BY PdsHas
<1> HIDE DEF a
<1>6. \A p, q : Has(p, a, a) /\ Has(q, a, a) => Has(p \o q, a, a)
  BY JoinHas
<1>7. \A p : Has(p, a, a) => Has(p, a, {})
  BY HasMore
<1>8. Has(Exercise("nas") \o Exercise("r2"), a, a)
  BY <1>4, <1>6
<1>9. Has(PdsOriginal("nas") \o PdsOriginal("r2") \o c, a, a)
  BY <1>2, <1>4, <1>6
<1>10. Has(GrimmoryOriginal("nas") \o GrimmoryOriginal("r2") \o c, a, a)
  BY <1>2, <1>4, <1>6
<1>11. Has(CopyTools \o Bazarr("nas") \o Bazarr("r2") \o c, a, a)
  BY <1>2, <1>3, <1>4, <1>6
<1>12. QED
  BY <1>1, <1>5, <1>7, <1>8, <1>9, <1>10, <1>11, FenceHas DEF c
-----------------------------------------------------------------------------
(* The programs, block by block *)

Sound(x, p) == /\ x \notin {"fence", "bazarr"} => \A k \in Kinds : Checked(p, k)
               /\ x = "bazarr" => (\A k \in Kinds : Restores(p, k)) /\ MatchedBy(p, Len(p))
Body(x, p) == Piece(x, p) /\ Sound(x, p) /\ Has(p, Base(x), {}) /\ Len(p) \in Nat \ {0}

LEMMA Longer ==
  ASSUME NEW p, NEW q, Prog(p), Prog(q), Len(p) # 0 \/ Len(q) # 0
  PROVE  Len(p \o q) \in Nat \ {0}
  BY Join

LEMMA SomeChecked == ASSUME NEW p, Prog(p), NEW k, Checked(p, k) PROVE Len(p) \in Nat \ {0}
<1>1. Len(p) \in Nat
  <2>1. PICK T : p \in Seq(T)
    BY DEF Prog
  <2>2. QED
    BY <2>1
<1>2. QED
  BY <1>1 DEF Checked, PassedBy

LEMMA RadarrBody == Body("radarr", Exercise("nas") \o Exercise("r2"))
<1> DEFINE p == Exercise("nas") \o Exercise("r2")
<1>1. "nas" \in Kinds /\ "r2" \in Kinds /\ "nas" \in Other("r2") /\ Kinds = {"nas", "r2"}
  BY DEF Kinds, Other
<1>2. Piece("radarr", p)
  BY <1>1, ExercisePiece, JoinPiece
<1>3. Prog(Exercise("nas")) /\ Prog(Exercise("r2"))
  BY <1>1, ExercisePiece, PieceProg
<1>4. Checked(p, "nas") /\ Checked(p, "r2")
  BY <1>1, <1>3, ExerciseChecks, JoinChecked
<1> HIDE DEF p
<1>5. Len(p) \in Nat \ {0}
  BY <1>2, <1>4, PieceProg, SomeChecked
<1>6. QED
  BY <1>1, <1>2, <1>4, <1>5, BodiesHave DEF Body, Sound, p

LEMMA PdsBody == Body("pds", Pds)
<1>1. Len(Pds) \in Nat \ {0}
  BY PdsPiece, PieceProg, PdsChecks, SomeChecked DEF Kinds
<1>2. QED
  BY <1>1, PdsPiece, PdsChecks, BodiesHave DEF Body, Sound

LEMMA ComparePiece ==
  ASSUME NEW x
  PROVE  LET p == << Compare >> IN Piece(x, p) /\ Prog(p) /\ \A k : NoRestore(p, k)
<1> DEFINE p == << Compare >>
<1>1. Prog(p) /\ Len(p) = 1 /\ p[1] = Compare
  BY One
<1>2. Piece(x, p)
  BY CompareStep, StillOne, StillPiece
<1> HIDE DEF p
<1>3. \A k : NoRestore(p, k)
  BY <1>1, CompareStep DEF NoRestore
<1>4. QED
  BY <1>1, <1>2, <1>3 DEF p

LEMMA OriginalBody ==
  ASSUME NEW x \in {"original", "grimmory"}, NEW p, NEW q,
         Piece(x, p), Piece(x, q), Checked(p, "nas"), Checked(q, "r2"), NoRestore(q, "nas"),
         Has(p \o q \o << Compare >>, Base(x), {})
  PROVE  Body(x, p \o q \o << Compare >>)
<1> DEFINE c == << Compare >>
           r == p \o q \o c
<1>1. "nas" \in Kinds /\ "r2" \in Kinds /\ Kinds = {"nas", "r2"}
  BY DEF Kinds
<1>2. Piece(x, c) /\ Prog(c) /\ \A k : NoRestore(c, k)
  BY ComparePiece
<1> HIDE DEF c
<1>3. Prog(p) /\ Prog(q) /\ Prog(p \o q)
  BY PieceProg, Join
<1>4. Checked(p \o q, "nas") /\ Checked(p \o q, "r2")
  BY <1>3, JoinChecked
<1>5. Checked(r, "nas") /\ Checked(r, "r2")
  BY <1>2, <1>3, <1>4, JoinChecked
<1>6. Piece(x, r)
  BY <1>2, JoinPiece
<1> HIDE DEF r
<1>7. Len(r) \in Nat \ {0}
  BY <1>5, <1>6, PieceProg, SomeChecked
<1>8. QED
  BY <1>1, <1>5, <1>6, <1>7 DEF Body, Sound, r, c

LEMMA OriginalBodies ==
  /\ Body("original", PdsOriginal("nas") \o PdsOriginal("r2") \o << Compare >>)
  /\ Body("grimmory", GrimmoryOriginal("nas") \o GrimmoryOriginal("r2") \o << Compare >>)
<1>1. "nas" \in Kinds /\ "r2" \in Kinds /\ "nas" \in Other("r2")
  BY DEF Kinds, Other
<1>2. /\ Piece("original", PdsOriginal("nas")) /\ Piece("original", PdsOriginal("r2"))
      /\ Piece("grimmory", GrimmoryOriginal("nas")) /\ Piece("grimmory", GrimmoryOriginal("r2"))
  BY <1>1, PdsOriginalPiece, GrimmoryPiece
<1>3. /\ Checked(PdsOriginal("nas"), "nas") /\ Checked(PdsOriginal("r2"), "r2")
      /\ NoRestore(PdsOriginal("r2"), "nas")
  BY <1>1, PdsOriginalChecks
<1>4. /\ Checked(GrimmoryOriginal("nas"), "nas") /\ Checked(GrimmoryOriginal("r2"), "r2")
      /\ NoRestore(GrimmoryOriginal("r2"), "nas")
  BY <1>1, GrimmoryChecks
<1>5. QED
  BY <1>2, <1>3, <1>4, BodiesHave, OriginalBody

LEMMA BazarrBody == Body("bazarr", CopyTools \o Bazarr("nas") \o Bazarr("r2") \o << Compare >>)
<1> DEFINE t == CopyTools
           p == t \o Bazarr("nas") \o Bazarr("r2")
           c == << Compare >>
           r == p \o c
<1>1. "nas" \in Kinds /\ "r2" \in Kinds /\ Kinds = {"nas", "r2"}
  BY DEF Kinds
<1>2. Piece("bazarr", c) /\ Prog(c)
  BY ComparePiece
<1>3. Piece("bazarr", t)
  BY TaskStep, StillOne, StillPiece DEF CopyTools
<1>4. Piece("bazarr", Bazarr("nas")) /\ Piece("bazarr", Bazarr("r2"))
  BY <1>1, BazarrPiece
<1> HIDE DEF t
<1>5. /\ Prog(t) /\ Prog(Bazarr("nas")) /\ Prog(Bazarr("r2")) /\ Prog(t \o Bazarr("nas"))
      /\ Prog(p)
  BY <1>3, <1>4, PieceProg, Join
<1>6. Restores(p, "nas") /\ Restores(p, "r2")
  BY <1>1, <1>5, BazarrRestores, JoinRestores
<1>7. Piece("bazarr", p)
  BY <1>3, <1>4, JoinPiece
<1> HIDE DEF p
<1>8. MatchedBy(r, Len(r))
  BY <1>5, CompareLast DEF c
<1>9. Len(r) \in Nat \ {0}
  BY <1>2, <1>5, One, Longer DEF c
<1> HIDE DEF c
<1>10. Piece("bazarr", r)
  BY <1>2, <1>7, JoinPiece
<1>11. Restores(r, "nas") /\ Restores(r, "r2")
  BY <1>2, <1>5, <1>6, JoinRestores
<1>12. QED
  BY <1>1, <1>8, <1>9, <1>10, <1>11, BodiesHave DEF Body, Sound, r, c, p, t

LEMMA FenceBody == Body("fence", FenceNative)
<1>1. Prog(FenceNative)
  BY FencePiece, PieceProg
<1>2. Len(FenceNative) \in Nat \ {0}
  <2>1. PICK T : FenceNative \in Seq(T)
    BY <1>1 DEF Prog
  <2>2. FenceNative # << >>
    BY DEF FenceNative, FenceBoot, FenceRounds, FenceReplacement, FenceRollback
  <2>3. QED
    BY <2>1, <2>2
<1>3. QED
  BY <1>2, FencePiece, BodiesHave DEF Body, Sound

\* What a cleanup of the containers and volumes consists of.
CleanSteps(x) == CASE x = "pds" -> NativeClean
                   [] x = "fence" -> OwnedCleanup
                   [] x = "bazarr" -> << Sweep("containers"), Sweep("tools") >>
                   [] OTHER -> BoundedClean

Setup == {Create(Tools, TRUE), Task({Tools})}
Follower(x, b) == IF b = Len(Programs[x]) THEN 0 ELSE b + 1   \* the block that follows
Final(x) == IF x \in {"bazarr", "fence"} THEN "end" ELSE "last"

SetupBlock(x, b) ==
  LET k == Programs[x][b]  n == Follower(x, b) IN
  /\ Roles[x][b] = "setup" /\ ~k.final /\ x # "fence"
  /\ \A i \in 1..Len(k.steps) : k.steps[i] \in Setup
  /\ RoleAt(x, k.catch) \in {"last", "end"} /\ RoleAt(x, n) \in {"setup", "body"}
  /\ k.catch = 0 => b = 1 /\ k.steps = << Create(Tools, TRUE) >>
  /\ n # 0 /\ (RoleAt(x, n) = "setup" => Programs[x][n].catch # 0)

BodyBlock(x, b) ==
  LET k == Programs[x][b]  n == Follower(x, b) IN
  /\ Roles[x][b] = "body" /\ ~k.final /\ Body(x, k.steps)
  /\ k.catch = n /\ RoleAt(x, n) = IF x \in Moving THEN "movers" ELSE "clean"

MoversBlock(x, b) ==
  LET k == Programs[x][b]  n == Follower(x, b) IN
  /\ Roles[x][b] = "movers" /\ k.final /\ x \in Moving /\ k.steps = MoverCleanup
  /\ RoleAt(x, n) = IF x = "pds" THEN "clean" ELSE "receipt"
  /\ RoleAt(x, k.catch) = IF x = "pds" THEN "clean" ELSE "last"

CleanBlock(x, b) ==
  LET k == Programs[x][b]  n == Follower(x, b) IN
  /\ Roles[x][b] = "clean" /\ k.final /\ x # "radarr" /\ k.steps = CleanSteps(x)
  /\ RoleAt(x, n) = "receipt" /\ RoleAt(x, k.catch) = Final(x)

ReceiptBlock(x, b) ==
  LET k == Programs[x][b]  n == Follower(x, b) IN
  /\ Roles[x][b] = "receipt" /\ ~k.final /\ k.steps = << Receipt >>
  /\ RoleAt(x, n) = Final(x) /\ RoleAt(x, k.catch) = Final(x)

LastBlock(x, b) ==
  LET k == Programs[x][b]  n == Follower(x, b) IN
  /\ Roles[x][b] = "last" /\ k.final /\ x \notin {"bazarr", "fence"}
  /\ k.steps = << Sweep("tools") >> /\ n = 0 /\ k.catch = 0

BlockShape(x, b) ==
  /\ Programs[x][b].catch \in 0..Len(Programs[x]) /\ Len(Programs[x][b].steps) \in Nat \ {0}
  /\ \/ SetupBlock(x, b) \/ BodyBlock(x, b) \/ MoversBlock(x, b) \/ CleanBlock(x, b)
     \/ ReceiptBlock(x, b) \/ LastBlock(x, b)

Shape(x) == /\ Len(Programs[x]) \in Nat \ {0}
            /\ RoleAt(x, 1) \in {"setup", "body"}
            /\ \A b \in 1..Len(Programs[x]) : BlockShape(x, b)

LEMMA Short ==
  /\ << Create(Tools, TRUE) >>[1] = Create(Tools, TRUE) /\ Len(<< Create(Tools, TRUE) >>) = 1
  /\ CopyTools[1] = Task({Tools}) /\ Len(CopyTools) = 1
  /\ Len(MoverCleanup) = 7 /\ Len(NativeClean) = 3 /\ Len(BoundedClean) = 4
  /\ Len(OwnedCleanup) = 2 /\ Len(<< Sweep("containers"), Sweep("tools") >>) = 2
  /\ Len(<< Receipt >>) = 1 /\ Len(<< Sweep("tools") >>) = 1
  BY DEF CopyTools, MoverCleanup, NativeClean, BoundedClean, OwnedCleanup

\* A block that is not a finally clause, and one that is.
IsWork(k, s, c) == k.steps = s /\ k.catch = c /\ ~k.final
IsFinal(k, s, c) == k.steps = s /\ k.catch = c /\ k.final

LEMMA IdentityProgram ==
  ASSUME NEW w, NEW cs, Prog(cs)
  PROVE  LET p == IdentityMain(w, cs)  n == Len(cs) IN
         /\ n \in Nat /\ Len(p) = 5 + n
         /\ IsWork(p[1], << Create(Tools, TRUE) >>, 0)
         /\ IsWork(p[2], CopyTools, 5 + n) /\ IsWork(p[3], w, 4)
         /\ \A i \in 1..n : p[3 + i] = cs[i]
         /\ IsWork(p[3 + n + 1], << Receipt >>, 5 + n)
         /\ IsFinal(p[3 + n + 2], << Sweep("tools") >>, 0)
<1> DEFINE n == Len(cs)
           u == << Block(<< Create(Tools, TRUE) >>, 0, FALSE), Block(CopyTools, 5 + n, FALSE),
                   Block(w, 4, FALSE) >>
           z == << Block(<< Receipt >>, 5 + n, FALSE), RemoveTools(0) >>
<1>1. IdentityMain(w, cs) = u \o cs \o z
  BY DEF IdentityMain
<1>2. /\ Len(u) = 3 /\ IsWork(u[1], << Create(Tools, TRUE) >>, 0)
      /\ IsWork(u[2], CopyTools, 5 + n) /\ IsWork(u[3], w, 4)
      /\ Len(z) = 2 /\ IsWork(z[1], << Receipt >>, 5 + n) /\ IsFinal(z[2], << Sweep("tools") >>, 0)
  BY DEF Block, RemoveTools, IsWork, IsFinal
<1>3. Prog(u) /\ Prog(z)
  <2>1. u \in Seq({u[1], u[2], u[3]}) /\ z \in Seq({z[1], z[2]})
    OBVIOUS
  <2>2. QED
    BY <2>1 DEF Prog
<1> HIDE DEF u, z
<1> DEFINE q == u \o cs
           r == q \o z
<1>4. /\ Prog(q) /\ n \in Nat /\ Len(q) = 3 + n
      /\ \A i \in 1..3 : q[i] = u[i]
      /\ \A i \in 1..n : q[3 + i] = cs[i]
  <2>1. /\ Prog(q) /\ n \in Nat /\ Len(q) = Len(u) + n
        /\ \A i \in 1..Len(u) : q[i] = u[i]
        /\ \A i \in 1..n : q[Len(u) + i] = cs[i]
    BY <1>3, Join
  <2>2. QED
    BY <1>2, <2>1
<1> HIDE DEF q, n
<1>5. /\ Len(r) = Len(q) + 2
      /\ \A i \in 1..Len(q) : r[i] = q[i]
      /\ \A i \in 1..2 : r[Len(q) + i] = z[i]
  <2>1. /\ Len(r) = Len(q) + Len(z)
        /\ \A i \in 1..Len(q) : r[i] = q[i]
        /\ \A i \in 1..Len(z) : r[Len(q) + i] = z[i]
    BY <1>3, <1>4, Join
  <2>2. QED
    BY <1>2, <2>1
<1> HIDE DEF r
<1>6. /\ r[1] = u[1] /\ r[2] = u[2] /\ r[3] = u[3]
      /\ r[3 + n + 1] = z[1] /\ r[3 + n + 2] = z[2] /\ Len(r) = 5 + n
  BY <1>4, <1>5
<1>7. \A i \in 1..n : r[3 + i] = cs[i]
  BY <1>4, <1>5
<1>8. IdentityMain(w, cs) = r
  BY <1>1 DEF q, r
<1>9. QED
  BY <1>2, <1>4, <1>6, <1>7, <1>8 DEF n

LEMMA PdsProgram ==
  LET p == Programs["pds"] IN
  /\ Len(p) = 7 /\ IsWork(p[1], << Create(Tools, TRUE) >>, 0)
  /\ IsWork(p[2], CopyTools, 7) /\ IsWork(p[3], Pds, 4)
  /\ IsFinal(p[4], MoverCleanup, 5) /\ IsFinal(p[5], NativeClean, 7)
  /\ IsWork(p[6], << Receipt >>, 7) /\ IsFinal(p[7], << Sweep("tools") >>, 0)
<1> DEFINE cs == << Block(MoverCleanup, 5, TRUE), Block(NativeClean, 7, TRUE) >>
           p == IdentityMain(Pds, cs)
<1>1. /\ cs \in Seq({cs[1], cs[2]}) /\ Len(cs) = 2
      /\ IsFinal(cs[1], MoverCleanup, 5) /\ IsFinal(cs[2], NativeClean, 7)
  BY DEF Block, IsFinal
<1>2. Programs["pds"] = p
  BY DEF Programs, PdsMain
<1> HIDE DEF cs, p
<1>3. Prog(cs)
  BY <1>1 DEF Prog
<1>4. /\ Len(p) = 5 + 2 /\ IsWork(p[1], << Create(Tools, TRUE) >>, 0)
      /\ IsWork(p[2], CopyTools, 5 + 2) /\ IsWork(p[3], Pds, 4)
      /\ \A i \in 1..2 : p[3 + i] = cs[i]
      /\ IsWork(p[3 + 2 + 1], << Receipt >>, 5 + 2)
        /\ IsFinal(p[3 + 2 + 2], << Sweep("tools") >>, 0)
  <2>1. LET n == Len(cs) IN
        /\ Len(p) = 5 + n /\ IsWork(p[1], << Create(Tools, TRUE) >>, 0)
        /\ IsWork(p[2], CopyTools, 5 + n) /\ IsWork(p[3], Pds, 4)
        /\ \A i \in 1..n : p[3 + i] = cs[i]
        /\ IsWork(p[3 + n + 1], << Receipt >>, 5 + n)
        /\ IsFinal(p[3 + n + 2], << Sweep("tools") >>, 0)
    BY <1>3, IdentityProgram DEF p
  <2>2. QED
    BY <1>1, <2>1
<1>5. 5 + 2 = 7 /\ 3 + 2 + 1 = 6 /\ 3 + 2 + 2 = 7
  OBVIOUS
<1>6. p[4] = cs[1] /\ p[5] = cs[2]
  BY <1>4
<1>7. QED
  BY <1>1, <1>2, <1>4, <1>5, <1>6

LEMMA OriginalProgram ==
  ASSUME NEW a, NEW c
  PROVE  LET p == Originals(a, c) IN
         /\ Len(p) = 6 /\ IsWork(p[1], << Create(Tools, TRUE) >>, 0)
         /\ IsWork(p[2], CopyTools, 6) /\ IsWork(p[3], a \o c \o << Compare >>, 4)
         /\ IsFinal(p[4], BoundedClean, 6)
         /\ IsWork(p[5], << Receipt >>, 6) /\ IsFinal(p[6], << Sweep("tools") >>, 0)
<1> DEFINE w == a \o c \o << Compare >>
           cs == << Block(BoundedClean, 6, TRUE) >>
           p == IdentityMain(w, cs)
<1>1. Prog(cs) /\ Len(cs) = 1 /\ IsFinal(cs[1], BoundedClean, 6)
  BY One DEF Block, IsFinal
<1>2. Originals(a, c) = p
  BY DEF Originals
<1> HIDE DEF cs, p, w
<1>3. /\ Len(p) = 5 + 1 /\ IsWork(p[1], << Create(Tools, TRUE) >>, 0)
      /\ IsWork(p[2], CopyTools, 5 + 1) /\ IsWork(p[3], w, 4)
      /\ \A i \in 1..1 : p[3 + i] = cs[i]
      /\ IsWork(p[3 + 1 + 1], << Receipt >>, 5 + 1)
        /\ IsFinal(p[3 + 1 + 2], << Sweep("tools") >>, 0)
  <2>1. LET n == Len(cs) IN
        /\ Len(p) = 5 + n /\ IsWork(p[1], << Create(Tools, TRUE) >>, 0)
        /\ IsWork(p[2], CopyTools, 5 + n) /\ IsWork(p[3], w, 4)
        /\ \A i \in 1..n : p[3 + i] = cs[i]
        /\ IsWork(p[3 + n + 1], << Receipt >>, 5 + n)
        /\ IsFinal(p[3 + n + 2], << Sweep("tools") >>, 0)
    BY <1>1, IdentityProgram DEF p
  <2>2. QED
    BY <1>1, <2>1
<1>4. 5 + 1 = 6 /\ 3 + 1 + 1 = 5 /\ 3 + 1 + 2 = 6
  OBVIOUS
<1>5. p[4] = cs[1]
  BY <1>3
<1>6. QED
  BY <1>1, <1>2, <1>3, <1>4, <1>5 DEF w

LEMMA OriginalPrograms ==
  /\ Programs["original"] = Originals(PdsOriginal("nas"), PdsOriginal("r2"))
  /\ Programs["grimmory"] = Originals(GrimmoryOriginal("nas"), GrimmoryOriginal("r2"))
  BY DEF Programs, OriginalMain, GrimmoryMain

LEMMA SetupTuple ==
  ASSUME NEW s, \/ Len(s) = 1 /\ s[1] \in Setup
                \/ Len(s) = 2 /\ s[1] \in Setup /\ s[2] \in Setup
  PROVE  Len(s) \in Nat \ {0} /\ \A i \in 1..Len(s) : s[i] \in Setup
OBVIOUS

\* A block, given its fields.
LEMMA SetupFits ==
  ASSUME NEW x, x # "fence", NEW b, NEW c, NEW s, NEW n,
         IsWork(Programs[x][b], s, c), Roles[x][b] = "setup", c \in 0..Len(Programs[x]),
         s \in {<< Create(Tools, TRUE) >>, CopyTools, << Create(Tools, TRUE) >> \o CopyTools},
         RoleAt(x, c) \in {"last", "end"}, Follower(x, b) = n, n # 0,
         RoleAt(x, n) \in {"setup", "body"},
         c = 0 => b = 1 /\ s = << Create(Tools, TRUE) >>,
         RoleAt(x, n) = "setup" => Programs[x][n].catch # 0
  PROVE  BlockShape(x, b)
<1>1. Len(s) \in Nat \ {0} /\ \A i \in 1..Len(s) : s[i] \in Setup
  <2>1. CASE s = << Create(Tools, TRUE) >>
    <3>1. Len(s) = 1 /\ s[1] = Create(Tools, TRUE)
      BY <2>1
    <3>2. s[1] \in Setup
      BY <3>1 DEF Setup
    <3>3. QED
      BY <3>1, <3>2, SetupTuple
  <2>2. CASE s = CopyTools
    <3>1. Len(s) = 1 /\ s[1] = Task({Tools})
      BY <2>2, Short
    <3>2. s[1] \in Setup
      BY <3>1 DEF Setup
    <3>3. QED
      BY <3>1, <3>2, SetupTuple
  <2>3. CASE s = << Create(Tools, TRUE) >> \o CopyTools
    <3>1. Len(s) = 2 /\ s[1] = Create(Tools, TRUE) /\ s[2] = Task({Tools})
      BY <2>3 DEF CopyTools
    <3>2. s[1] \in Setup /\ s[2] \in Setup
      BY <3>1 DEF Setup
    <3>3. QED
      BY <3>1, <3>2, SetupTuple
  <2>4. QED
    BY <2>1, <2>2, <2>3
<1>2. QED
  BY <1>1 DEF IsWork, IsFinal, BlockShape, SetupBlock

LEMMA BodyFits ==
  ASSUME NEW x, NEW b, NEW s, NEW n,
         IsWork(Programs[x][b], s, n), Roles[x][b] = "body", n \in 0..Len(Programs[x]),
         Body(x, s), Follower(x, b) = n,
         RoleAt(x, n) = IF x \in Moving THEN "movers" ELSE "clean"
  PROVE  BlockShape(x, b)
  BY DEF IsWork, IsFinal, BlockShape, BodyBlock, Body

LEMMA MoversFits ==
  ASSUME NEW x \in Moving, NEW b, NEW c, NEW n,
         IsFinal(Programs[x][b], MoverCleanup, c), Roles[x][b] = "movers",
         c \in 0..Len(Programs[x]), Follower(x, b) = n,
         RoleAt(x, n) = IF x = "pds" THEN "clean" ELSE "receipt",
         RoleAt(x, c) = IF x = "pds" THEN "clean" ELSE "last"
  PROVE  BlockShape(x, b)
  BY Short DEF IsWork, IsFinal, BlockShape, MoversBlock

LEMMA CleanFits ==
  ASSUME NEW x, x # "radarr", NEW b, NEW c, NEW n,
         IsFinal(Programs[x][b], CleanSteps(x), c), Roles[x][b] = "clean",
         Len(CleanSteps(x)) \in Nat \ {0}, c \in 0..Len(Programs[x]), Follower(x, b) = n,
         RoleAt(x, n) = "receipt", RoleAt(x, c) = Final(x)
  PROVE  BlockShape(x, b)
  BY DEF IsWork, IsFinal, BlockShape, CleanBlock

LEMMA ReceiptFits ==
  ASSUME NEW x, NEW b, NEW c, NEW n,
         IsWork(Programs[x][b], << Receipt >>, c), Roles[x][b] = "receipt",
         c \in 0..Len(Programs[x]), Follower(x, b) = n,
         RoleAt(x, n) = Final(x), RoleAt(x, c) = Final(x)
  PROVE  BlockShape(x, b)
  BY Short DEF IsWork, IsFinal, BlockShape, ReceiptBlock

LEMMA LastFits ==
  ASSUME NEW x, x \notin {"bazarr", "fence"}, NEW b,
         IsFinal(Programs[x][b], << Sweep("tools") >>, 0), Roles[x][b] = "last",
         Len(Programs[x]) \in Nat, Follower(x, b) = 0
  PROVE  BlockShape(x, b)
  BY Short DEF IsWork, IsFinal, BlockShape, LastBlock

LEMMA PdsShape == Shape("pds")
<1> DEFINE x == "pds"
           p == Programs[x]
           r == Roles[x]
<1>1. /\ r[1] = "setup" /\ r[2] = "setup" /\ r[3] = "body" /\ r[4] = "movers" /\ r[5] = "clean"
      /\ r[6] = "receipt" /\ r[7] = "last"
  BY DEF Roles
<1>2. /\ Len(p) = 7 /\ IsWork(p[1], << Create(Tools, TRUE) >>, 0)
      /\ IsWork(p[2], CopyTools, 7) /\ IsWork(p[3], Pds, 4)
      /\ IsFinal(p[4], MoverCleanup, 5) /\ IsFinal(p[5], NativeClean, 7)
      /\ IsWork(p[6], << Receipt >>, 7) /\ IsFinal(p[7], << Sweep("tools") >>, 0)
  BY PdsProgram
<1>3. /\ x \in Moving /\ CleanSteps(x) = NativeClean /\ Final(x) = "last"
      /\ x # "fence" /\ x # "radarr"
      /\ x \notin {"bazarr", "fence"}
  BY DEF Moving, CleanSteps, Final
<1>4. /\ \A b \in 1..7 : RoleAt(x, b) = r[b]
      /\ RoleAt(x, 0) = "end" /\ Follower(x, 7) = 0
      /\ \A b \in 1..6 : Follower(x, b) = b + 1
  BY <1>2 DEF RoleAt, Follower
<1> HIDE DEF x, p, r
<1>5. /\ Follower(x, 1) = 2 /\ Follower(x, 2) = 3 /\ Follower(x, 3) = 4 /\ Follower(x, 4) = 5
      /\ Follower(x, 5) = 6 /\ Follower(x, 6) = 7
  BY <1>4
<1>6. /\ RoleAt(x, 1) = "setup" /\ RoleAt(x, 2) = "setup" /\ RoleAt(x, 3) = "body"
      /\ RoleAt(x, 4) = "movers" /\ RoleAt(x, 5) = "clean" /\ RoleAt(x, 6) = "receipt"
      /\ RoleAt(x, 7) = "last"
  BY <1>1, <1>4
<1>7. BlockShape(x, 1)
  <2>1. p[2].catch # 0 /\ 0 \in 0..Len(p)
    BY <1>2 DEF IsWork
  <2>2. QED
    BY <1>1, <1>2, <1>3, <1>4, <1>5, <1>6, <2>1, SetupFits DEF p, r
<1>8. BlockShape(x, 2)
  <2>1. 7 \in 0..Len(p) /\ 7 # 0
    BY <1>2
  <2>2. QED
    BY <1>1, <1>2, <1>3, <1>4, <1>5, <1>6, <2>1, SetupFits DEF p, r
<1>9. BlockShape(x, 3)
  BY <1>1, <1>2, <1>3, <1>5, <1>6, PdsBody, BodyFits DEF p, r, x
<1>10. BlockShape(x, 4)
  BY <1>1, <1>2, <1>3, <1>5, <1>6, MoversFits DEF p, r, x
<1>11. BlockShape(x, 5)
  <2>1. 7 \in 0..Len(p) /\ Len(CleanSteps(x)) \in Nat \ {0}
    BY <1>2, <1>3, Short
  <2>2. QED
    BY <1>1, <1>2, <1>3, <1>5, <1>6, <2>1, CleanFits DEF p, r
<1>12. BlockShape(x, 6)
  BY <1>1, <1>2, <1>3, <1>5, <1>6, ReceiptFits DEF p, r
<1>13. BlockShape(x, 7)
  BY <1>1, <1>2, <1>3, <1>4, LastFits DEF p, r
<1>14. \A b \in 1..7 : b \in {1, 2, 3, 4, 5, 6, 7}
  OBVIOUS
<1>15. \A b \in 1..7 : BlockShape(x, b)
  BY <1>7, <1>8, <1>9, <1>10, <1>11, <1>12, <1>13, <1>14
<1>16. QED
  BY <1>2, <1>6, <1>15 DEF Shape, p, x

LEMMA OriginalShape ==
  ASSUME NEW x \in {"original", "grimmory"} PROVE Shape(x)
<1> DEFINE p == Programs[x]
           r == Roles[x]
<1>1. /\ r[1] = "setup" /\ r[2] = "setup" /\ r[3] = "body" /\ r[4] = "clean"
      /\ r[5] = "receipt" /\ r[6] = "last"
  BY DEF Roles
<1>2. PICK w : /\ Len(p) = 6 /\ IsWork(p[1], << Create(Tools, TRUE) >>, 0)
               /\ IsWork(p[2], CopyTools, 6) /\ IsWork(p[3], w, 4) /\ Body(x, w)
               /\ IsFinal(p[4], BoundedClean, 6)
               /\ IsWork(p[5], << Receipt >>, 6) /\ IsFinal(p[6], << Sweep("tools") >>, 0)
  <2>1. CASE x = "original"
    BY <2>1, OriginalPrograms, OriginalProgram, OriginalBodies
  <2>2. CASE x = "grimmory"
    BY <2>2, OriginalPrograms, OriginalProgram, OriginalBodies
  <2>3. QED
    BY <2>1, <2>2
<1>3. /\ x \notin Moving /\ CleanSteps(x) = BoundedClean /\ Final(x) = "last"
      /\ x # "fence" /\ x # "radarr" /\ x \notin {"bazarr", "fence"}
  BY DEF Moving, CleanSteps, Final
<1>4. /\ \A b \in 1..6 : RoleAt(x, b) = r[b]
      /\ RoleAt(x, 0) = "end" /\ Follower(x, 6) = 0
      /\ \A b \in 1..5 : Follower(x, b) = b + 1
  BY <1>2 DEF RoleAt, Follower
<1> HIDE DEF p, r
<1>5. /\ Follower(x, 1) = 2 /\ Follower(x, 2) = 3 /\ Follower(x, 3) = 4 /\ Follower(x, 4) = 5
      /\ Follower(x, 5) = 6
  BY <1>4
<1>6. /\ RoleAt(x, 1) = "setup" /\ RoleAt(x, 2) = "setup" /\ RoleAt(x, 3) = "body"
      /\ RoleAt(x, 4) = "clean" /\ RoleAt(x, 5) = "receipt" /\ RoleAt(x, 6) = "last"
  BY <1>1, <1>4
<1>7. BlockShape(x, 1)
  <2>1. p[2].catch # 0 /\ 0 \in 0..Len(p)
    BY <1>2 DEF IsWork
  <2>2. QED
    BY <1>1, <1>2, <1>3, <1>4, <1>5, <1>6, <2>1, SetupFits DEF p, r
<1>8. BlockShape(x, 2)
  <2>1. 6 \in 0..Len(p) /\ 6 # 0
    BY <1>2
  <2>2. QED
    BY <1>1, <1>2, <1>3, <1>4, <1>5, <1>6, <2>1, SetupFits DEF p, r
<1>9. BlockShape(x, 3)
  BY <1>1, <1>2, <1>3, <1>5, <1>6, BodyFits DEF p, r
<1>10. BlockShape(x, 4)
  <2>1. 6 \in 0..Len(p) /\ Len(CleanSteps(x)) \in Nat \ {0}
    BY <1>2, <1>3, Short
  <2>2. QED
    BY <1>1, <1>2, <1>3, <1>5, <1>6, <2>1, CleanFits DEF p, r
<1>11. BlockShape(x, 5)
  BY <1>1, <1>2, <1>3, <1>5, <1>6, ReceiptFits DEF p, r
<1>12. BlockShape(x, 6)
  BY <1>1, <1>2, <1>3, <1>4, LastFits DEF p, r
<1>13. \A b \in 1..6 : b \in {1, 2, 3, 4, 5, 6}
  OBVIOUS
<1>14. \A b \in 1..6 : BlockShape(x, b)
  BY <1>7, <1>8, <1>9, <1>10, <1>11, <1>12, <1>13
<1>15. QED
  BY <1>2, <1>6, <1>14 DEF Shape, p

LEMMA RadarrShape == Shape("radarr")
<1> DEFINE x == "radarr"
           p == Programs[x]
           r == Roles[x]
           w == Exercise("nas") \o Exercise("r2")
           s == << Create(Tools, TRUE) >> \o CopyTools
<1>1. /\ r[1] = "setup" /\ r[2] = "body" /\ r[3] = "movers" /\ r[4] = "receipt" /\ r[5] = "last"
  BY DEF Roles
<1>2. /\ Len(p) = 5 /\ IsWork(p[1], s, 5) /\ IsWork(p[2], w, 3)
      /\ IsFinal(p[3], MoverCleanup, 5)
      /\ IsWork(p[4], << Receipt >>, 5) /\ IsFinal(p[5], << Sweep("tools") >>, 0)
  <2>1. p = RadarrMain
    BY DEF Programs
  <2> HIDE DEF p, w, s
  <2>2. QED
    BY <2>1 DEF RadarrMain, RemoveTools, Block, IsWork, IsFinal, w, s
<1>3. x \in Moving /\ Final(x) = "last" /\ x # "fence" /\ x # "pds" /\ x \notin {"bazarr", "fence"}
  BY DEF Moving, Final
<1>4. /\ \A b \in 1..5 : RoleAt(x, b) = r[b]
      /\ RoleAt(x, 0) = "end" /\ Follower(x, 5) = 0
      /\ \A b \in 1..4 : Follower(x, b) = b + 1
  BY <1>2 DEF RoleAt, Follower
<1>5. Body(x, w)
  BY RadarrBody
<1> HIDE DEF x, p, r, w
<1>6. Follower(x, 1) = 2 /\ Follower(x, 2) = 3 /\ Follower(x, 3) = 4 /\ Follower(x, 4) = 5
  BY <1>4
<1>7. /\ RoleAt(x, 1) = "setup" /\ RoleAt(x, 2) = "body" /\ RoleAt(x, 3) = "movers"
      /\ RoleAt(x, 4) = "receipt" /\ RoleAt(x, 5) = "last"
  BY <1>1, <1>4
<1>8. BlockShape(x, 1)
  <2>1. 5 \in 0..Len(p) /\ 5 # 0 /\ RoleAt(x, 2) # "setup"
    BY <1>2, <1>7
  <2>2. QED
    BY <1>1, <1>2, <1>3, <1>6, <1>7, <2>1, SetupFits DEF p, r
<1>9. BlockShape(x, 2)
  BY <1>1, <1>2, <1>3, <1>5, <1>6, <1>7, BodyFits DEF p, r
<1>10. BlockShape(x, 3)
  BY <1>1, <1>2, <1>3, <1>6, <1>7, MoversFits DEF p, r
<1>11. BlockShape(x, 4)
  BY <1>1, <1>2, <1>3, <1>6, <1>7, ReceiptFits DEF p, r
<1>12. BlockShape(x, 5)
  BY <1>1, <1>2, <1>3, <1>4, LastFits DEF p, r
<1>13. \A b \in 1..5 : b \in {1, 2, 3, 4, 5}
  OBVIOUS
<1>14. \A b \in 1..5 : BlockShape(x, b)
  BY <1>8, <1>9, <1>10, <1>11, <1>12, <1>13
<1>15. QED
  BY <1>2, <1>7, <1>14 DEF Shape, p, x

LEMMA BazarrShape == Shape("bazarr")
<1> DEFINE x == "bazarr"
           p == Programs[x]
           r == Roles[x]
           w == CopyTools \o Bazarr("nas") \o Bazarr("r2") \o << Compare >>
           c == << Sweep("containers"), Sweep("tools") >>
<1>1. /\ r[1] = "setup" /\ r[2] = "body" /\ r[3] = "clean" /\ r[4] = "receipt"
  BY DEF Roles
<1>2. /\ Len(p) = 4 /\ IsWork(p[1], << Create(Tools, TRUE) >>, 0) /\ IsWork(p[2], w, 3)
      /\ IsFinal(p[3], c, 0) /\ IsWork(p[4], << Receipt >>, 0)
  <2>1. p = BazarrMain
    BY DEF Programs
  <2> HIDE DEF p, w, c
  <2>2. QED
    BY <2>1 DEF BazarrMain, Block, IsWork, IsFinal, w, c
<1>3. /\ x \notin Moving /\ CleanSteps(x) = c /\ Len(CleanSteps(x)) = 2 /\ Final(x) = "end"
      /\ x # "fence" /\ x # "radarr"
  BY DEF Moving, CleanSteps, Final
<1>4. /\ \A b \in 1..4 : RoleAt(x, b) = r[b]
      /\ RoleAt(x, 0) = "end" /\ Follower(x, 4) = 0
      /\ \A b \in 1..3 : Follower(x, b) = b + 1
  BY <1>2 DEF RoleAt, Follower
<1>5. Body(x, w)
  BY BazarrBody
<1> HIDE DEF x, p, r, w, c
<1>6. Follower(x, 1) = 2 /\ Follower(x, 2) = 3 /\ Follower(x, 3) = 4
  BY <1>4
<1>7. /\ RoleAt(x, 1) = "setup" /\ RoleAt(x, 2) = "body" /\ RoleAt(x, 3) = "clean"
      /\ RoleAt(x, 4) = "receipt"
  BY <1>1, <1>4
<1>8. BlockShape(x, 1)
  <2>1. 0 \in 0..Len(p) /\ RoleAt(x, 2) # "setup"
    BY <1>2, <1>7
  <2>2. QED
    BY <1>1, <1>2, <1>3, <1>4, <1>6, <1>7, <2>1, SetupFits DEF p, r
<1>9. BlockShape(x, 2)
  BY <1>1, <1>2, <1>3, <1>5, <1>6, <1>7, BodyFits DEF p, r
<1>10. BlockShape(x, 3)
  <2>1. 0 \in 0..Len(p) /\ Len(CleanSteps(x)) \in Nat \ {0}
    BY <1>2, <1>3
  <2>2. IsFinal(p[3], CleanSteps(x), 0)
    BY <1>2, <1>3
  <2>3. /\ Roles[x][3] = "clean" /\ Follower(x, 3) = 4 /\ RoleAt(x, 4) = "receipt"
        /\ RoleAt(x, 0) = Final(x) /\ x # "radarr"
    BY <1>1, <1>3, <1>4, <1>6, <1>7 DEF r
  <2>4. QED
    BY <2>1, <2>2, <2>3, CleanFits DEF p
<1>11. BlockShape(x, 4)
  <2>1. 0 \in 0..Len(p)
    BY <1>2
  <2>2. QED
    BY <1>1, <1>2, <1>3, <1>4, <2>1, ReceiptFits DEF p, r
<1>12. \A b \in 1..4 : b \in {1, 2, 3, 4}
  OBVIOUS
<1>13. \A b \in 1..4 : BlockShape(x, b)
  BY <1>8, <1>9, <1>10, <1>11, <1>12
<1>14. QED
  BY <1>2, <1>7, <1>13 DEF Shape, p, x

LEMMA FenceShape == Shape("fence")
<1> DEFINE x == "fence"
           p == Programs[x]
           r == Roles[x]
<1>1. r[1] = "body" /\ r[2] = "clean" /\ r[3] = "receipt"
  BY DEF Roles
<1>2. /\ Len(p) = 3 /\ IsWork(p[1], FenceNative, 2) /\ IsFinal(p[2], OwnedCleanup, 0)
      /\ IsWork(p[3], << Receipt >>, 0)
  <2>1. p = FenceMain
    BY DEF Programs
  <2> HIDE DEF p
  <2>2. QED
    BY <2>1 DEF FenceMain, Block, IsWork, IsFinal
<1>3. /\ x \notin Moving /\ CleanSteps(x) = OwnedCleanup /\ Final(x) = "end" /\ x # "radarr"
  BY DEF Moving, CleanSteps, Final
<1>4. /\ \A b \in 1..3 : RoleAt(x, b) = r[b]
      /\ RoleAt(x, 0) = "end" /\ Follower(x, 3) = 0
      /\ \A b \in 1..2 : Follower(x, b) = b + 1
  BY <1>2 DEF RoleAt, Follower
<1>5. Body(x, FenceNative)
  BY FenceBody
<1> HIDE DEF x, p, r
<1>6. Follower(x, 1) = 2 /\ Follower(x, 2) = 3
  BY <1>4
<1>7. RoleAt(x, 1) = "body" /\ RoleAt(x, 2) = "clean" /\ RoleAt(x, 3) = "receipt"
  BY <1>1, <1>4
<1>8. BlockShape(x, 1)
  BY <1>1, <1>2, <1>3, <1>5, <1>6, <1>7, BodyFits DEF p, r
<1>9. BlockShape(x, 2)
  <2>1. 0 \in 0..Len(p) /\ Len(CleanSteps(x)) \in Nat \ {0}
    BY <1>2, <1>3, Short
  <2>2. QED
    BY <1>1, <1>2, <1>3, <1>4, <1>6, <1>7, <2>1, CleanFits DEF p, r
<1>10. BlockShape(x, 3)
  <2>1. 0 \in 0..Len(p)
    BY <1>2
  <2>2. QED
    BY <1>1, <1>2, <1>3, <1>4, <2>1, ReceiptFits DEF p, r
<1>11. \A b \in 1..3 : b \in {1, 2, 3}
  OBVIOUS
<1>12. \A b \in 1..3 : BlockShape(x, b)
  BY <1>8, <1>9, <1>10, <1>11
<1>13. QED
  BY <1>2, <1>7, <1>12 DEF Shape, p, x

LEMMA Shapes == ASSUME NEW x \in Scripts PROVE Shape(x)
<1>1. x \in {"radarr", "pds", "original", "grimmory", "bazarr", "fence"}
  BY ScriptsAssumption
<1>2. QED
  BY <1>1, RadarrShape, PdsShape, OriginalShape, BazarrShape, FenceShape

\* Whoever has a set-up begins it with the tools volume.
LEMMA FirstCreates ==
  ASSUME NEW x \in Scripts, x # "fence"
  PROVE  Programs[x][1].steps[1] = Create(Tools, TRUE)
<1> DEFINE c == Create(Tools, TRUE)
           s == Programs[x][1].steps
<1>1. x \in {"radarr", "pds", "original", "grimmory", "bazarr"}
  BY ScriptsAssumption
<1>2. s = << c >> \/ s = << c >> \o CopyTools
  <2>1. CASE x = "radarr"
    BY <2>1 DEF Programs, RadarrMain, Block
  <2>2. CASE x = "bazarr"
    BY <2>2 DEF Programs, BazarrMain, Block
  <2>3. CASE x = "pds"
    BY <2>3, PdsProgram DEF IsWork
  <2>4. CASE x \in {"original", "grimmory"}
    <3>1. PICK a, b : Programs[x] = Originals(a, b)
      BY <2>4, OriginalPrograms
    <3>2. IsWork(Programs[x][1], << c >>, 0)
      BY <3>1, OriginalProgram
    <3>3. QED
      BY <3>2 DEF IsWork
  <2>5. QED
    BY <1>1, <2>1, <2>2, <2>3, <2>4
<1>3. << c >>[1] = c /\ (<< c >> \o CopyTools)[1] = c
  BY DEF CopyTools
<1> HIDE DEF c, s
<1>4. QED
  BY <1>2, <1>3 DEF c, s
-----------------------------------------------------------------------------
(* Lists of names *)

LEMMA Appended ==
  ASSUME NEW s \in Seq(Names), NEW n \in Names
  PROVE  /\ Append(s, n) \in Seq(Names) /\ Len(Append(s, n)) = Len(s) + 1
         /\ Includes(Append(s, n), n) /\ Last(Append(s, n)) = n
         /\ \A m : Includes(s, m) => Includes(Append(s, n), m)
         /\ \A m : Includes(Append(s, n), m) => m = n \/ Includes(s, m)
<1>1. /\ Append(s, n) \in Seq(Names) /\ Len(Append(s, n)) = Len(s) + 1 /\ Len(s) \in Nat
      /\ \A i \in 1..Len(s) : Append(s, n)[i] = s[i]
      /\ Append(s, n)[Len(s) + 1] = n
  OBVIOUS
<1>2. QED
  BY <1>1 DEF Includes, Last

LEMMA LeastIn ==
  ASSUME NEW I \in SUBSET Nat, I # {}
  PROVE  Min(I) \in I
<1>1. PICK m \in I : \A y \in I : ~(<<y, m>> \in OpToRel(<, Nat))
  BY NatLessThanWellFounded, WFMin, Zenon
<1>2. ASSUME NEW y \in I PROVE m <= y
  <2>1. y < m => <<y, m>> \in {ss \in Nat \X Nat : ss[1] < ss[2]}
    OBVIOUS
  <2>2. y < m => <<y, m>> \in OpToRel(<, Nat)
    BY <2>1, Zenon DEF OpToRel
  <2>3. ~(y < m)
    BY <1>1, <2>2, Zenon
  <2>4. QED
    BY <2>3
<1>3. QED
  BY <1>2 DEF Min

LEMMA FirstAt ==
  ASSUME NEW s \in Seq(Names), NEW n, Includes(s, n)
  PROVE  \E k \in 1..Len(s) : /\ s[k] = n
                              /\ RemoveFirst(s, n) = SubSeq(s, 1, k - 1) \o SubSeq(s, k + 1, Len(s))
<1> DEFINE I == {i \in 1..Len(s) : s[i] = n}
           k == SelectInSeq(s, LAMBDA v : v = n)
<1>1. RemoveFirst(s, n) = SubSeq(s, 1, k - 1) \o SubSeq(s, k + 1, Len(s))
  BY DEF RemoveFirst, RemoveAt, Includes
<1>2. k = IF I # {} THEN Min(I) ELSE 0
  BY DEF SelectInSeq
<1>3. I \in SUBSET Nat /\ I # {}
  BY DEF Includes
<1>4. Min(I) \in I
  BY <1>3, LeastIn, Zenon
<1> HIDE DEF k
<1>5. k \in 1..Len(s) /\ s[k] = n
  BY <1>2, <1>3, <1>4
<1>6. QED
  BY <1>1, <1>5

LEMMA Unlisted ==
  ASSUME NEW s \in Seq(Names), NEW n
  PROVE  /\ RemoveFirst(s, n) \in Seq(Names) /\ Len(RemoveFirst(s, n)) <= Len(s)
         /\ \A m : Includes(RemoveFirst(s, n), m) => Includes(s, m)
         /\ \A m : m # n /\ Includes(s, m) => Includes(RemoveFirst(s, n), m)
         /\ s = << n >> => RemoveFirst(s, n) = << >>
<1> DEFINE t == RemoveFirst(s, n)
<1>1. CASE ~Includes(s, n)
  <2>1. t = s
    BY <1>1 DEF RemoveFirst, Includes
  <2>2. s = << n >> => Includes(s, n)
    BY DEF Includes
  <2>3. QED
    BY <1>1, <2>1, <2>2
<1>2. CASE Includes(s, n)
  <2>1. PICK k \in 1..Len(s) : s[k] = n /\ t = SubSeq(s, 1, k - 1) \o SubSeq(s, k + 1, Len(s))
    BY <1>2, FirstAt
  <2> DEFINE a == SubSeq(s, 1, k - 1)
             b == SubSeq(s, k + 1, Len(s))
  <2>2. /\ a \in Seq(Names) /\ Len(a) = k - 1 /\ \A i \in 1..k - 1 : a[i] = s[i]
        /\ b \in Seq(Names) /\ Len(b) = Len(s) - k /\ \A i \in 1..Len(s) - k : b[i] = s[k + i]
    BY SubSeqProperties
  <2> HIDE DEF a, b
  <2>3. /\ t \in Seq(Names) /\ Len(t) = Len(s) - 1
        /\ \A i \in 1..Len(s) - 1 : t[i] = IF i <= k - 1 THEN a[i] ELSE b[i - (k - 1)]
    <3>1. t = a \o b
      BY <2>1 DEF a, b
    <3>2. /\ a \o b \in Seq(Names) /\ Len(a \o b) = Len(a) + Len(b)
          /\ \A i \in 1..Len(a) + Len(b) : (a \o b)[i] = IF i <= Len(a) THEN a[i] ELSE b[i - Len(a)]
      BY <2>2, ConcatProperties
    <3>3. Len(a) + Len(b) = Len(s) - 1
      BY <2>2
    <3>4. QED
      BY <2>2, <3>1, <3>2, <3>3
  <2> HIDE DEF t
  <2>4. \A i \in 1..Len(s) - 1 : t[i] = IF i <= k - 1 THEN s[i] ELSE s[i + 1]
    BY <2>2, <2>3
  <2>5. ASSUME NEW m, Includes(t, m) PROVE Includes(s, m)
    <3>1. PICK i \in 1..Len(t) : t[i] = m
      BY <2>5 DEF Includes
    <3>2. Len(s) \in Nat /\ i \in 1..Len(s) - 1
      BY <2>3, <3>1
    <3>3. i <= k - 1 => i \in 1..Len(s) /\ s[i] = m
      BY <2>4, <3>1, <3>2
    <3>4. i > k - 1 => i + 1 \in 1..Len(s) /\ s[i + 1] = m
      BY <2>4, <3>1, <3>2
    <3>5. QED
      BY <3>2, <3>3, <3>4 DEF Includes
  <2>6. ASSUME NEW m, m # n, Includes(s, m) PROVE Includes(t, m)
    <3>1. PICK i \in 1..Len(s) : s[i] = m
      BY <2>6 DEF Includes
    <3>2. i # k
      BY <2>1, <2>6, <3>1
    <3>3. i < k => i \in 1..Len(t) /\ t[i] = m
      BY <2>3, <2>4, <3>1
    <3>4. i > k => i - 1 \in 1..Len(t) /\ t[i - 1] = m
      BY <2>3, <2>4, <3>1
    <3>5. QED
      BY <3>2, <3>3, <3>4 DEF Includes
  <2>7. s = << n >> => t = << >>
    <3>1. s = << n >> => Len(t) = 0
      BY <2>3
    <3>2. QED
      BY <2>3, <3>1, EmptySeq
  <2>8. QED
    BY <2>3, <2>5, <2>6, <2>7 DEF t
<1>3. QED
  BY <1>1, <1>2

LEMMA Reversed ==
  ASSUME NEW s \in Seq(Names)
  PROVE  /\ Reverse(s) \in Seq(Names) /\ Len(Reverse(s)) = Len(s)
         /\ \A m : Includes(Reverse(s), m) <=> Includes(s, m)
<1>1. /\ Len(s) \in Nat /\ \A i \in 1..Len(s) : s[i] \in Names /\ (Len(s) - i) + 1 \in 1..Len(s)
  OBVIOUS
<1>2. Reverse(s) = [i \in 1..Len(s) |-> s[(Len(s) - i) + 1]]
  BY DEF Reverse
<1>3. Reverse(s) \in [1..Len(s) -> Names]
  BY <1>1, <1>2
<1>4. Reverse(s) \in Seq(Names) /\ Len(Reverse(s)) = Len(s)
  BY <1>1, <1>3, SeqDef, LenProperties
<1>5. \A i \in 1..Len(s) : Reverse(s)[i] = s[(Len(s) - i) + 1]
  BY <1>2
<1>6. \A i \in 1..Len(s) : Reverse(s)[(Len(s) - i) + 1] = s[i]
  BY <1>1, <1>5
<1>7. QED
  BY <1>1, <1>4, <1>5, <1>6 DEF Includes

LEMMA Tailed ==
  ASSUME NEW s \in Seq(Names), s # << >>
  PROVE  /\ Tail(s) \in Seq(Names) /\ Len(Tail(s)) = Len(s) - 1 /\ Head(s) \in Names
         /\ Head(s) = s[1] /\ Len(s) \in Nat \ {0}
         /\ \A i \in 1..Len(Tail(s)) : Tail(s)[i] = s[i + 1]
         /\ \A m : Includes(s, m) => m = Head(s) \/ Includes(Tail(s), m)
<1>1. /\ Tail(s) \in Seq(Names) /\ Len(Tail(s)) = Len(s) - 1 /\ Head(s) = s[1]
      /\ Len(s) \in Nat \ {0} /\ s[1] \in Names
      /\ \A i \in 1..Len(Tail(s)) : Tail(s)[i] = s[i + 1]
  BY HeadTailProperties
<1>2. ASSUME NEW m, Includes(s, m) PROVE m = Head(s) \/ Includes(Tail(s), m)
  <2>1. PICK i \in 1..Len(s) : s[i] = m
    BY <1>2 DEF Includes
  <2>2. i # 1 => i - 1 \in 1..Len(Tail(s)) /\ Tail(s)[i - 1] = m
    BY <1>1, <2>1
  <2>3. QED
    BY <1>1, <2>1, <2>2 DEF Includes
<1>3. QED
  BY <1>1, <1>2
-----------------------------------------------------------------------------
(* What each role says about the command at hand and where it leads *)

Beyond == Follower(script, block)

LEMMA Placed ==
  ASSUME PlaceInv, Running
  PROVE  /\ block \in 1..Len(Program) /\ Len(Program) \in Nat /\ BlockShape(script, block)
         /\ Len(B.steps) \in Nat \ {0} /\ step \in 1..Len(B.steps)
         /\ B.catch \in 0..Len(Program) /\ Beyond \in 0..Len(Program)
         /\ Role = Roles[script][block]
         /\ Role \in {"setup", "body", "movers", "clean", "receipt", "last"}
<1>1. Shape(script)
  BY Shapes DEF PlaceInv
<1>2. block \in 1..Len(Program) /\ Len(Program) \in Nat
  BY <1>1 DEF PlaceInv, Running, Shape, Program
<1>3. BlockShape(script, block)
  BY <1>1, <1>2 DEF Shape, Program
<1>4. Beyond \in 0..Len(Program)
  BY <1>2 DEF Beyond, Follower, Program
<1>5. Role = Roles[script][block]
  BY DEF Role, RoleAt, Running
<1>6. /\ Len(B.steps) \in Nat \ {0} /\ step \in 1..Len(B.steps)
      /\ B.catch \in 0..Len(Program)
  BY <1>3 DEF PlaceInv, BlockShape, B, Program
<1>7. Roles[script][block] \in {"setup", "body", "movers", "clean", "receipt", "last"}
  BY <1>3 DEF BlockShape, SetupBlock, BodyBlock, MoversBlock, CleanBlock, ReceiptBlock, LastBlock
<1>8. QED
  BY <1>2, <1>3, <1>4, <1>5, <1>6, <1>7

LEMMA InSetup ==
  ASSUME PlaceInv, Running, Role = "setup"
  PROVE  /\ S \in Setup /\ ~B.final /\ script # "fence"
         /\ RoleAt(script, B.catch) \in {"last", "end"}
         /\ RoleAt(script, Beyond) \in {"setup", "body"} /\ Beyond # 0
         /\ RoleAt(script, Beyond) = "setup" => Program[Beyond].catch # 0
         /\ B.catch = 0 => S = Create(Tools, TRUE) /\ Len(B.steps) = 1
<1>1. SetupBlock(script, block) /\ step \in 1..Len(B.steps)
  BY Placed DEF BlockShape, SetupBlock, BodyBlock, MoversBlock, CleanBlock, ReceiptBlock, LastBlock
<1>2. /\ ~B.final /\ script # "fence" /\ \A i \in 1..Len(B.steps) : B.steps[i] \in Setup
      /\ RoleAt(script, B.catch) \in {"last", "end"}
      /\ RoleAt(script, Beyond) \in {"setup", "body"}
      /\ B.catch = 0 => B.steps = << Create(Tools, TRUE) >>
      /\ Beyond # 0 /\ (RoleAt(script, Beyond) = "setup" => Program[Beyond].catch # 0)
  BY <1>1, Zenon DEF SetupBlock, B, Program, Beyond
<1>3. B.catch = 0 => Len(B.steps) = 1 /\ S = Create(Tools, TRUE)
  <2>1. ASSUME NEW c, B.steps = << c >> PROVE Len(B.steps) = 1 /\ S = c
    BY <1>1, <2>1 DEF S
  <2>2. QED
    BY <1>2, <2>1
<1>4. QED
  BY <1>1, <1>2, <1>3 DEF S

LEMMA InBody ==
  ASSUME PlaceInv, Running, Role = "body"
  PROVE  /\ Body(script, B.steps) /\ BodyStep(script, S) /\ S.op \in WorkOps /\ ~B.final
         /\ RoleAt(script, B.catch) = IF script \in Moving THEN "movers" ELSE "clean"
         /\ RoleAt(script, Beyond) = IF script \in Moving THEN "movers" ELSE "clean"
<1>1. BodyBlock(script, block) /\ step \in 1..Len(B.steps)
  BY Placed DEF BlockShape, SetupBlock, BodyBlock, MoversBlock, CleanBlock, ReceiptBlock, LastBlock
<1>2. /\ ~B.final /\ Body(script, B.steps) /\ B.catch = Beyond
      /\ RoleAt(script, Beyond) = IF script \in Moving THEN "movers" ELSE "clean"
  BY <1>1, Zenon DEF BodyBlock, B, Program, Beyond
<1>3. BodyStep(script, S)
  BY <1>1, <1>2 DEF Body, Piece, All, S
<1>4. QED
  BY <1>2, <1>3 DEF BodyStep

LEMMA InMovers ==
  ASSUME PlaceInv, Running, Role = "movers"
  PROVE  /\ B.final /\ script \in Moving /\ Len(B.steps) = 7 /\ step \in 1..7
         /\ step = 1 => S = Renew
         /\ step \in {2, 6} => S = Sweep("movers")
         /\ step = 3 => S = Launch
         /\ step = 4 => S = Purge("nas")
         /\ step = 5 => S = Purge("r2")
         /\ step = 7 => S = Report
         /\ RoleAt(script, Beyond) = IF script = "pds" THEN "clean" ELSE "receipt"
         /\ RoleAt(script, B.catch) = IF script = "pds" THEN "clean" ELSE "last"
<1>1. MoversBlock(script, block) /\ step \in 1..Len(B.steps)
  BY Placed DEF BlockShape, SetupBlock, BodyBlock, MoversBlock, CleanBlock, ReceiptBlock, LastBlock
<1>2. /\ B.final /\ script \in Moving /\ B.steps = MoverCleanup
      /\ RoleAt(script, Beyond) = IF script = "pds" THEN "clean" ELSE "receipt"
      /\ RoleAt(script, B.catch) = IF script = "pds" THEN "clean" ELSE "last"
  BY <1>1, Zenon DEF MoversBlock, B, Program, Beyond
<1>3. /\ MoverCleanup[1] = Renew /\ MoverCleanup[2] = Sweep("movers") /\ MoverCleanup[3] = Launch
      /\ MoverCleanup[4] = Purge("nas") /\ MoverCleanup[5] = Purge("r2")
      /\ MoverCleanup[6] = Sweep("movers") /\ MoverCleanup[7] = Report
  BY DEF MoverCleanup
<1>4. Len(B.steps) = 7 /\ step \in 1..7 /\ S = MoverCleanup[step]
  BY <1>1, <1>2, Short DEF S
<1>5. /\ step = 1 => S = Renew
      /\ step \in {2, 6} => S = Sweep("movers")
      /\ step = 3 => S = Launch
      /\ step = 4 => S = Purge("nas")
      /\ step = 5 => S = Purge("r2")
      /\ step = 7 => S = Report
  BY <1>3, <1>4, Zenon
<1>6. QED
  BY <1>2, <1>4, <1>5, Zenon

\* The sweep of ledger l is among the first n steps.
Done(l, n) == \E i \in 1..n : B.steps[i] = Sweep(l)

LEMMA InClean ==
  ASSUME PlaceInv, Running, Role = "clean"
  PROVE  /\ B.final /\ script # "radarr"
         /\ RoleAt(script, Beyond) = "receipt" /\ RoleAt(script, B.catch) = Final(script)
         /\ S \in {Renew, Report, Sweep("containers"), Sweep("volumes"), Sweep("tools")}
         /\ S = Renew => script \in {"original", "grimmory"} /\ step < Len(B.steps)
         /\ script \in {"original", "grimmory"} => B.steps[1] = Renew
         /\ S = Report => script \notin {"bazarr", "fence"} /\ step = Len(B.steps)
         /\ S = Report => Done("containers", step - 1) /\ Done("volumes", step - 1)
         /\ S = Sweep("volumes") => Done("containers", step - 1) /\ script # "bazarr"
         /\ S = Sweep("tools") => Done("containers", step - 1) /\ script = "bazarr"
         /\ step = Len(B.steps) => S = Report \/ script \in {"bazarr", "fence"}
         /\ step = Len(B.steps) => /\ Done("containers", step)
                                   /\ script # "bazarr" => Done("volumes", step)
<1>1. CleanBlock(script, block) /\ step \in 1..Len(B.steps)
  BY Placed DEF BlockShape, SetupBlock, BodyBlock, MoversBlock, CleanBlock, ReceiptBlock, LastBlock
<1>2. /\ B.final /\ script # "radarr" /\ B.steps = CleanSteps(script)
      /\ RoleAt(script, Beyond) = "receipt" /\ RoleAt(script, B.catch) = Final(script)
  BY <1>1, Zenon DEF CleanBlock, B, Program, Beyond
<1>3. /\ script \in {"pds", "original", "grimmory", "bazarr", "fence"}
      /\ S = B.steps[step]
  BY <1>2, ScriptsAssumption DEF PlaceInv, S
<1> DEFINE sc == Sweep("containers")
           sv == Sweep("volumes")
           st == Sweep("tools")
<1>4. Renew # Report /\ Renew \notin {sc, sv, st} /\ Report \notin {sc, sv, st}
  BY DEF Renew, Report, Sweep
<1>5. sc # sv /\ sc # st /\ sv # st
  <2>1. sc.on[1] = "containers" /\ sv.on[1] = "volumes" /\ st.on[1] = "tools"
    BY DEF Sweep
  <2>2. QED
    BY <2>1
<1> HIDE DEF sc, sv, st
<1> DEFINE q == B.steps
<1>6. CASE script = "pds"
  <2>1. q = NativeClean
    BY <1>2, <1>6 DEF CleanSteps
  <2>2. Len(q) = 3 /\ q[1] = sc /\ q[2] = sv /\ q[3] = Report
    BY <2>1, Short DEF NativeClean, sc, sv
  <2> HIDE DEF q
  <2>3. step \in {1, 2, 3}
    BY <1>1, <2>2 DEF q
  <2>4. S = q[step]
    BY <1>3 DEF q
  <2>5. /\ step = 1 => S = sc
        /\ step = 2 => S = sv /\ Done("containers", step - 1)
        /\ step = 3 => S = Report /\ Done("containers", step - 1) /\ Done("volumes", step - 1)
        /\ step = 3 => Done("containers", step) /\ Done("volumes", step)
    BY <2>2, <2>4 DEF Done, q, sc, sv
  <2>6. Len(B.steps) = 3
    BY <2>2 DEF q
  <2>7. QED
    BY <1>2, <1>4, <1>5, <1>6, <2>3, <2>5, <2>6 DEF sc, sv, st
<1>7. CASE script \in {"original", "grimmory"}
  <2>1. q = BoundedClean
    BY <1>2, <1>7 DEF CleanSteps
  <2>2. Len(q) = 4 /\ q[1] = Renew /\ q[2] = sc /\ q[3] = sv /\ q[4] = Report
    BY <2>1, Short DEF BoundedClean, NativeClean, sc, sv
  <2> HIDE DEF q
  <2>3. step \in {1, 2, 3, 4}
    BY <1>1, <2>2 DEF q
  <2>4. S = q[step]
    BY <1>3 DEF q
  <2>5. QED
    BY <1>2, <1>4, <1>5, <1>7, <2>2, <2>3, <2>4 DEF Done, q, sc, sv, st
<1>8. CASE script = "fence"
  <2>1. q = OwnedCleanup
    BY <1>2, <1>8 DEF CleanSteps
  <2>2. Len(q) = 2 /\ q[1] = sc /\ q[2] = sv
    BY <2>1, Short DEF OwnedCleanup, sc, sv
  <2> HIDE DEF q
  <2>3. step \in {1, 2}
    BY <1>1, <2>2 DEF q
  <2>4. S = q[step]
    BY <1>3 DEF q
  <2>5. QED
    BY <1>2, <1>4, <1>5, <1>8, <2>2, <2>3, <2>4 DEF Done, q, sc, sv, st
<1>9. CASE script = "bazarr"
  <2>1. q = << sc, st >>
    BY <1>2, <1>9 DEF CleanSteps, sc, st
  <2>2. Len(q) = 2 /\ q[1] = sc /\ q[2] = st
    BY <2>1
  <2> HIDE DEF q
  <2>3. step \in {1, 2}
    BY <1>1, <2>2 DEF q
  <2>4. S = q[step]
    BY <1>3 DEF q
  <2>5. QED
    BY <1>2, <1>4, <1>5, <1>9, <2>2, <2>3, <2>4 DEF Done, q, sc, sv, st
<1>10. QED
  BY <1>3, <1>6, <1>7, <1>8, <1>9

LEMMA InReceipt ==
  ASSUME PlaceInv, Running, Role = "receipt"
  PROVE  /\ S = Receipt /\ step = Len(B.steps) /\ ~B.final
         /\ RoleAt(script, Beyond) = Final(script) /\ RoleAt(script, B.catch) = Final(script)
<1>1. ReceiptBlock(script, block) /\ step \in 1..Len(B.steps)
  BY Placed DEF BlockShape, SetupBlock, BodyBlock, MoversBlock, CleanBlock, ReceiptBlock, LastBlock
<1>2. /\ ~B.final /\ B.steps = << Receipt >>
      /\ RoleAt(script, Beyond) = Final(script) /\ RoleAt(script, B.catch) = Final(script)
  BY <1>1, Zenon DEF ReceiptBlock, B, Program, Beyond
<1>3. step = Len(B.steps) /\ S = Receipt
  BY <1>1, <1>2 DEF S
<1>4. QED
  BY <1>2, <1>3

LEMMA InLast ==
  ASSUME PlaceInv, Running, Role = "last"
  PROVE  /\ S = Sweep("tools") /\ step = Len(B.steps) /\ B.final
         /\ Beyond = 0 /\ B.catch = 0 /\ script \notin {"bazarr", "fence"}
<1>1. LastBlock(script, block) /\ step \in 1..Len(B.steps)
  BY Placed DEF BlockShape, SetupBlock, BodyBlock, MoversBlock, CleanBlock, ReceiptBlock, LastBlock
<1>2. /\ B.final /\ B.steps = << Sweep("tools") >> /\ Beyond = 0 /\ B.catch = 0
      /\ script \notin {"bazarr", "fence"}
  BY <1>1, Zenon DEF LastBlock, B, Program, Beyond
<1>3. step = Len(B.steps) /\ S = Sweep("tools")
  BY <1>1, <1>2 DEF S
<1>4. QED
  BY <1>2, <1>3
-----------------------------------------------------------------------------
(* Which commands occur where, and how a step moves on *)

LEMMA CleanupCommands ==
  /\ Renew.op = "renew" /\ Report.op = "report" /\ Receipt.op = "receipt"
  /\ Launch.op = "launch" /\ Launch.on = Mover /\ ~Launch.boot
  /\ \A k \in Kinds : Purge(k).op = "purge" /\ Purge(k).kind = k /\ Purge(k).on = Mover
  /\ \A l \in Ledgers : Sweep(l).op = "sweep" /\ Sweep(l).on[1] = l
  /\ Renew.on[1] = "tools" /\ Report.on[1] = "tools" /\ Mover[1] = "movers"
  BY DEF Renew, Report, Receipt, Launch, Purge, Sweep, Tools, Mover

LEMMA OpAt ==
  ASSUME PlaceInv, Running
  PROVE  /\ Role = "setup" => S.op \in {"create", "task"}
         /\ Role = "body" => S.op \in WorkOps
         /\ Role = "movers" => S.op \in {"renew", "sweep", "launch", "purge", "report"}
         /\ Role = "clean" => S.op \in {"renew", "sweep", "report"}
         /\ Role = "receipt" => S.op = "receipt"
         /\ Role = "last" => S.op = "sweep"
         /\ Role \in {"setup", "body", "movers", "clean", "receipt", "last"}
         /\ Cleaning <=> Role \in {"movers", "clean", "last"}
<1>1. CASE Role = "setup"
  <2>1. S \in Setup /\ ~B.final
    BY <1>1, InSetup
  <2>2. S.op \in {"create", "task"}
    BY <2>1 DEF Setup, Create, Task
  <2>3. QED
    BY <1>1, <2>1, <2>2 DEF Cleaning
<1>2. CASE Role = "body"
  BY <1>2, InBody DEF Cleaning
<1>3. CASE Role = "movers"
  <2>1. /\ B.final /\ step \in {1, 2, 3, 4, 5, 6, 7}
        /\ step = 1 => S = Renew
        /\ step \in {2, 6} => S = Sweep("movers")
        /\ step = 3 => S = Launch
        /\ step = 4 => S = Purge("nas")
        /\ step = 5 => S = Purge("r2")
        /\ step = 7 => S = Report
    BY <1>3, InMovers
  <2>2. S.op \in {"renew", "sweep", "launch", "purge", "report"}
    BY <2>1, CleanupCommands DEF Kinds, Ledgers
  <2>3. QED
    BY <1>3, <2>1, <2>2 DEF Cleaning
<1>4. CASE Role = "clean"
  <2>1. S \in {Renew, Report, Sweep("containers"), Sweep("volumes"), Sweep("tools")} /\ B.final
    BY <1>4, InClean
  <2>2. S.op \in {"renew", "sweep", "report"}
    BY <2>1, CleanupCommands DEF Ledgers
  <2>3. QED
    BY <1>4, <2>1, <2>2 DEF Cleaning
<1>5. CASE Role = "receipt"
  BY <1>5, InReceipt, CleanupCommands DEF Cleaning
<1>6. CASE Role = "last"
  BY <1>6, InLast, CleanupCommands DEF Cleaning, Ledgers
<1>7. QED
  BY <1>1, <1>2, <1>3, <1>4, <1>5, <1>6, Placed

\* A sweep is of a ledger, and only in a finally clause.
LEMMA SweepAt ==
  ASSUME PlaceInv, Running, S.op = "sweep"
  PROVE  /\ Role \in {"movers", "clean", "last"} /\ Cleaning
         /\ S.on[1] \in Ledgers /\ S = Sweep(S.on[1])
         /\ Role = "movers" => S.on[1] = "movers" /\ step \in {2, 6}
         /\ Role = "clean" => S.on[1] \in {"containers", "volumes", "tools"}
         /\ Role = "last" => S.on[1] = "tools"
<1>1. Role \in {"movers", "clean", "last"} /\ Cleaning
  BY OpAt DEF WorkOps
<1>2. CASE Role = "movers"
  <2>1. /\ step \in {1, 2, 3, 4, 5, 6, 7}
        /\ step = 1 => S = Renew
        /\ step \in {2, 6} => S = Sweep("movers")
        /\ step = 3 => S = Launch
        /\ step = 4 => S = Purge("nas")
        /\ step = 5 => S = Purge("r2")
        /\ step = 7 => S = Report
    BY <1>2, InMovers
  <2>2. step \in {2, 6}
    BY <2>1, CleanupCommands DEF Kinds
  <2>3. QED
    BY <1>1, <1>2, <2>1, <2>2, CleanupCommands DEF Ledgers
<1>3. CASE Role = "clean"
  <2>1. S \in {Renew, Report, Sweep("containers"), Sweep("volumes"), Sweep("tools")}
    BY <1>3, InClean
  <2>2. S \in {Sweep("containers"), Sweep("volumes"), Sweep("tools")}
    BY <2>1, CleanupCommands
  <2>3. QED
    BY <1>1, <1>3, <2>2, CleanupCommands DEF Ledgers
<1>4. CASE Role = "last"
  BY <1>1, <1>4, InLast, CleanupCommands DEF Ledgers
<1>5. QED
  BY <1>1, <1>2, <1>3, <1>4

\* The ways a step leaves the position.
Halted == /\ raised' = TRUE /\ block' = B.catch /\ step' = 1 /\ failures' = failures
          /\ todo' = NoSweep \/ (todo' = todo /\ S.op # "sweep")
Noted == /\ failures' = TRUE /\ raised' = raised /\ block' = block
         /\ \/ /\ S.op = "sweep" /\ todo \notin {NoSweep, << >>} /\ Collects
               /\ step' = step /\ todo' = Tail(todo)
            \/ S.op = "launch" /\ step' = step + 3 /\ todo' = todo
            \/ S.op = "purge" /\ step' = step + 1 /\ todo' = todo
Went == /\ Advance /\ raised' = raised /\ failures' = failures /\ hindered' = hindered
        /\ todo' = NoSweep \/ (todo' = todo /\ S.op # "sweep")
Stayed == /\ UNCHANGED <<block, step, raised, failures>>
          /\ \/ todo' = todo
             \/ At("sweep") /\ todo = NoSweep /\ todo' = InOrder(S.on[1])
             \/ At("sweep") /\ todo \notin {NoSweep, << >>} /\ todo' = Tail(todo)

LEMMA Troubles ==
  ASSUME Trouble, S.op = "sweep" => todo \notin {NoSweep, << >>}
  PROVE  Halted \/ Noted
<1>1. CASE S.op = "sweep"
  BY <1>1 DEF Trouble, Halted, Noted, Raise, Goto, Note
<1>2. CASE S.op = "launch"
  BY <1>2 DEF Trouble, Halted, Noted, Raise, Goto, Note
<1>3. CASE S.op = "purge"
  BY <1>3 DEF Trouble, Halted, Noted, Raise, Goto, Note
<1>4. CASE S.op \notin {"sweep", "launch", "purge"}
  <2>1. Raise /\ UNCHANGED todo
    BY <1>4 DEF Trouble
  <2>2. QED
    BY <1>4, <2>1 DEF Halted, Raise, Goto
<1>5. QED
  BY <1>1, <1>2, <1>3, <1>4

\* A command that has an effect of its own goes on, or meets trouble.
Worked(o) == /\ script' = script /\ expired' = expired /\ receipt' = receipt
             /\ ~(Bounded /\ expired)
             /\ \/ o = "done" /\ Went
                \/ o # "done" /\ (Halted \/ Noted) /\ hindered' = (hindered \/ Cleaning)

LEMMA Settled ==
  ASSUME NEW o, Settle(o), S.op # "sweep" PROVE Worked(o)
<1>1. CASE o = "done"
  BY <1>1 DEF Settle, Worked, Went
<1>2. CASE o # "done"
  BY <1>2, Troubles DEF Settle, Worked
<1>3. QED
  BY <1>1, <1>2

Working(o) == \/ CreateVolume(o) \/ RunContainer(o) \/ RunTask(o)
              \/ CaptureFixture(o) \/ RestorePoint(o) \/ Verify(o)
              \/ CompareOriginals(o) \/ Command(o)
              \/ RemoveOwned(o) \/ PurgeFixture(o)

LEMMA WorkingWorks ==
  ASSUME NEW o, Working(o) PROVE Running /\ S.op # "sweep" /\ Worked(o)
<1>1. CASE CreateVolume(o)
  BY <1>1, Settled DEF CreateVolume, At
<1>2. CASE RunContainer(o)
  BY <1>2, Settled DEF RunContainer, At
<1>3. CASE RunTask(o)
  BY <1>3, Settled DEF RunTask, At
<1>4. CASE CaptureFixture(o)
  BY <1>4, Settled DEF CaptureFixture, At
<1>5. CASE RestorePoint(o)
  BY <1>5, Settled DEF RestorePoint, At
<1>6. CASE Verify(o)
  BY <1>6, Settled DEF Verify, At
<1>7. CASE CompareOriginals(o)
  BY <1>7, Settled DEF CompareOriginals, At
<1>8. CASE Command(o)
  BY <1>8, Settled DEF Command, At
<1>9. CASE RemoveOwned(o)
  BY <1>9, Settled DEF RemoveOwned, At
<1>10. CASE PurgeFixture(o)
  BY <1>10, Settled DEF PurgeFixture, At
<1>11. QED
  BY <1>1, <1>2, <1>3, <1>4, <1>5, <1>6, <1>7, <1>8, <1>9, <1>10 DEF Working

\* The steps that are no commands with an effect of their own.
Aside == \/ BeginSweep \/ EndSweep \/ SweepMissing \/ Impossible
         \/ RenewDeadline \/ ReportFailures \/ GiveReceipt
         \/ Expire \/ Refuse \/ Interrupt
         \/ FinishCapture \/ EndStray

LEMMA Splits ==
  ASSUME DrillStep PROVE (\E o \in Outcomes : Working(o) \/ SweepOne(o)) \/ Aside
  BY Zenon DEF DrillStep, Working, Aside

LEMMA SweepOneFlow ==
  ASSUME NEW o, SweepOne(o)
  PROVE  /\ Running /\ S.op = "sweep" /\ todo \notin {NoSweep, << >>}
         /\ script' = script /\ expired' = expired /\ receipt' = receipt
         /\ \/ /\ o = "done" /\ UNCHANGED <<block, step, raised, failures, hindered>>
               /\ todo' = Tail(todo)
            \/ o # "done" /\ (Halted \/ Noted) /\ hindered' = TRUE
<1>1. Running /\ S.op = "sweep" /\ todo \notin {NoSweep, << >>}
  BY DEF SweepOne, Sweeping, At
<1>2. CASE o = "done"
  BY <1>1, <1>2 DEF SweepOne
<1>3. CASE o # "done"
  <2>1. Trouble
    BY <1>3 DEF SweepOne
  <2>2. QED
    BY <1>1, <1>3, <2>1, Troubles DEF SweepOne
<1>4. QED
  BY <1>2, <1>3

LEMMA AsideFlow ==
  ASSUME Aside
  PROVE  /\ script' = script /\ (hindered => hindered')
         /\ Stayed \/ (Running /\ (Went \/ Halted \/ Noted))
<1>1. CASE BeginSweep
  BY <1>1 DEF BeginSweep, Stayed
<1>2. CASE EndSweep
  BY <1>2 DEF EndSweep, Went, At
<1>3. CASE SweepMissing
  <2>1. Running /\ S.op = "sweep" /\ todo \notin {NoSweep, << >>}
    BY <1>3 DEF SweepMissing, Sweeping, At
  <2>2. CASE Skips
    BY <1>3, <2>1, <2>2 DEF SweepMissing, Stayed, At
  <2>3. CASE ~Skips
    <3>1. Trouble
      BY <1>3, <2>3 DEF SweepMissing
    <3>2. QED
      BY <1>3, <2>1, <3>1, Troubles DEF SweepMissing
  <2>4. QED
    BY <2>2, <2>3
<1>4. CASE Impossible
  <2>1. Running /\ (S.op = "sweep" => todo \notin {NoSweep, << >>})
    BY <1>4 DEF Impossible, Sweeping, At
  <2>2. Trouble /\ script' = script /\ hindered' = (hindered \/ (Cleaning /\ stray # {}))
    BY <1>4 DEF Impossible
  <2>3. QED
    BY <2>1, <2>2, Troubles
<1>5. CASE RenewDeadline
  BY <1>5 DEF RenewDeadline, Went, At
<1>6. CASE ReportFailures
  <2>1. Running /\ S.op = "report" /\ script' = script /\ hindered' = hindered /\ todo' = todo
    BY <1>6 DEF ReportFailures, At
  <2>2. CASE failures
    BY <1>6, <2>1, <2>2 DEF ReportFailures, Raise, Goto, Halted
  <2>3. CASE ~failures
    BY <1>6, <2>1, <2>3 DEF ReportFailures, Went
  <2>4. QED
    BY <2>2, <2>3
<1>7. CASE GiveReceipt
  BY <1>7 DEF GiveReceipt, Went, At
<1>8. CASE Expire
  BY <1>8 DEF Expire, Stayed
<1>9. CASE Refuse
  <2>1. Running /\ (S.op = "sweep" => todo \notin {NoSweep, << >>}) /\ Trouble
    BY <1>9 DEF Refuse, Sweeping, At
  <2>2. QED
    BY <1>9, <2>1, Troubles DEF Refuse
<1>10. CASE Interrupt
  BY <1>10 DEF Interrupt, Raise, Goto, Halted
<1>11. CASE FinishCapture
  BY <1>11 DEF FinishCapture, Stayed
<1>12. CASE EndStray
  BY <1>12 DEF EndStray, Stayed
<1>13. QED
  BY <1>1, <1>2, <1>3, <1>4, <1>5, <1>6, <1>7, <1>8, <1>9, <1>10, <1>11, <1>12 DEF Aside

LEMMA Flow ==
  ASSUME DrillStep
  PROVE  /\ script' = script /\ (hindered => hindered')
         /\ Stayed \/ (Running /\ (Went \/ Halted \/ Noted))
<1>1. ASSUME NEW o \in Outcomes, Working(o)
      PROVE  /\ script' = script /\ (hindered => hindered')
             /\ Running /\ (Went \/ Halted \/ Noted)
  BY <1>1, WorkingWorks DEF Worked, Went
<1>2. ASSUME NEW o \in Outcomes, SweepOne(o)
      PROVE  /\ script' = script /\ (hindered => hindered')
             /\ Stayed \/ (Running /\ (Halted \/ Noted))
  BY <1>2, SweepOneFlow DEF Stayed, At
<1>3. QED
  BY <1>1, <1>2, Splits, AsideFlow

LEMMA Flags == ASSUME FaultInv
               PROVE  /\ raised \in BOOLEAN /\ failures \in BOOLEAN /\ expired \in BOOLEAN
                      /\ hindered \in BOOLEAN /\ receipt \in BOOLEAN
  BY DEF FaultInv

\* Where the process is when it has gone on or met an exception.
LEMMA Leads ==
  ASSUME PlaceInv, FaultInv, Running, script' = script, Went \/ Halted
  PROVE  \/ /\ Went /\ step < Len(B.steps) /\ block' = block /\ step' = step + 1
            /\ Role' = Role /\ B' = B
         \/ /\ step' = 1 /\ block' \in 0..Len(Program) /\ (Went => step = Len(B.steps))
            /\ Role = "setup" => Role' \in (IF raised' THEN {"last", "end"} ELSE {"setup", "body"})
            /\ Role = "setup" /\ Role' = "setup" => B'.catch # 0
            /\ Role = "setup" /\ Role' = "end" => S = Create(Tools, TRUE) /\ B.catch = 0 /\ Halted
            /\ Role = "body" => Role' = IF script \in Moving THEN "movers" ELSE "clean"
            /\ Role = "movers" => Role' = IF script = "pds" THEN "clean"
                                          ELSE IF raised' THEN "last" ELSE "receipt"
            /\ Role = "clean" => Role' = IF raised' THEN Final(script) ELSE "receipt"
            /\ Role = "receipt" => Role' = Final(script)
            /\ Role = "last" => Role' = "end"
<1>1. /\ block \in 1..Len(Program) /\ Len(Program) \in Nat
      /\ Len(B.steps) \in Nat \ {0} /\ step \in 1..Len(B.steps)
      /\ B.catch \in 0..Len(Program) /\ Beyond \in 0..Len(Program)
      /\ Role \in {"setup", "body", "movers", "clean", "receipt", "last"}
  BY Placed
<1>2. raised \in BOOLEAN
  BY Flags
<1>3. CASE Went /\ step < Len(B.steps)
  <2>1. block' = block /\ step' = step + 1
    BY <1>3 DEF Went, Advance
  <2>2. Role' = Role /\ B' = B
    BY <2>1 DEF Role, B, Program
  <2>3. QED
    BY <1>3, <2>1, <2>2
<1>4. CASE Halted \/ (Went /\ step = Len(B.steps))
  <2>1. /\ step' = 1 /\ block' = (IF raised' THEN B.catch ELSE Beyond)
        /\ raised' = TRUE \/ raised' = raised
    <3>1. CASE Halted
      BY <3>1 DEF Halted
    <3>2. CASE Went /\ step = Len(B.steps)
      <4>1. Goto(IF raised THEN B.catch ELSE IF block = Len(Program) THEN 0 ELSE block + 1)
        BY <1>1, <3>2 DEF Went, Advance
      <4>2. Beyond = IF block = Len(Program) THEN 0 ELSE block + 1
        BY DEF Beyond, Follower, Program
      <4>3. raised' = raised
        BY <3>2 DEF Went
      <4>4. QED
        BY <4>1, <4>2, <4>3 DEF Goto
    <3>3. QED
      BY <1>4, <3>1, <3>2
  <2>2. raised' \in BOOLEAN /\ (Halted => raised') /\ (Went => raised' = raised)
    BY <1>2, <2>1 DEF Halted, Went
  <2>3. Role' = IF raised' THEN RoleAt(script, B.catch) ELSE RoleAt(script, Beyond)
    BY <2>1, <2>2 DEF Role
  <2>4. block' \in 0..Len(Program) /\ (Went => step = Len(B.steps))
    <3>1. Went => ~(step < Len(B.steps)) \/ raised'
      BY <1>1, <1>4 DEF Halted, Went
    <3>2. Went => step = Len(B.steps)
      <4>1. CASE Went /\ step < Len(B.steps)
        <5>1. step' = step + 1
          BY <4>1 DEF Went, Advance
        <5>2. QED
          BY <1>1, <2>1, <5>1
      <4>2. QED
        BY <1>1, <4>1
    <3>3. QED
      BY <1>1, <2>1, <2>2, <3>2
  <2>5. Role = "setup" => ~raised
    BY DEF FaultInv
  <2>6. Role = "setup" => /\ Role' \in (IF raised' THEN {"last", "end"} ELSE {"setup", "body"})
                          /\ Role' = "setup" => B'.catch # 0
                          /\ Role' = "end" => S = Create(Tools, TRUE) /\ B.catch = 0 /\ Halted
    <3> SUFFICES ASSUME Role = "setup"
                 PROVE  /\ Role' \in (IF raised' THEN {"last", "end"} ELSE {"setup", "body"})
                        /\ Role' = "setup" => B'.catch # 0
                        /\ Role' = "end" => S = Create(Tools, TRUE) /\ B.catch = 0 /\ Halted
      OBVIOUS
    <3>1. /\ RoleAt(script, B.catch) \in {"last", "end"}
          /\ RoleAt(script, Beyond) \in {"setup", "body"}
          /\ RoleAt(script, Beyond) = "setup" => Program[Beyond].catch # 0
          /\ B.catch = 0 => S = Create(Tools, TRUE)
      BY InSetup
    <3>2. Role' \in (IF raised' THEN {"last", "end"} ELSE {"setup", "body"})
      BY <2>2, <2>3, <3>1
    <3>3. Role' = "setup" => B'.catch # 0
      <4>1. B' = Program[block']
        BY DEF B, Program
      <4>2. QED
        BY <2>1, <2>2, <2>3, <3>1, <4>1
    <3>4. Role' = "end" => S = Create(Tools, TRUE) /\ B.catch = 0 /\ Halted
      <4>1. Role' = "end" => raised' /\ Halted
        BY <1>4, <2>2, <2>3, <2>5, <3>1
      <4>2. Role' = "end" => block' = 0
        <5>1. block' # 0 => Role' = Roles[script][block']
          BY DEF Role, RoleAt
        <5>2. block' # 0 => Roles[script][block'] # "end"
          <6>1. Shape(script)
            BY Shapes DEF PlaceInv
          <6>2. block' # 0 => BlockShape(script, block')
            BY <2>4, <1>1, <6>1 DEF Shape, Program
          <6>3. QED
            BY <6>2 DEF BlockShape, SetupBlock, BodyBlock, MoversBlock, CleanBlock, ReceiptBlock,
                        LastBlock
        <5>3. QED
          BY <5>1, <5>2
      <4>3. QED
        BY <2>1, <3>1, <4>1, <4>2
    <3>5. QED
      BY <3>2, <3>3, <3>4
  <2>7. Role = "body" => Role' = IF script \in Moving THEN "movers" ELSE "clean"
    BY <2>3, InBody
  <2>8. Role = "movers" => Role' = IF script = "pds" THEN "clean"
                                   ELSE IF raised' THEN "last" ELSE "receipt"
    BY <2>3, InMovers
  <2>9. Role = "clean" => Role' = IF raised' THEN Final(script) ELSE "receipt"
    BY <2>3, InClean
  <2>10. Role = "receipt" => Role' = Final(script)
    BY <2>3, InReceipt
  <2>11. Role = "last" => Role' = "end"
    BY <2>3, InLast DEF RoleAt
  <2>12. QED
    BY <2>1, <2>4, <2>6, <2>7, <2>8, <2>9, <2>10, <2>11
<1>5. step < Len(B.steps) \/ step = Len(B.steps)
  BY <1>1
<1>6. QED
  BY <1>3, <1>4, <1>5, Zenon

LEMMA NotedAt ==
  ASSUME PlaceInv, FaultInv, Running, script' = script, Noted
  PROVE  /\ block' = block /\ B' = B /\ Role' = Role /\ Cleaning
         /\ step' \in 1..Len(B.steps) /\ script \notin {"bazarr", "fence"}
         /\ S.op = "launch" => Role = "movers" /\ step = 3 /\ step' = 6 /\ todo' = todo
         /\ S.op = "purge" => Role = "movers" /\ step \in {4, 5} /\ step' = step + 1 /\ todo' = todo
         /\ S.op = "sweep" => /\ step' = step /\ todo \notin {NoSweep, << >>} /\ todo' = Tail(todo)
                              /\ Collects
         /\ S.op \in {"launch", "purge", "sweep"}
<1>1. block' = block /\ B' = B /\ Role' = Role
  BY DEF Noted, B, Program, Role
<1>2. S.op \in {"launch", "purge", "sweep"}
  BY DEF Noted
<1>3. CASE S.op \in {"launch", "purge"}
  <2>1. Role = "movers" /\ Cleaning
    BY <1>3, OpAt DEF WorkOps
  <2>2. /\ step \in {1, 2, 3, 4, 5, 6, 7} /\ script \in Moving /\ Len(B.steps) = 7
        /\ step = 1 => S = Renew
        /\ step \in {2, 6} => S = Sweep("movers")
        /\ step = 3 => S = Launch
        /\ step = 4 => S = Purge("nas")
        /\ step = 5 => S = Purge("r2")
        /\ step = 7 => S = Report
    BY <2>1, InMovers
  <2>3. (step = 3 /\ S.op = "launch") \/ (step \in {4, 5} /\ S.op = "purge")
    BY <1>3, <2>2, CleanupCommands DEF Kinds, Ledgers
  <2>4. QED
    BY <1>1, <1>3, <2>1, <2>2, <2>3 DEF Noted, Moving
<1>4. CASE S.op = "sweep"
  BY <1>1, <1>4, SweepAt, Placed DEF Noted, Collects
<1>5. QED
  BY <1>2, <1>3, <1>4
-----------------------------------------------------------------------------
(* The ledgers and the host *)

LEMMA NameKind ==
  ASSUME NEW n \in Names
  PROVE  n[1] \in Ledgers /\ (n[1] = "tools" => n = Tools)
<1>1. \/ n = Tools \/ n \in {"movers"} \X Nat
      \/ n \in {"volumes", "containers"} \X Owners \X Parts
      \/ n \in {"containers"} \X Owners \X {"keep"} \X Parts
  BY DEF Names
<1>2. QED
  BY <1>1 DEF Tools, Ledgers

LEMMA ToolsName == Tools \in Names /\ Tools[1] = "tools" /\ Tools # Mover
  BY DEF Names, Tools, Mover

LedgerInv == /\ listed \in [Ledgers -> Seq(Names)]
             /\ \A l \in Ledgers : \A i \in 1..Len(listed[l]) : listed[l][i][1] = l
Hosted(c) == /\ c \in Names /\ c[1] \in {"movers", "containers"} /\ Uses(c[1])
             /\ Includes(listed[c[1]], c)
Kept(v) == /\ v \in Names /\ Uses(v[1])
           /\ v # Tools => v[1] = "volumes" /\ (v \in orphans \/ Includes(listed["volumes"], v))
HostInv == (\A c \in DOMAIN containers : Hosted(c)) /\ (\A v \in volumes : Kept(v))
FreshInv == Role = "setup" => /\ \A l \in Ledgers : listed[l] = << >>
                              /\ B.catch = 0 => Tools \notin volumes

LEMMA ListParts == ListInv <=> LedgerInv /\ HostInv /\ FreshInv
  BY DEF ListInv, LedgerInv, HostInv, FreshInv, Hosted, Kept

LEMMA ListPartsNext == ListInv' <=> LedgerInv' /\ HostInv' /\ FreshInv'
  BY DEF ListInv, LedgerInv, HostInv, FreshInv, Hosted, Kept

LEMMA ListedOne ==
  ASSUME LedgerInv, NEW n \in Names, List(n)
  PROVE  /\ LedgerInv' /\ listed'[n[1]] = Append(listed[n[1]], n)
         /\ \A l \in Ledgers : l # n[1] => listed'[l] = listed[l]
         /\ \A l \in Ledgers : \A m : Includes(listed[l], m) => Includes(listed'[l], m)
         /\ Includes(listed'[n[1]], n)
<1>1. n[1] \in Ledgers
  BY NameKind
<1>2. /\ listed[n[1]] \in Seq(Names) /\ listed'[n[1]] = Append(listed[n[1]], n)
      /\ \A l \in Ledgers : l # n[1] => listed'[l] = listed[l]
      /\ listed' = [listed EXCEPT ![n[1]] = Append(@, n)]
  BY <1>1 DEF LedgerInv, List
<1>3. /\ Append(listed[n[1]], n) \in Seq(Names)
      /\ Includes(Append(listed[n[1]], n), n)
      /\ \A m : Includes(listed[n[1]], m) => Includes(Append(listed[n[1]], n), m)
  BY <1>2, Appended
<1>4. listed' \in [Ledgers -> Seq(Names)]
  BY <1>1, <1>2, <1>3 DEF LedgerInv
<1>5. \A l \in Ledgers : \A i \in 1..Len(listed'[l]) : listed'[l][i][1] = l
  <2>1. \A i \in 1..Len(Append(listed[n[1]], n)) : Append(listed[n[1]], n)[i][1] = n[1]
    <3>1. \A i \in 1..Len(listed[n[1]]) : listed[n[1]][i][1] = n[1]
      BY <1>1 DEF LedgerInv
    <3>2. /\ Len(Append(listed[n[1]], n)) = Len(listed[n[1]]) + 1
          /\ \A i \in 1..Len(listed[n[1]]) : Append(listed[n[1]], n)[i] = listed[n[1]][i]
          /\ Append(listed[n[1]], n)[Len(listed[n[1]]) + 1] = n
          /\ Len(listed[n[1]]) \in Nat
      BY <1>2
    <3>3. QED
      BY <3>1, <3>2
  <2>2. QED
    BY <1>2, <2>1 DEF LedgerInv
<1>6. QED
  BY <1>1, <1>2, <1>3, <1>4, <1>5 DEF LedgerInv

LEMMA UnlistedOne ==
  ASSUME LedgerInv, NEW n, Unlist(n)
  PROVE  /\ LedgerInv'
         /\ \A l \in Ledgers :
              listed'[l] = IF l = n[1] THEN RemoveFirst(listed[l], n) ELSE listed[l]
         /\ \A l \in Ledgers : \A m : Includes(listed[l], m) /\ m # n => Includes(listed'[l], m)
<1>1. \A l \in Ledgers : listed'[l] = IF l = n[1] THEN RemoveFirst(listed[l], n) ELSE listed[l]
  BY DEF LedgerInv, Unlist
<1>2. \A l \in Ledgers : listed[l] \in Seq(Names)
  BY DEF LedgerInv
<1>3. \A l \in Ledgers : /\ RemoveFirst(listed[l], n) \in Seq(Names)
                         /\ \A m : Includes(RemoveFirst(listed[l], n), m) => Includes(listed[l], m)
                         /\ \A m : m # n /\ Includes(listed[l], m)
                              => Includes(RemoveFirst(listed[l], n), m)
  BY <1>2, Unlisted
<1>4. listed' \in [Ledgers -> Seq(Names)]
  BY <1>1, <1>2, <1>3 DEF Unlist, LedgerInv
<1>5. ASSUME NEW l \in Ledgers, NEW i \in 1..Len(listed'[l]) PROVE listed'[l][i][1] = l
  <2>1. Includes(listed'[l], listed'[l][i])
    BY DEF Includes
  <2>2. Includes(listed[l], listed'[l][i])
    BY <1>1, <1>3, <2>1
  <2>3. QED
    BY <2>2 DEF Includes, LedgerInv
<1>6. QED
  BY <1>1, <1>3, <1>4, <1>5 DEF LedgerInv

\* What is on the host stays known while it only loses something.
LEMMA HostShrinks ==
  ASSUME HostInv, script' = script, orphans' = orphans,
         DOMAIN containers' \subseteq DOMAIN containers, volumes' \subseteq volumes,
         \A l \in Ledgers : \A m \in DOMAIN containers' \cup volumes' :
           Includes(listed[l], m) => Includes(listed'[l], m)
  PROVE  HostInv'
<1>1. ASSUME NEW c \in DOMAIN containers' PROVE Hosted(c)'
  <2>1. Hosted(c) /\ c[1] \in Ledgers
    BY NameKind DEF HostInv, Hosted
  <2>2. QED
    BY <2>1 DEF Hosted, Uses
<1>2. ASSUME NEW v \in volumes' PROVE Kept(v)'
  <2>1. Kept(v) /\ "volumes" \in Ledgers
    BY DEF HostInv, Ledgers
  <2>2. QED
    BY <2>1 DEF Kept, Uses
<1>3. QED
  BY <1>1, <1>2 DEF HostInv

Untouched == UNCHANGED <<containers, volumes, listed, orphans>>

LEMMA Footprint ==
  ASSUME DrillStep
  PROVE  \/ Untouched \/ Refuse
         \/ \E o \in Outcomes :
              CreateVolume(o) \/ RunContainer(o) \/ RemoveOwned(o) \/ SweepOne(o)
<1>1. ASSUME NEW o \in Outcomes, Working(o)
      PROVE  Untouched \/ CreateVolume(o) \/ RunContainer(o) \/ RemoveOwned(o)
  BY <1>1 DEF Working, Untouched, RunTask, CaptureFixture, RestorePoint, Verify, CompareOriginals,
              Command, PurgeFixture, host, progress
<1>2. ASSUME Aside PROVE Untouched \/ Refuse
  BY <1>2 DEF Aside, Untouched, BeginSweep, EndSweep, SweepMissing, Impossible, RenewDeadline,
              ReportFailures, GiveReceipt, Expire, Interrupt, FinishCapture, EndStray, host,
              progress
<1>3. QED
  BY <1>1, <1>2, Splits, Zenon

LEMMA RemovesOne ==
  ASSUME HostInv, NEW n, Removable(n)
  PROVE  /\ n \in Names
         /\ n[1] \in {"tools", "volumes"} => n \in volumes /\ ~InUse(n)
         /\ n[1] \notin {"tools", "volumes"} => n \in DOMAIN containers
         /\ Gone(n) => /\ DOMAIN containers' = DOMAIN containers \ {n}
                       /\ volumes' = volumes \ {n}
                       /\ \A c \in DOMAIN containers' : containers'[c] = containers[c]
<1>1. CASE n[1] \in {"tools", "volumes"}
  <2>1. n \in volumes /\ ~InUse(n) /\ n \in Names
    BY <1>1 DEF Removable, HostInv, Kept
  <2>2. n \notin DOMAIN containers
    BY <1>1 DEF HostInv, Hosted
  <2>3. QED
    BY <1>1, <2>1, <2>2 DEF Gone
<1>2. CASE n[1] \notin {"tools", "volumes"}
  <2>1. n \in DOMAIN containers /\ n \in Names
    BY <1>2 DEF Removable, HostInv, Hosted
  <2>2. n \notin volumes
    <3>1. n \in volumes => n = Tools \/ n[1] = "volumes"
      BY DEF HostInv, Kept
    <3>2. QED
      BY <1>2, <3>1, ToolsName
  <2>3. QED
    BY <1>2, <2>1, <2>2 DEF Gone, Restrict
<1>3. QED
  BY <1>1, <1>2

LEMMA RoleBack ==
  ASSUME PlaceInv, FaultInv, DrillStep, Role' \in {"setup", "body"}
  PROVE  /\ Role \in {"setup", "body"} /\ (Role' = "setup" => Role = "setup")
         /\ \/ Stayed /\ block' = block /\ step' = step /\ B' = B /\ Role' = Role
            \/ Running /\ Went /\ step < Len(B.steps) /\ block' = block /\ step' = step + 1
                /\ B' = B /\ Role' = Role
            \/ Running /\ Went /\ step' = 1 /\ Role = "setup" /\ (Role' = "setup" => B'.catch # 0)
<1>1. CASE Stayed
  <2>1. block' = block /\ step' = step /\ Role' = Role /\ B' = B
    BY <1>1, Flow DEF Stayed, Role, B, Program
  <2>2. QED
    BY <1>1, <2>1
<1>2. CASE Running /\ (Went \/ Halted)
  <2>1. Role \in {"setup", "body", "movers", "clean", "receipt", "last"}
    BY <1>2, Placed
  <2>2. raised' \in BOOLEAN /\ (Role = "setup" => ~raised) /\ (Halted => raised')
    BY <1>2, Flags DEF FaultInv, Halted, Went
  <2>3. Final(script) \in {"last", "end"}
    BY DEF Final
  <2>4. QED
    BY <1>2, <2>1, <2>2, <2>3, Flow, Leads
<1>3. CASE Running /\ Noted
  <2>1. Role' = Role /\ Role \in {"movers", "clean", "last"}
    BY <1>3, Flow, NotedAt, OpAt
  <2>2. QED
    BY <2>1
<1>4. QED
  BY <1>1, <1>2, <1>3, Flow

LEMMA CreateAt ==
  ASSUME PlaceInv, At("create")
  PROVE  /\ Role \in {"setup", "body"} /\ S.on \in Names /\ Uses(S.on[1])
         /\ S.on = Tools \/ S.on[1] = "volumes"
         /\ Role = "setup" => S.on = Tools
         /\ S.on = Tools <=> Role = "setup"
<1>1. Running /\ S.op = "create"
  BY DEF At
<1>2. Role \in {"setup", "body"}
  BY <1>1, OpAt
<1>3. CASE Role = "setup"
  <2>1. S \in Setup /\ script # "fence"
    BY <1>1, <1>3, InSetup
  <2>2. S.on = Tools
    BY <1>1, <2>1 DEF Setup, Create, Task
  <2>3. Uses(Tools[1])
    BY <2>1, ToolsName DEF Uses
  <2>4. QED
    BY <1>3, <2>2, <2>3, ToolsName
<1>4. CASE Role = "body"
  <2>1. BodyStep(script, S)
    BY <1>1, <1>4, InBody
  <2>2. S.on \in Names /\ S.on[1] = "volumes" /\ script \notin {"radarr", "bazarr"}
    BY <1>1, <2>1 DEF BodyStep
  <2>3. QED
    BY <1>4, <2>2, ToolsName DEF Uses
<1>5. QED
  BY <1>2, <1>3, <1>4

\* The container that is started.
LEMMA StartAt ==
  ASSUME PlaceInv, LedgerInv, Running, S.op \in {"run", "launch"}
  PROVE  /\ Role \in {"body", "movers"} /\ NewName \in Names /\ Uses(NewName[1])
         /\ NewName[1] \in {"movers", "containers"}
         /\ S.on = Mover => NewName[1] = "movers" /\ script \in Moving
         /\ S.on # Mover => NewName = S.on /\ S.op = "run"
         /\ Role = "body" <=> S.op = "run"
<1>1. Role \in {"body", "movers"} /\ (Role = "body" <=> S.op = "run")
  BY OpAt DEF WorkOps
<1>2. <<"movers", Len(listed["movers"])>> \in Names
  <2>1. listed["movers"] \in Seq(Names)
    BY DEF LedgerInv, Ledgers
  <2>2. Len(listed["movers"]) \in Nat
    BY <2>1
  <2>3. QED
    BY <2>2 DEF Names
<1>3. CASE S.on = Mover
  <2>1. script \in Moving
    <3>1. CASE Role = "movers"
      BY <3>1, InMovers
    <3>2. CASE Role = "body"
      <4>1. BodyStep(script, S) /\ S.op = "run"
        BY <1>1, <3>2, InBody
      <4>2. Mover[1] = "movers"
        BY DEF Mover
      <4>3. QED
        BY <1>3, <4>1, <4>2 DEF BodyStep
    <3>3. QED
      BY <1>1, <3>1, <3>2
  <2>2. NewName = <<"movers", Len(listed["movers"])>>
    BY <1>3 DEF NewName
  <2>3. QED
    BY <1>1, <1>2, <1>3, <2>1, <2>2 DEF Uses
<1>4. CASE S.on # Mover
  <2>1. S.op = "run"
    <3>1. CASE Role = "movers"
      <4>1. /\ step \in {1, 2, 3, 4, 5, 6, 7}
            /\ step = 1 => S = Renew
            /\ step \in {2, 6} => S = Sweep("movers")
            /\ step = 3 => S = Launch
            /\ step = 4 => S = Purge("nas")
            /\ step = 5 => S = Purge("r2")
            /\ step = 7 => S = Report
        BY <3>1, InMovers
      <4>2. S = Launch
        BY <4>1, CleanupCommands DEF Kinds, Ledgers
      <4>3. QED
        BY <1>4, <4>2, CleanupCommands
    <3>2. QED
      BY <1>1, <3>1
  <2>2. BodyStep(script, S)
    BY <1>1, <2>1, InBody
  <2>3. S.on \in Names /\ S.on[1] = "containers" /\ script # "radarr"
    BY <1>4, <2>1, <2>2 DEF BodyStep
  <2>4. NewName = S.on
    BY <1>4 DEF NewName
  <2>5. QED
    BY <1>1, <1>4, <2>1, <2>3, <2>4 DEF Uses
<1>5. QED
  BY <1>3, <1>4

LEMMA FreshStep ==
  ASSUME PlaceInv, FaultInv, ListInv, DrillStep PROVE FreshInv'
<1> SUFFICES ASSUME Role' = "setup"
             PROVE  /\ \A l \in Ledgers : listed'[l] = << >>
                    /\ B'.catch = 0 => Tools \notin volumes'
  BY DEF FreshInv
<1>1. /\ Role = "setup"
      /\ \/ Stayed /\ B' = B
         \/ Running /\ Went /\ step < Len(B.steps) /\ B' = B
         \/ B'.catch # 0
  BY RoleBack
<1>2. /\ \A l \in Ledgers : listed[l] = << >>
      /\ B.catch = 0 => Tools \notin volumes
  BY <1>1 DEF ListInv
<1>3. Running
  BY <1>1 DEF Role, RoleAt, Running, PlaceInv
<1>4. S.op \in {"create", "task"} /\ (S.op = "create" => S.on = Tools)
  BY <1>1, <1>3, OpAt, CreateAt DEF At
<1>5. listed' = listed
  <2>1. CASE Refuse
    BY <1>4, <2>1 DEF Refuse
  <2>2. CASE \E o \in Outcomes : CreateVolume(o)
    BY <1>4, <2>2 DEF CreateVolume, At
  <2>3. QED
    BY <1>4, <2>1, <2>2, Footprint
       DEF Untouched, RunContainer, RemoveOwned, SweepOne, Sweeping, At
<1>6. ASSUME B'.catch = 0 PROVE Tools \notin volumes'
  <2>1. B' = B /\ (Stayed \/ step < Len(B.steps))
    BY <1>1, <1>6
  <2>2. Stayed /\ Len(B.steps) = 1
    <3>1. Len(B.steps) = 1 /\ step \in 1..Len(B.steps)
      BY <1>1, <1>3, <1>6, <2>1, InSetup, Placed
    <3>2. QED
      BY <2>1, <3>1
  <2>3. ~(\E o \in Outcomes : CreateVolume(o))
    <3>1. ASSUME NEW o \in Outcomes, CreateVolume(o) PROVE FALSE
      <4>1. Went \/ Halted \/ Noted
        BY <3>1, WorkingWorks DEF Working, Worked
      <4>2. Went /\ raised' = raised
        <5>1. ~Noted
          BY <1>4 DEF Noted
        <5>2. ~Halted
          BY <1>1, <2>2, Flags DEF Halted, Stayed, FaultInv
        <5>3. QED
          BY <4>1, <5>1, <5>2 DEF Went
      <4>3. Goto(IF raised THEN B.catch ELSE IF block = Len(Program) THEN 0 ELSE block + 1)
        <5>1. step = 1
          BY <1>3, <2>2, Placed
        <5>2. QED
          BY <2>2, <4>2, <5>1 DEF Went, Advance
      <4>4. block' # block
        <5>1. ~raised /\ block \in 1..Len(Program) /\ Len(Program) \in Nat
          BY <1>1, <1>3, Placed DEF FaultInv
        <5>2. QED
          BY <1>3, <4>3, <5>1 DEF Goto, Running
      <4>5. QED
        BY <2>2, <4>4 DEF Stayed
    <3>2. QED
      BY <3>1
  <2>4. volumes' = volumes
    <3>1. CASE Refuse
      BY <3>1 DEF Refuse, host
    <3>2. QED
      BY <1>4, <2>3, <3>1, Footprint
         DEF Untouched, RunContainer, RemoveOwned, SweepOne, Sweeping, At
  <2>5. QED
    BY <1>2, <1>6, <2>1, <2>4
<1>7. QED
  BY <1>2, <1>5, <1>6

LEMMA CreateList ==
  ASSUME PlaceInv, LedgerInv, HostInv, script' = script, NEW o \in Outcomes, CreateVolume(o)
  PROVE  LedgerInv' /\ HostInv'
<1>1. /\ S.on \in Names /\ Uses(S.on[1]) /\ (S.on = Tools \/ S.on[1] = "volumes")
  BY CreateAt DEF CreateVolume
<1>2. /\ containers' = containers /\ volumes' \subseteq volumes \cup {S.on}
      /\ orphans \subseteq orphans'
      /\ IF S.on # Tools /\ (S.early \/ o = "done") THEN List(S.on) ELSE UNCHANGED listed
      /\ S.on \in volumes' => S.on \in volumes \/ o # "failed"
      /\ o = "lost" /\ ~S.early => S.on \in orphans'
  BY DEF CreateVolume, Landed
<1>3. /\ LedgerInv'
      /\ \A l \in Ledgers : \A m : Includes(listed[l], m) => Includes(listed'[l], m)
      /\ S.on # Tools /\ (S.early \/ o = "done") => Includes(listed'[S.on[1]], S.on)
  BY <1>1, <1>2, ListedOne DEF LedgerInv
<1>4. ASSUME NEW c \in DOMAIN containers' PROVE Hosted(c)'
  <2>1. Hosted(c) /\ c[1] \in Ledgers
    BY <1>2, NameKind DEF HostInv, Hosted
  <2>2. QED
    BY <1>3, <2>1 DEF Hosted, Uses
<1>5. ASSUME NEW v \in volumes' PROVE Kept(v)'
  <2>1. CASE v \in volumes
    <3>1. Kept(v) /\ "volumes" \in Ledgers
      BY <2>1 DEF HostInv, Ledgers
    <3>2. QED
      BY <1>2, <1>3, <3>1 DEF Kept, Uses
  <2>2. CASE v \notin volumes
    <3>1. v = S.on /\ o # "failed"
      BY <1>2, <1>5, <2>2
    <3>2. v # Tools => v \in orphans' \/ Includes(listed'["volumes"], v)
      BY <1>1, <1>2, <1>3, <3>1 DEF Outcomes
    <3>3. QED
      BY <1>1, <3>1, <3>2 DEF Kept, Uses
  <2>3. QED
    BY <2>1, <2>2
<1>6. QED
  BY <1>3, <1>4, <1>5 DEF HostInv

LEMMA Started ==
  ASSUME NEW o \in Outcomes, RunContainer(o)
  PROVE  /\ DOMAIN containers' \subseteq DOMAIN containers \cup {NewName}
         /\ NewName \notin DOMAIN containers
         /\ \A c \in DOMAIN containers : c \in DOMAIN containers' /\ containers'[c] = containers[c]
         /\ o = "done" => NewName \in DOMAIN containers'
         /\ NewName \in DOMAIN containers' => /\ containers'[NewName].net = S.net
                                             /\ containers'[NewName].boot = S.boot
<1> DEFINE r == [mounts |-> S.mounts, net |-> S.net, boot |-> S.boot]
           f == [c \in DOMAIN containers \cup {NewName} |->
                   IF c = NewName THEN r ELSE containers[c]]
<1>1. /\ NewName \notin DOMAIN containers
      /\ containers' = IF Landed(o) THEN f ELSE containers
  BY DEF RunContainer
<1>2. /\ DOMAIN f = DOMAIN containers \cup {NewName} /\ f[NewName] = r
      /\ \A c \in DOMAIN containers : c # NewName => f[c] = containers[c]
      /\ r.net = S.net /\ r.boot = S.boot
  OBVIOUS
<1> HIDE DEF f, r
<1>3. QED
  BY <1>1, <1>2 DEF Landed

LEMMA StartList ==
  ASSUME PlaceInv, LedgerInv, HostInv, script' = script, NEW o \in Outcomes, RunContainer(o)
  PROVE  LedgerInv' /\ HostInv'
<1>1. /\ NewName \in Names /\ NewName[1] \in {"movers", "containers"} /\ Uses(NewName[1])
  BY StartAt DEF RunContainer, At
<1>2. /\ volumes' = volumes /\ orphans' = orphans /\ List(NewName)
      /\ DOMAIN containers' \subseteq DOMAIN containers \cup {NewName}
  BY Started DEF RunContainer
<1>3. /\ LedgerInv' /\ Includes(listed'[NewName[1]], NewName)
      /\ \A l \in Ledgers : \A m : Includes(listed[l], m) => Includes(listed'[l], m)
  BY <1>1, <1>2, ListedOne
<1>4. ASSUME NEW c \in DOMAIN containers' PROVE Hosted(c)'
  <2>1. CASE c \in DOMAIN containers
    <3>1. Hosted(c) /\ c[1] \in Ledgers
      BY <2>1, NameKind DEF HostInv, Hosted
    <3>2. QED
      BY <1>3, <3>1 DEF Hosted, Uses
  <2>2. CASE c = NewName
    BY <1>1, <1>3, <2>2 DEF Hosted, Uses
  <2>3. QED
    BY <1>2, <1>4, <2>1, <2>2
<1>5. ASSUME NEW v \in volumes' PROVE Kept(v)'
  <2>1. Kept(v) /\ "volumes" \in Ledgers
    BY <1>2 DEF HostInv, Ledgers
  <2>2. QED
    BY <1>2, <1>3, <2>1 DEF Kept, Uses
<1>6. QED
  BY <1>3, <1>4, <1>5 DEF HostInv

LEMMA RemoveList ==
  ASSUME LedgerInv, HostInv, script' = script, NEW n, Removable(n), orphans' = orphans,
         (Gone(n) /\ Unlist(n)) \/ (Gone(n) /\ listed' = listed)
           \/ (UNCHANGED <<containers, volumes, listed>>)
  PROVE  LedgerInv' /\ HostInv'
<1>1. CASE UNCHANGED <<containers, volumes, listed>>
  BY <1>1, HostShrinks DEF LedgerInv
<1>2. CASE Gone(n) /\ listed' = listed
  <2>1. DOMAIN containers' \subseteq DOMAIN containers /\ volumes' \subseteq volumes
    BY <1>2, RemovesOne
  <2>2. QED
    BY <1>2, <2>1, HostShrinks DEF LedgerInv
<1>3. CASE Gone(n) /\ Unlist(n)
  <2>1. DOMAIN containers' = DOMAIN containers \ {n} /\ volumes' = volumes \ {n}
    BY <1>3, RemovesOne
  <2>2. /\ LedgerInv'
        /\ \A l \in Ledgers : \A m : Includes(listed[l], m) /\ m # n => Includes(listed'[l], m)
    BY <1>3, UnlistedOne
  <2>3. QED
    BY <2>1, <2>2, HostShrinks
<1>4. QED
  BY <1>1, <1>2, <1>3

LEMMA ListStep ==
  ASSUME PlaceInv, FaultInv, ListInv, DrillStep PROVE ListInv'
<1>1. LedgerInv /\ HostInv /\ script' = script
  BY ListParts, Flow
<1>2. CASE Untouched
  <2>1. LedgerInv'
    BY <1>1, <1>2 DEF Untouched, LedgerInv
  <2>2. HostInv'
    BY <1>1, <1>2, HostShrinks DEF Untouched
  <2>3. QED
    BY <2>1, <2>2, FreshStep, ListPartsNext
<1>3. CASE Refuse
  <2>1. /\ containers' = containers /\ volumes' = volumes /\ orphans' = orphans
        /\ Running /\ IF S.op \in {"run", "launch"} THEN List(NewName) ELSE UNCHANGED listed
    BY <1>3 DEF Refuse, host
  <2>2. /\ LedgerInv'
        /\ \A l \in Ledgers : \A m : Includes(listed[l], m) => Includes(listed'[l], m)
    <3>1. CASE S.op \in {"run", "launch"}
      <4>1. NewName \in Names
        BY <1>1, <2>1, <3>1, StartAt
      <4>2. QED
        BY <1>1, <2>1, <3>1, <4>1, ListedOne
    <3>2. CASE S.op \notin {"run", "launch"}
      BY <1>1, <2>1, <3>2 DEF LedgerInv
    <3>3. QED
      BY <3>1, <3>2
  <2>3. HostInv'
    BY <1>1, <2>1, <2>2, HostShrinks
  <2>4. QED
    BY <2>2, <2>3, FreshStep, ListPartsNext
<1>4. ASSUME NEW o \in Outcomes, CreateVolume(o) PROVE ListInv'
  BY <1>1, <1>4, CreateList, FreshStep, ListPartsNext
<1>5. ASSUME NEW o \in Outcomes, RunContainer(o) PROVE ListInv'
  BY <1>1, <1>5, StartList, FreshStep, ListPartsNext
<1>6. ASSUME NEW o \in Outcomes, RemoveOwned(o) PROVE ListInv'
  <2>1. /\ Removable(Target) /\ orphans' = orphans
        /\ \/ Gone(Target) /\ Unlist(Target)
           \/ Gone(Target) /\ listed' = listed
           \/ UNCHANGED <<containers, volumes, listed>>
    BY <1>6 DEF RemoveOwned, Landed
  <2>2. QED
    BY <1>1, <2>1, RemoveList, FreshStep, ListPartsNext
<1>7. ASSUME NEW o \in Outcomes, SweepOne(o) PROVE ListInv'
  <2>1. /\ Removable(Head(todo)) /\ orphans' = orphans
        /\ \/ Gone(Head(todo)) /\ Unlist(Head(todo))
           \/ Gone(Head(todo)) /\ listed' = listed
           \/ UNCHANGED <<containers, volumes, listed>>
    BY <1>7 DEF SweepOne, Landed
  <2>2. QED
    BY <1>1, <2>1, RemoveList, FreshStep, ListPartsNext
<1>8. QED
  BY <1>2, <1>3, <1>4, <1>5, <1>6, <1>7, Footprint

LEMMA Moves ==
  ASSUME PlaceInv, FaultInv, DrillStep
  PROVE  /\ block' \in 0..Len(Program') /\ script' \in Scripts
         /\ Running' => step' \in 1..Len(B'.steps)
<1>1. script' = script /\ Program' = Program /\ script \in Scripts
  BY Flow DEF Program, PlaceInv
<1>2. CASE Stayed
  <2>1. block' = block /\ step' = step /\ B' = B
    BY <1>1, <1>2 DEF Stayed, B
  <2>2. QED
    BY <1>1, <2>1 DEF PlaceInv, Running
<1>3. CASE Running /\ Noted
  <2>1. block' = block /\ B' = B /\ step' \in 1..Len(B.steps)
    BY <1>1, <1>3, NotedAt
  <2>2. QED
    BY <1>1, <2>1 DEF PlaceInv
<1>4. CASE Running /\ (Went \/ Halted)
  <2>1. \/ step < Len(B.steps) /\ block' = block /\ step' = step + 1 /\ B' = B
        \/ step' = 1 /\ block' \in 0..Len(Program)
    BY <1>1, <1>4, Leads
  <2>2. CASE step < Len(B.steps) /\ block' = block /\ step' = step + 1 /\ B' = B
    <3>1. step' \in 1..Len(B.steps)
      BY <1>4, <2>2, Placed
    <3>2. QED
      BY <1>1, <2>2, <3>1 DEF PlaceInv
  <2>3. CASE step' = 1 /\ block' \in 0..Len(Program)
    <3>1. block' # 0 => BlockShape(script, block')
      BY <1>1, <1>4, <2>3, Shapes, Placed DEF Shape, Program
    <3>2. block' # 0 => Len(B'.steps) \in Nat \ {0}
      BY <1>1, <3>1 DEF BlockShape, B, Program
    <3>3. QED
      BY <1>1, <2>3, <3>2 DEF Running
  <2>4. QED
    BY <2>1, <2>2, <2>3
<1>5. QED
  BY <1>2, <1>3, <1>4, Flow

\* The names a sweep has to look for.
TodoInv(t) == /\ t \in Seq(Names) /\ \A i \in 1..Len(t) : t[i][1] = S.on[1]
              /\ script = "bazarr" => Len(t) <= 1

LEMMA InOrderKind ==
  ASSUME PlaceInv, ListInv, NetInv, At("sweep")
  PROVE  /\ TodoInv(InOrder(S.on[1]))
         /\ S.on[1] # "tools" =>
              \A m : Includes(listed[S.on[1]], m) => Includes(InOrder(S.on[1]), m)
         /\ S.on[1] = "tools" => Includes(InOrder(S.on[1]), Tools)
<1> DEFINE l == S.on[1]
<1>1. l \in Ledgers /\ Running /\ (script = "bazarr" => l \in {"containers", "tools"})
  <2>1. Running /\ S.op = "sweep"
    BY DEF At
  <2>2. l \in Ledgers /\ Role \in {"movers", "clean", "last"}
    BY <2>1, SweepAt
  <2>3. Role = "clean" /\ script = "bazarr" => l \in {"containers", "tools"}
    <3>1. ASSUME Role = "clean", script = "bazarr" PROVE l \in {"containers", "tools"}
      <4>1. S \in {Renew, Report, Sweep("containers"), Sweep("volumes"), Sweep("tools")}
        BY <2>1, <3>1, InClean
      <4>2. S # Sweep("volumes") /\ S # Renew /\ S # Report
        BY <2>1, <3>1, InClean, CleanupCommands
      <4>3. QED
        BY <4>1, <4>2, CleanupCommands DEF Ledgers
    <3>2. QED
      BY <3>1
  <2>4. Role = "movers" => script # "bazarr"
    BY <2>1, InMovers DEF Moving
  <2>5. Role = "last" => script # "bazarr"
    BY <2>1, InLast
  <2>6. QED
    BY <2>1, <2>2, <2>3, <2>4, <2>5
<1>2. /\ listed[l] \in Seq(Names) /\ \A i \in 1..Len(listed[l]) : listed[l][i][1] = l
      /\ script = "bazarr" => Len(listed["containers"]) <= 1
  BY <1>1 DEF ListInv, NetInv
<1>3. CASE l = "tools"
  <2>1. InOrder(l) = << Tools >>
    BY <1>3 DEF InOrder
  <2> DEFINE t == << Tools >>
  <2>2. t \in Seq(Names) /\ Len(t) = 1 /\ t[1] = Tools
    BY ToolsName
  <2> HIDE DEF t
  <2>3. InOrder(l) = t
    BY <2>1 DEF t
  <2>4. TodoInv(t) /\ Includes(t, Tools)
    BY <1>3, <2>2, ToolsName DEF TodoInv, Includes
  <2>5. QED
    BY <1>3, <2>3, <2>4
<1>4. CASE l # "tools" /\ (l = "movers" \/ script = "bazarr")
  <2>1. InOrder(l) = listed[l]
    BY <1>4 DEF InOrder
  <2>2. QED
    BY <1>1, <1>2, <1>4, <2>1 DEF TodoInv
<1>5. CASE l # "tools" /\ l # "movers" /\ script # "bazarr"
  <2>1. InOrder(l) = Reverse(listed[l])
    BY <1>5 DEF InOrder
  <2>2. /\ Reverse(listed[l]) \in Seq(Names)
        /\ \A m : Includes(Reverse(listed[l]), m) <=> Includes(listed[l], m)
    BY <1>2, Reversed
  <2>3. ASSUME NEW i \in 1..Len(Reverse(listed[l])) PROVE Reverse(listed[l])[i][1] = l
    <3>1. Includes(Reverse(listed[l]), Reverse(listed[l])[i])
      BY DEF Includes
    <3>2. Includes(listed[l], Reverse(listed[l])[i])
      BY <2>2, <3>1
    <3>3. QED
      BY <1>2, <3>2 DEF Includes
  <2>4. QED
    BY <1>5, <2>1, <2>2, <2>3 DEF TodoInv
<1>6. QED
  BY <1>3, <1>4, <1>5

LEMMA TailKind ==
  ASSUME NEW t, t # << >>, TodoInv(t)
  PROVE  /\ TodoInv(Tail(t)) /\ Head(t) \in Names /\ Head(t)[1] = S.on[1]
         /\ \A m : Includes(t, m) => m = Head(t) \/ Includes(Tail(t), m)
         /\ script = "bazarr" => Tail(t) = << >>
<1>1. /\ Tail(t) \in Seq(Names) /\ Len(Tail(t)) = Len(t) - 1 /\ Head(t) \in Names
      /\ Head(t) = t[1] /\ Len(t) \in Nat \ {0}
      /\ \A i \in 1..Len(Tail(t)) : Tail(t)[i] = t[i + 1]
      /\ \A m : Includes(t, m) => m = Head(t) \/ Includes(Tail(t), m)
  BY Tailed DEF TodoInv
<1>2. \A i \in 1..Len(t) : t[i][1] = S.on[1]
  BY DEF TodoInv
<1>3. \A i \in 1..Len(Tail(t)) : Tail(t)[i][1] = S.on[1]
  BY <1>1, <1>2
<1>4. script = "bazarr" => Len(Tail(t)) = 0
  BY <1>1 DEF TodoInv
<1>5. script = "bazarr" => Tail(t) = << >>
  BY <1>1, <1>4, EmptySeq
<1>6. QED
  BY <1>1, <1>2, <1>3, <1>4, <1>5 DEF TodoInv

LEMMA PlaceStep ==
  ASSUME PlaceInv, FaultInv, ListInv, NetInv, DrillStep PROVE PlaceInv'
<1>1. script' = script
  BY Flow
<1>2. todo # NoSweep => At("sweep") /\ TodoInv(todo)
  BY DEF PlaceInv, TodoInv
<1>3. CASE block' = block /\ step' = step /\ todo' # NoSweep
  <2>1. (At("sweep") /\ TodoInv(todo')) => PlaceInv'
    <3>1. S' = S /\ Running' = Running
      BY <1>1, <1>3 DEF S, B, Program, Running
    <3>2. QED
      BY <1>1, <3>1, Moves DEF PlaceInv, At, TodoInv
  <2>2. CASE todo' = todo
    BY <1>2, <1>3, <2>1, <2>2
  <2>3. CASE At("sweep") /\ todo = NoSweep /\ todo' = InOrder(S.on[1])
    BY <2>1, <2>3, InOrderKind
  <2>4. CASE todo \notin {NoSweep, << >>} /\ todo' = Tail(todo)
    BY <1>2, <2>1, <2>4, TailKind
  <2>5. CASE Running /\ Noted
    <3>1. \/ todo' = todo
          \/ todo \notin {NoSweep, << >>} /\ todo' = Tail(todo)
      BY <2>5 DEF Noted
    <3>2. QED
      BY <2>2, <2>4, <3>1
  <2>6. CASE Running /\ (Went \/ Halted)
    <3>1. todo' = todo
      BY <1>3, <2>6 DEF Went, Halted
    <3>2. QED
      BY <2>2, <3>1
  <2>7. QED
    BY <2>2, <2>3, <2>4, <2>5, <2>6, Flow DEF Stayed
<1>4. CASE todo' = NoSweep
  BY <1>4, Moves DEF PlaceInv
<1>5. CASE ~(block' = block /\ step' = step) /\ todo' # NoSweep
  <2>1. Running /\ (Went \/ Halted \/ Noted)
    BY <1>5, Flow DEF Stayed
  <2>2. todo' = todo /\ S.op # "sweep"
    BY <1>5, <2>1 DEF Went, Halted, Noted
  <2>3. FALSE
    BY <1>2, <1>5, <2>2 DEF At
  <2>4. QED
    BY <2>3
<1>6. QED
  BY <1>3, <1>4, <1>5
-----------------------------------------------------------------------------
(* The deadline and the flags *)

LEMMA LateSteps ==
  ASSUME PlaceInv, Running, Cleaning
  PROVE  /\ step = 1 => ~Bounded
         /\ S.op = "renew" => ~Bounded
         /\ Role = "movers" /\ step \in 2..6 => Bounded
         /\ Role = "clean" /\ script \in {"original", "grimmory"} /\ S.op = "sweep" => Bounded
         /\ Role = "clean" /\ script \notin {"original", "grimmory"} => ~Bounded
         /\ Role = "last" => ~Bounded
<1>1. Role \in {"movers", "clean", "last"}
  BY OpAt
<1>2. CASE Role = "movers"
  <2>1. /\ script \in Moving /\ step \in {1, 2, 3, 4, 5, 6, 7}
        /\ step = 1 => S = Renew
        /\ step \in {2, 6} => S = Sweep("movers")
        /\ step = 3 => S = Launch
        /\ step = 4 => S = Purge("nas")
        /\ step = 5 => S = Purge("r2")
        /\ step = 7 => S = Report
    BY <1>2, InMovers
  <2>2. Bounded <=> S.on[1] = "movers"
    BY <2>1 DEF Bounded, Moving
  <2>3. /\ step = 1 => S.on[1] = "tools"
        /\ step \in {2, 3, 4, 5, 6} => S.on[1] = "movers"
        /\ S.op = "renew" => step = 1
    BY <2>1, CleanupCommands DEF Kinds, Ledgers
  <2>4. QED
    BY <1>2, <2>1, <2>2, <2>3
<1>3. CASE Role = "clean"
  <2>1. /\ script # "radarr"
        /\ S \in {Renew, Report, Sweep("containers"), Sweep("volumes"), Sweep("tools")}
        /\ script \in {"original", "grimmory"} => B.steps[1] = Renew
    BY <1>3, InClean
  <2>2. script \in {"pds", "original", "grimmory", "bazarr", "fence"}
    BY <2>1, ScriptsAssumption DEF PlaceInv
  <2>3. CASE script \in {"original", "grimmory"}
    <3>1. Bounded <=> S.on[1] # "tools"
      BY <2>3 DEF Bounded
    <3>2. step = 1 => S = Renew
      BY <2>1, <2>3 DEF S
    <3>3. S.op = "renew" => S = Renew
      BY <2>1, CleanupCommands DEF Ledgers
    <3>4. S.op = "sweep" => S.on[1] # "tools"
      BY <1>3, <2>1, <2>3, InClean, CleanupCommands DEF Ledgers
    <3>5. QED
      BY <1>3, <2>3, <3>1, <3>2, <3>3, <3>4, CleanupCommands
  <2>4. CASE script = "pds"
    <3>1. S.on[1] # "movers"
      BY <2>1, CleanupCommands DEF Ledgers
    <3>2. ~Bounded
      BY <2>4, <3>1 DEF Bounded
    <3>3. QED
      BY <1>3, <2>4, <3>2
  <2>5. CASE script \in {"bazarr", "fence"}
    BY <1>3, <2>5 DEF Bounded
  <2>6. QED
    BY <2>2, <2>3, <2>4, <2>5
<1>4. CASE Role = "last"
  <2>1. S.on[1] = "tools" /\ script \notin {"bazarr", "fence"} /\ S.op = "sweep"
    BY <1>4, InLast, CleanupCommands DEF Ledgers
  <2>2. script \in {"radarr", "pds", "original", "grimmory"}
    BY <2>1, ScriptsAssumption DEF PlaceInv
  <2>3. ~Bounded
    BY <2>1, <2>2 DEF Bounded
  <2>4. QED
    BY <1>4, <2>1, <2>3
<1>5. QED
  BY <1>1, <1>2, <1>3, <1>4

FirstFree == Running /\ Cleaning =>
  /\ step = 1 => ~Bounded
  /\ Role = "clean" /\ script \notin {"original", "grimmory"} => ~Bounded

LEMMA FirstIsFree == PlaceInv => FirstFree
  BY LateSteps DEF FirstFree

LEMMA FirstIsFreeNext == (PlaceInv => FirstFree)'
  BY FirstIsFree, PTL

LEMMA Hinders ==
  ASSUME PlaceInv, FaultInv, DrillStep, Role \in {"setup", "body"} PROVE hindered' = hindered
<1>1. Running /\ ~Cleaning /\ hindered \in BOOLEAN
  <2>1. Running
    BY DEF Role, RoleAt, Running, PlaceInv
  <2>2. QED
    BY <2>1, OpAt, Flags
<1>2. ASSUME NEW o \in Outcomes, Working(o) PROVE hindered' = hindered
  BY <1>1, <1>2, WorkingWorks DEF Worked, Went
<1>3. S.op # "sweep"
  BY <1>1, SweepAt
<1>4. ASSUME Aside PROVE hindered' = hindered
  BY <1>1, <1>3, <1>4 DEF Aside, BeginSweep, EndSweep, SweepMissing, Sweeping, At, Impossible,
     RenewDeadline, ReportFailures, GiveReceipt, Expire, Refuse, Interrupt, FinishCapture, EndStray
<1>5. ASSUME NEW o \in Outcomes, SweepOne(o) PROVE FALSE
  BY <1>3, <1>5, SweepOneFlow
<1>6. QED
  BY <1>2, <1>4, <1>5, Splits

LEMMA Reporting ==
  ASSUME Running, S.op = "report", DrillStep, Went, ~raised
  PROVE  Stayed \/ ~failures
<1>1. ASSUME NEW o \in Outcomes PROVE ~Working(o) /\ ~SweepOne(o)
  BY DEF Working, SweepOne, Sweeping, At, CreateVolume, RunContainer, RunTask, CaptureFixture,
         RestorePoint, Verify, CompareOriginals, Command, RemoveOwned, PurgeFixture
<1>2. CASE ReportFailures
  BY <1>2 DEF ReportFailures, Went, Raise
<1>3. CASE Interrupt
  BY <1>3 DEF Interrupt, Raise, Went
<1>4. ~Refuse
  BY DEF Refuse, Commands
<1>5. ~(BeginSweep \/ EndSweep \/ SweepMissing \/ Impossible \/ RenewDeadline \/ GiveReceipt)
  BY DEF BeginSweep, EndSweep, SweepMissing, Impossible, RenewDeadline, GiveReceipt, Sweeping, At
<1>6. CASE Expire \/ FinishCapture \/ EndStray
  BY <1>6 DEF Expire, FinishCapture, EndStray, Stayed
<1>7. QED
  BY <1>1, <1>2, <1>3, <1>4, <1>5, <1>6, Splits DEF Aside

LEMMA Renewing ==
  ASSUME Running, S.op = "renew", DrillStep, step \in Nat \ {0}, step' = step + 1
  PROVE  ~expired'
<1>1. ASSUME NEW o \in Outcomes PROVE ~Working(o) /\ ~SweepOne(o)
  BY DEF Working, SweepOne, Sweeping, At, CreateVolume, RunContainer, RunTask, CaptureFixture,
         RestorePoint, Verify, CompareOriginals, Command, RemoveOwned, PurgeFixture
<1>2. CASE RenewDeadline
  BY <1>2 DEF RenewDeadline
<1>3. ~Interrupt /\ ~Refuse
  BY DEF Interrupt, Raise, Goto, Refuse, Commands
<1>4. ~(BeginSweep \/ EndSweep \/ SweepMissing \/ Impossible \/ ReportFailures \/ GiveReceipt)
  BY DEF BeginSweep, EndSweep, SweepMissing, Impossible, ReportFailures, GiveReceipt, Sweeping, At
<1>5. ~(Expire \/ FinishCapture \/ EndStray)
  BY DEF Expire, FinishCapture, EndStray
<1>6. QED
  BY <1>1, <1>2, <1>3, <1>4, <1>5, Splits DEF Aside

LEMMA Orphans ==
  ASSUME PlaceInv, FaultInv, DrillStep PROVE orphans' = orphans \/ raised'
<1>1. ASSUME NEW o \in Outcomes, CreateVolume(o) PROVE orphans' = orphans \/ raised'
  <2>1. Worked(o) /\ S.op = "create"
    BY <1>1, WorkingWorks DEF Working, CreateVolume, At
  <2>2. o # "done" => raised'
    BY <2>1 DEF Worked, Halted, Noted
  <2>3. o = "done" => orphans' = orphans
    BY <1>1 DEF CreateVolume
  <2>4. QED
    BY <2>2, <2>3
<1>2. QED
  BY <1>1, Footprint
     DEF Untouched, Refuse, RunContainer, RemoveOwned, SweepOne

LEMMA Unraised ==
  ASSUME PlaceInv, FaultInv, DrillStep
  PROVE  /\ raised' \in BOOLEAN /\ failures' \in BOOLEAN /\ (raised => raised')
         /\ (failures => failures') /\ (hindered => hindered') /\ script' = script
         /\ (receipt => receipt')
<1>1. raised \in BOOLEAN /\ failures \in BOOLEAN
  BY Flags
<1>2. receipt => receipt'
  <2>1. ASSUME NEW o \in Outcomes, Working(o) \/ SweepOne(o) PROVE receipt' = receipt
    BY <2>1, WorkingWorks, SweepOneFlow DEF Worked
  <2>2. ASSUME Aside PROVE receipt' = receipt \/ receipt'
    BY <2>2 DEF Aside, BeginSweep, EndSweep, SweepMissing, Impossible, RenewDeadline,
       ReportFailures, GiveReceipt, Expire, Refuse, Interrupt, FinishCapture, EndStray
  <2>3. QED
    BY <2>1, <2>2, Splits
<1>3. QED
  BY <1>1, <1>2, Flow DEF Stayed, Went, Halted, Noted

LEMMA LateFlags ==
  ASSUME PlaceInv, FaultInv, DrillStep
  PROVE  /\ expired' \in BOOLEAN /\ hindered' \in BOOLEAN /\ receipt' \in BOOLEAN
         /\ expired' = expired \/ ~expired' \/ Expire
<1>1. expired \in BOOLEAN /\ hindered \in BOOLEAN /\ receipt \in BOOLEAN
  BY Flags
<1>2. ASSUME NEW o \in Outcomes, Working(o) \/ SweepOne(o)
      PROVE  expired' = expired /\ hindered' \in BOOLEAN /\ receipt' = receipt
  BY <1>1, <1>2, WorkingWorks, SweepOneFlow DEF Worked, Went
<1>3. ASSUME Aside
      PROVE  /\ expired' \in BOOLEAN /\ hindered' \in BOOLEAN /\ receipt' \in BOOLEAN
             /\ expired' = expired \/ ~expired' \/ Expire
  BY <1>1, <1>3 DEF Aside, BeginSweep, EndSweep, SweepMissing, Impossible,
     RenewDeadline, ReportFailures, GiveReceipt, Expire, Refuse, Interrupt, FinishCapture, EndStray
<1>4. ASSUME NEW o \in Outcomes, Working(o) \/ SweepOne(o)
      PROVE  /\ expired' \in BOOLEAN /\ hindered' \in BOOLEAN /\ receipt' \in BOOLEAN
             /\ expired' = expired \/ ~expired' \/ Expire
  BY <1>1, <1>2, <1>4
<1>5. QED
  BY <1>3, <1>4, Splits, Zenon

LEMMA FaultStep ==
  ASSUME PlaceInv, FaultInv, ListInv, NetInv, DrillStep PROVE FaultInv'
<1>1. /\ raised \in BOOLEAN /\ failures \in BOOLEAN /\ expired \in BOOLEAN
      /\ hindered \in BOOLEAN /\ receipt \in BOOLEAN
  BY Flags
<1>2. /\ raised' \in BOOLEAN /\ failures' \in BOOLEAN /\ expired' \in BOOLEAN
      /\ hindered' \in BOOLEAN /\ receipt' \in BOOLEAN /\ script' = script
      /\ (raised => raised') /\ (failures => failures') /\ (hindered => hindered')
  BY Unraised, LateFlags
<1>3. Role' \in {"setup", "body"} => ~raised' /\ ~failures' /\ ~hindered'
  <2>1. ASSUME Role' \in {"setup", "body"} PROVE ~raised' /\ ~failures' /\ ~hindered'
    <3>1. Role \in {"setup", "body"} /\ (Stayed \/ Went)
      BY <2>1, RoleBack
    <3>2. ~raised /\ ~failures /\ ~hindered
      BY <3>1 DEF FaultInv
    <3>3. QED
      BY <3>1, <3>2, Hinders DEF Stayed, Went
  <2>2. QED
    BY <2>1
<1>4. Role' = "receipt" => ~raised' /\ ~failures'
  <2> SUFFICES ASSUME Role' = "receipt" PROVE ~raised' /\ ~failures'
    OBVIOUS
  <2>1. CASE Stayed
    <3>1. Role' = Role
      BY <1>2, <2>1 DEF Stayed, Role
    <3>2. QED
      BY <2>1, <3>1 DEF Stayed, FaultInv
  <2>2. CASE Running /\ Noted
    <3>1. Role \in {"movers", "clean", "last"} /\ Role' = Role
      BY <1>2, <2>2, NotedAt, OpAt
    <3>2. QED
      BY <3>1
  <2>3. CASE Running /\ (Went \/ Halted) /\ ~Stayed
    <3>1. /\ Role \in {"movers", "clean"} /\ ~raised'
          /\ Went => step = Len(B.steps)
      <4>1. Role \in {"setup", "body", "movers", "clean", "receipt", "last"}
        BY <2>3, Placed
      <4>2. Final(script) \in {"last", "end"}
        BY DEF Final
      <4>3. Role = "receipt" => step = Len(B.steps)
        BY <2>3, InReceipt
      <4>4. step \in 1..Len(B.steps) /\ Len(B.steps) \in Nat
        BY <2>3, Placed
      <4>5. CASE /\ Went /\ step < Len(B.steps) /\ block' = block /\ step' = step + 1
                 /\ Role' = Role /\ B' = B
        BY <4>3, <4>4, <4>5
      <4>6. CASE ~(/\ Went /\ step < Len(B.steps) /\ block' = block /\ step' = step + 1
                   /\ Role' = Role /\ B' = B)
        BY <1>2, <2>3, <4>1, <4>2, <4>6, Leads
      <4>7. QED
        BY <4>5, <4>6, Zenon
    <3>2. Went /\ ~raised
      BY <1>1, <1>2, <2>3, <3>1 DEF Halted
    <3>3. S.op = "report" \/ script \in {"bazarr", "fence"}
      <4>1. CASE Role = "movers"
        BY <2>3, <3>1, <3>2, <4>1, InMovers, CleanupCommands
      <4>2. CASE Role = "clean"
        BY <2>3, <3>1, <3>2, <4>2, InClean, CleanupCommands
      <4>3. QED
        BY <3>1, <4>1, <4>2
    <3>4. ~failures
      <4>1. CASE S.op = "report"
        BY <2>3, <3>2, <4>1, Reporting
      <4>2. CASE script \in {"bazarr", "fence"}
        BY <4>2 DEF FaultInv
      <4>3. QED
        BY <3>3, <4>1, <4>2
    <3>5. QED
      BY <3>1, <3>2, <3>4 DEF Went
  <2>4. QED
    BY <2>1, <2>2, <2>3, Flow
<1>5. ~raised' => orphans' = {}
  BY <1>2, Orphans DEF FaultInv
<1>6. failures' => script' \notin {"bazarr", "fence"}
  <2>1. failures => script \notin {"bazarr", "fence"}
    BY DEF FaultInv
  <2>2. Running /\ Noted => script \notin {"bazarr", "fence"}
    BY <1>2, NotedAt
  <2>3. QED
    BY <1>2, <2>1, <2>2, Flow DEF Stayed, Went, Halted
<1>7. Cleaning' /\ Bounded' /\ expired' => hindered'
  <2> SUFFICES ASSUME Cleaning', Bounded', expired' PROVE hindered'
    OBVIOUS
  <2>1. Running'
    BY DEF Cleaning
  <2>2. CASE Expire
    <3>1. S' = S /\ B' = B /\ block' = block
      BY <2>2 DEF Expire, S, B, Program
    <3>2. Cleaning /\ Bounded
      BY <1>2, <3>1 DEF Cleaning, Running, Bounded
    <3>3. S.op # "renew"
      BY <3>2, LateSteps DEF Cleaning
    <3>4. QED
      BY <2>2, <3>2, <3>3 DEF Expire
  <2>3. CASE expired' = expired /\ ~Expire
    <3>1. Cleaning /\ Bounded => hindered'
      BY <1>2, <2>3 DEF FaultInv
    <3>2. CASE Stayed
      <4>1. S' = S /\ B' = B /\ block' = block
        BY <1>2, <3>2 DEF Stayed, S, B, Program
      <4>2. Cleaning /\ Bounded
        BY <1>2, <4>1 DEF Cleaning, Running, Bounded
      <4>3. QED
        BY <3>1, <4>2
    <3>3. CASE Running /\ Noted
      <4>1. /\ block' = block /\ B' = B /\ Cleaning /\ Role = Role'
            /\ S.op \in {"launch", "purge"} => Role = "movers" /\ step \in {3, 4, 5}
            /\ S.op = "sweep" => step' = step
            /\ S.op \in {"launch", "purge", "sweep"}
        BY <1>2, <3>3, NotedAt
      <4>2. CASE S.op = "sweep"
        <5>1. S' = S
          BY <4>1, <4>2 DEF S
        <5>2. Bounded
          BY <1>2, <5>1 DEF Bounded
        <5>3. QED
          BY <3>1, <4>1, <5>2
      <4>3. CASE S.op \in {"launch", "purge"}
        <5>1. Bounded
          BY <3>3, <4>1, <4>3, LateSteps
        <5>2. QED
          BY <3>1, <4>1, <5>1
      <4>4. QED
        BY <4>1, <4>2, <4>3
    <3>4. CASE Running /\ (Went \/ Halted) /\ ~Stayed
      <4>1. PlaceInv'
        BY PlaceStep
      <4>2. CASE step' = 1
        BY <2>1, <4>1, <4>2, FirstIsFreeNext DEF FirstFree
      <4>3. CASE /\ Went /\ step < Len(B.steps) /\ block' = block /\ step' = step + 1
                 /\ Role' = Role /\ B' = B
        <5>1. Cleaning /\ Role \in {"movers", "clean", "last"}
          BY <3>4, <4>3, OpAt DEF Cleaning, Running
        <5>2. CASE Bounded
          BY <3>1, <5>1, <5>2
        <5>3. CASE ~Bounded
          <6>2. Role = "clean" => script \in {"original", "grimmory"}
            BY <1>2, <2>1, <4>1, <4>3, FirstIsFreeNext DEF FirstFree
          <6>3. step < Len(B.steps) /\ step \in 1..Len(B.steps) /\ Len(B.steps) \in Nat
            BY <3>4, <4>3, Placed
          <6>4. S.op = "renew"
            <7>1. CASE Role = "movers"
              <8>1. step \in {1, 2, 3, 4, 5, 6, 7} /\ Len(B.steps) = 7 /\ (step = 1 => S = Renew)
                BY <3>4, <7>1, InMovers
              <8>2. step = 1
                BY <3>4, <5>1, <5>3, <6>3, <7>1, <8>1, LateSteps
              <8>3. QED
                BY <8>1, <8>2, CleanupCommands
            <7>2. CASE Role = "clean"
              <8>1. /\ S \in {Renew, Report, Sweep("containers"), Sweep("volumes"), Sweep("tools")}
                    /\ S = Report => step = Len(B.steps)
                BY <3>4, <7>2, InClean
              <8>2. S.op # "sweep"
                BY <3>4, <5>1, <5>3, <6>2, <7>2, LateSteps
              <8>3. QED
                BY <6>3, <8>1, <8>2, CleanupCommands DEF Ledgers
            <7>3. CASE Role = "last"
              BY <3>4, <6>3, <7>3, InLast
            <7>4. QED
              BY <5>1, <7>1, <7>2, <7>3
          <6>5. ~expired'
            BY <3>4, <4>3, <6>3, <6>4, Renewing
          <6>6. QED
            BY <6>5
        <5>4. QED
          BY <5>2, <5>3
      <4>4. QED
        BY <1>2, <3>4, <4>2, <4>3, Leads
    <3>5. QED
      BY <3>2, <3>3, <3>4, Flow
  <2>4. QED
    BY <1>1, <1>2, <2>2, <2>3, LateFlags
<1>8. QED
  BY <1>2, <1>3, <1>4, <1>5, <1>6, <1>7 DEF FaultInv
-----------------------------------------------------------------------------
(* Within the body of a script *)

Idle == Expire \/ FinishCapture \/ EndStray

LEMMA WithinBody ==
  ASSUME PlaceInv, FaultInv, DrillStep, Role' = "body"
  PROVE  \/ Role = "setup" /\ step' = 1
         \/ Role = "body" /\ Idle /\ block' = block /\ step' = step /\ B' = B
         \/ Role = "body" /\ Working("done") /\ block' = block /\ step' = step + 1 /\ B' = B
<1>1. /\ Role \in {"setup", "body"} /\ Running /\ script' = script
      /\ \/ Role = "setup"
         \/ Stayed /\ block' = block /\ step' = step /\ B' = B
         \/ Went /\ step < Len(B.steps) /\ block' = block /\ step' = step + 1 /\ B' = B
  <2>1. Running
    BY RoleBack DEF Role, RoleAt, Running, PlaceInv
  <2>2. QED
    BY <2>1, RoleBack, Flow
<1>2. CASE Role = "setup"
  <2>1. block' # block
    BY <1>1, <1>2 DEF Role
  <2>2. step' = 1
    BY <2>1, RoleBack DEF Stayed
  <2>3. QED
    BY <1>2, <2>2
<1>3. CASE Role = "body"
  <2>1. /\ S.op \in WorkOps /\ ~Cleaning /\ ~raised /\ ~failures
        /\ step \in 1..Len(B.steps) /\ Len(B.steps) \in Nat
    BY <1>1, <1>3, OpAt, Placed DEF FaultInv
  <2>2. raised' = raised /\ failures' = failures
    BY <1>1, <1>3 DEF Stayed, Went
  <2>3. ~Halted /\ ~Noted
    BY <2>1, <2>2 DEF Halted, Noted
  <2>4. ASSUME NEW o \in Outcomes, Working(o)
        PROVE  Working("done") /\ Went
    BY <2>3, <2>4, WorkingWorks DEF Worked
  <2>5. ASSUME NEW o \in Outcomes PROVE ~SweepOne(o)
    BY <2>1, SweepOneFlow DEF WorkOps
  <2>6. ASSUME Aside PROVE Idle
    <3>1. ~(\/ BeginSweep \/ EndSweep \/ SweepMissing
            \/ RenewDeadline \/ ReportFailures \/ GiveReceipt)
      BY <2>1 DEF WorkOps, BeginSweep, EndSweep, SweepMissing, Sweeping, At, RenewDeadline,
                  ReportFailures, GiveReceipt
    <3>2. ~Trouble
      BY <2>1, <2>3, Troubles DEF WorkOps
    <3>3. ~Impossible /\ ~Refuse
      BY <3>2 DEF Impossible, Refuse
    <3>4. ~Interrupt
      BY <2>3 DEF Interrupt, Raise, Goto, Halted
    <3>5. QED
      BY <2>6, <3>1, <3>3, <3>4 DEF Aside, Idle
  <2>7. CASE Aside
    <3>1. Idle
      BY <2>6, <2>7
    <3>2. block' = block /\ step' = step
      BY <3>1 DEF Idle, Expire, FinishCapture, EndStray
    <3>3. B' = B
      BY <1>1, <3>2 DEF B, Program
    <3>4. QED
      BY <1>3, <3>1, <3>2, <3>3
  <2>8. ASSUME NEW o \in Outcomes, Working(o)
        PROVE  Working("done") /\ block' = block /\ step' = step + 1 /\ B' = B
    <3>1. Working("done") /\ Went
      BY <2>4, <2>8
    <3>2. step' # step \/ block' # block
      <4>1. Goto(IF block = Len(Program) THEN 0 ELSE block + 1) \/ step' = step + 1
        BY <2>1, <3>1 DEF Went, Advance
      <4>2. block \in 1..Len(Program) /\ Len(Program) \in Nat
        BY <1>1, Placed
      <4>3. QED
        BY <2>1, <4>1, <4>2 DEF Goto
    <3>3. QED
      BY <1>1, <1>3, <3>1, <3>2
  <2>9. QED
    BY <1>3, <2>5, <2>7, <2>8, Splits
<1>4. QED
  BY <1>1, <1>2, <1>3

\* The mover started last is there when its repository is captured.
MoverInv ==
  Role = "body" /\ step > 1 /\ B.steps[step - 1].op = "run" /\ B.steps[step - 1].on = Mover
    => Newest \in DOMAIN containers

LEMMA MoverStep ==
  ASSUME PlaceInv, FaultInv, ListInv, CaptureInv, DrillStep PROVE MoverInv'
<1> SUFFICES ASSUME Role' = "body", step' > 1, B'.steps[step' - 1].op = "run",
                    B'.steps[step' - 1].on = Mover
             PROVE  Newest' \in DOMAIN containers'
  BY DEF MoverInv
<1>1. CASE Role = "setup" /\ step' = 1
  BY <1>1
<1>2. CASE Role = "body" /\ Idle /\ block' = block /\ step' = step /\ B' = B
  <2>1. listed' = listed /\ containers' = containers
    BY <1>2 DEF Idle, Expire, FinishCapture, EndStray, host, progress
  <2>2. QED
    BY <1>2, <2>1 DEF CaptureInv, Newest
<1>3. CASE Role = "body" /\ Working("done") /\ block' = block /\ step' = step + 1 /\ B' = B
  <2>1. S.op = "run" /\ S.on = Mover
    <3>1. Running
      BY <1>3, WorkingWorks
    <3>2. step \in 1..Len(B.steps) /\ Len(B.steps) \in Nat
      BY <3>1, Placed
    <3>3. step' - 1 = step
      BY <1>3, <3>2
    <3>4. QED
      BY <1>3, <3>3 DEF S
  <2>2. RunContainer("done")
    BY <1>3, <2>1 DEF Working, At, CreateVolume, RunContainer, RunTask, CaptureFixture,
                      RestorePoint, Verify, CompareOriginals, Command, RemoveOwned, PurgeFixture
  <2>3. NewName \in DOMAIN containers' /\ List(NewName)
    BY <2>2, Started DEF Outcomes, RunContainer
  <2>4. /\ LedgerInv /\ NewName \in Names /\ NewName[1] = "movers"
    BY <1>3, <2>1, StartAt, ListParts, WorkingWorks
  <2>5. listed'["movers"] = Append(listed["movers"], NewName) /\ listed["movers"] \in Seq(Names)
    BY <2>3, <2>4, ListedOne DEF LedgerInv, Ledgers
  <2>6. Len(listed'["movers"]) = Len(listed["movers"]) + 1 /\ Len(listed["movers"]) \in Nat
    BY <2>4, <2>5, Appended
  <2>7. Newest' = NewName
    BY <2>1, <2>6 DEF Newest, NewName
  <2>8. QED
    BY <2>3, <2>7
<1>4. QED
  BY <1>1, <1>2, <1>3, WithinBody

LEMMA CaptureAt ==
  ASSUME PlaceInv, ListInv, CaptureInv, At("capture")
  PROVE  /\ script \in Moving /\ S.kind \in Kinds
         /\ Target \in DOMAIN containers /\ Target[1] = "movers" /\ Role = "body"
<1>1. Running /\ S.op = "capture"
  BY DEF At
<1>2. Role = "body"
  BY <1>1, OpAt
<1>3. Body(script, B.steps) /\ BodyStep(script, S)
  BY <1>1, <1>2, InBody
<1>4. script \in Moving /\ S.kind \in Kinds /\ S.on = Mover
  BY <1>1, <1>3 DEF BodyStep
<1>5. step \in 1..Len(B.steps) /\ Len(B.steps) \in Nat
  BY <1>1, Placed
<1>6. step - 1 \in 1..Len(B.steps) /\ B.steps[step - 1].op = "run" /\ B.steps[step - 1].on = Mover
  BY <1>1, <1>3, <1>5 DEF Body, Piece, Starts, S
<1>7. Newest \in DOMAIN containers
  BY <1>2, <1>5, <1>6 DEF CaptureInv
<1>8. Target = Newest /\ Newest[1] = "movers"
  BY <1>4 DEF Target, Newest
<1>9. QED
  BY <1>2, <1>4, <1>7, <1>8
-----------------------------------------------------------------------------
(* The captures that go on *)

CapturedInv == /\ repos \subseteq Kinds /\ busy \subseteq (DOMAIN containers) \X Kinds
               /\ \A b \in busy : b[1][1] = "movers"
               /\ script \notin Moving => repos = {} /\ busy = {}

LEMMA CaptureParts == CaptureInv <=> CapturedInv /\ MoverInv
  BY DEF CaptureInv, CapturedInv, MoverInv

LEMMA CapturePartsNext == (CaptureInv <=> CapturedInv /\ MoverInv)'
  BY CaptureParts, PTL

LEMMA CaptureFootprint ==
  ASSUME DrillStep
  PROVE  \/ UNCHANGED <<repos, busy, containers>> \/ FinishCapture
         \/ \E o \in Outcomes : \/ RunContainer(o) \/ CaptureFixture(o) \/ PurgeFixture(o)
                                \/ RemoveOwned(o) \/ SweepOne(o)
<1>1. ASSUME NEW o \in Outcomes, Working(o)
      PROVE  \/ UNCHANGED <<repos, busy, containers>> \/ RunContainer(o) \/ CaptureFixture(o)
             \/ PurgeFixture(o) \/ RemoveOwned(o)
  BY <1>1 DEF Working, CreateVolume, RunTask, RestorePoint, Verify, CompareOriginals, Command, host
<1>2. ASSUME Aside PROVE UNCHANGED <<repos, busy, containers>> \/ FinishCapture
  BY <1>2 DEF Aside, BeginSweep, EndSweep, SweepMissing, Impossible, RenewDeadline,
              ReportFailures, GiveReceipt, Expire, Refuse, Interrupt, EndStray, host
<1>3. QED
  BY <1>1, <1>2, Splits, Zenon

\* A container that is removed takes its captures along.
LEMMA GoneBusy ==
  ASSUME HostInv, CapturedInv, script' = script, NEW n, Removable(n), repos' = repos,
         Gone(n) \/ UNCHANGED <<containers, volumes, busy>>
  PROVE  CapturedInv'
<1>1. CASE Gone(n)
  <2>1. /\ DOMAIN containers' = DOMAIN containers \ {n} /\ busy' \subseteq busy
        /\ \A b \in busy' : b[1] = n => n[1] \in {"tools", "volumes"}
    BY <1>1, RemovesOne DEF Gone
  <2>2. ASSUME NEW b \in busy' PROVE b \in (DOMAIN containers') \X Kinds
    <3>1. b \in (DOMAIN containers) \X Kinds /\ b[1][1] = "movers"
      BY <2>1 DEF CapturedInv
    <3>2. b[1] # n
      BY <2>1, <3>1
    <3>3. QED
      BY <2>1, <3>1, <3>2
  <2>3. QED
    BY <2>1, <2>2 DEF CapturedInv
<1>2. CASE UNCHANGED <<containers, volumes, busy>>
  BY <1>2 DEF CapturedInv
<1>3. QED
  BY <1>1, <1>2

LEMMA CapturesStep ==
  ASSUME PlaceInv, FaultInv, ListInv, CaptureInv, DrillStep PROVE CaptureInv'
<1>1. /\ HostInv /\ script' = script /\ CapturedInv
  BY ListParts, CaptureParts, Flow
<1>2. CASE UNCHANGED <<repos, busy, containers>>
  BY <1>1, <1>2, MoverStep, CapturePartsNext DEF CapturedInv
<1>3. CASE FinishCapture
  <2>1. PICK b \in busy : repos' = repos \cup {b[2]} /\ busy' = busy \ {b}
    BY <1>3 DEF FinishCapture
  <2>2. b[2] \in Kinds /\ containers' = containers
    BY <1>1, <1>3 DEF CapturedInv, FinishCapture
  <2>3. CapturedInv'
    BY <1>1, <2>1, <2>2 DEF CapturedInv
  <2>4. QED
    BY <2>3, MoverStep, CapturePartsNext
<1>4. ASSUME NEW o \in Outcomes, RunContainer(o) PROVE CaptureInv'
  <2>1. repos' = repos /\ busy' = busy /\ DOMAIN containers \subseteq DOMAIN containers'
    BY <1>4, Started DEF RunContainer
  <2>2. CapturedInv'
    BY <1>1, <2>1 DEF CapturedInv
  <2>3. QED
    BY <2>2, MoverStep, CapturePartsNext
<1>5. ASSUME NEW o \in Outcomes, CaptureFixture(o) PROVE CaptureInv'
  <2>1. /\ script \in Moving /\ S.kind \in Kinds
        /\ Target \in DOMAIN containers /\ Target[1] = "movers"
    BY <1>5, CaptureAt DEF CaptureFixture
  <2>2. /\ containers' = containers
        /\ repos' = repos \/ repos' = repos \cup {S.kind}
        /\ busy' = busy \/ busy' = busy \cup {<<Target, S.kind>>}
    BY <1>5 DEF CaptureFixture
  <2>3. CapturedInv'
    BY <1>1, <2>1, <2>2 DEF CapturedInv
  <2>4. QED
    BY <2>3, MoverStep, CapturePartsNext
<1>6. ASSUME NEW o \in Outcomes, PurgeFixture(o) PROVE CaptureInv'
  <2>1. containers' = containers /\ busy' = busy /\ repos' \subseteq repos
    BY <1>6 DEF PurgeFixture
  <2>2. CapturedInv'
    BY <1>1, <2>1 DEF CapturedInv
  <2>3. QED
    BY <2>2, MoverStep, CapturePartsNext
<1>7. ASSUME NEW o \in Outcomes, RemoveOwned(o) PROVE CaptureInv'
  <2>1. /\ Removable(Target) /\ repos' = repos
        /\ Gone(Target) \/ UNCHANGED <<containers, volumes, busy>>
    BY <1>7 DEF RemoveOwned
  <2>2. QED
    BY <1>1, <2>1, GoneBusy, MoverStep, CapturePartsNext
<1>8. ASSUME NEW o \in Outcomes, SweepOne(o) PROVE CaptureInv'
  <2>1. /\ Removable(Head(todo)) /\ repos' = repos
        /\ Gone(Head(todo)) \/ UNCHANGED <<containers, volumes, busy>>
    BY <1>8 DEF SweepOne
  <2>2. QED
    BY <1>1, <2>1, GoneBusy, MoverStep, CapturePartsNext
<1>9. QED
  BY <1>2, <1>3, <1>4, <1>5, <1>6, <1>7, <1>8, CaptureFootprint, Zenon
-----------------------------------------------------------------------------
(* What a cleanup without a fault of its own can do *)

Sorts == {"movers", "containers", "volumes"}
BehindInv == \A l \in Sorts : Behind(l) => Empty(l)
CoverInv == todo # NoSweep => \A n \in Remaining(S.on[1]) : Includes(todo, n)
FixtureInv ==
  /\ Role \in {"setup", "clean", "receipt", "last", "end"} => repos = {} /\ busy = {}
  /\ Role = "movers" /\ step >= 3 => busy = {}
  /\ Role = "movers" /\ step >= 5 => "nas" \notin repos
  /\ Role = "movers" /\ step >= 6 => "r2" \notin repos
ToolsInv == Role = "end" /\ script # "bazarr" => Tools \notin volumes \/ Tools \in orphans
EarlyInv == Role = "setup" => listed["movers"] = << >> /\ listed["containers"] = << >>
SweptParts == BehindInv /\ CoverInv /\ FixtureInv /\ ToolsInv

LEMMA SweptSplits == SweptInv <=> (Smooth => SweptParts /\ EarlyInv)
  BY DEF SweptInv, SweptParts, EarlyInv, BehindInv, CoverInv, FixtureInv, ToolsInv, Sorts

LEMMA SweptSplitsNext == (SweptInv <=> (Smooth => SweptParts /\ EarlyInv))'
  BY SweptSplits, PTL

LEMMA SmoothBack ==
  ASSUME PlaceInv, FaultInv, DrillStep, Smooth'
  PROVE  Smooth /\ (raised' \/ failures' => ~hindered' /\ ~hindered)
  BY Unraised, Flags, LateFlags DEF Smooth

\* Nothing joins the host but by a command that starts or creates it.
LEMMA Shrinks ==
  ASSUME HostInv, DrillStep, \A o \in Outcomes : ~RunContainer(o)
  PROVE  /\ DOMAIN containers' \subseteq DOMAIN containers /\ orphans \subseteq orphans'
         /\ \A v \in volumes' : v \in volumes \/ \E o \in Outcomes : CreateVolume(o) /\ v = S.on
<1>1. CASE Untouched
  BY <1>1 DEF Untouched
<1>2. CASE Refuse
  BY <1>2 DEF Refuse, host
<1>3. ASSUME NEW o \in Outcomes, CreateVolume(o)
      PROVE  /\ containers' = containers /\ orphans \subseteq orphans'
             /\ \A v \in volumes' : v \in volumes \/ v = S.on
  BY <1>3 DEF CreateVolume
<1>4. ASSUME NEW n, Removable(n), Gone(n) \/ UNCHANGED <<containers, volumes, busy>>
      PROVE  DOMAIN containers' \subseteq DOMAIN containers /\ volumes' \subseteq volumes
  BY <1>4, RemovesOne
<1>5. ASSUME NEW o \in Outcomes, RemoveOwned(o)
      PROVE  /\ DOMAIN containers' \subseteq DOMAIN containers /\ volumes' \subseteq volumes
             /\ orphans' = orphans
  <2>1. /\ Removable(Target) /\ orphans' = orphans
        /\ Gone(Target) \/ UNCHANGED <<containers, volumes, busy>>
    BY <1>5 DEF RemoveOwned
  <2>2. QED
    BY <1>4, <2>1
<1>6. ASSUME NEW o \in Outcomes, SweepOne(o)
      PROVE  /\ DOMAIN containers' \subseteq DOMAIN containers /\ volumes' \subseteq volumes
             /\ orphans' = orphans
  <2>1. /\ Removable(Head(todo)) /\ orphans' = orphans
        /\ Gone(Head(todo)) \/ UNCHANGED <<containers, volumes, busy>>
    BY <1>6 DEF SweepOne
  <2>2. QED
    BY <1>4, <2>1
<1>7. QED
  BY <1>1, <1>2, <1>3, <1>5, <1>6, Footprint

LEMMA StaysEmpty ==
  ASSUME PlaceInv, HostInv, DrillStep, \A o \in Outcomes : ~RunContainer(o), Role # "body",
         NEW l \in Sorts, Empty(l)
  PROVE  Empty(l)'
<1>1. /\ DOMAIN containers' \subseteq DOMAIN containers /\ orphans \subseteq orphans'
      /\ \A v \in volumes' : v \in volumes \/ \E o \in Outcomes : CreateVolume(o) /\ v = S.on
  BY Shrinks
<1>2. ASSUME NEW o \in Outcomes, CreateVolume(o) PROVE S.on[1] = "tools"
  <2>1. Role = "setup"
    BY <1>2, CreateAt DEF CreateVolume
  <2>2. QED
    BY <1>2, <2>1, CreateAt, ToolsName DEF CreateVolume
<1>3. CASE l = "volumes"
  BY <1>1, <1>2, <1>3 DEF Empty
<1>4. CASE l # "volumes"
  BY <1>1, <1>4 DEF Empty
<1>5. QED
  BY <1>3, <1>4

LEMMA Quiet ==
  ASSUME PlaceInv, DrillStep, Role # "body"
  PROVE  busy' \subseteq busy /\ (busy = {} => repos' \subseteq repos)
<1>1. ASSUME NEW o \in Outcomes PROVE ~CaptureFixture(o)
  <2>1. ASSUME CaptureFixture(o) PROVE FALSE
    <3>1. Running /\ S.op = "capture"
      BY <2>1 DEF CaptureFixture, At
    <3>2. QED
      BY <3>1, OpAt
  <2>2. QED
    BY <2>1
<1>2. CASE FinishCapture
  <2>1. PICK b \in busy : repos' = repos \cup {b[2]} /\ busy' = busy \ {b}
    BY <1>2 DEF FinishCapture
  <2>2. QED
    BY <2>1
<1>3. ASSUME NEW o \in Outcomes, RunContainer(o) \/ PurgeFixture(o)
      PROVE  busy' = busy /\ repos' \subseteq repos
  BY <1>3 DEF RunContainer, PurgeFixture
<1>4. ASSUME NEW o \in Outcomes, RemoveOwned(o) \/ SweepOne(o)
      PROVE  busy' \subseteq busy /\ repos' = repos
  BY <1>4 DEF RemoveOwned, SweepOne, Gone
<1>5. QED
  BY <1>1, <1>2, <1>3, <1>4, CaptureFootprint

\* No command of a cleanup is impossible without somebody else's doing.
LEMMA Feasible ==
  ASSUME PlaceInv, ListInv, Running, Cleaning, BehindInv, Impossible
  PROVE  stray # {}
<1>1. HostInv /\ LedgerInv
  BY ListParts
<1>2. Role \in {"movers", "clean", "last"} /\ S.op \notin {"create", "run", "remove"}
  BY OpAt
<1>3. CASE At("launch") /\ NewName \in DOMAIN containers
  <2>1. S.op = "launch" /\ Role = "movers"
    BY <1>3, OpAt DEF At, WorkOps
  <2>2. step = 3 /\ S.on = Mover
    <3>1. /\ step \in {1, 2, 3, 4, 5, 6, 7}
          /\ step = 1 => S = Renew
          /\ step \in {2, 6} => S = Sweep("movers")
          /\ step = 3 => S = Launch
          /\ step = 4 => S = Purge("nas")
          /\ step = 5 => S = Purge("r2")
          /\ step = 7 => S = Report
      BY <2>1, InMovers
    <3>2. QED
      BY <2>1, <3>1, CleanupCommands DEF Kinds, Ledgers
  <2>3. NewName[1] = "movers"
    BY <1>1, <2>1, <2>2, StartAt
  <2>4. Empty("movers")
    BY <2>1, <2>2 DEF BehindInv, Behind, Sorts
  <2>5. QED
    BY <1>3, <2>3, <2>4 DEF Empty
<1>4. CASE Sweeping /\ Exists(Head(todo)) /\ ~Removable(Head(todo))
  <2> DEFINE n == Head(todo)
  <2>1. /\ S.op = "sweep" /\ n \in Names /\ n[1] = S.on[1]
    <3>1. TodoInv(todo) /\ todo # << >> /\ S.op = "sweep"
      BY <1>4 DEF Sweeping, At, PlaceInv, TodoInv
    <3>2. QED
      BY <3>1, TailKind
  <2>2. n[1] \in {"tools", "volumes"} /\ n \in volumes /\ InUse(n)
    <3>1. n \in DOMAIN containers => n[1] \in {"movers", "containers"}
      BY <1>1 DEF HostInv, Hosted
    <3>2. n \in volumes => n[1] \in {"tools", "volumes"}
      BY <1>1, ToolsName DEF HostInv, Kept
    <3>3. QED
      BY <1>4, <3>1, <3>2 DEF Exists, Removable
  <2>3. Behind("movers") /\ Behind("containers")
    <3>1. \/ Role = "last"
          \/ Role = "clean" /\ (S = Sweep("volumes") \/ S = Sweep("tools"))
      BY <2>1, <2>2, SweepAt
    <3>2. Role = "clean" => Done("containers", step - 1)
      BY <3>1, InClean
    <3>3. QED
      BY <3>1, <3>2 DEF Behind, Done
  <2>4. DOMAIN containers = {}
    <3>1. Empty("movers") /\ Empty("containers")
      BY <2>3 DEF BehindInv, Sorts
    <3>2. QED
      BY <1>1, <3>1 DEF Empty, HostInv, Hosted
  <2>5. QED
    BY <2>2, <2>4 DEF InUse
<1>5. QED
  BY <1>2, <1>3, <1>4 DEF Impossible, At

LEMMA Unhindered ==
  ASSUME PlaceInv, FaultInv, ListInv, SweptInv, DrillStep, Running, Cleaning, Smooth'
  PROVE  \/ RunContainer("done") \/ PurgeFixture("done") \/ SweepOne("done")
         \/ BeginSweep \/ EndSweep \/ SweepMissing \/ RenewDeadline \/ ReportFailures \/ Idle
<1>1. Smooth /\ BehindInv /\ (raised' \/ failures' => ~hindered' /\ ~hindered)
  BY SmoothBack, SweptSplits DEF SweptParts
<1>2. ASSUME Halted \/ Noted PROVE ~hindered' /\ ~hindered
  BY <1>1, <1>2 DEF Halted, Noted
<1>3. S.op \in {"renew", "launch", "purge", "sweep", "report"}
  BY OpAt
<1>4. ASSUME NEW o \in Outcomes, Working(o) PROVE RunContainer("done") \/ PurgeFixture("done")
  <2>1. o = "done"
    <3>1. Worked(o)
      BY <1>4, WorkingWorks
    <3>2. QED
      BY <1>2, <3>1 DEF Worked
  <2>2. RunContainer(o) \/ PurgeFixture(o)
    BY <1>3, <1>4 DEF Working, At, CreateVolume, RunTask, CaptureFixture, RestorePoint, Verify,
                      CompareOriginals, Command, RemoveOwned
  <2>3. QED
    BY <2>1, <2>2
<1>5. ASSUME NEW o \in Outcomes, SweepOne(o) PROVE SweepOne("done")
  BY <1>2, <1>5, SweepOneFlow
<1>6. ~Impossible
  <2>1. ASSUME Impossible PROVE FALSE
    <3>1. stray # {}
      BY <1>1, <2>1, Feasible
    <3>2. hindered'
      BY <2>1, <3>1 DEF Impossible
    <3>3. Trouble /\ (S.op = "sweep" => todo \notin {NoSweep, << >>})
      BY <2>1 DEF Impossible, Sweeping, At
    <3>4. QED
      BY <1>2, <3>2, <3>3, Troubles
  <2>2. QED
    BY <2>1
<1>7. ~Refuse
  <2>1. ASSUME Refuse PROVE FALSE
    <3>1. hindered
      BY <2>1 DEF Refuse, FaultInv
    <3>2. Trouble /\ (S.op = "sweep" => todo \notin {NoSweep, << >>})
      BY <2>1 DEF Refuse, Sweeping
    <3>3. QED
      BY <1>2, <3>1, <3>2, Troubles
  <2>2. QED
    BY <2>1
<1>8. ~Interrupt
  BY <1>1 DEF Interrupt, Raise
<1>9. ~GiveReceipt
  BY <1>3 DEF GiveReceipt, At
<1>10. QED
  BY <1>4, <1>5, <1>6, <1>7, <1>8, <1>9, Splits DEF Aside, Idle
-----------------------------------------------------------------------------
(* What is behind a cleanup is swept, step by step *)

SameHost == UNCHANGED <<containers, volumes, busy, stray, orphans>>

LEMMA ContainerSort ==
  ASSUME HostInv, NEW c \in DOMAIN containers
  PROVE  c \in Names /\ c[1] \in {"movers", "containers"} /\ Uses(c[1])
  BY DEF HostInv, Hosted

\* A sweep that has come to its end has left nothing.
LEMMA Ended ==
  ASSUME NoSweep \notin Seq(Names), PlaceInv, CoverInv, EndSweep
  PROVE  /\ S.op = "sweep" /\ SameHost /\ repos' = repos /\ Went /\ todo' = NoSweep
         /\ Remaining(S.on[1]) = {}
<1>1. S.op = "sweep" /\ SameHost /\ repos' = repos /\ Went /\ todo' = NoSweep /\ todo = << >>
  BY DEF EndSweep, At, SameHost, host, progress, Went
<1>2. todo # NoSweep => Remaining(S.on[1]) = {}
  BY <1>1 DEF CoverInv, Includes
<1>3. << >> # NoSweep
  <2>1. << >> \in Seq(Names)
    OBVIOUS
  <2>2. QED
    BY <2>1
<1>4. QED
  BY <1>1, <1>2, <1>3

LEMMA NothingRemains ==
  ASSUME HostInv, NEW l \in Ledgers, Remaining(l) = {}
  PROVE  /\ l \in Sorts => Empty(l)
         /\ l = "tools" => Tools \notin volumes
<1>1. CASE l = "volumes"
  BY <1>1 DEF Remaining, Empty
<1>2. CASE l = "tools"
  BY <1>2, ToolsName DEF Remaining, Sorts
<1>3. CASE l \in {"movers", "containers"}
  BY <1>3 DEF Remaining, Empty
<1>4. QED
  BY <1>1, <1>2, <1>3 DEF Ledgers

LEMMA Unused ==
  ASSUME HostInv, NEW l \in Sorts, ~Uses(l) PROVE Empty(l)
<1>1. CASE l = "volumes"
  BY <1>1 DEF HostInv, Kept, Empty
<1>2. CASE l # "volumes"
  BY <1>2 DEF HostInv, Hosted, Empty
<1>3. QED
  BY <1>1, <1>2

\* Where a block has come to its end, or its report raises, its ledgers are swept.
LEMMA BehindNext ==
  ASSUME PlaceInv, FaultInv, Running, script' = script, Cleaning,
         Went \/ (Halted /\ S.op = "report"), NEW l \in Sorts, Behind(l)'
  PROVE  Behind(l) \/ ~Uses(l) \/ (Went /\ S = Sweep(l))
<1>1. Role \in {"movers", "clean", "last"} /\ step \in 1..Len(B.steps) /\ Len(B.steps) \in Nat
  BY OpAt, Placed
<1>2. CASE /\ Went /\ step < Len(B.steps) /\ block' = block /\ step' = step + 1
           /\ Role' = Role /\ B' = B
  <2>1. \/ Role \in {"setup", "receipt", "last", "end"}
        \/ Role = "clean" /\ (l = "movers" \/ \E i \in 1..step' - 1 : B.steps[i] = Sweep(l))
        \/ Role = "movers" /\ l = "movers" /\ step' \in {3, 7}
    BY <1>2 DEF Behind
  <2>2. CASE Role = "movers"
    <3>1. step \in {2, 6} /\ l = "movers"
      BY <1>1, <1>2, <2>1, <2>2
    <3>2. S = Sweep("movers")
      BY <2>2, <3>1, InMovers
    <3>3. QED
      BY <1>2, <3>1, <3>2
  <2>3. CASE Role = "clean" /\ l # "movers"
    <3>1. PICK i \in 1..step' - 1 : B.steps[i] = Sweep(l)
      BY <2>1, <2>3
    <3>2. i \in 1..step
      BY <1>1, <1>2, <3>1
    <3>3. CASE i = step
      BY <1>2, <3>1, <3>3 DEF S
    <3>4. CASE i # step
      <4>1. i \in 1..step - 1
        BY <1>1, <3>2, <3>4
      <4>2. QED
        BY <2>3, <3>1, <4>1 DEF Behind
    <3>5. QED
      BY <3>3, <3>4
  <2>4. CASE Role = "last" \/ (Role = "clean" /\ l = "movers")
    BY <2>4 DEF Behind
  <2>5. QED
    BY <1>1, <2>2, <2>3, <2>4
<1>3. CASE step' = 1 /\ (Went => step = Len(B.steps))
  <2>1. CASE Role = "movers"
    <3>1. step = 7
      <4>1. /\ step \in {1, 2, 3, 4, 5, 6, 7} /\ Len(B.steps) = 7
            /\ step = 1 => S = Renew
            /\ step \in {2, 6} => S = Sweep("movers")
            /\ step = 3 => S = Launch
            /\ step = 4 => S = Purge("nas")
            /\ step = 5 => S = Purge("r2")
        BY <2>1, InMovers
      <4>2. S.op = "report" => step = 7
        BY <4>1, CleanupCommands DEF Kinds, Ledgers
      <4>3. QED
        BY <1>3, <4>1, <4>2
    <3>2. Behind("movers")
      BY <2>1, <3>1 DEF Behind
    <3>3. CASE script = "radarr"
      BY <3>2, <3>3 DEF Uses, Sorts
    <3>4. CASE script # "radarr"
      <4>1. script = "pds" /\ Len(B.steps) = 7
        BY <2>1, <3>4, InMovers DEF Moving
      <4>2. Role' = "clean"
        BY <1>1, <1>3, <2>1, <3>1, <4>1, Leads
      <4>3. l = "movers" \/ \E i \in 1..0 : B'.steps[i] = Sweep(l)
        BY <1>3, <4>2 DEF Behind
      <4>4. QED
        BY <3>2, <4>3
    <3>5. QED
      BY <3>3, <3>4
  <2>2. CASE Role = "clean"
    <3>1. CASE l = "movers"
      BY <2>2, <3>1 DEF Behind
    <3>2. CASE script = "bazarr" /\ l = "volumes"
      BY <3>2 DEF Uses
    <3>3. CASE l # "movers" /\ ~(script = "bazarr" /\ l = "volumes")
      <4>1. CASE S.op = "report"
        <5>1. S = Report
          BY <2>2, <4>1, InClean, CleanupCommands DEF Ledgers
        <5>2. Done("containers", step - 1) /\ Done("volumes", step - 1)
          BY <2>2, <5>1, InClean
        <5>3. QED
          BY <2>2, <3>3, <5>2 DEF Behind, Done, Sorts
      <4>2. CASE S.op # "report"
        <5>1. Went /\ step = Len(B.steps)
          BY <1>3, <4>2
        <5>2. Done(l, step)
          BY <2>2, <3>3, <5>1, InClean DEF Sorts
        <5>3. PICK i \in 1..step : B.steps[i] = Sweep(l)
          BY <5>2 DEF Done
        <5>4. i = step \/ i \in 1..step - 1
          BY <1>1, <5>3
        <5>5. QED
          BY <2>2, <5>1, <5>3, <5>4 DEF S, Behind
      <4>3. QED
        BY <4>1, <4>2
    <3>4. QED
      BY <3>1, <3>2, <3>3
  <2>3. CASE Role = "last"
    BY <2>3 DEF Behind
  <2>4. QED
    BY <1>1, <2>1, <2>2, <2>3
<1>4. QED
  BY <1>2, <1>3, Leads

\* A command at the same place.
LEMMA BehindSame ==
  ASSUME script' = script, block' = block, step' = step, NEW l
  PROVE  Behind(l)' <=> Behind(l)
<1>1. B' = B /\ Role' = Role
  BY DEF B, Program, Role
<1>2. QED
  BY <1>1 DEF Behind

LEMMA BehindGoesOn ==
  ASSUME NoSweep \notin Seq(Names), PlaceInv, FaultInv, ListInv, BehindInv, CoverInv, DrillStep,
         Running, Cleaning, SameHost, Went \/ (Halted /\ S.op = "report"),
         S.op = "sweep" => EndSweep
  PROVE  BehindInv'
<1> SUFFICES ASSUME NEW l \in Sorts, Behind(l)' PROVE Empty(l)'
  BY DEF BehindInv, Sorts
<1>1. script' = script /\ HostInv
  BY Flow, ListParts
<1>2. Behind(l) \/ ~Uses(l) \/ (Went /\ S = Sweep(l))
  BY <1>1, BehindNext
<1>3. Empty(l)' <=> Empty(l)
  BY DEF SameHost, Empty
<1>4. CASE Behind(l)
  BY <1>3, <1>4 DEF BehindInv
<1>5. CASE ~Uses(l)
  BY <1>1, <1>3, <1>5, Unused
<1>6. CASE Went /\ S = Sweep(l)
  <2>1. EndSweep /\ S.on[1] = l /\ l \in Ledgers
    BY <1>6, CleanupCommands DEF Sorts, Ledgers
  <2>2. Empty(l)
    BY <1>1, <2>1, Ended, NothingRemains
  <2>3. QED
    BY <1>3, <2>2
<1>7. QED
  BY <1>2, <1>4, <1>5, <1>6

LEMMA NoTodo ==
  ASSUME PlaceInv, FaultInv, DrillStep, ~At("sweep") PROVE todo = NoSweep /\ todo' = NoSweep
<1>1. todo = NoSweep
  BY DEF PlaceInv
<1>2. QED
  BY <1>1, Flow DEF Stayed, Went, Halted, Noted, At

LEMMA Follows ==
  ASSUME PlaceInv, FaultInv, Running, Cleaning, script' = script, Went \/ Halted
  PROVE  \/ /\ Went /\ step < Len(B.steps) /\ block' = block /\ step' = step + 1
            /\ Role' = Role /\ B' = B
         \/ /\ step' = 1 /\ (Went => step = Len(B.steps))
            /\ Role' \in {"clean", "receipt", "last", "end"}
            /\ Role' = "end" => Role \in {"clean", "last"}
            /\ Role' = "end" /\ Role = "clean" => script \in {"bazarr", "fence"}
<1>1. Role \in {"movers", "clean", "last"}
  BY OpAt
<1>2. Final(script) \in {"last", "end"} /\ (Final(script) = "end" => script \in {"bazarr", "fence"})
  BY DEF Final
<1>3. CASE /\ Went /\ step < Len(B.steps) /\ block' = block /\ step' = step + 1
           /\ Role' = Role /\ B' = B
  BY <1>3
<1>4. CASE /\ step' = 1 /\ (Went => step = Len(B.steps))
           /\ Role = "movers" => Role' = IF script = "pds" THEN "clean"
                                         ELSE IF raised' THEN "last" ELSE "receipt"
           /\ Role = "clean" => Role' = IF raised' THEN Final(script) ELSE "receipt"
           /\ Role = "last" => Role' = "end"
  BY <1>1, <1>2, <1>4
<1>5. QED
  BY <1>3, <1>4, Leads

LEMMA MoversGone ==
  ASSUME CaptureInv, Empty("movers") PROVE busy = {}
  BY DEF CaptureInv, Empty

LEMMA FixtureGoesOn ==
  ASSUME NoSweep \notin Seq(Names), PlaceInv, FaultInv, ListInv, CaptureInv, CoverInv, FixtureInv,
         DrillStep, Running, Cleaning, SameHost, repos' = repos,
         Went \/ (Halted /\ S.op = "report"), S.op = "sweep" => EndSweep,
         S.op \notin {"launch", "purge"}
  PROVE  FixtureInv'
<1>1. /\ Role \in {"movers", "clean", "last"} /\ busy' = busy /\ script' = script /\ HostInv
      /\ step \in 1..Len(B.steps) /\ Len(B.steps) \in Nat /\ repos \subseteq Kinds
  BY OpAt, Placed, Flow, ListParts DEF SameHost, CaptureInv
<1>2. CASE Role = "movers"
  <2>1. /\ step \in {1, 2, 3, 4, 5, 6, 7} /\ Len(B.steps) = 7
        /\ step = 1 => S = Renew
        /\ step \in {2, 6} => S = Sweep("movers")
        /\ step = 3 => S = Launch
        /\ step = 4 => S = Purge("nas")
        /\ step = 5 => S = Purge("r2")
    BY <1>2, InMovers
  <2>2. step \in {1, 2, 6, 7} /\ (S.op = "report" => step = 7)
    BY <2>1, CleanupCommands DEF Kinds, Ledgers
  <2>3. ASSUME step = 2 PROVE busy = {}
    <3>1. EndSweep /\ S.on[1] = "movers"
      BY <2>1, <2>3, CleanupCommands DEF Ledgers
    <3>2. Empty("movers")
      BY <1>1, <3>1, Ended, NothingRemains DEF Ledgers, Sorts
    <3>3. QED
      BY <3>2, MoversGone
  <2>4. step >= 6 => busy = {} /\ repos = {}
    BY <1>1, <1>2, <2>2 DEF FixtureInv, Kinds
  <2>5. CASE /\ Went /\ step < Len(B.steps) /\ block' = block /\ step' = step + 1
             /\ Role' = Role /\ B' = B
    <3>1. step' \in {2, 3, 7} /\ (step' = 3 => step = 2) /\ (step' = 7 => step = 6)
      BY <2>1, <2>2, <2>5
    <3>2. QED
      BY <1>1, <1>2, <2>3, <2>4, <2>5, <3>1 DEF FixtureInv
  <2>6. CASE /\ step' = 1 /\ (Went => step = Len(B.steps))
             /\ Role' \in {"clean", "receipt", "last", "end"}
    <3>1. step = 7
      BY <2>1, <2>2, <2>6
    <3>2. QED
      BY <1>1, <2>4, <2>6, <3>1 DEF FixtureInv
  <2>7. QED
    BY <1>1, <2>5, <2>6, Follows
<1>3. CASE Role \in {"clean", "last"}
  <2>1. repos' = {} /\ busy' = {}
    BY <1>1, <1>3 DEF FixtureInv
  <2>2. Role' # "movers"
    BY <1>1, <1>3, Follows
  <2>3. QED
    BY <2>1, <2>2 DEF FixtureInv
<1>4. QED
  BY <1>1, <1>2, <1>3

\* The fence has no tools volume, and where a last block is it sweeps it.
LEMMA ToolsGoOn ==
  ASSUME NoSweep \notin Seq(Names), PlaceInv, FaultInv, ListInv, CoverInv,
         DrillStep, Running, Cleaning, SameHost,
         Went \/ (Halted /\ S.op = "report"), S.op = "sweep" => EndSweep
  PROVE  ToolsInv'
<1> SUFFICES ASSUME Role' = "end", script # "bazarr" PROVE Tools \notin volumes
  BY Flow DEF ToolsInv, SameHost
<1>1. script' = script /\ HostInv
  BY Flow, ListParts
<1>2. CASE script = "fence"
  BY <1>1, <1>2, ToolsName DEF HostInv, Kept, Uses
<1>3. CASE script # "fence"
  <2>1. \/ Role' = Role /\ Role \in {"movers", "clean", "last"}
        \/ Role = "last"
    BY <1>1, <1>3, Follows, OpAt
  <2>2. S = Sweep("tools")
    BY <2>1, InLast
  <2>3. EndSweep /\ S.on[1] = "tools"
    BY <2>2, CleanupCommands DEF Ledgers
  <2>4. QED
    BY <1>1, <2>3, Ended, NothingRemains DEF Ledgers
<1>4. QED
  BY <1>2, <1>3

LEMMA SamePlace ==
  ASSUME PlaceInv, FaultInv, ListInv, BehindInv, FixtureInv, ToolsInv, DrillStep,
         block' = block, step' = step, Role # "body", \A o \in Outcomes : ~RunContainer(o)
  PROVE  BehindInv' /\ FixtureInv' /\ ToolsInv'
<1>1. script' = script /\ HostInv
  BY Flow, ListParts
<1>2. Role' = Role
  BY <1>1 DEF Role
<1>3. ASSUME NEW l \in Sorts, Behind(l)' PROVE Empty(l)'
  BY <1>1, <1>3, BehindSame, StaysEmpty DEF BehindInv
<1>4. BehindInv'
  BY <1>3 DEF BehindInv, Sorts
<1>5. FixtureInv'
  <2>1. Role = "movers" => step \in 1..Len(B.steps) /\ Len(B.steps) \in Nat
    BY Placed DEF Role, RoleAt, Running, PlaceInv
  <2>2. busy' \subseteq busy /\ (busy = {} => repos' \subseteq repos)
    BY Quiet
  <2>3. CASE Role = "movers"
    <3>1. /\ step >= 3 => busy' = {}
          /\ step >= 5 => "nas" \notin repos'
          /\ step >= 6 => "r2" \notin repos'
      BY <2>1, <2>2, <2>3 DEF FixtureInv
    <3>2. QED
      BY <1>2, <2>3, <3>1 DEF FixtureInv
  <2>4. CASE Role # "movers"
    BY <1>2, <2>2, <2>4 DEF FixtureInv
  <2>5. QED
    BY <2>3, <2>4
<1>6. ASSUME Role = "end", Tools \in volumes' PROVE Tools \in volumes
  <2>1. ASSUME NEW o \in Outcomes PROVE ~CreateVolume(o)
    BY <1>6, CreateAt DEF CreateVolume
  <2>2. QED
    BY <1>1, <1>6, <2>1, Shrinks
<1>7. ToolsInv'
  BY <1>1, <1>2, <1>6, Shrinks DEF ToolsInv
<1>8. QED
  BY <1>4, <1>5, <1>7
-----------------------------------------------------------------------------
(* The names a sweep has still to look for cover what remains *)

LEMMA CoverBegins ==
  ASSUME PlaceInv, ListInv, NetInv, script' = script, BeginSweep PROVE CoverInv'
<1>1. /\ At("sweep") /\ S' = S /\ todo' = InOrder(S.on[1])
      /\ containers' = containers /\ volumes' = volumes /\ orphans' = orphans
  BY DEF BeginSweep, S, B, Program, host, progress
<1>2. /\ S.on[1] # "tools" =>
           \A m : Includes(listed[S.on[1]], m) => Includes(InOrder(S.on[1]), m)
      /\ S.on[1] = "tools" => Includes(InOrder(S.on[1]), Tools)
  BY <1>1, InOrderKind
<1>3. S.on[1] \in Ledgers /\ HostInv
  BY <1>1, SweepAt, ListParts DEF At
<1>4. ASSUME NEW n \in Remaining(S.on[1]) PROVE Includes(InOrder(S.on[1]), n)
  <2>1. CASE S.on[1] = "volumes"
    <3>1. n \in volumes /\ n[1] = "volumes" /\ n \notin orphans
      BY <1>4, <2>1 DEF Remaining
    <3>2. Includes(listed["volumes"], n)
      BY <1>3, <3>1, ToolsName DEF HostInv, Kept
    <3>3. QED
      BY <1>2, <2>1, <3>2
  <2>2. CASE S.on[1] = "tools"
    <3>1. n \in volumes /\ n[1] = "tools"
      BY <1>4, <2>2 DEF Remaining
    <3>2. n = Tools
      BY <1>3, <3>1, NameKind DEF HostInv, Kept
    <3>3. QED
      BY <1>2, <2>2, <3>2
  <2>3. CASE S.on[1] \in {"movers", "containers"}
    <3>1. n \in DOMAIN containers /\ n[1] = S.on[1]
      BY <1>4, <2>3 DEF Remaining
    <3>2. Includes(listed[S.on[1]], n)
      BY <1>3, <3>1 DEF HostInv, Hosted
    <3>3. QED
      BY <1>2, <2>3, <3>2
  <2>4. QED
    BY <1>3, <2>1, <2>2, <2>3 DEF Ledgers
<1>5. Remaining(S.on[1])' = Remaining(S.on[1])
  BY <1>1 DEF Remaining
<1>6. QED
  BY <1>1, <1>4, <1>5 DEF CoverInv

LEMMA Shrunk ==
  ASSUME PlaceInv, At("sweep"), S' = S, DOMAIN containers' \subseteq DOMAIN containers,
         volumes' \subseteq volumes, orphans \subseteq orphans'
  PROVE  /\ Remaining(S.on[1])' \subseteq Remaining(S.on[1])
         /\ Remaining(S.on[1])' \subseteq DOMAIN containers' \cup volumes'
<1>1. S.on[1] \in Ledgers
  BY SweepAt DEF At
<1>2. CASE S.on[1] = "volumes"
  BY <1>2 DEF Remaining
<1>3. CASE S.on[1] = "tools"
  BY <1>3 DEF Remaining
<1>4. CASE S.on[1] \in {"movers", "containers"}
  BY <1>4 DEF Remaining
<1>5. QED
  BY <1>1, <1>2, <1>3, <1>4 DEF Ledgers

LEMMA CoverKeeps ==
  ASSUME PlaceInv, ListInv, CoverInv, DrillStep, At("sweep"), block' = block, step' = step,
         \/ todo' = todo
         \/ /\ todo \notin {NoSweep, << >>} /\ todo' = Tail(todo)
            /\ Head(todo) \notin DOMAIN containers' \cup volumes'
  PROVE  CoverInv'
<1>1. script' = script /\ HostInv /\ Cleaning
  BY Flow, ListParts, SweepAt DEF At
<1>2. S' = S
  BY <1>1 DEF S, B, Program
<1>3. ASSUME NEW o \in Outcomes PROVE ~RunContainer(o) /\ ~CreateVolume(o)
  BY DEF RunContainer, CreateVolume, At
<1>4. /\ Remaining(S.on[1])' \subseteq Remaining(S.on[1])
      /\ Remaining(S.on[1])' \subseteq DOMAIN containers' \cup volumes'
  BY <1>1, <1>2, <1>3, Shrinks, Shrunk
<1>5. CASE todo' = todo
  BY <1>4, <1>5 DEF CoverInv
<1>6. CASE /\ todo \notin {NoSweep, << >>} /\ todo' = Tail(todo)
           /\ Head(todo) \notin DOMAIN containers' \cup volumes'
  <2>1. TodoInv(todo)
    BY <1>6 DEF PlaceInv, TodoInv
  <2>2. \A m : Includes(todo, m) => m = Head(todo) \/ Includes(Tail(todo), m)
    BY <1>6, <2>1, TailKind
  <2>3. QED
    BY <1>4, <1>6, <2>2 DEF CoverInv
<1>7. QED
  BY <1>5, <1>6

\* A missing name stops bazarr's cleanup, which had no other to look for.
LEMMA MissingRaises ==
  ASSUME PlaceInv, ListInv, CoverInv, BehindInv, FixtureInv, FaultInv,
         DrillStep, SweepMissing, ~Skips, ~Collects
  PROVE  BehindInv' /\ FixtureInv' /\ ToolsInv' /\ todo' = NoSweep
<1>1. /\ Running /\ S.op = "sweep" /\ SameHost /\ repos' = repos /\ script' = script
      /\ ~Exists(Head(todo)) /\ todo \notin {NoSweep, << >>} /\ HostInv
      /\ Halted /\ todo' = NoSweep
  <2>1. Raise /\ todo' = NoSweep /\ S.op = "sweep"
    BY DEF SweepMissing, Trouble, Sweeping, At
  <2>2. Halted
    BY <2>1 DEF Raise, Goto, Halted
  <2>3. QED
    BY <2>1, <2>2, Flow, ListParts DEF SweepMissing, Sweeping, At, SameHost, host, progress
<1>2. Role \in {"movers", "clean", "last"} /\ Cleaning
  BY <1>1, SweepAt
<1>3. Role # "movers"
  BY <1>1, SweepAt, InMovers DEF Collects, Moving
<1>4. Role = "clean" => script = "bazarr"
  <2>1. Role = "clean" /\ S = Sweep("tools") => script = "bazarr"
    BY <1>1, InClean
  <2>2. QED
    BY <1>1, <2>1, SweepAt DEF Collects, Skips
<1>5. Role' = "end"
  <2>1. raised' = TRUE /\ step' = 1 /\ step \in 1..Len(B.steps) /\ Len(B.steps) \in Nat
    BY <1>1, Placed DEF Halted
  <2>2. step' # step + 1
    BY <2>1
  <2>3. /\ Role = "clean" => Role' = IF raised' THEN Final(script) ELSE "receipt"
        /\ Role = "last" => Role' = "end"
    BY <1>1, <2>2, Leads
  <2>4. script = "bazarr" => Final(script) = "end"
    BY DEF Final
  <2>5. QED
    BY <1>2, <1>3, <1>4, <2>1, <2>3, <2>4
<1>6. Includes(todo, Head(todo)) /\ TodoInv(todo)
  <2>1. TodoInv(todo) /\ todo # << >>
    BY <1>1 DEF PlaceInv, TodoInv
  <2>2. QED
    BY <2>1, Tailed DEF TodoInv, Includes
<1>7. Head(todo) \in Names /\ Head(todo)[1] = S.on[1] /\ (script = "bazarr" => Tail(todo) = << >>)
      /\ \A m : Includes(todo, m) => m = Head(todo) \/ Includes(Tail(todo), m)
  BY <1>1, <1>6, TailKind
<1>8. ASSUME NEW l \in Sorts PROVE Empty(l)
  <2>1. CASE Role = "last"
    BY <1>8, <2>1 DEF BehindInv, Behind
  <2>2. CASE Role = "clean" /\ l = "movers"
    BY <1>8, <2>2 DEF BehindInv, Behind
  <2>3. CASE Role = "clean" /\ l = "volumes"
    BY <1>1, <1>4, <1>8, <2>3, Unused DEF Uses
  <2>4. CASE Role = "clean" /\ l = "containers" /\ S = Sweep("tools")
    <3>1. Done("containers", step - 1)
      BY <1>1, <2>4, InClean
    <3>2. QED
      BY <1>8, <2>4, <3>1 DEF BehindInv, Behind, Done
  <2>5. CASE Role = "clean" /\ l = "containers" /\ S = Sweep("containers")
    <3>1. \A n \in Remaining("containers") : Includes(todo, n)
      BY <1>1, <2>5, CleanupCommands DEF CoverInv, Ledgers
    <3>2. \A n : ~Includes(<< >>, n)
      BY DEF Includes
    <3>3. \A n \in Remaining("containers") : n = Head(todo)
      BY <1>4, <1>7, <2>5, <3>1, <3>2
    <3>4. Head(todo) \notin DOMAIN containers
      BY <1>1 DEF Exists
    <3>5. QED
      BY <2>5, <3>3, <3>4 DEF Remaining, Empty
  <2>6. Role = "clean" => S = Sweep("containers") \/ S = Sweep("tools")
    BY <1>1, <1>4, InClean, CleanupCommands DEF Ledgers
  <2>7. QED
    BY <1>2, <1>3, <1>8, <2>1, <2>2, <2>3, <2>4, <2>5, <2>6 DEF Sorts
<1>9. BehindInv'
  <2>1. \A l \in Sorts : Empty(l)'
    BY <1>1, <1>8 DEF SameHost, Empty
  <2>2. QED
    BY <2>1 DEF BehindInv, Sorts
<1>10. FixtureInv'
  <2>1. repos = {} /\ busy = {}
    BY <1>2, <1>3 DEF FixtureInv
  <2>2. QED
    BY <1>1, <1>5, <2>1 DEF FixtureInv, SameHost
<1>11. ToolsInv'
  <2>1. CASE Role = "last"
    <3>1. Head(todo) = Tools
      BY <1>1, <1>7, <2>1, SweepAt, NameKind
    <3>2. Tools \notin volumes
      BY <1>1, <3>1 DEF Exists
    <3>3. QED
      BY <1>1, <3>2 DEF ToolsInv, SameHost
  <2>2. CASE Role = "clean"
    BY <1>1, <1>4, <2>2 DEF ToolsInv
  <2>3. QED
    BY <1>2, <1>3, <2>1, <2>2
<1>12. QED
  BY <1>1, <1>9, <1>10, <1>11
-----------------------------------------------------------------------------
(* The whole of it *)

LEMMA RoleNext ==
  ASSUME PlaceInv, FaultInv, DrillStep, ~Cleaning
  PROVE  /\ Role = "setup" => Role' \in {"setup", "body", "last", "end"}
         /\ Role = "setup" /\ Role' = "end" => S = Create(Tools, TRUE) /\ B.catch = 0
         /\ Role = "body" => \/ Role' = "body"
                             \/ Role' = "movers" /\ step' = 1
                             \/ Role' = "clean" /\ step' = 1 /\ script \notin Moving
         /\ Role = "receipt" => Role' \in {"receipt", "last", "end"}
         /\ Role = "receipt" /\ Role' = "end" => script \in {"bazarr", "fence"}
         /\ Role = "end" => Role' = "end"
         /\ Role \in {"setup", "body", "receipt", "end"}
<1>1. script' = script
  BY Flow
<1>2. Role \in {"setup", "body", "receipt", "end"}
  BY OpAt DEF Role, RoleAt, Running, PlaceInv
<1>3. CASE Stayed
  <2>1. Role' = Role
    BY <1>1, <1>3 DEF Stayed, Role
  <2>2. Role # "end" /\ Role' = Role => (Role = "setup" => Role' # "end")
    OBVIOUS
  <2>3. QED
    BY <1>2, <2>1
<1>4. CASE Running /\ (Went \/ Halted)
  <2>1. /\ Final(script) \in {"last", "end"}
        /\ Final(script) = "end" => script \in {"bazarr", "fence"}
    BY DEF Final
  <2>2. Role \in {"setup", "body", "receipt"}
    BY <1>2, <1>4, Placed
  <2>3. CASE Role' = Role
    BY <2>2, <2>3
  <2>4. CASE /\ step' = 1
             /\ Role = "setup" =>
                  Role' \in (IF raised' THEN {"last", "end"} ELSE {"setup", "body"})
             /\ Role = "setup" /\ Role' = "end" => S = Create(Tools, TRUE) /\ B.catch = 0 /\ Halted
             /\ Role = "body" => Role' = IF script \in Moving THEN "movers" ELSE "clean"
             /\ Role = "receipt" => Role' = Final(script)
    BY <2>1, <2>2, <2>4
  <2>5. QED
    BY <1>1, <1>4, <2>3, <2>4, Leads
<1>5. CASE Running /\ Noted
  BY <1>1, <1>5, NotedAt
<1>6. QED
  BY <1>3, <1>4, <1>5, Flow

LEMMA EarlySwept ==
  ASSUME PlaceInv, FaultInv, ListInv, CaptureInv, ListInv', CaptureInv', SweptParts, DrillStep,
         ~Cleaning
  PROVE  SweptParts'
<1>1. /\ script' = script /\ HostInv /\ HostInv' /\ BehindInv /\ FixtureInv /\ ToolsInv
      /\ Role \in {"setup", "body", "receipt", "end"}
  BY Flow, ListParts, ListPartsNext, RoleNext DEF SweptParts
<1>2. ~At("sweep")
  BY SweepAt DEF At
<1>3. CoverInv'
  BY <1>2, NoTodo DEF CoverInv
<1>4. CASE Role = "body"
  <2>1. ASSUME NEW l \in Sorts, Behind(l)' PROVE Empty(l)'
    <3>1. Role' = "clean" /\ script \notin Moving /\ step' = 1
      BY <1>4, <2>1, RoleNext DEF Behind
    <3>2. l = "movers" \/ \E i \in 1..0 : B'.steps[i] = Sweep(l)
      BY <2>1, <3>1 DEF Behind
    <3>3. ~Uses("movers")'
      BY <1>1, <3>1 DEF Uses
    <3>4. \A c \in DOMAIN containers' : c[1] # "movers"
      BY <1>1, <3>3 DEF HostInv, Hosted
    <3>5. QED
      BY <3>2, <3>4 DEF Empty
  <2>2. BehindInv'
    BY <2>1 DEF BehindInv, Sorts
  <2>3. FixtureInv'
    BY <1>1, <1>4, RoleNext DEF FixtureInv, CaptureInv
  <2>4. ToolsInv'
    BY <1>4, RoleNext DEF ToolsInv
  <2>5. QED
    BY <1>3, <2>2, <2>3, <2>4 DEF SweptParts
<1>5. CASE Role \in {"setup", "receipt", "end"}
  <2>1. \A o \in Outcomes : ~RunContainer(o)
    <3>1. ASSUME NEW o \in Outcomes, RunContainer(o) PROVE FALSE
      <4>1. Running /\ S.op \in {"run", "launch"}
        BY <3>1 DEF RunContainer, At
      <4>2. QED
        BY <1>5, <4>1, StartAt, ListParts
    <3>2. QED
      BY <3>1
  <2>2. ASSUME NEW l \in Sorts PROVE Empty(l)'
    <3>1. Empty(l)
      BY <1>1, <1>5, <2>2 DEF BehindInv, Behind
    <3>2. QED
      BY <1>1, <1>5, <2>1, <2>2, <3>1, StaysEmpty
  <2>3. BehindInv'
    BY <2>2 DEF BehindInv, Sorts
  <2>4. FixtureInv'
    <3>1. repos' = {} /\ busy' = {}
      BY <1>1, <1>5, Quiet DEF FixtureInv
    <3>2. Role' # "movers"
      BY <1>5, RoleNext
    <3>3. QED
      BY <3>1, <3>2 DEF FixtureInv
  <2>5. ToolsInv'
    <3> SUFFICES ASSUME Role' = "end", script # "bazarr", Tools \in volumes'
                 PROVE  Tools \in orphans'
      BY <1>1 DEF ToolsInv
    <3>1. script # "fence"
      BY <1>1, ToolsName DEF HostInv, Kept, Uses
    <3>2. orphans \subseteq orphans' /\ \A v \in volumes' :
            v \in volumes \/ \E o \in Outcomes : CreateVolume(o) /\ v = S.on
      BY <1>1, <2>1, Shrinks
    <3>3. CASE Role = "end"
      <4>1. \A o \in Outcomes : ~CreateVolume(o)
        BY <3>3, CreateAt DEF CreateVolume
      <4>2. QED
        BY <1>1, <3>2, <3>3, <4>1 DEF ToolsInv
    <3>4. CASE Role = "setup"
      <4>1. S = Create(Tools, TRUE) /\ B.catch = 0 /\ Tools \notin volumes
        BY <3>4, RoleNext DEF ListInv
      <4>2. PICK o \in Outcomes : CreateVolume(o)
        BY <3>2, <4>1
      <4>3. o # "done"
        <5>1. ASSUME o = "done" PROVE FALSE
          <6>1. Running /\ Went
            BY <4>2, <5>1, WorkingWorks DEF Working, Worked
          <6>2. ~Halted
            BY <3>4, <6>1, Flags DEF Went, Halted, FaultInv
          <6>3. step \in 1..Len(B.steps) /\ Len(B.steps) \in Nat
            BY <6>1, Placed
          <6>4. QED
            BY <1>1, <3>4, <6>1, <6>2, <6>3, Leads
        <5>2. QED
          BY <5>1
      <4>4. o = "lost" /\ S.on = Tools
        BY <4>1, <4>2, <4>3 DEF CreateVolume, Landed, Outcomes, Create
      <4>5. QED
        BY <4>1, <4>2, <4>4 DEF CreateVolume
    <3>5. QED
      BY <1>5, <3>1, <3>3, <3>4, RoleNext
  <2>6. QED
    BY <1>3, <2>3, <2>4, <2>5 DEF SweptParts
<1>6. QED
  BY <1>1, <1>4, <1>5

LEMMA LaunchSwept ==
  ASSUME PlaceInv, FaultInv, FixtureInv, CaptureInv, DrillStep, Running, Cleaning,
         RunContainer("done") \/ PurgeFixture("done")
  PROVE  SweptParts'
<1>1. Working("done") /\ S.op \in {"launch", "purge"} /\ script' = script
  <2>1. S.op \in {"run", "launch", "purge"}
    BY DEF RunContainer, PurgeFixture, At
  <2>2. QED
    BY <2>1, OpAt, Flow DEF Working
<1>2. Went /\ Role = "movers" /\ step \in 1..7 /\ Len(B.steps) = 7
  <2>1. Role = "movers"
    BY <1>1, OpAt DEF WorkOps
  <2>2. QED
    BY <1>1, <2>1, WorkingWorks, InMovers DEF Worked
<1>3. \/ step = 3 /\ S.op = "launch"
      \/ step = 4 /\ S.op = "purge" /\ S.kind = "nas"
      \/ step = 5 /\ S.op = "purge" /\ S.kind = "r2"
  <2>1. /\ step \in {1, 2, 3, 4, 5, 6, 7}
        /\ step = 1 => S = Renew
        /\ step \in {2, 6} => S = Sweep("movers")
        /\ step = 3 => S = Launch
        /\ step = 4 => S = Purge("nas")
        /\ step = 5 => S = Purge("r2")
        /\ step = 7 => S = Report
    BY <1>2, InMovers
  <2>2. QED
    BY <1>1, <2>1, CleanupCommands DEF Kinds, Ledgers
<1>4. step' = step + 1 /\ Role' = "movers"
  <2>1. step # 7
    BY <1>3
  <2>2. QED
    BY <1>1, <1>2, <2>1, Follows
<1>5. busy = {} /\ busy' = {}
  BY <1>2, <1>3, Quiet DEF FixtureInv
<1>6. FixtureInv'
  <2>1. CASE step = 3
    BY <1>4, <1>5, <2>1 DEF FixtureInv
  <2>2. CASE step = 4 /\ S.op = "purge" /\ S.kind = "nas"
    <3>1. "nas" \notin repos'
      BY <2>2 DEF PurgeFixture, RunContainer, At, Landed
    <3>2. QED
      BY <1>4, <1>5, <2>2, <3>1 DEF FixtureInv
  <2>3. CASE step = 5 /\ S.op = "purge" /\ S.kind = "r2"
    <3>1. "r2" \notin repos' /\ repos' \subseteq repos
      BY <2>3 DEF PurgeFixture, RunContainer, At, Landed
    <3>2. "nas" \notin repos
      BY <1>2, <2>3 DEF FixtureInv
    <3>3. QED
      BY <1>4, <1>5, <2>3, <3>1, <3>2 DEF FixtureInv
  <2>4. QED
    BY <1>3, <2>1, <2>2, <2>3
<1>7. BehindInv'
  <2>1. step' \notin {3, 7}
    BY <1>3, <1>4
  <2>2. QED
    BY <1>4, <2>1 DEF BehindInv, Behind
<1>8. CoverInv'
  BY <1>1, NoTodo DEF CoverInv, At
<1>9. QED
  BY <1>4, <1>6, <1>7, <1>8 DEF SweptParts, ToolsInv

LEMMA GoesOnSwept ==
  ASSUME NoSweep \notin Seq(Names), PlaceInv, FaultInv, ListInv, CaptureInv, SweptParts, DrillStep,
         Running, Cleaning, EndSweep \/ RenewDeadline \/ ReportFailures
  PROVE  SweptParts'
<1>1. /\ SameHost /\ repos' = repos
      /\ Went \/ (Halted /\ S.op = "report")
      /\ S.op = "sweep" => EndSweep
      /\ S.op \notin {"launch", "purge"}
  <2>1. CASE EndSweep
    BY <2>1, Ended DEF SweptParts
  <2>2. CASE RenewDeadline
    BY <2>2 DEF RenewDeadline, At, SameHost, host, progress, Went
  <2>3. CASE ReportFailures
    BY <2>3 DEF ReportFailures, Raise, Goto, At, SameHost, host, progress, Went, Halted
  <2>4. QED
    BY <2>1, <2>2, <2>3
<1>2. todo' = NoSweep
  BY <1>1, NoTodo DEF EndSweep, At
<1>3. QED
  BY <1>1, <1>2, BehindGoesOn, FixtureGoesOn, ToolsGoOn DEF SweptParts, CoverInv

LEMMA SweepsSwept ==
  ASSUME NoSweep \notin Seq(Names), PlaceInv, FaultInv, ListInv, SweptParts, NetInv, DrillStep,
         Running, Cleaning, SweepOne("done") \/ BeginSweep \/ Idle \/ SweepMissing
  PROVE  SweptParts'
<1>1. /\ HostInv /\ script' = script /\ Role # "body"
      /\ \A o \in Outcomes : ~RunContainer(o) \/ ~(SweepOne("done") \/ BeginSweep \/ SweepMissing)
  <2>1. ASSUME NEW o \in Outcomes, RunContainer(o), SweepOne("done") \/ BeginSweep \/ SweepMissing
        PROVE  FALSE
    BY <2>1 DEF RunContainer, SweepOne, BeginSweep, SweepMissing, Sweeping, At
  <2>2. QED
    BY <2>1, ListParts, Flow, OpAt
<1>2. CASE Idle
  <2>1. /\ block' = block /\ step' = step /\ todo' = todo /\ containers' = containers
        /\ listed' = listed
    BY <1>2 DEF Idle, Expire, FinishCapture, EndStray, host, progress
  <2>2. ASSUME NEW o \in Outcomes, RunContainer(o) PROVE FALSE
    <3>1. NewName \in Names /\ S.op \in {"run", "launch"}
      BY <2>2, StartAt, ListParts DEF RunContainer, At
    <3>2. listed'[NewName[1]] = Append(listed[NewName[1]], NewName) /\ NewName[1] \in Ledgers
      BY <2>2, <3>1, ListedOne, ListParts, NameKind DEF RunContainer
    <3>3. /\ listed[NewName[1]] \in Seq(Names)
          /\ Len(Append(listed[NewName[1]], NewName)) = Len(listed[NewName[1]]) + 1
      BY <3>1, <3>2, Appended, ListParts DEF LedgerInv
    <3>4. QED
      BY <2>1, <3>2, <3>3
  <2>3. BehindInv' /\ FixtureInv' /\ ToolsInv'
    BY <1>1, <2>1, <2>2, SamePlace DEF SweptParts
  <2>4. CoverInv'
    <3>1. CASE At("sweep")
      BY <2>1, <3>1, CoverKeeps DEF SweptParts
    <3>2. CASE ~At("sweep")
      BY <3>2, NoTodo DEF CoverInv
    <3>3. QED
      BY <3>1, <3>2
  <2>5. QED
    BY <2>3, <2>4 DEF SweptParts
<1>3. CASE BeginSweep
  <2>1. block' = block /\ step' = step
    BY <1>3 DEF BeginSweep
  <2>2. BehindInv' /\ FixtureInv' /\ ToolsInv'
    BY <1>1, <1>3, <2>1, SamePlace DEF SweptParts
  <2>3. QED
    BY <1>1, <1>3, <2>2, CoverBegins DEF SweptParts
<1>4. CASE SweepOne("done")
  <2>1. /\ block' = block /\ step' = step /\ At("sweep") /\ todo \notin {NoSweep, << >>}
        /\ todo' = Tail(todo) /\ Removable(Head(todo)) /\ Gone(Head(todo))
    BY <1>4 DEF SweepOne, Sweeping, Landed
  <2>2. BehindInv' /\ FixtureInv' /\ ToolsInv'
    BY <1>1, <1>4, <2>1, SamePlace DEF SweptParts
  <2>3. Head(todo) \notin DOMAIN containers' \cup volumes'
    BY <1>1, <2>1, RemovesOne
  <2>4. CoverInv'
    BY <2>1, <2>3, CoverKeeps DEF SweptParts
  <2>5. QED
    BY <2>2, <2>4 DEF SweptParts
<1>5. CASE SweepMissing
  <2>1. /\ At("sweep") /\ S.op = "sweep" /\ todo \notin {NoSweep, << >>}
        /\ containers' = containers /\ volumes' = volumes
        /\ Head(todo) \notin DOMAIN containers' \cup volumes'
    BY <1>5 DEF SweepMissing, Sweeping, At, Exists, host
  <2>2. CASE Skips \/ Collects
    <3>1. block' = block /\ step' = step /\ todo' = Tail(todo)
      BY <1>5, <2>1, <2>2 DEF SweepMissing, Trouble, Note
    <3>2. BehindInv' /\ FixtureInv' /\ ToolsInv'
      BY <1>1, <1>5, <3>1, SamePlace DEF SweptParts
    <3>3. CoverInv'
      BY <2>1, <3>1, CoverKeeps DEF SweptParts
    <3>4. QED
      BY <3>2, <3>3 DEF SweptParts
  <2>3. CASE ~Skips /\ ~Collects
    BY <1>5, <2>3, MissingRaises DEF SweptParts, CoverInv
  <2>4. QED
    BY <2>2, <2>3
<1>6. QED
  BY <1>2, <1>3, <1>4, <1>5

LEMMA SweptStep ==
  ASSUME NoSweep \notin Seq(Names), PlaceInv, FaultInv, ListInv, CaptureInv, SweptInv, NetInv,
         DrillStep
  PROVE  SweptInv'
<1> SUFFICES ASSUME Smooth' PROVE SweptParts' /\ EarlyInv'
  BY SweptSplitsNext
<1>1. ListInv' /\ CaptureInv'
  BY ListStep, CapturesStep
<1>2. EarlyInv'
  BY <1>1 DEF EarlyInv, ListInv, Ledgers
<1>3. SweptParts
  BY SmoothBack, SweptSplits
<1>4. CASE ~Cleaning
  BY <1>1, <1>2, <1>3, <1>4, EarlySwept
<1>5. CASE Cleaning
  <2>1. Running /\ FixtureInv
    BY <1>3, <1>5 DEF Cleaning, SweptParts
  <2>2. CASE RunContainer("done") \/ PurgeFixture("done")
    BY <1>2, <1>5, <2>1, <2>2, LaunchSwept
  <2>3. CASE EndSweep \/ RenewDeadline \/ ReportFailures
    BY <1>2, <1>3, <1>5, <2>1, <2>3, GoesOnSwept
  <2>4. CASE SweepOne("done") \/ BeginSweep \/ Idle \/ SweepMissing
    BY <1>2, <1>3, <1>5, <2>1, <2>4, SweepsSwept
  <2>5. QED
    BY <1>5, <2>1, <2>2, <2>3, <2>4, Unhindered
<1>6. QED
  BY <1>4, <1>5
-----------------------------------------------------------------------------
(* The points that have been restored *)

Restoring(o) == /\ S.op = "restore" /\ o = "done" /\ DOMAIN restored' = DOMAIN restored
                /\ restored'[S.kind] \in {1, 2}
                /\ \A k \in Kinds : k # S.kind => restored'[k] = restored[k]

LEMMA Points ==
  ASSUME PlaceInv, PointInv, NEW o, Working(o)
  PROVE  /\ restored' \in [Kinds -> 0..2]
         /\ restored' = restored \/ (Role = "body" /\ Restoring(o))
         /\ S.op = "restore" /\ o = "done" => Restoring(o)
         /\ S.op = "check" /\ o = "done" => restored[S.kind] = 1
         /\ S.op = "compare" /\ o = "done" => restored["nas"] = restored["r2"]
<1>1. Running /\ restored \in [Kinds -> 0..2]
  BY WorkingWorks DEF PointInv
<1>2. CASE RestorePoint(o)
  <2>1. S.op = "restore" /\ Role = "body" /\ S.kind \in Kinds
    <3>1. S.op = "restore"
      BY <1>2 DEF RestorePoint, At
    <3>2. Role = "body"
      BY <1>1, <3>1, OpAt
    <3>3. QED
      BY <1>1, <3>1, <3>2, InBody DEF BodyStep
  <2>2. CASE o = "done"
    <3>1. PICK v \in {1, 2} : restored' = [restored EXCEPT ![S.kind] = v]
      BY <1>2, <2>2 DEF RestorePoint
    <3>2. QED
      BY <1>1, <2>1, <2>2, <3>1 DEF Restoring
  <2>3. CASE o # "done"
    BY <1>1, <1>2, <2>1, <2>3 DEF RestorePoint
  <2>4. QED
    BY <2>2, <2>3
<1>3. CASE ~RestorePoint(o)
  <2>1. restored' = restored /\ S.op # "restore"
    BY <1>3 DEF Working, At, CreateVolume, RunContainer, RunTask, CaptureFixture, Verify,
                CompareOriginals, Command, RemoveOwned, PurgeFixture, progress
  <2>2. S.op = "check" /\ o = "done" => restored[S.kind] = 1
    BY DEF Working, At, CreateVolume, RunContainer, RunTask, CaptureFixture, Verify, RestorePoint,
           CompareOriginals, Command, RemoveOwned, PurgeFixture
  <2>3. S.op = "compare" /\ o = "done" => restored["nas"] = restored["r2"]
    BY DEF Working, At, CreateVolume, RunContainer, RunTask, CaptureFixture, Verify, RestorePoint,
           CompareOriginals, Command, RemoveOwned, PurgeFixture
  <2>4. QED
    BY <1>1, <2>1, <2>2, <2>3
<1>4. QED
  BY <1>2, <1>3

\* What else a step does to the points: nothing.
LEMMA PointsStay ==
  ASSUME DrillStep, restored' # restored PROVE \E o \in Outcomes : Working(o)
<1>1. ASSUME NEW o \in Outcomes, SweepOne(o) PROVE restored' = restored
  BY <1>1 DEF SweepOne
<1>2. ASSUME Aside PROVE restored' = restored
  BY <1>2 DEF Aside, BeginSweep, EndSweep, SweepMissing, Impossible, RenewDeadline,
              ReportFailures, GiveReceipt, Expire, Refuse, Interrupt, FinishCapture, EndStray,
              progress
<1>3. QED
  BY <1>1, <1>2, Splits

\* A command of the body verifies what the command says.
LEMMA KnownStep ==
  ASSUME PlaceInv, PointInv, Role = "body", Working("done")
  PROVE  Known(B.steps, step, restored')
<1> DEFINE p == B.steps
<1>1. /\ step \in Nat \ {0} /\ restored \in [Kinds -> 0..2] /\ S = p[step]
      /\ Known(p, step - 1, restored)
      /\ restored' \in [Kinds -> 0..2]
      /\ restored' = restored \/ Restoring("done")
      /\ S.op = "restore" => Restoring("done")
      /\ S.op = "check" => restored[S.kind] = 1
      /\ S.op = "compare" => restored["nas"] = restored["r2"]
  <2>1. step \in 1..Len(B.steps) /\ Len(B.steps) \in Nat
    BY WorkingWorks, Placed
  <2>2. QED
    BY <2>1, Points DEF PointInv, S
<1> HIDE DEF p
<1>2. ASSUME NEW k \in Kinds, PassedBy(p, step, k) PROVE restored'[k] = 1
  <2>1. PICK i \in 1..step : /\ p[i].op = "check" /\ p[i].kind = k
                             /\ \A j \in i + 1..step : ~(p[j].op = "restore" /\ p[j].kind = k)
    BY <1>2 DEF PassedBy
  <2>2. CASE i = step
    BY <1>1, <2>1, <2>2 DEF Restoring
  <2>3. CASE i # step
    <3>1. PassedBy(p, step - 1, k)
      BY <1>1, <2>1, <2>3 DEF PassedBy
    <3>2. ~(S.op = "restore" /\ S.kind = k)
      BY <1>1, <2>1, <2>3
    <3>3. restored[k] = 1
      BY <1>1, <1>2, <3>1 DEF Known
    <3>4. QED
      BY <1>1, <1>2, <3>2, <3>3 DEF Restoring
  <2>4. QED
    BY <2>2, <2>3
<1>3. ASSUME NEW k \in Kinds, GotBy(p, step, k) PROVE restored'[k] # 0
  <2>1. PICK i \in 1..step : p[i].op = "restore" /\ p[i].kind = k
    BY <1>3 DEF GotBy
  <2>2. CASE S.op = "restore" /\ S.kind = k
    BY <1>1, <2>2 DEF Restoring
  <2>3. CASE ~(S.op = "restore" /\ S.kind = k)
    <3>1. GotBy(p, step - 1, k)
      BY <1>1, <2>1, <2>3 DEF GotBy
    <3>2. restored[k] # 0
      BY <1>1, <1>3, <3>1 DEF Known
    <3>3. QED
      BY <1>1, <1>3, <2>3, <3>2 DEF Restoring
  <2>4. QED
    BY <2>2, <2>3
<1>4. ASSUME MatchedBy(p, step) PROVE restored'["nas"] = restored'["r2"]
  <2>1. PICK i \in 1..step : p[i].op = "compare" /\ \A j \in i + 1..step : p[j].op # "restore"
    BY <1>4 DEF MatchedBy
  <2>2. S.op # "restore"
    BY <1>1, <2>1
  <2>3. restored' = restored
    BY <1>1, <2>2 DEF Restoring
  <2>4. CASE i = step
    BY <1>1, <2>1, <2>3, <2>4
  <2>5. CASE i # step
    <3>1. MatchedBy(p, step - 1)
      BY <1>1, <2>1, <2>5 DEF MatchedBy
    <3>2. QED
      BY <1>1, <2>3, <3>1 DEF Known
  <2>6. QED
    BY <2>4, <2>5
<1>5. QED
  BY <1>2, <1>3, <1>4 DEF Known, p

LEMMA BodyWent ==
  ASSUME PlaceInv, FaultInv, DrillStep, Running, Role = "body", Role' # "body", ~raised'
  PROVE  Working("done") /\ step = Len(B.steps)
<1>1. /\ S.op \in WorkOps /\ script' = script /\ ~raised /\ ~Halted /\ ~Noted
      /\ step \in 1..Len(B.steps) /\ Len(B.steps) \in Nat
  BY OpAt, Flow, Placed DEF FaultInv, Halted, Noted, WorkOps
<1>2. ~Stayed
  BY <1>1 DEF Stayed, Role
<1>3. Went
  BY <1>1, <1>2, Flow
<1>4. step = Len(B.steps)
  BY <1>1, <1>3, Leads
<1>5. ASSUME NEW o \in Outcomes, Working(o) PROVE Working("done")
  BY <1>1, <1>5, WorkingWorks DEF Worked
<1>6. ASSUME NEW o \in Outcomes PROVE ~SweepOne(o)
  BY <1>1, SweepOneFlow DEF WorkOps
<1>7. ~Aside
  <2>1. ~(\/ BeginSweep \/ EndSweep \/ SweepMissing
          \/ RenewDeadline \/ ReportFailures \/ GiveReceipt)
    BY <1>1 DEF WorkOps, BeginSweep, EndSweep, SweepMissing, Sweeping, At, RenewDeadline,
                ReportFailures, GiveReceipt
  <2>2. ~Trouble
    BY <1>1, Troubles DEF WorkOps
  <2>3. ~(Expire \/ FinishCapture \/ EndStray)
    BY <1>2 DEF Expire, FinishCapture, EndStray, Stayed
  <2>4. QED
    BY <1>1, <2>1, <2>2, <2>3 DEF Aside, Impossible, Refuse, Interrupt, Raise
<1>8. QED
  BY <1>4, <1>5, <1>6, <1>7, Splits

LEMMA RoleLater ==
  ASSUME PlaceInv, FaultInv, DrillStep, Cleaning
  PROVE  /\ Role \in {"movers", "clean", "last"}
         /\ Role' \in {"movers", "clean", "receipt", "last", "end"}
         /\ Role = "last" => Role' \in {"last", "end"}
<1>1. Running /\ Role \in {"movers", "clean", "last"} /\ script' = script
  BY OpAt, Flow DEF Cleaning
<1>2. CASE Stayed \/ Noted
  <2>1. Role' = Role
    BY <1>1, <1>2, NotedAt DEF Stayed, Role
  <2>2. QED
    BY <1>1, <2>1
<1>3. CASE Went \/ Halted
  <2>1. Role = "last" => Role' \in {"last", "end"}
    BY <1>1, <1>3, Leads
  <2>2. QED
    BY <1>1, <1>3, <2>1, Follows
<1>4. QED
  BY <1>1, <1>2, <1>3, Flow

LEMMA ReceiptOnly ==
  ASSUME DrillStep, receipt' # receipt PROVE GiveReceipt
<1>1. ASSUME NEW o \in Outcomes, Working(o) \/ SweepOne(o) PROVE receipt' = receipt
  BY <1>1, WorkingWorks, SweepOneFlow DEF Worked
<1>2. ASSUME Aside PROVE receipt' = receipt \/ GiveReceipt
  BY <1>2 DEF Aside, BeginSweep, EndSweep, SweepMissing, Impossible, RenewDeadline,
     ReportFailures, Expire, Refuse, Interrupt, FinishCapture, EndStray
<1>3. QED
  BY <1>1, <1>2, Splits

\* When the receipt is given, the host and the backends are empty.
LEMMA EmptyHost ==
  ASSUME ListInv, FaultInv, SweptInv, Role = "receipt"
  PROVE  /\ DOMAIN containers = {} /\ volumes \subseteq {Tools} /\ repos = {} /\ busy = {}
         /\ ~raised
<1>1. ~raised /\ ~failures /\ orphans = {} /\ HostInv
  BY ListParts DEF FaultInv
<1>2. BehindInv /\ FixtureInv
  BY <1>1, SweptSplits DEF Smooth, SweptParts
<1>3. Empty("movers") /\ Empty("containers") /\ Empty("volumes")
  BY <1>2 DEF BehindInv, Behind, Sorts
<1>4. DOMAIN containers = {}
  BY <1>1, <1>3 DEF Empty, HostInv, Hosted
<1>5. volumes \subseteq {Tools}
  BY <1>1, <1>3 DEF Empty, HostInv, Kept
<1>6. QED
  BY <1>1, <1>2, <1>4, <1>5 DEF FixtureInv

\* Nothing is created or restored any more.
LEMMA LateHost ==
  ASSUME PlaceInv, FaultInv, ListInv, PointInv, DrillStep, Role \in {"last", "end"}
  PROVE  /\ DOMAIN containers' \subseteq DOMAIN containers /\ volumes' \subseteq volumes
         /\ restored' = restored /\ Role' \in {"last", "end"} /\ script' = script
<1>1. HostInv /\ script' = script
  BY ListParts, Flow
<1>2. ASSUME NEW o \in Outcomes PROVE ~RunContainer(o)
  <2>1. ASSUME RunContainer(o) PROVE FALSE
    <3>1. Running /\ S.op \in {"run", "launch"}
      BY <2>1 DEF RunContainer, At
    <3>2. QED
      BY <3>1, StartAt, ListParts
  <2>2. QED
    BY <2>1
<1>3. ASSUME NEW o \in Outcomes PROVE ~CreateVolume(o)
  BY CreateAt DEF CreateVolume
<1>4. DOMAIN containers' \subseteq DOMAIN containers /\ volumes' \subseteq volumes
  BY <1>1, <1>2, <1>3, Shrinks
<1>5. restored' = restored
  BY Points, PointsStay
<1>6. Role' \in {"last", "end"}
  BY RoleNext, RoleLater
<1>7. QED
  BY <1>1, <1>4, <1>5, <1>6

LEMMA PointStep ==
  ASSUME PlaceInv, FaultInv, ListInv, CaptureInv, SweptInv, PointInv, NetInv, DrillStep
  PROVE  PointInv'
<1>1. /\ FaultInv' /\ script' = script /\ (raised => raised')
  BY FaultStep, Flow, Unraised
<1>2. restored' \in [Kinds -> 0..2]
  BY Points, PointsStay DEF PointInv
<1>3. ASSUME Role' = "body" PROVE Known(B.steps, step - 1, restored)'
  <2>1. CASE step' = 1
    BY <2>1 DEF Known, PassedBy, GotBy, MatchedBy
  <2>2. CASE Role = "body" /\ Idle /\ block' = block /\ step' = step /\ B' = B
    <3>1. restored' = restored
      BY <2>2 DEF Idle, Expire, FinishCapture, EndStray, progress
    <3>2. QED
      BY <2>2, <3>1 DEF PointInv
  <2>3. CASE Role = "body" /\ Working("done") /\ block' = block /\ step' = step + 1 /\ B' = B
    <3>1. Known(B.steps, step, restored')
      BY <2>3, KnownStep
    <3>2. step' - 1 = step
      <4>1. step \in 1..Len(B.steps) /\ Len(B.steps) \in Nat
        BY <2>3, WorkingWorks, Placed
      <4>2. QED
        BY <2>3, <4>1
    <3>3. QED
      BY <2>3, <3>1, <3>2
  <2>4. QED
    BY <1>3, <2>1, <2>2, <2>3, WithinBody
<1>4. ASSUME ~raised', Role' \in {"movers", "clean", "receipt"} PROVE Verified'
  <2>1. ~raised /\ Role \in {"body", "movers", "clean", "receipt"}
    BY <1>1, <1>4, RoleNext, RoleLater
  <2>2. CASE Role = "body"
    <3>1. Running
      BY <2>2 DEF Role, RoleAt, Running, PlaceInv
    <3>2. Working("done") /\ step = Len(B.steps)
      BY <1>4, <2>2, <3>1, BodyWent
    <3>3. Known(B.steps, Len(B.steps), restored')
      BY <2>2, <3>2, KnownStep
    <3>4. Sound(script, B.steps)
      BY <2>2, <3>1, InBody DEF Body
    <3>5. script \notin {"fence", "bazarr"} => restored'["nas"] = 1 /\ restored'["r2"] = 1
      BY <3>3, <3>4 DEF Sound, Checked, Known, Kinds
    <3>6. script = "bazarr" => restored'["nas"] # 0 /\ restored'["nas"] = restored'["r2"]
      BY <3>3, <3>4 DEF Sound, Restores, Known, Kinds
    <3>7. QED
      BY <1>1, <3>5, <3>6 DEF Verified
  <2>3. CASE Role \in {"movers", "clean", "receipt"}
    <3>1. restored' = restored
      BY <2>3, Points, PointsStay
    <3>2. QED
      BY <1>1, <2>1, <2>3, <3>1 DEF PointInv, Verified
  <2>4. QED
    BY <2>1, <2>2, <2>3
<1>5. ASSUME receipt' PROVE Role' \in {"last", "end"} /\ ReceiptHonest'
  <2>1. CASE receipt
    <3>1. /\ Role \in {"last", "end"} /\ DOMAIN containers = {} /\ volumes \subseteq {Tools}
          /\ repos = {} /\ busy = {} /\ Verified
      BY <2>1 DEF PointInv, ReceiptHonest, Verified
    <3>2. /\ DOMAIN containers' = {} /\ volumes' \subseteq {Tools}
          /\ restored' = restored /\ Role' \in {"last", "end"} /\ repos' = {} /\ busy' = {}
      BY <3>1, LateHost, Quiet
    <3>3. QED
      BY <1>1, <3>1, <3>2 DEF ReceiptHonest, Verified
  <2>2. CASE ~receipt
    <3>1. GiveReceipt
      BY <1>5, <2>2, ReceiptOnly
    <3>2. Running /\ S.op = "receipt" /\ Role = "receipt"
      <4>1. Running /\ S.op = "receipt"
        BY <3>1 DEF GiveReceipt, At
      <4>2. QED
        BY <4>1, OpAt DEF WorkOps
    <3>3. /\ DOMAIN containers = {} /\ volumes \subseteq {Tools} /\ repos = {} /\ busy = {}
          /\ ~raised
      BY <3>2, EmptyHost
    <3>4. Verified
      BY <3>2, <3>3 DEF PointInv
    <3>5. /\ containers' = containers /\ volumes' = volumes /\ repos' = repos /\ busy' = busy
          /\ restored' = restored /\ Went
      BY <3>1 DEF GiveReceipt, host, progress, Went, At
    <3>6. Role' \in {"last", "end"}
      <4>1. step = Len(B.steps) /\ step \in 1..Len(B.steps) /\ Len(B.steps) \in Nat
        BY <3>2, InReceipt, Placed
      <4>2. Role' = Final(script)
        BY <1>1, <3>2, <3>5, <4>1, Leads
      <4>3. QED
        BY <4>2 DEF Final
    <3>7. QED
      BY <1>1, <3>3, <3>4, <3>5, <3>6 DEF ReceiptHonest, Verified
  <2>3. QED
    BY <2>1, <2>2
<1>6. QED
  BY <1>2, <1>3, <1>4, <1>5 DEF PointInv
-----------------------------------------------------------------------------
(* The networks and the boots *)

\* Whoever has a network is removed before anything boots, and the other way round.
LEMMA LoneOpen ==
  ASSUME NEW x \in Reading, NEW p, All(x, p), Lone(p), NEW n \in Nat, Len(p) \in Nat, n <= Len(p),
         NEW cs, OpenBy(p, n, cs)
  PROVE  /\ (\E c \in DOMAIN cs : cs[c].boot) => \A c \in DOMAIN cs : ~cs[c].net
         /\ n + 1 <= Len(p) /\ p[n + 1].op = "boot" => \A c \in DOMAIN cs : ~cs[c].net
<1>1. ASSUME NEW c \in DOMAIN cs, cs[c].net
      PROVE  \E i \in 1..n : \E m \in i + 1..Len(p) :
               /\ p[i].op = "run" /\ p[i].on = c /\ p[i].net /\ p[i].boot = cs[c].boot
               /\ m > n /\ \A k \in i + 1..m : ~Boots(p[k])
  <2>1. PICK i \in 1..n : /\ p[i].op = "run" /\ p[i].on = c
                          /\ p[i].net = cs[c].net /\ p[i].boot = cs[c].boot
                          /\ \A j \in i + 1..n : p[j] # Drop(c)
    BY <1>1 DEF OpenBy
  <2>2. i \in 1..Len(p) /\ p[i].net
    BY <1>1, <2>1
  <2>3. PICK m \in i + 1..Len(p) : p[m] = Drop(c) /\ \A k \in i + 1..m : ~Boots(p[k])
    BY <2>1, <2>2 DEF Lone, Nets
  <2>4. m > n
    BY <2>1, <2>3
  <2>5. QED
    BY <2>1, <2>2, <2>3, <2>4
<1>2. ASSUME NEW c \in DOMAIN cs, cs[c].boot
      PROVE  \E i \in 1..n : \E m \in i + 1..Len(p) :
               /\ p[i].op = "run" /\ p[i].on = c /\ p[i].boot /\ p[i].net = cs[c].net
               /\ m > n /\ \A k \in i + 1..m : ~Nets(p[k])
  <2>1. PICK i \in 1..n : /\ p[i].op = "run" /\ p[i].on = c
                          /\ p[i].net = cs[c].net /\ p[i].boot = cs[c].boot
                          /\ \A j \in i + 1..n : p[j] # Drop(c)
    BY <1>2 DEF OpenBy
  <2>2. i \in 1..Len(p) /\ p[i].boot
    BY <1>2, <2>1
  <2>3. PICK m \in i + 1..Len(p) : p[m] = Drop(c) /\ \A k \in i + 1..m : ~Nets(p[k])
    BY <2>1, <2>2 DEF Lone
  <2>4. m > n
    BY <2>1, <2>3
  <2>5. QED
    BY <2>1, <2>2, <2>3, <2>4
<1>3. ASSUME NEW c \in DOMAIN cs, cs[c].boot, NEW d \in DOMAIN cs, cs[d].net PROVE FALSE
  <2>1. PICK i \in 1..n : \E m \in i + 1..Len(p) :
          /\ p[i].op = "run" /\ p[i].on = c /\ p[i].boot /\ p[i].net = cs[c].net
          /\ m > n /\ \A k \in i + 1..m : ~Nets(p[k])
    BY <1>2, <1>3
  <2>2. PICK j \in 1..n : \E m \in j + 1..Len(p) :
          /\ p[j].op = "run" /\ p[j].on = d /\ p[j].net /\ p[j].boot = cs[d].boot
          /\ m > n /\ \A k \in j + 1..m : ~Boots(p[k])
    BY <1>1, <1>3
  <2>3. CASE i < j
    BY <2>1, <2>2, <2>3 DEF Nets
  <2>4. CASE j < i
    BY <2>1, <2>2, <2>4 DEF Boots
  <2>5. CASE i = j
    <3>1. BodyStep(x, p[i])
      BY <2>1 DEF All
    <3>2. QED
      BY <2>1, <2>2, <2>5, <3>1 DEF BodyStep
  <2>6. QED
    BY <2>3, <2>4, <2>5
<1>4. ASSUME n + 1 <= Len(p), p[n + 1].op = "boot", NEW d \in DOMAIN cs, cs[d].net PROVE FALSE
  <2>1. PICK j \in 1..n : \E m \in j + 1..Len(p) :
          /\ p[j].op = "run" /\ p[j].on = d /\ p[j].net /\ p[j].boot = cs[d].boot
          /\ m > n /\ \A k \in j + 1..m : ~Boots(p[k])
    BY <1>1, <1>4
  <2>2. QED
    BY <1>4, <2>1 DEF Boots
<1>5. QED
  BY <1>3, <1>4

\* A container that stays is the one it was.
LEMMA Remains ==
  ASSUME HostInv, DrillStep, \A o \in Outcomes : ~RunContainer(o)
  PROVE  \A c \in DOMAIN containers' : c \in DOMAIN containers /\ containers'[c] = containers[c]
<1>1. CASE Untouched
  BY <1>1 DEF Untouched
<1>2. CASE Refuse
  BY <1>2 DEF Refuse, host
<1>3. ASSUME NEW o \in Outcomes, CreateVolume(o) PROVE containers' = containers
  BY <1>3 DEF CreateVolume
<1>4. ASSUME NEW n, Removable(n), Gone(n) \/ UNCHANGED <<containers, volumes, busy>>
      PROVE  \A c \in DOMAIN containers' : c \in DOMAIN containers /\ containers'[c] = containers[c]
  BY <1>4, RemovesOne
<1>5. ASSUME NEW o \in Outcomes, RemoveOwned(o)
      PROVE  \A c \in DOMAIN containers' : c \in DOMAIN containers /\ containers'[c] = containers[c]
  <2>1. Removable(Target) /\ (Gone(Target) \/ UNCHANGED <<containers, volumes, busy>>)
    BY <1>5 DEF RemoveOwned
  <2>2. QED
    BY <1>4, <2>1
<1>6. ASSUME NEW o \in Outcomes, SweepOne(o)
      PROVE  \A c \in DOMAIN containers' : c \in DOMAIN containers /\ containers'[c] = containers[c]
  <2>1. Removable(Head(todo)) /\ (Gone(Head(todo)) \/ UNCHANGED <<containers, volumes, busy>>)
    BY <1>6 DEF SweepOne
  <2>2. QED
    BY <1>4, <2>1
<1>7. QED
  BY <1>1, <1>2, <1>3, <1>5, <1>6, Footprint

\* Which action the command of a body is.
LEMMA ByOp ==
  ASSUME NEW o, Working(o)
  PROVE  /\ S.op \in {"run", "launch"} => RunContainer(o)
         /\ S.op = "remove" => RemoveOwned(o)
         /\ S.op \notin {"run", "launch", "remove", "create"} => listed' = listed
         /\ S.op # "remove" /\ S.op \notin {"run", "launch"} => containers' = containers
<1>1. S.op \in {"run", "launch"} => RunContainer(o)
  BY DEF Working, At, CreateVolume, RunTask, CaptureFixture, RestorePoint, Verify,
         CompareOriginals, Command, RemoveOwned, PurgeFixture
<1>2. S.op = "remove" => RemoveOwned(o)
  BY DEF Working, At, CreateVolume, RunContainer, RunTask, CaptureFixture, RestorePoint, Verify,
         CompareOriginals, Command, PurgeFixture
<1>3. S.op \notin {"run", "launch", "remove", "create"} => listed' = listed
  BY DEF Working, At, CreateVolume, RunContainer, RunTask, CaptureFixture, RestorePoint, Verify,
         CompareOriginals, Command, RemoveOwned, PurgeFixture, progress, host
<1>4. S.op # "remove" /\ S.op \notin {"run", "launch"} => containers' = containers
  BY DEF Working, At, CreateVolume, RunContainer, RunTask, CaptureFixture, RestorePoint, Verify,
         CompareOriginals, Command, RemoveOwned, PurgeFixture, progress, host
<1>5. QED
  BY <1>1, <1>2, <1>3, <1>4

\* The commands of a body of a script that has no movers.
LEMMA ReadingBody ==
  ASSUME PlaceInv, Running, Role = "body", script \in Reading
  PROVE  /\ All(script, B.steps) /\ Lone(B.steps) /\ (script = "bazarr" => Single(B.steps))
         /\ step \in 1..Len(B.steps) /\ Len(B.steps) \in Nat /\ S = B.steps[step]
         /\ S.op \in {"run", "remove"} => S.on # Mover /\ Target = S.on /\ NewName = S.on
         /\ S.op # "launch" /\ script \notin Moving
<1>1. script \notin Moving
  BY DEF Reading, Moving
<1>2. BodyStep(script, S) /\ S.op \in WorkOps /\ Body(script, B.steps)
  BY InBody
<1>3. S.op \in {"run", "remove"} => S.on # Mover
  <2>1. Mover[1] = "movers"
    BY DEF Mover
  <2>2. QED
    BY <1>1, <1>2, <2>1 DEF BodyStep
<1>4. QED
  BY <1>1, <1>2, <1>3, Placed DEF Body, Piece, S, WorkOps, Target, NewName

LEMMA OpenStep ==
  ASSUME PlaceInv, ListInv, NetInv, DrillStep, Running, Role = "body", script \in Reading
  PROVE  /\ \/ OpenBy(B.steps, step - 1, containers')
            \/ OpenBy(B.steps, step, containers')
         /\ Working("done") => OpenBy(B.steps, step, containers')
<1> DEFINE p == B.steps
<1>1. /\ step \in 1..Len(p) /\ Len(p) \in Nat /\ S = p[step] /\ OpenBy(p, step - 1, containers)
      /\ S.op \in {"run", "remove"} => Target = S.on /\ NewName = S.on
      /\ HostInv /\ S.op # "launch"
  BY ReadingBody, ListParts DEF NetInv
<1> HIDE DEF p
<1>2. \A c : Drop(c).op = "remove" /\ Drop(c).on = c
  BY DEF Drop
<1>3. ASSUME NEW o \in Outcomes, RunContainer(o) PROVE OpenBy(p, step, containers')
  <2>1. S.op = "run"
    BY <1>1, <1>3 DEF RunContainer, At
  <2> SUFFICES ASSUME NEW c \in DOMAIN containers', containers'[c].net \/ containers'[c].boot
               PROVE  \E i \in 1..step :
                        /\ p[i].op = "run" /\ p[i].on = c
                        /\ p[i].net = containers'[c].net /\ p[i].boot = containers'[c].boot
                        /\ \A j \in i + 1..step : p[j] # Drop(c)
    BY DEF OpenBy
  <2>2. CASE c = NewName
    <3>1. containers'[c].net = S.net /\ containers'[c].boot = S.boot
      BY <1>3, <2>2, Started
    <3>2. QED
      BY <1>1, <2>1, <2>2, <3>1
  <2>3. CASE c # NewName
    <3>1. c \in DOMAIN containers /\ containers'[c] = containers[c]
      BY <1>3, <2>3, Started
    <3>2. PICK i \in 1..step - 1 :
                        /\ p[i].op = "run" /\ p[i].on = c
                        /\ p[i].net = containers[c].net /\ p[i].boot = containers[c].boot
                        /\ \A j \in i + 1..step - 1 : p[j] # Drop(c)
      BY <1>1, <3>1 DEF OpenBy
    <3>3. p[step] # Drop(c)
      BY <1>1, <1>2, <2>1
    <3>4. QED
      BY <1>1, <3>1, <3>2, <3>3
  <2>4. QED
    BY <2>2, <2>3
<1>4. ASSUME \A o \in Outcomes : ~RunContainer(o)
      PROVE  /\ OpenBy(p, step - 1, containers')
             /\ Working("done") => OpenBy(p, step, containers')
  <2>1. \A c \in DOMAIN containers' : c \in DOMAIN containers /\ containers'[c] = containers[c]
    BY <1>1, <1>4, Remains
  <2>2. OpenBy(p, step - 1, containers')
    BY <1>1, <2>1 DEF OpenBy
  <2>3. ASSUME Working("done") PROVE OpenBy(p, step, containers')
    <3>1. ASSUME NEW c \in DOMAIN containers', p[step] = Drop(c) PROVE FALSE
      <4>1. RemoveOwned("done") /\ Target = c
        BY <1>1, <1>2, <2>3, <3>1, ByOp
      <4>2. Removable(c) /\ Gone(c)
        BY <4>1 DEF RemoveOwned, Landed
      <4>3. QED
        BY <1>1, <3>1, <4>2, RemovesOne
    <3> SUFFICES ASSUME NEW c \in DOMAIN containers', containers'[c].net \/ containers'[c].boot
                 PROVE  \E i \in 1..step :
                          /\ p[i].op = "run" /\ p[i].on = c
                          /\ p[i].net = containers'[c].net /\ p[i].boot = containers'[c].boot
                          /\ \A j \in i + 1..step : p[j] # Drop(c)
      BY DEF OpenBy
    <3>2. PICK i \in 1..step - 1 :
                        /\ p[i].op = "run" /\ p[i].on = c
                        /\ p[i].net = containers'[c].net /\ p[i].boot = containers'[c].boot
                        /\ \A j \in i + 1..step - 1 : p[j] # Drop(c)
      BY <2>2 DEF OpenBy
    <3>3. QED
      BY <1>1, <3>1, <3>2
  <2>4. QED
    BY <2>2, <2>3
<1>5. QED
  BY <1>3, <1>4 DEF p
-----------------------------------------------------------------------------
(* The ledger of bazarr's containers holds one name at a time *)

\* The names of the containers only change with a container, or with a refusal.
LEMMA NamesKept ==
  ASSUME PlaceInv, ListInv, DrillStep, ~Refuse, \A o \in Outcomes : ~RunContainer(o)
  PROVE  LET l == listed["containers"] IN
         \/ listed'["containers"] = l
         \/ \E n : listed'["containers"] = RemoveFirst(l, n)
<1>1. LedgerInv /\ "containers" \in Ledgers
  BY ListParts DEF Ledgers
<1>2. ASSUME NEW o \in Outcomes, CreateVolume(o)
      PROVE  listed'["containers"] = listed["containers"]
  <2>1. S.on \in Names /\ (S.on = Tools \/ S.on[1] = "volumes")
    BY <1>2, CreateAt DEF CreateVolume
  <2>2. CASE listed' = listed
    BY <2>2
  <2>3. CASE listed' # listed
    <3>1. List(S.on) /\ S.on # Tools
      BY <1>2, <2>3 DEF CreateVolume
    <3>2. QED
      BY <1>1, <2>1, <3>1, ListedOne
  <2>4. QED
    BY <2>2, <2>3
<1>3. ASSUME NEW n, Unlist(n) \/ UNCHANGED listed
      PROVE  \/ listed'["containers"] = listed["containers"]
             \/ listed'["containers"] = RemoveFirst(listed["containers"], n)
  BY <1>1, <1>3, UnlistedOne
<1>4. ASSUME NEW o \in Outcomes, RemoveOwned(o)
      PROVE  Unlist(Target) \/ UNCHANGED listed
  BY <1>4 DEF RemoveOwned
<1>5. ASSUME NEW o \in Outcomes, SweepOne(o)
      PROVE  Unlist(Head(todo)) \/ UNCHANGED listed
  BY <1>5 DEF SweepOne
<1>6. ASSUME Untouched PROVE listed' = listed
  BY <1>6 DEF Untouched
<1>7. QED
  BY <1>2, <1>3, <1>4, <1>5, <1>6, Footprint

\* In bazarr the name of the container before is off the list when one is started.
LEMMA BazarrStarts ==
  ASSUME PlaceInv, ListInv, NetInv, script = "bazarr", NEW o \in Outcomes, RunContainer(o)
  PROVE  /\ Role = "body" /\ listed["containers"] = << >> /\ S.op = "run"
         /\ listed'["containers"] = << S.on >>
<1>1. Running /\ S.op \in {"run", "launch"} /\ List(NewName)
  BY DEF RunContainer, At
<1>2. script \notin Moving /\ script \in Reading
  BY DEF Moving, Reading
<1>3. /\ Role = "body" /\ S.op = "run" /\ NewName = S.on /\ NewName \in Names
      /\ NewName[1] \in {"movers", "containers"} /\ Uses(NewName[1])
  BY <1>1, <1>2, StartAt, ListParts
<1>4. NewName[1] = "containers"
  BY <1>2, <1>3 DEF Uses
<1> DEFINE p == B.steps
           names == listed["containers"]
<1>5. /\ step \in 1..Len(p) /\ Len(p) \in Nat /\ S = p[step] /\ Single(p)
      /\ OneBy(p, step - 1, names)
  BY <1>1, <1>2, <1>3, ReadingBody DEF NetInv
<1> HIDE DEF p
<1>6. names = << >>
  <2> SUFFICES ASSUME names # << >> PROVE FALSE
    OBVIOUS
  <2>1. PICK i \in 1..step - 1 : /\ p[i].op = "run" /\ names = << p[i].on >>
                                 /\ \A j \in i + 1..step - 1 : p[j] # Drop(p[i].on)
    BY <1>5 DEF OneBy
  <2>2. i \in 1..Len(p)
    BY <1>5, <2>1
  <2>3. PICK j \in i + 1..Len(p) : p[j] = Drop(p[i].on) /\ \A k \in i + 1..j : p[k].op # "run"
    BY <1>5, <2>1, <2>2 DEF Single
  <2>4. j >= step
    BY <1>5, <2>1, <2>3
  <2>5. step \in i + 1..j
    BY <1>5, <2>1, <2>3, <2>4
  <2>6. QED
    BY <1>3, <1>5, <2>3, <2>5
<1>7. listed'["containers"] = << S.on >>
  <2>1. listed'["containers"] = Append(listed["containers"], S.on)
    BY <1>1, <1>3, <1>4, ListedOne, ListParts
  <2>2. QED
    BY <1>6, <2>1
<1>8. QED
  BY <1>3, <1>6, <1>7

LEMMA BazarrNames ==
  ASSUME PlaceInv, ListInv, NetInv, DrillStep, script = "bazarr"
  PROVE  Len(listed'["containers"]) <= 1
<1>1. /\ Len(listed["containers"]) <= 1 /\ listed["containers"] \in Seq(Names)
  BY ListParts DEF NetInv, LedgerInv, Ledgers
<1>2. CASE \E o \in Outcomes : RunContainer(o)
  <2>1. listed'["containers"] = << S.on >>
    BY <1>2, BazarrStarts
  <2>2. QED
    BY <2>1
<1>3. CASE Refuse
  BY <1>3 DEF Refuse, Bounded
<1>4. CASE ~Refuse /\ \A o \in Outcomes : ~RunContainer(o)
  <2>1. CASE listed'["containers"] = listed["containers"]
    BY <1>1, <2>1
  <2>2. ASSUME NEW n, listed'["containers"] = RemoveFirst(listed["containers"], n)
        PROVE  Len(listed'["containers"]) <= 1
    <3>1. Len(RemoveFirst(listed["containers"], n)) <= Len(listed["containers"])
      BY <1>1, Unlisted
    <3>2. RemoveFirst(listed["containers"], n) \in Seq(Names)
      BY <1>1, Unlisted
    <3>3. QED
      BY <1>1, <2>2, <3>1, <3>2
  <2>3. QED
    BY <1>4, <2>1, <2>2, NamesKept
<1>5. QED
  BY <1>2, <1>3, <1>4

\* After a command of bazarr's body the ledger is what its commands so far say.
LEMMA BazarrStep ==
  ASSUME PlaceInv, ListInv, NetInv, DrillStep, script = "bazarr", Role = "body", Running,
         Working("done")
  PROVE  OneBy(B.steps, step, listed'["containers"])
<1> DEFINE p == B.steps
           names == listed["containers"]
<1>1. script \in Reading
  BY DEF Reading
<1>2. /\ step \in 1..Len(p) /\ Len(p) \in Nat /\ S = p[step] /\ OneBy(p, step - 1, names)
      /\ S.op \in {"run", "remove"} => Target = S.on /\ NewName = S.on
      /\ S.op # "launch" /\ "done" \in Outcomes /\ LedgerInv /\ HostInv
  BY <1>1, ReadingBody, ListParts DEF NetInv, Outcomes
<1> HIDE DEF p
<1>3. \A c : Drop(c).op = "remove" /\ Drop(c).on = c
  BY DEF Drop
<1>4. CASE S.op = "run"
  <2>1. listed'["containers"] = << p[step].on >> /\ p[step].op = "run"
    BY <1>2, <1>4, ByOp, BazarrStarts
  <2>2. QED
    BY <1>2, <2>1 DEF OneBy, p
<1>5. CASE S.op = "remove"
  <2>1. RemoveOwned("done") /\ Target = S.on
    BY <1>2, <1>5, ByOp
  <2>2. Removable(S.on) /\ Unlist(S.on) /\ S.on \in Names
    BY <1>2, <2>1, RemovesOne DEF RemoveOwned
  <2>3. S.on[1] \in {"containers", "volumes"}
    <3>1. BodyStep(script, S) /\ script \notin Moving
      BY InBody DEF Moving
    <3>2. QED
      BY <1>5, <3>1 DEF BodyStep
  <2>4. S.on[1] = "containers" /\ S.on \in DOMAIN containers
    <3>1. ~Uses("volumes") /\ Tools[1] = "tools"
      BY DEF Uses, Tools
    <3>2. CASE S.on[1] = "volumes"
      <4>1. S.on \in volumes
        BY <1>2, <2>2, <3>2, RemovesOne
      <4>2. QED
        BY <1>2, <3>1, <3>2, <4>1 DEF HostInv, Kept
    <3>3. QED
      BY <1>2, <2>2, <2>3, <3>2, RemovesOne
  <2>5. names \in Seq(Names) /\ Len(names) <= 1 /\ Includes(names, S.on)
    BY <1>2, <2>4 DEF NetInv, LedgerInv, Ledgers, HostInv, Hosted
  <2>6. names = << S.on >>
    BY <2>5 DEF Includes
  <2>7. listed'["containers"] = RemoveFirst(names, S.on)
    BY <1>2, <2>2, <2>4, UnlistedOne DEF Ledgers
  <2>8. listed'["containers"] = << >>
    BY <2>5, <2>6, <2>7, Unlisted
  <2>9. QED
    BY <2>8 DEF OneBy
<1>6. CASE S.op \notin {"run", "remove"}
  <2>1. listed'["containers"] = names
    <3>1. S.op # "create"
      <4>1. BodyStep(script, S)
        BY InBody
      <4>2. QED
        BY <4>1 DEF BodyStep
    <3>2. QED
      BY <1>2, <1>6, <3>1, ByOp
  <2>2. CASE names = << >>
    BY <2>1, <2>2 DEF OneBy
  <2>3. ASSUME NEW i \in 1..step - 1, p[i].op = "run", names = << p[i].on >>,
               \A j \in i + 1..step - 1 : p[j] # Drop(p[i].on)
        PROVE  OneBy(p, step, listed'["containers"])
    <3>1. p[step] # Drop(p[i].on)
      BY <1>2, <1>3, <1>6
    <3>2. i \in 1..step /\ \A j \in i + 1..step : p[j] # Drop(p[i].on)
      BY <1>2, <2>3, <3>1
    <3>3. QED
      BY <2>1, <2>3, <3>2 DEF OneBy
  <2>4. QED
    BY <1>2, <2>2, <2>3 DEF OneBy, p
<1>7. QED
  BY <1>4, <1>5, <1>6

-----------------------------------------------------------------------------
(* Nothing boots beside a network *)

\* While the process is at a boot, its body has closed its networks.
BootPlace == At("boot") =>
  /\ Role = "body" /\ script \notin {"radarr", "fence"}
  /\ script \in Reading /\ OpenBy(B.steps, step - 1, containers)
       => \A c \in DOMAIN containers : ~containers[c].net

LEMMA BootsPlace == PlaceInv => BootPlace
<1> SUFFICES ASSUME PlaceInv, At("boot")
             PROVE  /\ Role = "body" /\ script \notin {"radarr", "fence"}
                    /\ script \in Reading /\ OpenBy(B.steps, step - 1, containers)
                         => \A c \in DOMAIN containers : ~containers[c].net
  BY DEF BootPlace
<1>1. Running /\ S.op = "boot"
  BY DEF At
<1>2. Role = "body"
  BY <1>1, OpAt
<1>3. script \notin {"radarr", "fence"}
  BY <1>1, <1>2, InBody DEF BodyStep
<1>4. ASSUME script \in Reading, OpenBy(B.steps, step - 1, containers)
      PROVE  \A c \in DOMAIN containers : ~containers[c].net
  <2>1. /\ All(script, B.steps) /\ Lone(B.steps) /\ step \in 1..Len(B.steps)
        /\ Len(B.steps) \in Nat /\ S = B.steps[step]
    BY <1>1, <1>2, <1>4, ReadingBody
  <2> DEFINE p == B.steps
             n == step - 1
  <2>2. /\ All(script, p) /\ Lone(p) /\ n \in Nat /\ Len(p) \in Nat /\ n <= Len(p)
        /\ n + 1 = step /\ n + 1 <= Len(p) /\ p[n + 1].op = "boot" /\ OpenBy(p, n, containers)
    BY <1>1, <1>4, <2>1
  <2> HIDE DEF p, n
  <2>3. QED
    BY <1>4, <2>2, LoneOpen
<1>5. QED
  BY <1>2, <1>3, <1>4

LEMMA BootsPlaceNext == PlaceInv' => BootPlace'
<1>1. (PlaceInv => BootPlace)'
  BY BootsPlace, PTL
<1>2. QED
  BY <1>1

\* What a container that appears is.
LEMMA Appears ==
  ASSUME PlaceInv, ListInv, DrillStep, NEW c \in DOMAIN containers'
  PROVE  \/ c \in DOMAIN containers /\ containers'[c] = containers[c]
         \/ /\ Running /\ S.op \in {"run", "launch"}
            /\ containers'[c].net = S.net /\ containers'[c].boot = S.boot
<1>1. CASE \A o \in Outcomes : ~RunContainer(o)
  BY <1>1, Remains, ListParts
<1>2. ASSUME NEW o \in Outcomes, RunContainer(o)
      PROVE  \/ c \in DOMAIN containers /\ containers'[c] = containers[c]
             \/ /\ Running /\ S.op \in {"run", "launch"}
                /\ containers'[c].net = S.net /\ containers'[c].boot = S.boot
  <2>1. Running /\ S.op \in {"run", "launch"}
    BY <1>2 DEF RunContainer, At
  <2>2. QED
    BY <1>2, <2>1, Started
<1>3. QED
  BY <1>1, <1>2

\* No container of radarr boots, and none of the fence has a network.
LEMMA TameStarts ==
  ASSUME PlaceInv, ListInv, Running, S.op \in {"run", "launch"}
  PROVE  /\ script = "radarr" => ~S.boot
         /\ script = "fence" => ~S.net
<1>1. /\ Role \in {"body", "movers"} /\ (Role = "body" <=> S.op = "run")
      /\ S.on = Mover => script \in Moving
  BY StartAt, ListParts
<1>2. CASE Role = "body"
  <2>1. BodyStep(script, S)
    BY <1>2, InBody
  <2>2. QED
    BY <1>1, <1>2, <2>1 DEF BodyStep
<1>3. CASE Role = "movers"
  <2>1. S = Launch
    <3>1. /\ step \in {1, 2, 3, 4, 5, 6, 7}
          /\ step = 1 => S = Renew
          /\ step \in {2, 6} => S = Sweep("movers")
          /\ step = 3 => S = Launch
          /\ step = 4 => S = Purge("nas")
          /\ step = 5 => S = Purge("r2")
          /\ step = 7 => S = Report
      BY <1>3, InMovers
    <3>2. QED
      BY <3>1, CleanupCommands DEF Kinds, Ledgers
  <2>2. ~Launch.boot /\ Launch.on = Mover
    BY CleanupCommands
  <2>3. QED
    BY <1>1, <2>1, <2>2 DEF Moving
<1>4. QED
  BY <1>1, <1>2, <1>3

\* The blocks before the body own nothing but the tools.
LEMMA SetupHost ==
  ASSUME PlaceInv, FaultInv, ListInv, DrillStep, Role = "setup", Role' = "body"
  PROVE  DOMAIN containers' = {} /\ listed'["containers"] = << >>
<1>1. HostInv /\ Running
  BY ListParts DEF Role, RoleAt, Running, PlaceInv
<1>2. \A l \in Ledgers : listed[l] = << >>
  BY DEF ListInv
<1>3. DOMAIN containers = {}
  <2> SUFFICES ASSUME NEW c \in DOMAIN containers PROVE FALSE
    OBVIOUS
  <2>1. c[1] \in {"movers", "containers"} /\ Includes(listed[c[1]], c)
    BY <1>1 DEF HostInv, Hosted
  <2>2. listed[c[1]] = << >>
    BY <1>2, <2>1 DEF Ledgers
  <2>3. Len(listed[c[1]]) = 0
    BY <2>2
  <2>4. QED
    BY <2>1, <2>3 DEF Includes
<1>4. S.op \in {"create", "task"}
  BY <1>1, OpAt
<1>5. ASSUME NEW o \in Outcomes PROVE ~RunContainer(o)
  BY <1>4 DEF RunContainer, At
<1>6. DOMAIN containers' = {}
  BY <1>1, <1>3, <1>5, Shrinks
<1>7. listed'["containers"] = << >>
  <2>1. ASSUME NEW o \in Outcomes, CreateVolume(o) PROVE listed' = listed
    <3>1. S.on = Tools
      BY <2>1, CreateAt DEF CreateVolume
    <3>2. QED
      BY <2>1, <3>1 DEF CreateVolume
  <2>2. ASSUME NEW o \in Outcomes PROVE ~RemoveOwned(o) /\ ~SweepOne(o)
    BY <1>4 DEF RemoveOwned, SweepOne, Sweeping, At
  <2>3. Refuse => listed' = listed
    BY <1>4 DEF Refuse
  <2>4. listed' = listed
    BY <1>5, <2>1, <2>2, <2>3, Footprint DEF Untouched
  <2>5. QED
    BY <1>2, <2>4 DEF Ledgers
<1>8. QED
  BY <1>6, <1>7

\* What the cleanup sees of the containers that were there.
LEMMA AloneStep ==
  ASSUME PlaceInv, FaultInv, ListInv, NetInv, DrillStep,
         script \in Reading /\ Role' = "body" => OpenBy(B.steps, step - 1, containers)'
  PROVE  BootsAlone'
<1>1. /\ PlaceInv' /\ script' = script /\ HostInv
  BY PlaceStep, Flow, ListParts
<1>2. BootPlace'
  BY <1>1, BootsPlaceNext
<1>3. ASSUME script \notin {"radarr", "pds", "fence"},
             NEW b \in DOMAIN containers', containers'[b].boot
      PROVE  \A c \in DOMAIN containers' : ~containers'[c].net
  <2>1. script \in Reading /\ script \notin Moving
    BY <1>3, ScriptsAssumption DEF PlaceInv, Reading, Moving
  <2>2. CASE Running /\ Role = "body"
    <3>1. /\ All(script, B.steps) /\ Lone(B.steps) /\ step \in 1..Len(B.steps)
          /\ Len(B.steps) \in Nat
      BY <2>1, <2>2, ReadingBody
    <3>2. PICK n \in 0..Len(B.steps) : OpenBy(B.steps, n, containers')
      <4>1. step \in 0..Len(B.steps) /\ step - 1 \in 0..Len(B.steps)
        BY <3>1
      <4>2. QED
        BY <2>1, <2>2, <4>1, OpenStep
    <3>3. QED
      BY <1>3, <2>1, <3>1, <3>2, LoneOpen
  <2>3. CASE ~(Running /\ Role = "body")
    <3>1. ASSUME NEW o \in Outcomes PROVE ~RunContainer(o)
      <4>1. ASSUME RunContainer(o) PROVE FALSE
        <5>1. Running /\ S.op \in {"run", "launch"}
          BY <4>1 DEF RunContainer, At
        <5>2. Role = "movers"
          BY <2>3, <5>1, StartAt, ListParts
        <5>3. QED
          BY <2>1, <5>1, <5>2, InMovers
      <4>2. QED
        BY <4>1
    <3>2. \A c \in DOMAIN containers' : c \in DOMAIN containers /\ containers'[c] = containers[c]
      BY <1>1, <3>1, Remains
    <3>3. QED
      BY <1>3, <3>2 DEF NetInv, BootsAlone
  <2>4. QED
    BY <2>2, <2>3
<1>4. ASSUME script \notin {"radarr", "pds", "fence"}, At("boot")'
      PROVE  \A c \in DOMAIN containers' : ~containers'[c].net
  <2>1. script \in Reading
    BY <1>1, <1>4, ScriptsAssumption DEF PlaceInv, Reading
  <2>2. QED
    BY <1>1, <1>2, <1>4, <2>1 DEF BootPlace
<1>5. script = "radarr" => \A c \in DOMAIN containers' : ~containers'[c].boot
  BY Appears, TameStarts DEF NetInv
<1>6. script = "fence" => \A c \in DOMAIN containers' : ~containers'[c].net
  BY Appears, TameStarts DEF NetInv
<1>7. script \in {"radarr", "fence"} => ~At("boot")'
  BY <1>1, <1>2 DEF BootPlace
<1>8. QED
  BY <1>1, <1>3, <1>4, <1>5, <1>6, <1>7 DEF BootsAlone

LEMMA NetStep ==
  ASSUME PlaceInv, FaultInv, ListInv, NetInv, DrillStep
  PROVE  NetInv'
<1>1. script' = script
  BY Flow
<1>2. ASSUME script \in Reading, Role' = "body"
      PROVE  OpenBy(B.steps, step - 1, containers)'
  <2>1. CASE Role = "setup"
    BY <1>2, <2>1, SetupHost DEF OpenBy
  <2>2. CASE Role = "body" /\ Idle /\ block' = block /\ step' = step /\ B' = B
    <3>1. containers' = containers
      BY <2>2 DEF Idle, Expire, FinishCapture, EndStray, host
    <3>2. QED
      BY <1>2, <2>2, <3>1 DEF NetInv
  <2>3. CASE Role = "body" /\ Working("done") /\ block' = block /\ step' = step + 1 /\ B' = B
    <3>1. Running
      BY <2>3, WorkingWorks
    <3>2. OpenBy(B.steps, step, containers')
      BY <1>2, <2>3, <3>1, OpenStep
    <3>3. step' - 1 = step
      <4>1. step \in 1..Len(B.steps) /\ Len(B.steps) \in Nat
        BY <3>1, Placed
      <4>2. QED
        BY <2>3, <4>1
    <3>4. QED
      BY <2>3, <3>2, <3>3
  <2>4. QED
    BY <1>2, <2>1, <2>2, <2>3, WithinBody
<1>3. ASSUME script = "bazarr", Role' = "body"
      PROVE  OneBy(B.steps, step - 1, listed["containers"])'
  <2>1. CASE Role = "setup"
    BY <1>3, <2>1, SetupHost DEF OneBy
  <2>2. CASE Role = "body" /\ Idle /\ block' = block /\ step' = step /\ B' = B
    <3>1. listed' = listed
      BY <2>2 DEF Idle, Expire, FinishCapture, EndStray, progress
    <3>2. QED
      BY <1>3, <2>2, <3>1 DEF NetInv
  <2>3. CASE Role = "body" /\ Working("done") /\ block' = block /\ step' = step + 1 /\ B' = B
    <3>1. Running
      BY <2>3, WorkingWorks
    <3>2. OneBy(B.steps, step, listed'["containers"])
      BY <1>3, <2>3, <3>1, BazarrStep
    <3>3. step' - 1 = step
      <4>1. step \in 1..Len(B.steps) /\ Len(B.steps) \in Nat
        BY <3>1, Placed
      <4>2. QED
        BY <2>3, <4>1
    <3>4. QED
      BY <2>3, <3>2, <3>3
  <2>4. QED
    BY <1>3, <2>1, <2>2, <2>3, WithinBody
<1>4. script = "bazarr" => Len(listed'["containers"]) <= 1
  BY BazarrNames
<1>5. script = "radarr" => \A c \in DOMAIN containers' : ~containers'[c].boot
  BY Appears, TameStarts DEF NetInv
<1>6. script = "fence" => \A c \in DOMAIN containers' : ~containers'[c].net
  BY Appears, TameStarts DEF NetInv
<1>7. BootsAlone'
  BY <1>2, AloneStep
<1>8. QED
  BY <1>1, <1>2, <1>3, <1>4, <1>5, <1>6, <1>7 DEF NetInv

-----------------------------------------------------------------------------
(* The volumes that are mounted *)

HeldInv == /\ \A c \in DOMAIN containers : containers[c].mounts \subseteq volumes
           /\ stray \subseteq volumes
ToolsThere == \/ Role \in {"body", "movers"} /\ script # "fence"
              \/ Role = "setup" /\ S.op = "task"

\* In a body there is what the commands so far have made.
MountInv == /\ HeldInv
            /\ ToolsThere => Tools \in volumes
            /\ Role = "body" => \A v : HasAt(B.steps, Base(script), step - 1, v) => v \in volumes

LEMMA MountedThere ==
  ASSUME PlaceInv, MountInv, Running, S.op \in {"run", "launch", "task"}
  PROVE  S.mounts \subseteq volumes
<1>1. \A m : Task(m).mounts = m
  BY DEF Task
<1>2. CASE Role = "setup"
  <2>1. S = Task({Tools})
    BY <1>2, InSetup DEF Setup, Create
  <2>2. Tools \in volumes
    BY <1>2, <2>1 DEF MountInv, ToolsThere, Task
  <2>3. QED
    BY <1>1, <2>1, <2>2
<1>3. CASE Role = "body"
  <2>1. /\ Has(B.steps, Base(script), {}) /\ S.op \in {"run", "task"}
        /\ step \in 1..Len(B.steps) /\ S = B.steps[step]
    BY <1>3, InBody, Placed DEF Body, WorkOps, S
  <2>2. \A v \in S.mounts : HasAt(B.steps, Base(script), step - 1, v)
    BY <2>1 DEF Has, Mounts
  <2>3. QED
    BY <1>3, <2>2 DEF MountInv
<1>4. CASE Role = "movers"
  <2>1. S = Launch /\ script # "fence"
    <3>1. script \in Moving /\ step \in 1..7
      BY <1>4, InMovers
    <3>2. \A i \in 1..7 : i \in {1, 2, 3, 4, 5, 6, 7}
      OBVIOUS
    <3>3. step = 3
      BY <1>4, <3>1, <3>2, InMovers, CleanupCommands DEF Kinds, Ledgers
    <3>4. QED
      BY <1>4, <3>1, <3>3, InMovers DEF Moving
  <2>2. Launch.mounts = {Tools}
    BY DEF Launch
  <2>3. QED
    BY <1>4, <2>1, <2>2 DEF MountInv, ToolsThere
<1>5. QED
  BY <1>2, <1>3, <1>4, OpAt

\* A volume goes only when nothing mounts it, by the command that names it.
LEMMA VolumeGoes ==
  ASSUME HostInv, DrillStep, NEW v \in volumes, v \notin volumes'
  PROVE  /\ ~InUse(v) /\ v[1] \in {"tools", "volumes"}
         /\ \/ Running /\ S.op = "remove" /\ v = Target
            \/ Running /\ S.op = "sweep"
<1>1. v[1] \in {"tools", "volumes"}
  BY ToolsName DEF HostInv, Kept
<1>2. ASSUME NEW n, Removable(n), Gone(n) \/ UNCHANGED <<containers, volumes, busy>>
      PROVE  v = n /\ ~InUse(v)
  BY <1>2, RemovesOne DEF Gone
<1>3. ASSUME NEW o \in Outcomes, RemoveOwned(o)
      PROVE  ~InUse(v) /\ Running /\ S.op = "remove" /\ v = Target
  <2>1. /\ Removable(Target) /\ (Gone(Target) \/ UNCHANGED <<containers, volumes, busy>>)
        /\ Running /\ S.op = "remove"
    BY <1>3 DEF RemoveOwned, At
  <2>2. QED
    BY <1>2, <2>1
<1>4. ASSUME NEW o \in Outcomes, SweepOne(o) PROVE ~InUse(v) /\ Running /\ S.op = "sweep"
  <2>1. /\ Removable(Head(todo)) /\ (Gone(Head(todo)) \/ UNCHANGED <<containers, volumes, busy>>)
        /\ Running /\ S.op = "sweep"
    BY <1>4 DEF SweepOne, Sweeping, At
  <2>2. QED
    BY <1>2, <2>1
<1>5. ASSUME NEW o \in Outcomes PROVE ~CreateVolume(o) /\ ~RunContainer(o)
  BY DEF CreateVolume, RunContainer
<1>6. ~Untouched /\ ~Refuse
  BY DEF Untouched, Refuse, host
<1>7. QED
  BY <1>1, <1>3, <1>4, <1>5, <1>6, Footprint

\* What is mounted after a step was mounted before, or by this step.
LEMMA MountsAppear ==
  ASSUME PlaceInv, ListInv, DrillStep, NEW c \in DOMAIN containers'
  PROVE  \/ c \in DOMAIN containers /\ containers'[c] = containers[c]
         \/ /\ Running /\ S.op \in {"run", "launch"} /\ volumes' = volumes
            /\ containers'[c].mounts = S.mounts
<1>1. ASSUME NEW o \in Outcomes, RunContainer(o)
      PROVE  \/ c \in DOMAIN containers /\ containers'[c] = containers[c]
             \/ /\ Running /\ S.op \in {"run", "launch"} /\ volumes' = volumes
                /\ containers'[c].mounts = S.mounts
  <2>1. Running /\ S.op \in {"run", "launch"} /\ volumes' = volumes
    BY <1>1 DEF RunContainer, At
  <2>2. CASE containers' = containers
    BY <2>2
  <2>3. CASE containers' = [d \in DOMAIN containers \cup {NewName} |->
               IF d = NewName THEN [mounts |-> S.mounts, net |-> S.net, boot |-> S.boot]
                              ELSE containers[d]]
    BY <2>1, <2>3
  <2>4. QED
    BY <1>1, <2>2, <2>3 DEF RunContainer
<1>2. CASE \A o \in Outcomes : ~RunContainer(o)
  BY <1>2, ListParts, Remains
<1>3. QED
  BY <1>1, <1>2

LEMMA StrayAppears ==
  ASSUME DrillStep, NEW v \in stray'
  PROVE  v \in stray \/ (Running /\ S.op = "task" /\ v \in S.mounts /\ volumes' = volumes)
<1>1. ASSUME NEW o \in Outcomes, RunTask(o)
      PROVE  v \in stray \/ (Running /\ S.op = "task" /\ v \in S.mounts /\ volumes' = volumes)
  BY <1>1 DEF RunTask, At
<1>2. ASSUME NEW o \in Outcomes, Working(o), ~RunTask(o) PROVE stray' = stray
  BY <1>2 DEF Working, CreateVolume, RunContainer, CaptureFixture, RestorePoint, Verify,
              CompareOriginals, Command, RemoveOwned, PurgeFixture, host
<1>3. ASSUME NEW o \in Outcomes, SweepOne(o) PROVE stray' = stray
  BY <1>3 DEF SweepOne
<1>4. ASSUME Aside PROVE stray' = stray \/ stray' = {}
  BY <1>4 DEF Aside, BeginSweep, EndSweep, SweepMissing, Impossible, RenewDeadline,
              ReportFailures, GiveReceipt, Expire, Refuse, Interrupt, FinishCapture, EndStray,
              host
<1>5. QED
  BY <1>1, <1>2, <1>3, <1>4, Splits

LEMMA HeldStep ==
  ASSUME PlaceInv, ListInv, MountInv, DrillStep PROVE HeldInv'
<1>1. HostInv /\ HeldInv
  BY ListParts DEF MountInv
<1>2. ASSUME NEW c \in DOMAIN containers', NEW v \in containers'[c].mounts PROVE v \in volumes'
  <2>1. CASE c \in DOMAIN containers /\ containers'[c] = containers[c]
    <3>1. v \in volumes /\ InUse(v)
      BY <1>1, <1>2, <2>1 DEF HeldInv, InUse
    <3>2. QED
      BY <1>1, <3>1, VolumeGoes
  <2>2. CASE /\ Running /\ S.op \in {"run", "launch"} /\ volumes' = volumes
             /\ containers'[c].mounts = S.mounts
    BY <1>2, <2>2, MountedThere
  <2>3. QED
    BY <2>1, <2>2, MountsAppear
<1>3. ASSUME NEW v \in stray' PROVE v \in volumes'
  <2>1. CASE v \in stray
    <3>1. v \in volumes /\ InUse(v)
      BY <1>1, <2>1 DEF HeldInv, InUse
    <3>2. QED
      BY <1>1, <3>1, VolumeGoes
  <2>2. CASE Running /\ S.op = "task" /\ v \in S.mounts /\ volumes' = volumes
    BY <2>2, MountedThere
  <2>3. QED
    BY <2>1, <2>2, StrayAppears
<1>4. QED
  BY <1>2, <1>3 DEF HeldInv

\* Outside of the cleanups only a command of the body removes a volume.
LEMMA ToolsStay ==
  ASSUME PlaceInv, ListInv, DrillStep, Role \in {"setup", "body", "movers"}, Tools \in volumes
  PROVE  Tools \in volumes'
<1> SUFFICES ASSUME Tools \notin volumes' PROVE FALSE
  OBVIOUS
<1>1. HostInv
  BY ListParts
<1>2. Running /\ ((S.op = "remove" /\ Tools = Target) \/ S.op = "sweep")
  BY <1>1, VolumeGoes
<1>3. CASE S.op = "remove" /\ Tools = Target
  <2>1. Role = "body"
    BY <1>2, <1>3, OpAt
  <2>2. BodyStep(script, S)
    BY <1>2, <2>1, InBody
  <2>3. Target[1] # "tools"
    BY <1>3, <2>2 DEF BodyStep, Target
  <2>4. QED
    BY <1>3, <2>3, ToolsName
<1>4. CASE S.op = "sweep"
  <2>1. Role = "movers" /\ S.on[1] = "movers"
    BY <1>2, <1>4, SweepAt
  <2>2. \E o \in Outcomes : SweepOne(o)
    <3>1. ASSUME NEW o \in Outcomes
          PROVE  ~CreateVolume(o) /\ ~RunContainer(o) /\ ~RemoveOwned(o)
      BY <1>4 DEF CreateVolume, RunContainer, RemoveOwned, At
    <3>2. ~Untouched /\ ~Refuse
      BY DEF Untouched, Refuse, host
    <3>3. QED
      BY <3>1, <3>2, Footprint
  <2>3. PICK o \in Outcomes : SweepOne(o)
    BY <2>2
  <2>4. /\ todo \notin {NoSweep, << >>} /\ Removable(Head(todo))
        /\ Gone(Head(todo)) \/ UNCHANGED <<containers, volumes, busy>>
    BY <2>3 DEF SweepOne, Sweeping
  <2>5. todo \in Seq(Names) /\ Len(todo) \in Nat \ {0} /\ todo[1][1] = "movers"
    <3>1. todo \in Seq(Names) /\ \A i \in 1..Len(todo) : todo[i][1] = "movers"
      BY <2>1, <2>4 DEF PlaceInv
    <3>2. Len(todo) \in Nat \ {0}
      BY <2>4, <3>1, Tailed
    <3>3. QED
      BY <3>1, <3>2
  <2>6. Head(todo)[1] = "movers"
    BY <2>4, <2>5, Tailed
  <2>7. Head(todo) # Tools /\ volumes' = volumes
    BY <2>4, <2>6, ToolsName DEF Gone
  <2>8. QED
    BY <2>7
<1>5. QED
  BY <1>2, <1>3, <1>4

\* A set-up goes on when its command is done.
LEMMA SetupDone ==
  ASSUME PlaceInv, FaultInv, DrillStep, Running, Role = "setup", Went
  PROVE  Working("done")
<1>1. /\ S.op \in {"create", "task"} /\ ~raised /\ ~failures
      /\ step \in 1..Len(B.steps) /\ Len(B.steps) \in Nat
      /\ block \in 1..Len(Program) /\ Len(Program) \in Nat
  BY OpAt, Placed DEF FaultInv
<1>2. ~Halted /\ ~Noted
  BY <1>1 DEF Halted, Noted, Went
<1>3. ASSUME NEW o \in Outcomes, Working(o) PROVE Working("done")
  BY <1>2, <1>3, WorkingWorks DEF Worked
<1>4. ASSUME NEW o \in Outcomes PROVE ~SweepOne(o)
  BY <1>1, SweepOneFlow
<1>5. step' # step \/ block' # block
  <2>1. Goto(IF block = Len(Program) THEN 0 ELSE block + 1) \/ step' = step + 1
    BY <1>1 DEF Went, Advance
  <2>2. QED
    BY <1>1, <2>1 DEF Goto
<1>6. ~Aside
  <2>1. ~(\/ BeginSweep \/ EndSweep \/ SweepMissing
          \/ RenewDeadline \/ ReportFailures \/ GiveReceipt)
    BY <1>1 DEF BeginSweep, EndSweep, SweepMissing, Sweeping, At, RenewDeadline,
                ReportFailures, GiveReceipt
  <2>2. ~Trouble
    BY <1>1, <1>2, Troubles
  <2>3. ~Impossible /\ ~Refuse
    BY <2>2 DEF Impossible, Refuse
  <2>4. ~Interrupt
    BY <1>2 DEF Interrupt, Raise, Goto, Halted
  <2>5. ~(Expire \/ FinishCapture \/ EndStray)
    BY <1>5 DEF Expire, FinishCapture, EndStray
  <2>6. QED
    BY <2>1, <2>3, <2>4, <2>5 DEF Aside
<1>7. QED
  BY <1>3, <1>4, <1>6, Splits

LEMMA CreatedThere ==
  ASSUME Working("done"), S.op = "create" PROVE S.on \in volumes'
<1>1. CreateVolume("done")
  BY DEF Working, At, RunContainer, RunTask, CaptureFixture, RestorePoint, Verify,
         CompareOriginals, Command, RemoveOwned, PurgeFixture
<1>2. QED
  BY <1>1 DEF CreateVolume, Landed

LEMMA MoversBack ==
  ASSUME PlaceInv, FaultInv, DrillStep, Role' = "movers" PROVE Role \in {"body", "movers"}
<1>1. CASE Cleaning
  <2>1. Running /\ Role \in {"movers", "clean", "last"} /\ script' = script
    BY <1>1, OpAt, Flow DEF Cleaning
  <2>2. CASE Stayed \/ Noted
    <3>1. Role' = Role
      BY <2>1, <2>2, NotedAt DEF Stayed, Role
    <3>2. QED
      BY <3>1
  <2>3. CASE Went \/ Halted
    <3>1. Role' = Role
      BY <1>1, <2>1, <2>3, Follows
    <3>2. QED
      BY <3>1
  <2>4. QED
    BY <2>1, <2>2, <2>3, Flow
<1>2. CASE ~Cleaning
  BY <1>2, RoleNext
<1>3. QED
  BY <1>1, <1>2

LEMMA ToolsStep ==
  ASSUME PlaceInv, FaultInv, ListInv, MountInv, DrillStep, ToolsThere'
  PROVE  Tools \in volumes'
<1>1. script' = script /\ Role' \in {"setup", "body", "movers"}
  BY Flow DEF ToolsThere
<1>2. CASE ToolsThere
  <2>1. Tools \in volumes /\ Role \in {"setup", "body", "movers"}
    BY <1>2 DEF MountInv, ToolsThere
  <2>2. QED
    BY <2>1, ToolsStay
<1>3. CASE ~ToolsThere
  <2>1. Role = "setup" /\ Role' \in {"setup", "body"}
    <3>1. CASE Role' = "movers"
      BY <1>1, <1>3, <3>1, MoversBack DEF ToolsThere
    <3>2. CASE Role' \in {"setup", "body"}
      <4>1. Role \in {"setup", "body"} /\ (Role' = "setup" => Role = "setup")
        BY <3>2, RoleBack
      <4>2. QED
        BY <1>1, <1>3, <3>2, <4>1 DEF ToolsThere
    <3>3. QED
      BY <1>1, <3>1, <3>2
  <2>2. Running /\ S \in Setup /\ S.op # "task"
    <3>1. Running
      BY <2>1 DEF Role, RoleAt, Running, PlaceInv
    <3>2. QED
      BY <1>3, <2>1, <3>1, InSetup DEF ToolsThere
  <2>3. S = Create(Tools, TRUE)
    <3>1. Task({Tools}).op = "task"
      BY DEF Task
    <3>2. QED
      BY <2>2, <3>1 DEF Setup
  <2>4. Went
    <3>1. CASE Stayed /\ block' = block /\ step' = step /\ B' = B /\ Role' = Role
      <4>1. S' = S
        BY <3>1 DEF S
      <4>2. QED
        BY <2>1, <2>2, <3>1, <4>1 DEF ToolsThere
    <3>2. QED
      BY <2>1, <3>1, RoleBack
  <2>5. S.op = "create" /\ S.on = Tools
    BY <2>3 DEF Create
  <2>6. QED
    BY <2>1, <2>2, <2>4, <2>5, SetupDone, CreatedThere
<1>4. QED
  BY <1>2, <1>3

\* A command of a body makes or removes what it says.
LEMMA MadeStep ==
  ASSUME PlaceInv, ListInv, MountInv, DrillStep, Role = "body", Working("done"),
         NEW v, HasAt(B.steps, Base(script), step, v)
  PROVE  v \in volumes'
<1> DEFINE p == B.steps
           a == Base(script)
<1>1. /\ Running /\ step \in 1..Len(p) /\ Len(p) \in Nat /\ S = p[step] /\ S.op \in WorkOps
      /\ BodyStep(script, S) /\ HostInv
  BY WorkingWorks, Placed, InBody, ListParts DEF S
<1>2. \A w : HasAt(p, a, step - 1, w) => w \in volumes
  BY DEF MountInv
<1>3. HasAt(p, a, step, v)
  OBVIOUS
<1> HIDE DEF p, a
<1>4. CASE HasAt(p, a, step - 1, v) /\ ~Takes(S, v)
  <2>1. v \in volumes
    BY <1>2, <1>4
  <2>2. ASSUME v \notin volumes' PROVE FALSE
    <3>1. v[1] \in {"tools", "volumes"} /\ S.op = "remove" /\ v = Target
      BY <1>1, <2>1, <2>2, VolumeGoes DEF WorkOps
    <3>2. S.on = v
      BY <3>1 DEF Target
    <3>3. QED
      BY <1>4, <3>1, <3>2 DEF Takes
  <2>3. QED
    BY <2>2
<1>5. CASE S.op = "create" /\ S.on = v
  BY <1>5, CreatedThere
<1>6. \/ HasAt(p, a, step - 1, v) /\ ~Takes(S, v)
      \/ S.op = "create" /\ S.on = v
  <2>1. CASE v \in a /\ \A k \in 1..step : ~Takes(p[k], v)
    <3>1. step \in 1..step /\ \A k \in 1..step - 1 : k \in 1..step
      BY <1>1
    <3>2. QED
      BY <1>1, <2>1, <3>1 DEF HasAt
  <2>2. CASE MadeBy(p, step, v)
    <3>1. PICK j \in 1..step : /\ p[j].op = "create" /\ p[j].on = v
                               /\ \A k \in j + 1..step : ~Takes(p[k], v)
      BY <2>2 DEF MadeBy
    <3>2. CASE j = step
      BY <1>1, <3>1, <3>2
    <3>3. CASE j # step
      <4>1. /\ j \in 1..step - 1 /\ step \in j + 1..step
            /\ \A k \in j + 1..step - 1 : k \in j + 1..step
        BY <1>1, <3>3
      <4>2. QED
        BY <1>1, <3>1, <4>1 DEF HasAt, MadeBy
    <3>4. QED
      BY <3>2, <3>3
  <2>3. QED
    BY <1>3, <2>1, <2>2 DEF HasAt
<1>7. QED
  BY <1>4, <1>5, <1>6

LEMMA MountStep ==
  ASSUME PlaceInv, FaultInv, ListInv, MountInv, DrillStep PROVE MountInv'
<1>1. HeldInv' /\ script' = script
  BY HeldStep, Flow
<1>2. ToolsThere' => Tools \in volumes'
  BY ToolsStep
<1>4. ASSUME Role' = "body", NEW v, HasAt(B.steps, Base(script), step - 1, v)'
      PROVE  v \in volumes'
  <2>1. HasAt(B'.steps, Base(script), step' - 1, v)
    BY <1>1, <1>4 DEF HasAt, MadeBy, Base
  <2>2. CASE step' = 1
    <3>1. v \in Base(script)
      BY <2>1, <2>2 DEF HasAt, MadeBy
    <3>2. v = Tools /\ script # "fence"
      BY <3>1 DEF Base
    <3>3. QED
      BY <1>1, <1>2, <1>4, <3>2 DEF ToolsThere
  <2>3. CASE Role = "body" /\ Idle /\ block' = block /\ step' = step /\ B' = B
    <3>1. volumes' = volumes
      BY <2>3 DEF Idle, Expire, FinishCapture, EndStray, host
    <3>2. QED
      BY <2>1, <2>3, <3>1 DEF MountInv
  <2>4. CASE Role = "body" /\ Working("done") /\ block' = block /\ step' = step + 1 /\ B' = B
    <3>1. step' - 1 = step
      <4>1. step \in 1..Len(B.steps) /\ Len(B.steps) \in Nat
        BY <2>4, WorkingWorks, Placed
      <4>2. QED
        BY <2>4, <4>1
    <3>2. QED
      BY <2>1, <2>4, <3>1, MadeStep
  <2>5. QED
    BY <1>4, <2>2, <2>3, <2>4, WithinBody
<1>5. QED
  BY <1>1, <1>2, <1>4 DEF MountInv

-----------------------------------------------------------------------------
(* The count of the faults, and what an orphan is *)

BoundInv == /\ faults \in 0..MaxFaults
            /\ \A n \in orphans : n[1] \in {"tools", "volumes"}

Counted == UNCHANGED faults \/ (faults < MaxFaults /\ faults' = faults + 1)

LEMMA Counts == ASSUME DrillStep PROVE Counted
<1>1. ASSUME NEW o, Settle(o) PROVE Counted
  BY <1>1 DEF Settle, Counted
<1>2. ASSUME NEW o \in Outcomes, Working(o) PROVE Counted
  BY <1>1, <1>2 DEF Working, CreateVolume, RunContainer, RunTask, CaptureFixture, RestorePoint,
                    Verify, CompareOriginals, Command, RemoveOwned, PurgeFixture
<1>3. ASSUME NEW o \in Outcomes, SweepOne(o) PROVE Counted
  BY <1>3 DEF SweepOne, Counted
<1>4. ASSUME Aside PROVE Counted
  BY <1>4 DEF Aside, BeginSweep, EndSweep, SweepMissing, Impossible, RenewDeadline,
              ReportFailures, GiveReceipt, Expire, Refuse, Interrupt, FinishCapture, EndStray,
              Counted
<1>5. QED
  BY <1>2, <1>3, <1>4, Splits

LEMMA BoundStep == ASSUME PlaceInv, BoundInv, DrillStep PROVE BoundInv'
<1>1. faults' \in 0..MaxFaults
  BY Counts, BoundAssumption DEF Counted, BoundInv
<1>2. ASSUME NEW o \in Outcomes, CreateVolume(o), NEW n \in orphans'
      PROVE  n[1] \in {"tools", "volumes"}
  <2>1. S.on = Tools \/ S.on[1] = "volumes"
    BY <1>2, CreateAt DEF CreateVolume
  <2>2. n \in orphans \/ n = S.on
    BY <1>2 DEF CreateVolume
  <2>3. QED
    BY <2>1, <2>2, ToolsName DEF BoundInv
<1>3. CASE \A o \in Outcomes : ~CreateVolume(o)
  <2>1. orphans' = orphans
    BY <1>3, Footprint DEF Untouched, Refuse, RunContainer, RemoveOwned, SweepOne, progress
  <2>2. QED
    BY <1>1, <2>1 DEF BoundInv
<1>4. QED
  BY <1>1, <1>2, <1>3 DEF BoundInv
-----------------------------------------------------------------------------
(* The inductive invariant of the drills *)

TidyInv == /\ ListInv /\ PlaceInv /\ FaultInv /\ CaptureInv /\ SweptInv /\ PointInv /\ NetInv
           /\ MountInv /\ BoundInv

\* The first block, before its first command.
LEMMA AtStart ==
  ASSUME DrillInit
  PROVE  /\ script \in Scripts /\ block \in 0..Len(Program) /\ Running
         /\ step \in 1..Len(B.steps) /\ Role \in {"setup", "body"} /\ step = 1 /\ ~Cleaning
<1>1. script \in Scripts /\ block = 1 /\ step = 1
  BY DEF DrillInit
<1>2. Shape(script)
  BY <1>1, Shapes
<1>3. block \in 0..Len(Program) /\ Running
  BY <1>1, <1>2 DEF Shape, Program, Running
<1>4. Role \in {"setup", "body"}
  BY <1>1, <1>2 DEF Shape, Role
<1>5. step \in 1..Len(B.steps) /\ ~Cleaning
  <2>1. PlaceInv => step \in 1..Len(B.steps)
    BY <1>3 DEF PlaceInv
  <2>2. BlockShape(script, block)
    BY <1>1, <1>2, <1>3 DEF Shape, Program
  <2>3. Len(B.steps) \in Nat \ {0}
    BY <2>2 DEF BlockShape, B, Program
  <2>4. step \in 1..Len(B.steps)
    BY <1>1, <2>3
  <2>5. PlaceInv
    BY <1>1, <1>3, <2>4 DEF PlaceInv, DrillInit
  <2>6. QED
    BY <1>3, <1>4, <2>4, <2>5, OpAt
<1>6. QED
  BY <1>1, <1>3, <1>4, <1>5

LEMMA DrillStarts == ASSUME DrillInit PROVE TidyInv
<1>1. /\ script \in Scripts /\ block \in 0..Len(Program) /\ Running
      /\ step \in 1..Len(B.steps) /\ Role \in {"setup", "body"} /\ step = 1 /\ ~Cleaning
  BY AtStart
<1>2. /\ containers = << >> /\ volumes = {} /\ repos = {}
      /\ busy = {} /\ orphans = {} /\ stray = {} /\ faults = 0
      /\ listed = [l \in Ledgers |-> << >>] /\ todo = NoSweep
      /\ raised = FALSE /\ failures = FALSE /\ expired = FALSE /\ hindered = FALSE
      /\ restored = [k \in Kinds |-> 0] /\ receipt = FALSE
  BY DEF DrillInit
<1>3. DOMAIN containers = {} /\ \A l \in Ledgers : listed[l] = << >> /\ Len(listed[l]) = 0
  BY <1>2
<1>4. ListInv
  <2>1. listed \in [Ledgers -> Seq(Names)]
    BY <1>2
  <2>2. QED
    BY <1>2, <1>3, <2>1 DEF ListInv
<1>5. PlaceInv
  BY <1>1, <1>2 DEF PlaceInv
<1>6. FaultInv
  BY <1>1, <1>2 DEF FaultInv
<1>7. CaptureInv
  BY <1>1, <1>2 DEF CaptureInv
<1>8. SweptInv
  <2>1. \A l \in {"movers", "containers", "volumes"} : Empty(l)
    BY <1>2, <1>3 DEF Empty
  <2>2. QED
    BY <1>1, <1>2, <1>3, <2>1 DEF SweptInv, Ledgers
<1>9. PointInv
  <2>1. restored \in [Kinds -> 0..2]
    BY <1>2
  <2>2. Role = "body" => Known(B.steps, step - 1, restored)
    BY <1>1 DEF Known, PassedBy, GotBy, MatchedBy
  <2>3. QED
    BY <1>1, <1>2, <2>1, <2>2 DEF PointInv
<1>10. NetInv
  <2>1. OpenBy(B.steps, step - 1, containers) /\ BootsAlone
    BY <1>3 DEF OpenBy, BootsAlone
  <2>2. OneBy(B.steps, step - 1, listed["containers"]) /\ Len(listed["containers"]) <= 1
    BY <1>3 DEF OneBy, Ledgers
  <2>3. QED
    BY <1>3, <2>1, <2>2 DEF NetInv
<1>11. MountInv
  <2>1. HeldInv
    BY <1>2, <1>3 DEF HeldInv
  <2>2. block = 1 /\ (script # "fence" => Role = "setup" /\ S = Create(Tools, TRUE))
    <3>1. block = 1
      BY DEF DrillInit
    <3>2. ASSUME script # "fence" PROVE Role = "setup"
      BY <1>1, <3>1, <3>2, ScriptsAssumption DEF Role, RoleAt, Roles
    <3>3. QED
      BY <1>1, <3>1, <3>2, FirstCreates DEF S, B, Program
  <2>3. ~ToolsThere
    BY <1>1, <1>5, <2>2, InSetup DEF ToolsThere, Create
  <2>4. ASSUME Role = "body", NEW v, HasAt(B.steps, Base(script), step - 1, v) PROVE FALSE
    <3>1. script = "fence" /\ step - 1 = 0
      BY <1>1, <2>2, <2>4
    <3>2. QED
      BY <2>4, <3>1 DEF HasAt, MadeBy, Base
  <2>5. QED
    BY <2>1, <2>3, <2>4 DEF MountInv
<1>12. BoundInv
  BY <1>2, BoundAssumption DEF BoundInv
<1>13. QED
  BY <1>4, <1>5, <1>6, <1>7, <1>8, <1>9, <1>10, <1>11, <1>12 DEF TidyInv

\* SIGTERM without a handler: nothing on the host changes and nothing is promised.
LEMMA Terminated ==
  ASSUME TidyInv, Terminate
  PROVE  TidyInv'
<1>1. /\ ListInv /\ PlaceInv /\ FaultInv /\ CaptureInv /\ SweptInv /\ PointInv /\ NetInv
      /\ MountInv /\ BoundInv
  BY DEF TidyInv
<1>2. /\ block' = 0 /\ raised' = TRUE /\ hindered' = TRUE /\ todo' = NoSweep
      /\ UNCHANGED <<script, host, progress, failures, expired, receipt>>
      /\ Running /\ faults < MaxFaults /\ faults' = faults + 1
  BY DEF Terminate, Goto
<1>3. Role' = "end" /\ ~Running' /\ ~Cleaning' /\ ~Smooth'
  BY <1>2 DEF Role, RoleAt, Running, Cleaning, Smooth
<1>4. ListInv' /\ CaptureInv'
  BY <1>1, <1>2, <1>3 DEF ListInv, CaptureInv, Newest, Uses, host, progress
<1>5. PlaceInv' /\ FaultInv'
  BY <1>1, <1>2, <1>3 DEF PlaceInv, FaultInv, host, progress
<1>6. SweptInv' /\ PointInv'
  BY <1>1, <1>2, <1>3 DEF SweptInv, PointInv, ReceiptHonest, host, progress
<1>7. NetInv' /\ MountInv'
  <2>1. ~At("boot")' /\ UNCHANGED <<containers, volumes, stray, listed, script>>
    BY <1>2, <1>3 DEF At, host, progress
  <2>2. BootsAlone'
    BY <1>1, <2>1 DEF NetInv, BootsAlone
  <2>3. NetInv'
    BY <1>1, <1>3, <2>1, <2>2 DEF NetInv
  <2>4. MountInv'
    BY <1>1, <1>3, <2>1 DEF MountInv, HeldInv, ToolsThere
  <2>5. QED
    BY <2>3, <2>4
<1>8. BoundInv'
  BY <1>1, <1>2, BoundAssumption DEF BoundInv, host, progress
<1>9. QED
  BY <1>4, <1>5, <1>6, <1>7, <1>8 DEF TidyInv

LEMMA DrillSteps ==
  ASSUME NoSweep \notin Seq(Names), TidyInv, [DrillNext]_drillVars
  PROVE  TidyInv'
<1>1. CASE DrillStep
  <2>1. /\ ListInv /\ PlaceInv /\ FaultInv /\ CaptureInv /\ SweptInv /\ PointInv /\ NetInv
        /\ MountInv /\ BoundInv
    BY DEF TidyInv
  <2>2. ListInv' /\ PlaceInv' /\ FaultInv' /\ CaptureInv'
    BY <1>1, <2>1, ListStep, PlaceStep, FaultStep, CapturesStep
  <2>3. SweptInv' /\ PointInv' /\ NetInv'
    BY <1>1, <2>1, SweptStep, PointStep, NetStep
  <2>4. MountInv' /\ BoundInv'
    BY <1>1, <2>1, MountStep, BoundStep
  <2>5. QED
    BY <2>2, <2>3, <2>4 DEF TidyInv
<1>2. CASE UNCHANGED drillVars
  <2>1. /\ Role' = Role /\ B' = B /\ S' = S /\ Running' = Running /\ Program' = Program
        /\ Cleaning' = Cleaning /\ At("sweep")' = At("sweep") /\ At("boot")' = At("boot")
        /\ Bounded' = Bounded /\ (\A l : Uses(l)' = Uses(l)) /\ Smooth' = Smooth
        /\ (\A l : Behind(l)' = Behind(l)) /\ (\A l : Empty(l)' = Empty(l))
        /\ (\A l : Remaining(l)' = Remaining(l)) /\ Verified' = Verified
    BY <1>2 DEF drillVars, Role, B, S, Running, Program, Cleaning, At, Bounded, Uses, Smooth,
                Behind, Empty, Remaining, Verified
  <2>2. /\ ListInv' /\ PlaceInv' /\ FaultInv' /\ CaptureInv'
    BY <1>2, <2>1 DEF TidyInv, drillVars, ListInv, PlaceInv, FaultInv, CaptureInv, Newest
  <2>3. SweptInv' /\ PointInv' /\ NetInv'
    BY <1>2, <2>1 DEF TidyInv, drillVars, SweptInv, PointInv, NetInv, BootsAlone,
                      ReceiptHonest
  <2>4. MountInv' /\ BoundInv'
    BY <1>2, <2>1 DEF TidyInv, drillVars, MountInv, HeldInv, ToolsThere, HasAt, MadeBy, Base,
                      BoundInv
  <2>5. QED
    BY <2>2, <2>3, <2>4 DEF TidyInv
<1>3. CASE Terminate
  BY <1>3, Terminated DEF TidyInv
<1>4. QED
  BY <1>1, <1>2, <1>3 DEF DrillNext

\* NoSweep, the mark for "no sweep in progress", must not be a list of names.
LEMMA DrillAlways ==
  ASSUME NoSweep \notin Seq(Names) PROVE DrillSpec => []TidyInv
<1>1. DrillInit => TidyInv
  BY DrillStarts
<1>2. TidyInv /\ [DrillNext]_drillVars => TidyInv'
  BY DrillSteps
<1>3. QED
  BY <1>1, <1>2, PTL DEF DrillSpec

\* Whatever interrupts a body: a cleanup that meets no fault of its own leaves no
\* container, volume, fixture or capture behind, for any number of faults.
THEOREM NothingLeftTheorem ==
  ASSUME NoSweep \notin Seq(Names) PROVE DrillSpec => []NothingLeft
<1>1. TidyInv => NothingLeft
  <2> SUFFICES ASSUME TidyInv, ~Running, ~hindered PROVE
        /\ DOMAIN containers = {}
        /\ volumes \subseteq orphans \cup (IF script = "bazarr" THEN {Tools} ELSE {})
        /\ repos = {} /\ busy = {}
    BY DEF NothingLeft
  <2>1. ListInv /\ PlaceInv /\ SweptInv /\ HostInv
    BY ListParts DEF TidyInv
  <2>2. Role = "end"
    BY <2>1 DEF PlaceInv, Running, Role, RoleAt
  <2>3. BehindInv /\ FixtureInv /\ ToolsInv
    BY <2>1, SweptSplits DEF Smooth, SweptParts
  <2>4. Empty("movers") /\ Empty("containers") /\ Empty("volumes")
    BY <2>2, <2>3 DEF BehindInv, Behind, Sorts
  <2>5. DOMAIN containers = {}
    BY <2>1, <2>4 DEF Empty, HostInv, Hosted
  <2>6. volumes \subseteq orphans \cup (IF script = "bazarr" THEN {Tools} ELSE {})
    <3>1. \A v \in volumes : v = Tools \/ v \in orphans
      BY <2>1, <2>4 DEF Empty, HostInv, Kept
    <3>2. QED
      BY <2>2, <2>3, <3>1 DEF ToolsInv
  <2>7. QED
    BY <2>2, <2>3, <2>5, <2>6 DEF FixtureInv
<1>2. QED
  BY <1>1, DrillAlways, PTL

\* A receipt is given only for the same, verified point from both backends, and
\* only when nothing of the run is left or can come back.
THEOREM ReceiptHonestTheorem ==
  ASSUME NoSweep \notin Seq(Names) PROVE DrillSpec => []ReceiptHonest
<1>1. TidyInv => ReceiptHonest
  BY DEF TidyInv, PointInv, ReceiptHonest
<1>2. QED
  BY <1>1, DrillAlways, PTL

\* While an original boots with its secrets, no container of the run is online:
\* every command list removes its networks before its boots, and a failure keeps
\* what is there instead of adding to it.
THEOREM BootsAloneTheorem ==
  ASSUME NoSweep \notin Seq(Names) PROVE DrillSpec => []BootsAlone
<1>1. TidyInv => BootsAlone
  BY DEF TidyInv, NetInv
<1>2. QED
  BY <1>1, DrillAlways, PTL

\* No command of a script mounts a volume that the script has not made, or has
\* removed again, and none is removed while something mounts it; the movers'
\* cleanup, which goes on after any fault, finds the tools volume in place.
THEOREM MountsExistTheorem ==
  ASSUME NoSweep \notin Seq(Names) PROVE DrillSpec => []MountsExist
<1>1. TidyInv => MountsExist
  <2> SUFFICES ASSUME TidyInv PROVE MountsExist
    OBVIOUS
  <2>1. PlaceInv /\ MountInv
    BY DEF TidyInv
  <2>2. At("run") \/ At("launch") \/ At("task") => S.mounts \subseteq volumes
    BY <2>1, MountedThere DEF At
  <2>3. QED
    BY <2>1, <2>2 DEF MountsExist, MountInv, HeldInv
<1>2. QED
  BY <1>1, DrillAlways, PTL

\* Type correctness of the drills: the position is a command of the script, every
\* name is in the ledger of its kind, and faults stay within the bound.
THEOREM DrillTypeTheorem ==
  ASSUME NoSweep \notin Seq(Names) PROVE DrillSpec => []DrillTypeOK
<1>1. TidyInv => DrillTypeOK
  <2> SUFFICES ASSUME TidyInv PROVE DrillTypeOK
    OBVIOUS
  <2>1. /\ ListInv /\ PlaceInv /\ FaultInv /\ CaptureInv /\ PointInv /\ BoundInv
    BY DEF TidyInv
  <2>2. DOMAIN listed = Ledgers /\ \A l \in Ledgers : \A n \in ToSet(listed[l]) : n[1] = l
    BY <2>1 DEF ListInv, ToSet
  <2>3. /\ script \in Scripts
        /\ block \in 0..Len(Program) /\ (Running => step \in 1..Len(B.steps))
        /\ todo # NoSweep => At("sweep")
    BY <2>1 DEF PlaceInv
  <2>4. repos \subseteq Kinds /\ busy \subseteq (DOMAIN containers) \X Kinds
    BY <2>1 DEF CaptureInv
  <2>5. restored \in [Kinds -> 0..2]
    BY <2>1 DEF PointInv
  <2>6. {raised, failures, expired, hindered, receipt} \subseteq BOOLEAN
    BY <2>1 DEF FaultInv
  <2>7. QED
    BY <2>1, <2>2, <2>3, <2>4, <2>5, <2>6 DEF DrillTypeOK, BoundInv
<1>2. QED
  BY <1>1, DrillAlways, PTL

-----------------------------------------------------------------------------
(* The guard *)

USE GuardAssumption

LEMMA TypeInit == Init => TypeOK
<1> SUFFICES ASSUME Init PROVE TypeOK
  OBVIOUS
<1>1. wan \in Wans /\ queue \in {"running", "guard", "user"}
  BY DEF Init
<1>2. disk \in Journal /\ journal \in Journal /\ pc \in Pcs
  BY DEF Init, Journal, Pcs
<1>3. seen \in [wan : Wans, paused : BOOLEAN]
  BY DEF Init, Wans
<1>4. /\ since \in {None} \cup 0 .. Hold /\ poll \in {None} \cup 0 .. MaxGap + 1
      /\ elapsed \in 0 .. MaxGap + 1 /\ calm \in 0 .. Hold
  BY DEF Init
<1>5. QED
  BY <1>1, <1>2, <1>3, <1>4 DEF Init, TypeOK

LEMMA FailType ==
  ASSUME Fail
  PROVE  /\ pc' \in Pcs /\ calm' \in 0 .. Hold
         /\ since' \in {None} \cup 0 .. Hold /\ poll' \in {None} \cup 0 .. MaxGap + 1
  BY DEF Fail, Pcs

LEMMA OlderType ==
  ASSUME NEW top \in Nat, NEW t \in {None} \cup 0 .. top, NEW d \in Nat
  PROVE  Older(t, d, top) \in {None} \cup 0 .. top
  BY DEF Older, Least, None

LEMMA SaveType ==
  ASSUME TypeOK, NEW s \in Journal, NEW l \in Pcs, Save(s, l)
  PROVE  /\ disk' \in Journal /\ journal' \in Journal
         /\ pc' \in Pcs /\ calm' \in 0 .. Hold
  BY DEF TypeOK, Save, Pcs

LEMMA TypeStep == TypeOK /\ [Next]_vars => TypeOK'
<1> SUFFICES ASSUME TypeOK, [Next]_vars PROVE TypeOK'
  OBVIOUS
<1> USE DEF outside, guard, timers, history
<1>1. CASE Boot
  BY <1>1 DEF Boot, TypeOK, Pcs
<1>2. CASE Start
  <2>1. poll' \in {None} \cup 0 .. MaxGap + 1
    <3>1. MaxGap + 1 \in Nat /\ elapsed \in Nat
      BY DEF TypeOK
    <3>2. QED
      BY <1>2, <3>1, OlderType DEF Start, TypeOK
  <2>2. since' \in {None} \cup 0 .. Hold
    <3>1. Hold \in Nat /\ elapsed \in Nat
      BY DEF TypeOK
    <3>2. QED
      BY <1>2, <3>1, OlderType DEF Start, TypeOK
  <2>3. QED
    BY <1>2, <2>1, <2>2 DEF Start, TypeOK, Pcs
<1>3. CASE ReadWan
  BY <1>3, FailType DEF ReadWan, TypeOK, Pcs
<1>4. CASE ReadQueue
  <2>1. since' \in {None} \cup 0 .. Hold /\ poll' \in {None} \cup 0 .. MaxGap + 1
    BY <1>4 DEF ReadQueue, Fail, Stable, TypeOK
  <2>2. seen' \in [wan : Wans, paused : BOOLEAN]
    BY <1>4 DEF ReadQueue, TypeOK
  <2>3. pc' \in Pcs /\ calm' \in 0 .. Hold /\ raced' \in BOOLEAN
    <3>1. CASE Fail /\ UNCHANGED raced
      BY <3>1, FailType DEF TypeOK
    <3>2. CASE pc' \in {"sleep", "decide"} /\ calm' \in {0, calm} /\ raced' = FALSE
      <4>1. calm \in 0 .. Hold
        BY DEF TypeOK
      <4>2. pc' \in Pcs
        BY <3>2 DEF Pcs
      <4>3. calm' \in 0 .. Hold
        BY <3>2, <4>1
      <4>4. QED
        BY <3>2, <4>2, <4>3
    <3>3. QED
      BY <1>4, <3>1, <3>2 DEF ReadQueue
  <2>4. QED
    BY <1>4, <2>1, <2>2, <2>3 DEF ReadQueue, TypeOK
<1>5. CASE Relinquish
  <2>1. /\ disk' \in Journal /\ journal' \in Journal
        /\ pc' \in Pcs /\ calm' \in 0 .. Hold
    BY <1>5, SaveType DEF Relinquish, Journal, Pcs
  <2>2. credit' \in BOOLEAN
    BY <1>5 DEF Relinquish
  <2>3. QED
    BY <1>5, <2>1, <2>2 DEF Relinquish, TypeOK
<1>6. CASE Announce
  <2>1. /\ disk' \in Journal /\ journal' \in Journal
        /\ pc' \in Pcs /\ calm' \in 0 .. Hold
    BY <1>6, SaveType DEF Announce, Journal, Pending, Pcs
  <2>2. QED
    BY <1>6, <2>1 DEF Announce, TypeOK
<1>7. CASE Rest
  BY <1>7 DEF Rest, TypeOK, Pcs
<1>8. CASE SendPause \/ SendResume
  <2>1. /\ pc' \in Pcs /\ calm' \in 0 .. Hold
        /\ since' \in {None} \cup 0 .. Hold /\ poll' \in {None} \cup 0 .. MaxGap + 1
    BY <1>8, FailType DEF SendPause, SendResume, Send, TypeOK, Pcs
  <2>2. queue' \in {"running", "guard", "user"} /\ credit' \in BOOLEAN /\ doubt' \in BOOLEAN
    BY <1>8 DEF SendPause, SendResume, Send, TypeOK
  <2>3. QED
    BY <1>8, <2>1, <2>2 DEF SendPause, SendResume, Send, TypeOK
<1>9. CASE Confirm
  <2>1. /\ pc' \in Pcs /\ calm' \in 0 .. Hold
        /\ since' \in {None} \cup 0 .. Hold /\ poll' \in {None} \cup 0 .. MaxGap + 1
    BY <1>9, FailType DEF Confirm, TypeOK, Pcs
  <2>2. credit' \in BOOLEAN /\ doubt' \in BOOLEAN
    BY <1>9 DEF Confirm, TypeOK
  <2>3. QED
    BY <1>9, <2>1, <2>2 DEF Confirm, TypeOK
<1>10. CASE Conclude
  <2>1. /\ disk' \in Journal /\ journal' \in Journal
        /\ pc' \in Pcs /\ calm' \in 0 .. Hold
    BY <1>10, SaveType DEF Conclude, Journal, Pcs
  <2>2. QED
    BY <1>10, <2>1 DEF Conclude, TypeOK
<1>11. CASE Crash \/ Recover
  <2>1. CASE Crash
    <3>1. pc' \in Pcs /\ calm' \in 0 .. Hold
      BY <2>1 DEF Crash, Pcs
    <3>2. QED
      BY <2>1, <3>1 DEF Crash, TypeOK
  <2>2. CASE Recover
    <3>1. disk' \in Journal /\ queue' \in {"running", "guard", "user"}
      BY <2>2 DEF Recover, Journal
    <3>2. QED
      BY <2>2, <3>1 DEF Recover, TypeOK
  <2>3. QED
    BY <1>11, <2>1, <2>2
<1>12. CASE User \/ Uplink
  BY <1>12 DEF User, Uplink, TypeOK
<1>13. CASE Tick
  BY <1>13 DEF Tick, Least, TypeOK
<1>14. CASE UNCHANGED vars
  BY <1>14 DEF vars, TypeOK
<1>15. QED
  BY <1>1, <1>2, <1>3, <1>4, <1>5, <1>6, <1>7, <1>8, <1>9, <1>10, <1>11, <1>12,
     <1>13, <1>14 DEF Next, Step

(* The variables of the guard keep their types.                            *)
THEOREM TypeCorrect == Spec => []TypeOK
  BY TypeInit, TypeStep, PTL DEF Spec
-----------------------------------------------------------------------------
(* The journal and the place of the guard agree, on the disk and in the    *)
(* process.                                                                *)
Agree == /\ pc # "down" => journal = disk
         /\ pc \in {"pause", "pause_check", "own"} => disk = "pause_pending"
         /\ pc \in {"resume", "resume_check", "disown"} => disk = "resume_pending"
         /\ pc = "decide" => disk \notin Pending

(* Ownership stands for a confirmed pause.                                 *)
Earned == disk = "owned" \/ pc \in {"own", "resume"} => credit

(* Doubt is on record, and the guard is not about to act on it.            *)
Recorded == doubt => disk \in Pending /\ pc \notin {"pause", "own", "resume", "disown"}

(* A queue the guard has found running is the user's only if he acted.     *)
Found == /\ pc \in {"pause", "pause_check", "own"} => ~seen.paused
         /\ queue = "user" /\ ~seen.paused
               /\ pc \in {"decide", "pause", "pause_check", "own"} => raced

(* The timer, when it counts, is at most the calm time.                    *)
Covered ==
    /\ since # None =>
          /\ poll # None
          /\ pc \notin {"wan", "queue", "down"} => poll = 0
          /\ pc # "down" /\ poll <= MaxGap => calm >= Least(since + elapsed, Hold)
    /\ pc \in {"wan", "queue"} => calm >= Least(elapsed, Hold)

Guarded == /\ Agree /\ Earned /\ Recorded /\ Found /\ Covered
           /\ pc = "resume" => since >= Hold

LEMMA GuardedInit == Init => Guarded
  BY DEF Init, Guarded, Agree, Earned, Recorded, Found, Covered, Pending

LEMMA GuardedStep == TypeOK /\ Guarded /\ [Next]_vars => Guarded'
<1> SUFFICES ASSUME TypeOK, Guarded, [Next]_vars PROVE Guarded'
  OBVIOUS
<1> USE DEF outside, guard, timers, history
<1>a. Agree /\ Earned /\ Recorded /\ Found /\ Covered /\ (pc = "resume" => since >= Hold)
  BY DEF Guarded
<1>1. Agree'
  BY <1>a DEF Agree, Pending, Next, Step, Boot, Start, ReadWan, ReadQueue, Relinquish,
     Announce, Rest, SendPause, SendResume, Send, Confirm, Conclude, Fail, Save, Crash,
     Recover, User, Uplink, Tick, vars, MustPause, MayResume, Resumed
<1>2. Earned'
  BY <1>a DEF Agree, Earned, Pending, Next, Step, Boot, Start, ReadWan, ReadQueue,
     Relinquish, Announce, Rest, SendPause, SendResume, Send, Confirm, Conclude, Fail,
     Save, Crash, Recover, User, Uplink, Tick, vars, MustPause, MayResume, Resumed
<1>3. Recorded'
  BY <1>a DEF Agree, Recorded, Pending, Next, Step, Boot, Start, ReadWan, ReadQueue,
     Relinquish, Announce, Rest, SendPause, SendResume, Send, Confirm, Conclude, Fail,
     Save, Crash, Recover, User, Uplink, Tick, vars, MustPause, MayResume, Resumed
<1>4. Found'
  BY <1>a DEF Found, TypeOK, Pending, Next, Step, Boot, Start, ReadWan, ReadQueue,
     Relinquish, Announce, Rest, SendPause, SendResume, Send, Confirm, Conclude, Fail,
     Save, Crash, Recover, User, Uplink, Tick, vars, MustPause, MayResume, Resumed
<1>5. Covered'
  <2>1. CASE Start
    BY <1>a, <2>1 DEF Start, Covered, TypeOK, Older, Least, None
  <2>2. CASE ReadQueue
    <3>1. CASE Fail
      BY <3>1 DEF Fail, Covered
    <3>2. ASSUME pc' \in {"sleep", "decide"}, poll' = 0, since' # None,
                 seen.wan = "primary", calm' = calm,
                 since' = IF Stable = None THEN 0 ELSE Stable
          PROVE  calm' >= Least(since' + elapsed', Hold)
      <4>1. elapsed' = elapsed
        BY <2>2 DEF ReadQueue
      <4>2. QED
        BY <1>a, <2>2, <3>2, <4>1 DEF ReadQueue, Stable, Covered, TypeOK, Least, None
    <3>3. QED
      BY <2>2, <3>1, <3>2 DEF ReadQueue, Covered, None
  <2>3. CASE Tick
    BY <1>a, <2>3 DEF Tick, Covered, TypeOK, Least, None
  <2>4. CASE Boot \/ ReadWan \/ Rest \/ Recover \/ User \/ Uplink \/ UNCHANGED vars
    BY <1>a, <2>4 DEF Boot, ReadWan, Rest, Fail, Recover, User, Uplink, vars, Covered
  <2>5. CASE SendPause \/ SendResume \/ Confirm \/ Crash
    BY <1>a, <2>5 DEF SendPause, SendResume, Send, Confirm, Fail, Crash, Covered
  <2>6. CASE Relinquish \/ Announce \/ Conclude
    BY <1>a, <2>6 DEF Relinquish, Announce, Conclude, Save, Covered
  <2>7. QED
    BY <2>1, <2>2, <2>3, <2>4, <2>5, <2>6 DEF Next, Step
<1>6. pc' = "resume" => since' >= Hold
  BY <1>a DEF Next, Step, Boot, Start, ReadWan, ReadQueue, Relinquish, Announce, Rest,
     SendPause, SendResume, Send, Confirm, Conclude, Fail, Save, Crash, Recover, User,
     Uplink, Tick, vars, MayResume
<1>7. QED
  BY <1>1, <1>2, <1>3, <1>4, <1>5, <1>6 DEF Guarded

LEMMA GuardedAlways == Spec => [](TypeOK /\ Guarded)
  BY TypeInit, TypeStep, GuardedInit, GuardedStep, PTL DEF Spec

(* A confirmed pause is resumed at most once, and nothing else is.         *)
THEOREM ResumeTheorem == Spec => ResumesOnce
<1>1. Guarded => (SendResume => credit)
  BY DEF Guarded, Earned, SendResume
<1>2. QED
  BY <1>1, GuardedAlways, PTL DEF ResumesOnce

(* No command is sent while the effect of an earlier one is unknown.       *)
THEOREM DoubtTheorem == Spec => NoCommandInDoubt
<1>1. Guarded => (SendPause \/ SendResume => ~doubt)
  BY DEF Guarded, Recorded, SendPause, SendResume
<1>2. QED
  BY <1>1, GuardedAlways, PTL DEF NoCommandInDoubt

(* A resume comes only after Hold ticks without a sign against it.         *)
THEOREM CalmTheorem == Spec => ResumesInCalm
<1>1. TypeOK /\ Guarded => (SendResume => calm >= Hold)
  BY DEF Guarded, Covered, SendResume, TypeOK, Least, None
<1>2. QED
  BY <1>1, GuardedAlways, PTL DEF ResumesInCalm

(* The guard owns no pause of a user who acted before it read the queue.   *)
THEOREM OwnerTheorem == Spec => OwnsWhatItSaw
<1>1. Guarded /\ [Next]_vars =>
          (disk # "owned" /\ disk' = "owned" => queue # "user" \/ raced)
  BY DEF Guarded, Found, Next, Step, Boot, Start, ReadWan, ReadQueue, Relinquish,
     Announce, Rest, SendPause, SendResume, Send, Confirm, Conclude, Save, Crash,
     Recover, User, Uplink, Tick, vars, guard, timers, outside, history
<1>2. QED
  BY <1>1, GuardedAlways, PTL DEF OwnsWhatItSaw, Spec

=============================================================================
