-------------------------- MODULE QueuePrecheckProofs --------------------------
(* For any runs, checks, heads, page sizes and limits: what the precheck      *)
(* reports of candidates, quota and active runs stands although GitHub moves  *)
(* on between its calls.                                                      *)
EXTENDS QueuePrecheck, FiniteSetTheorems, TLAPS

(* The order of the queries, and the order in which a run advances.           *)

LEMMA QueriesInOrder ==
  /\ ActiveStatuses = {"requested", "pending", "queued", "waiting", "in_progress"}
  /\ WorkflowRunStatuses = ActiveStatuses \cup {"completed"}
<1>1. Len(QueryOrder) = 5
  BY DEF QueryOrder
<1>2. 1 .. 5 = {1, 2, 3, 4, 5}
  OBVIOUS
<1>3. QED
  BY <1>1, <1>2 DEF ActiveStatuses, QueryOrder, WorkflowRunStatuses

LEMMA NextCall ==
  /\ QueryOrder[1] = "requested"
  /\ After("requested") = "pending" /\ After("pending") = "queued"
  /\ After("queued") = "waiting" /\ After("waiting") = "in_progress"
  /\ After("in_progress") = "prs"
<1>1. Len(QueryOrder) = 5 /\ \A i, j \in 1 .. 5 : QueryOrder[i] = QueryOrder[j] => i = j
  BY DEF QueryOrder
<1>2. \A i \in 1 .. 5 :
        (CHOOSE j \in 1 .. Len(QueryOrder) : QueryOrder[j] = QueryOrder[i]) = i
  BY <1>1
<1>3. ASSUME NEW i \in 1 .. 5
      PROVE  After(QueryOrder[i]) = IF i = 5 THEN "prs" ELSE QueryOrder[i + 1]
  BY <1>1, <1>2 DEF After
<1>4. QED
  BY <1>3 DEF QueryOrder

LEMMA Ranks ==
  /\ Rank["requested"] = 1 /\ Rank["pending"] = 2 /\ Rank["queued"] = 3
  /\ Rank["waiting"] = 4 /\ Rank["in_progress"] = 5 /\ Rank["completed"] = 6
<1>1. \A i, j \in 1 .. 6 : Lifecycle[i] = Lifecycle[j] => i = j
  BY DEF Lifecycle
<1>2. \A i \in 1 .. 6 : (CHOOSE j \in 1 .. 6 : Lifecycle[j] = Lifecycle[i]) = i
  BY <1>1
<1>3. \A i \in 1 .. 6 : Lifecycle[i] \in WorkflowRunStatuses => Rank[Lifecycle[i]] = i
  BY <1>2 DEF Rank
<1>4. QED
  BY <1>3, QueriesInOrder DEF Lifecycle

(* Places in a list of runs: none is beyond the end of the list, and a run    *)
(* only moves back when the list grows.                                       *)

LEMMA InPlace ==
  ASSUME NEW list, IsFiniteSet(list), NEW r
  PROVE  Place(r, list) \in Nat /\ Place(r, list) <= Cardinality(list)
<1>1. {s \in list : s >= r} \subseteq list
  OBVIOUS
<1>2. QED
  BY <1>1, FS_Subset, FS_CardinalityType DEF Place

LEMMA WholeList ==
  ASSUME NEW list, IsFiniteSet(list), NEW n \in Nat, Cardinality(list) <= n
  PROVE  First(list, n) = list
<1>1. \A r : Place(r, list) \in Nat /\ Place(r, list) <= Cardinality(list)
  BY InPlace
<1>2. Cardinality(list) \in Nat
  BY FS_CardinalityType
<1>3. \A r : Place(r, list) <= n
  BY <1>1, <1>2
<1>4. QED
  BY <1>3 DEF First

LEMMA LaterPlace ==
  ASSUME NEW list, NEW more, list \subseteq more, IsFiniteSet(more), more \subseteq Nat, NEW r
  PROVE  Place(r, list) \in Nat /\ Place(r, more) \in Nat /\ Place(r, list) <= Place(r, more)
<1>1. IsFiniteSet({s \in more : s >= r}) /\ IsFiniteSet({s \in list : s >= r})
  BY FS_Subset
<1>2. {s \in list : s >= r} \subseteq {s \in more : s >= r}
  OBVIOUS
<1>3. QED
  BY <1>1, <1>2, FS_Subset, FS_CardinalityType DEF Place
-----------------------------------------------------------------------------
(* green has every head that is all successful now, so the head whose checks  *)
(* the answer shows is in it.                                                 *)
GreenInv ==
  /\ candidates \subseteq green
  /\ \A h \in Heads : (\A d \in Required : checks[h][d] = "success") => h \in green
  /\ checks \in [Heads -> [CheckRuns -> {"pending", "success"}]]
  /\ head \in Heads \cup {NoHead} /\ pr \in Heads \cup {NoHead}
  /\ pc = "checks" => pr \in Heads

LEMMA AfterQuery == \A s \in ActiveStatuses :
  After(s) \in {"pending", "queued", "waiting", "in_progress", "prs"}
  BY QueriesInOrder, NextCall

LEMMA GreenInit == Init => GreenInv
<1> SUFFICES ASSUME Init PROVE GreenInv
  OBVIOUS
<1>1. <<"flate", "ci">> \in Required /\ Required \subseteq CheckRuns
  BY DEF Required, CheckRuns
<1>2. QED
  BY <1>1, PrecheckAssumption DEF Init, GreenInv, NoHead

LEMMA GreenStep == GreenInv /\ [Next]_vars => GreenInv'
<1> SUFFICES ASSUME GreenInv, [Next]_vars PROVE GreenInv'
  OBVIOUS
<1>1. CASE UNCHANGED vars
  BY <1>1 DEF GreenInv, vars, github, found, history
<1>2. CASE RequiredChecks
  BY <1>2 DEF GreenInv, RequiredChecks, Goto
<1>3. CASE RecentPage
  BY <1>3, NextCall DEF GreenInv, RecentPage, Goto, history
<1>4. CASE OlderRuns
  BY <1>4, AfterQuery DEF GreenInv, OlderRuns, Goto, history
<1>5. CASE PullRequests
  BY <1>5 DEF GreenInv, PullRequests, Goto, history, NoHead
<1>6. CASE CandidateChecks
  BY <1>6 DEF GreenInv, CandidateChecks, ChecksGreen, Goto, history
<1>7. CASE RateLimit
  BY <1>7 DEF GreenInv, RateLimit, Goto, github
<1>8. CASE Decide
  BY <1>8 DEF GreenInv, Decide, Goto, github, history
<1>9. CASE CallFails
  BY <1>9 DEF GreenInv, CallFails, Goto, github, found, history
<1>10. ASSUME NEW r \in Runs, RunMoves(r) \/ RunCreated(r) PROVE GreenInv'
  BY <1>10 DEF GreenInv, RunMoves, RunCreated, found
<1>11. ASSUME NEW h \in Heads, NEW c \in CheckRuns, CheckMoves(h, c) PROVE GreenInv'
  <2>1. checks' \in [Heads -> [CheckRuns -> {"pending", "success"}]]
    BY <1>11 DEF GreenInv, CheckMoves
  <2>2. green' = green \cup {k \in Heads : \A d \in Required : checks'[k][d] = "success"}
    BY <1>11 DEF CheckMoves
  <2>3. UNCHANGED <<head, pc, pr, candidates>>
    BY <1>11 DEF CheckMoves, found
  <2>4. QED
    BY <2>1, <2>2, <2>3 DEF GreenInv
<1>12. CASE HeadMoves
  BY <1>12 DEF GreenInv, HeadMoves, found
<1>13. CASE OthersCall
  BY <1>13 DEF GreenInv, OthersCall, found
<1>14. QED
  BY <1>1, <1>2, <1>3, <1>4, <1>5, <1>6, <1>7, <1>8, <1>9, <1>10, <1>11, <1>12, <1>13
     DEF Next, Precheck, GitHub

(* Every candidate was green at the moment its checks were read.              *)
THEOREM GreenTheorem == Spec => []CandidateGreen
<1>1. GreenInv => CandidateGreen
  BY DEF GreenInv, CandidateGreen
<1>2. QED
  BY GreenInit, GreenStep, <1>1, PTL DEF Spec
-----------------------------------------------------------------------------
(* Nothing but calls of others uses quota after the sample.                   *)
QuotaInv ==
  /\ core \in Nat /\ graphql \in Nat
  /\ others \in Nat \X Nat
  /\ pc \in {"decide", "done"} =>
       /\ sample \in Nat \X Nat
       /\ core + others[2] >= sample[1] /\ graphql + others[2] >= sample[2]
  /\ pc = "done" /\ report.mutation_allowed =>
       sample[1] >= MinRemaining /\ sample[2] >= MinRemaining

LEMMA QuotaInit == Init => QuotaInv
  BY PrecheckAssumption DEF Init, QuotaInv

LEMMA QuotaStep == QuotaInv /\ [Next]_vars => QuotaInv'
<1> SUFFICES ASSUME QuotaInv, [Next]_vars PROVE QuotaInv'
  OBVIOUS
<1>1. CASE UNCHANGED vars
  BY <1>1 DEF QuotaInv, vars, github, found, history
<1>2. CASE RequiredChecks
  BY <1>2 DEF QuotaInv, RequiredChecks, Goto, Spend
<1>3. CASE RecentPage
  BY <1>3, NextCall DEF QuotaInv, RecentPage, Goto, Spend, history
<1>4. CASE OlderRuns
  BY <1>4, AfterQuery DEF QuotaInv, OlderRuns, Goto, Spend, history
<1>5. CASE PullRequests
  BY <1>5 DEF QuotaInv, PullRequests, Goto, history
<1>6. CASE CandidateChecks
  BY <1>6 DEF QuotaInv, CandidateChecks, Goto, Spend, history
<1>7. CASE RateLimit
  BY <1>7 DEF QuotaInv, RateLimit, Goto, github
<1>8. CASE Decide
  BY <1>8 DEF QuotaInv, Decide, Goto, github, history, MutationAllowed, QuotaOk, GraphqlQuotaOk
<1>9. CASE CallFails
  BY <1>9 DEF QuotaInv, CallFails, Goto, github, found, history
<1>10. CASE GitHub
  <2>1. CASE OthersCall
    BY <2>1 DEF QuotaInv, OthersCall, found
  <2>2. CASE HeadMoves
    BY <2>2 DEF QuotaInv, HeadMoves, found
  <2>3. ASSUME NEW r \in Runs, RunMoves(r) \/ RunCreated(r) PROVE QuotaInv'
    BY <2>3 DEF QuotaInv, RunMoves, RunCreated, found
  <2>4. ASSUME NEW h \in Heads, NEW c \in CheckRuns, CheckMoves(h, c) PROVE QuotaInv'
    BY <2>4 DEF QuotaInv, CheckMoves, found
  <2>5. QED
    BY <1>10, <2>1, <2>2, <2>3, <2>4 DEF GitHub
<1>11. QED
  BY <1>1, <1>2, <1>3, <1>4, <1>5, <1>6, <1>7, <1>8, <1>9, <1>10 DEF Next, Precheck

(* An allowed mutation finds the reserve, less what others used meanwhile.    *)
THEOREM ReserveTheorem == Spec => []QuotaReserve
<1>1. QuotaInv => QuotaReserve
  BY PrecheckAssumption DEF QuotaInv, QuotaReserve, Allowed, Reported
<1>2. QED
  BY QuotaInit, QuotaStep, <1>1, PTL DEF Spec
-----------------------------------------------------------------------------
(* A run active since the start that is not counted yet is still to come: a   *)
(* recent one has a place after the part of the list that was fetched, as new *)
(* runs can only push it back, and an older one has not passed the status     *)
(* that is queried next, as it advanced in the order of the queries, or was   *)
(* taken back.                                                                *)
Later == {"prs", "checks", "rate", "decide", "done"}

CountInv ==
  /\ status \in [Runs -> WorkflowRunStatuses \cup {"absent"}]
  /\ throughout \subseteq {r \in Runs : Active(r)}
  /\ length \in Nat /\ length <= Cardinality(Present)
  /\ pc = "protection" => length = 0
  /\ pc = "recent" =>
       \A r \in throughout \cap RecentRuns : Place(r, Present) <= length => r \in counted
  /\ pc \in ActiveStatuses \cup Later /\ complete => throughout \cap RecentRuns \subseteq counted
  /\ pc \in ActiveStatuses /\ complete =>
       \A r \in (throughout \ backward) \cap OldRuns :
         r \in counted \/ Rank[status[r]] >= Rank[pc]
  /\ pc \in Later /\ complete => (throughout \ backward) \cap OldRuns \subseteq counted
  /\ pc = "done" /\ report.mutation_allowed => complete

LEMMA RankFacts ==
  /\ \A s \in WorkflowRunStatuses : Rank[s] \in 1 .. 6
  /\ \A s \in ActiveStatuses : Rank[s] \in 1 .. 5
  /\ \A s, t \in ActiveStatuses : Rank[s] = Rank[t] => s = t
  /\ \A s \in ActiveStatuses \ {"in_progress"} :
       After(s) \in ActiveStatuses /\ Rank[After(s)] = Rank[s] + 1
  /\ "in_progress" \in ActiveStatuses /\ Rank["in_progress"] = 5 /\ After("in_progress") = "prs"
  /\ QueryOrder[1] \in ActiveStatuses /\ Rank[QueryOrder[1]] = 1
<1>1. \A s \in ActiveStatuses : Rank[s] \in 1 .. 5
  BY Ranks, QueriesInOrder
<1>2. \A s \in WorkflowRunStatuses : Rank[s] \in 1 .. 6
  BY Ranks, QueriesInOrder
<1>3. \A s, t \in ActiveStatuses : Rank[s] = Rank[t] => s = t
  BY Ranks, QueriesInOrder
<1>4. \A s \in ActiveStatuses \ {"in_progress"} :
        After(s) \in ActiveStatuses /\ Rank[After(s)] = Rank[s] + 1
  BY Ranks, QueriesInOrder, NextCall
<1>5. QED
  BY <1>1, <1>2, <1>3, <1>4, Ranks, QueriesInOrder, NextCall

LEMMA Apart ==
  /\ ActiveStatuses \cap (Later \cup {"protection", "recent", "failed", "absent", "completed"}) = {}
  BY QueriesInOrder DEF Later

LEMMA PresentFinite ==
  /\ IsFiniteSet(Present) /\ Present \subseteq Nat
  /\ IsFiniteSet(Present') /\ Present' \subseteq Nat
<1>1. Present \subseteq Runs /\ Present' \subseteq Runs
  BY DEF Present, Runs
<1>2. QED
  BY <1>1, PrecheckAssumption, FS_Subset

LEMMA FirstPlace ==
  ASSUME NEW r \in Present PROVE Place(r, Present) \in Nat \ {0}
<1>1. Place(r, Present) \in Nat
  BY PresentFinite, InPlace
<1>2. r \in {s \in Present : s >= r} /\ IsFiniteSet({s \in Present : s >= r})
  BY PresentFinite, FS_Subset
<1>3. QED
  BY <1>1, <1>2, FS_EmptySet DEF Place

LEMMA CountInit == Init => CountInv
<1> SUFFICES ASSUME Init PROVE CountInv
  OBVIOUS
<1>1. Cardinality(Present) \in Nat
  BY PresentFinite, FS_CardinalityType
<1>2. QED
  BY <1>1, Apart DEF Init, CountInv, Later

LEMMA CountProtection == CountInv /\ RequiredChecks => CountInv'
<1> SUFFICES ASSUME CountInv, RequiredChecks PROVE CountInv'
  OBVIOUS
<1>1. /\ pc' = "recent" /\ length' = 0 /\ length = 0
      /\ throughout' = {r \in Runs : Active(r)}
      /\ UNCHANGED <<status, length, counted, Present>>
  BY DEF RequiredChecks, Goto, CountInv, Present
<1>2. \A r \in throughout' \cap RecentRuns : r \in Present
  BY <1>1, Apart DEF Active, Present
<1>3. \A r \in throughout' \cap RecentRuns : ~ Place(r, Present) <= length'
  BY <1>1, <1>2, FirstPlace
<1>4. \A r \in Runs : Active(r)' = Active(r)
  BY <1>1 DEF Active
<1>5. \A r : Place(r, Present)' = Place(r, Present)
  BY <1>1 DEF Place
<1>6. QED
  BY <1>1, <1>3, <1>4, <1>5, Apart DEF CountInv, Later

LEMMA CountRecent == CountInv /\ RecentPage => CountInv'
<1> SUFFICES ASSUME CountInv, RecentPage PROVE CountInv'
  OBVIOUS
<1>1. /\ pc = "recent" /\ UNCHANGED <<status, throughout, report, Present>>
      /\ counted' = counted \cup {r \in Page : Active(r)}
      /\ \A r \in Runs : Active(r)' = Active(r)
  BY DEF RecentPage, history, Present, Active
<1>2. Cardinality(Present) \in Nat /\ length \in Nat /\ PageSize \in Nat \ {0}
      /\ RecentLimit \in Nat /\ length <= Cardinality(Present)
  BY PresentFinite, FS_CardinalityType, PrecheckAssumption DEF CountInv
<1>3. length' = IF Cardinality(Present) < Upto THEN Cardinality(Present) ELSE Upto
  BY DEF RecentPage
<1>4. Upto \in Nat /\ Upto <= length + PageSize /\ Upto <= RecentLimit
      /\ (Upto # RecentLimit => Upto = length + PageSize)
  BY <1>2 DEF Upto
<1>5. length' \in Nat /\ length' <= Cardinality(Present) /\ length' <= Upto
  BY <1>2, <1>3, <1>4
<1>6. ASSUME NEW r \in throughout \cap RecentRuns, Place(r, Present) <= Upto
      PROVE  r \in counted'
  <2>1. r \in Present /\ Active(r) /\ r \in RecentRuns
    BY Apart DEF CountInv, Active, Present
  <2>2. Place(r, Present) \in Nat
    BY <2>1, FirstPlace
  <2>3. CASE Place(r, Present) <= length
    BY <1>1, <1>6, <2>3 DEF CountInv
  <2>4. CASE ~ Place(r, Present) <= length
    <3>1. r \in Page
      BY <1>6, <2>1, <2>4 DEF Page, First
    <3>2. QED
      BY <3>1, <2>1, <1>1
  <2>5. QED
    BY <2>3, <2>4
<1>7. \A r : Place(r, Present)' = Place(r, Present)
  BY <1>1 DEF Place
<1>8. CASE pc' = "recent"
  <2>1. \A r \in throughout \cap RecentRuns : Place(r, Present) <= length' => r \in counted'
    <3> SUFFICES ASSUME NEW r \in throughout \cap RecentRuns, Place(r, Present) <= length'
                 PROVE  r \in counted'
      OBVIOUS
    <3>1. Place(r, Present) \in Nat
      BY PresentFinite, InPlace
    <3>2. Place(r, Present) <= Upto
      BY <3>1, <1>4, <1>5
    <3>3. QED
      BY <3>2, <1>6
  <2>2. QED
    BY <1>1, <1>2, <1>5, <1>7, <1>8, <2>1, Apart DEF CountInv, Later
<1>9. CASE pc' # "recent"
  <2>1. /\ pc' = QueryOrder[1]
        /\ ~ (Cardinality(Present) >= length + PageSize /\ length' < RecentLimit)
        /\ complete' => length' < RecentLimit
    BY <1>1, <1>9 DEF RecentPage, Goto
  <2>2. complete' => throughout \cap RecentRuns \subseteq counted'
    <3> SUFFICES ASSUME complete', NEW r \in throughout \cap RecentRuns PROVE r \in counted'
      OBVIOUS
    <3>1. Cardinality(Present) < length + PageSize /\ length' < RecentLimit
      BY <2>1, <1>2
    <3>2. Place(r, Present) \in Nat /\ Place(r, Present) <= Cardinality(Present)
      BY PresentFinite, InPlace
    <3>3. Cardinality(Present) <= Upto
      BY <3>1, <1>2, <1>3, <1>4
    <3>4. Place(r, Present) <= Upto
      BY <3>2, <3>3, <1>2, <1>4
    <3>5. QED
      BY <3>4, <1>6
  <2>3. \A r \in throughout : Rank[status[r]] >= Rank[pc']
    BY <2>1, RankFacts DEF CountInv, Active
  <2>4. QED
    BY <1>1, <1>2, <1>5, <2>1, <2>2, <2>3, RankFacts, Apart DEF CountInv, Later
<1>10. QED
  BY <1>8, <1>9

LEMMA CountOlder == CountInv /\ OlderRuns => CountInv'
<1> SUFFICES ASSUME CountInv, OlderRuns PROVE CountInv'
  OBVIOUS
<1> DEFINE there == {r \in OldRuns : status[r] = pc}
<1>1. /\ pc \in ActiveStatuses /\ pc' = After(pc)
      /\ UNCHANGED <<status, throughout, backward, length, report, Present>>
      /\ counted' = counted \cup First(there, MaxActive)
      /\ complete' => complete /\ Cardinality(there) < MaxActive
      /\ \A r \in Runs : Active(r)' = Active(r)
  BY DEF OlderRuns, Goto, history, Present, Active
<1>2. complete' => there \subseteq counted'
  <2> SUFFICES ASSUME complete' PROVE there \subseteq counted'
    OBVIOUS
  <2>1. IsFiniteSet(there) /\ there \subseteq Nat
    BY PrecheckAssumption, FS_Subset DEF Runs
  <2>2. Cardinality(there) <= MaxActive /\ MaxActive \in Nat
    BY <1>1, <2>1, PrecheckAssumption, FS_CardinalityType
  <2>3. First(there, MaxActive) = there
    <3> HIDE DEF there
    <3>1. QED
      BY <2>1, <2>2, WholeList
  <2>4. QED
    BY <1>1, <2>3
<1>3. ASSUME complete', NEW r \in (throughout \ backward) \cap OldRuns, r \notin counted'
      PROVE  Rank[status[r]] > Rank[pc]
  <2>1. status[r] \in ActiveStatuses /\ r \notin counted /\ status[r] # pc
    BY <1>1, <1>2, <1>3 DEF CountInv, Active
  <2>2. Rank[status[r]] >= Rank[pc]
    BY <1>1, <1>3, <2>1 DEF CountInv
  <2>3. QED
    BY <1>1, <2>1, <2>2, RankFacts
<1>4. complete' => throughout \cap RecentRuns \subseteq counted'
  BY <1>1 DEF CountInv
<1>5. CASE pc = "in_progress"
  <2>1. complete' => (throughout \ backward) \cap OldRuns \subseteq counted'
    BY <1>3, <1>5, RankFacts DEF CountInv, Active
  <2>2. pc' = "prs"
    BY <1>1, <1>5, RankFacts
  <2>3. QED
    BY <1>1, <1>4, <2>1, <2>2, Apart DEF CountInv, Later
<1>6. CASE pc # "in_progress"
  <2>1. pc' \in ActiveStatuses /\ Rank[pc'] = Rank[pc] + 1
    BY <1>1, <1>6, RankFacts
  <2>2. ASSUME complete', NEW r \in (throughout \ backward) \cap OldRuns
        PROVE  r \in counted' \/ Rank[status[r]] >= Rank[pc']
    <3>1. Rank[status[r]] \in 1 .. 5 /\ Rank[pc] \in 1 .. 5
      BY <1>1, RankFacts DEF CountInv, Active
    <3>2. QED
      BY <1>3, <2>1, <2>2, <3>1
  <2>3. QED
    BY <1>1, <1>4, <2>1, <2>2, Apart DEF CountInv, Later
<1>7. QED
  BY <1>5, <1>6

LEMMA CountWorld == CountInv /\ GitHub => CountInv'
<1> SUFFICES ASSUME CountInv, GitHub PROVE CountInv'
  OBVIOUS
<1>1. ASSUME UNCHANGED <<status, throughout, backward, length, pc, counted, complete, report>>
      PROVE  CountInv'
  BY <1>1 DEF CountInv, Present, Active, Place
<1>2. CASE OthersCall \/ HeadMoves
  BY <1>1, <1>2 DEF OthersCall, HeadMoves, found
<1>3. ASSUME NEW h \in Heads, NEW c \in CheckRuns, CheckMoves(h, c) PROVE CountInv'
  BY <1>1, <1>3 DEF CheckMoves, found
<1>4. ASSUME NEW r \in Runs, NEW t \in WorkflowRunStatuses,
             status' = [status EXCEPT ![r] = t],
             backward \cap throughout' \subseteq backward',
             r \in throughout' \ backward' => Rank[t] >= Rank[status[r]],
             pc \in {"recent"} \cup ActiveStatuses,
             throughout' = {k \in throughout : status'[k] \in ActiveStatuses},
             UNCHANGED <<length, pc, counted, complete, report>>
      PROVE  CountInv'
  <2>1. status' \in [Runs -> WorkflowRunStatuses \cup {"absent"}]
    BY <1>4 DEF CountInv
  <2>2. throughout' \subseteq throughout /\ throughout' \subseteq {k \in Runs : Active(k)'}
    BY <1>4 DEF CountInv, Active
  <2>3. Present \subseteq Present'
    BY <1>4, QueriesInOrder DEF CountInv, Present, Runs
  <2>4. length \in Nat /\ length <= Cardinality(Present')
    <3>1. Cardinality(Present) \in Nat /\ Cardinality(Present') \in Nat
          /\ Cardinality(Present) <= Cardinality(Present')
      BY <2>3, PresentFinite, FS_Subset, FS_CardinalityType
    <3>2. QED
      BY <3>1 DEF CountInv
  <2>5. \A k : /\ Place(k, Present) \in Nat /\ Place(k, Present') \in Nat
              /\ Place(k, Present) <= Place(k, Present')
    BY <2>3, PresentFinite, LaterPlace
  <2>6. \A k : Place(k, Present)' = Place(k, Present')
    BY DEF Place
  <2>7. \A k \in throughout' \ backward' : Rank[status'[k]] >= Rank[status[k]]
    <3> SUFFICES ASSUME NEW k \in throughout' \ backward' PROVE Rank[status'[k]] >= Rank[status[k]]
      OBVIOUS
    <3>1. k \in Runs /\ status[k] \in ActiveStatuses /\ Rank[status[k]] \in Nat
      BY <2>2, RankFacts DEF CountInv, Active
    <3>2. CASE k = r
      <4>1. status'[k] = t
        BY <1>4, <3>2 DEF CountInv
      <4>2. QED
        BY <1>4, <3>2, <4>1
    <3>3. CASE k # r
      BY <1>4, <3>1, <3>3 DEF CountInv
    <3>4. QED
      BY <3>2, <3>3
  <2>8. pc = "recent" =>
          \A k \in throughout' \cap RecentRuns : Place(k, Present') <= length => k \in counted
    BY <2>2, <2>4, <2>5 DEF CountInv
  <2>9. pc \in ActiveStatuses /\ complete =>
          \A k \in (throughout' \ backward') \cap OldRuns :
            k \in counted \/ Rank[status'[k]] >= Rank[pc]
    <3> SUFFICES ASSUME pc \in ActiveStatuses, complete,
                        NEW k \in (throughout' \ backward') \cap OldRuns, k \notin counted
                 PROVE  Rank[status'[k]] >= Rank[pc]
      OBVIOUS
    <3>1. Rank[status[k]] >= Rank[pc] /\ k \in throughout
      BY <1>4, <2>2 DEF CountInv
    <3>2. Rank[status[k]] \in 1 .. 5 /\ Rank[pc] \in 1 .. 5 /\ Rank[status'[k]] \in 1 .. 5
      BY <2>2, <3>1, RankFacts DEF CountInv, Active
    <3>3. QED
      BY <2>7, <3>1, <3>2
  <2>10. QED
    BY <1>4, <2>1, <2>2, <2>4, <2>6, <2>8, <2>9, Apart DEF CountInv, Later
<1>5. ASSUME NEW r \in Runs, RunMoves(r) PROVE CountInv'
  <2>1. PICK t \in WorkflowRunStatuses \ {status[r]} :
          /\ status' = [status EXCEPT ![r] = t]
          /\ backward' = throughout' \cap
                         (backward \cup {k \in {r} : Rank[t] < Rank[status[k]]})
    BY <1>5 DEF RunMoves
  <2>2. status[r] \in WorkflowRunStatuses /\ Rank[status[r]] \in Nat /\ Rank[t] \in Nat
    BY <1>5, RankFacts DEF RunMoves, CountInv
  <2>3. r \in throughout' \ backward' => Rank[t] >= Rank[status[r]]
    BY <1>5, <2>1, <2>2 DEF RunMoves
  <2>4. QED
    BY <1>4, <1>5, <2>1, <2>3 DEF RunMoves, Note, Inventory, found
<1>6. ASSUME NEW r \in Runs, RunCreated(r) PROVE CountInv'
  <2>1. "requested" \in WorkflowRunStatuses
    BY QueriesInOrder
  <2>2. r \notin throughout
    BY <1>6, Apart DEF RunCreated, CountInv, Active
  <2>3. r \notin throughout' /\ backward' = backward
    BY <1>6, <2>2 DEF RunCreated, Note
  <2>4. QED
    BY <1>4, <1>6, <2>1, <2>3 DEF RunCreated, Note, Inventory, found
<1>7. QED
  BY <1>2, <1>3, <1>5, <1>6 DEF GitHub

LEMMA CountStep == CountInv /\ [Next]_vars => CountInv'
<1> SUFFICES ASSUME CountInv, [Next]_vars PROVE CountInv'
  OBVIOUS
<1>1. ASSUME UNCHANGED <<status, throughout, backward, length, counted, complete>>,
             (pc \in Later /\ pc' \in Later) \/ pc' = "failed",
             pc' = "done" /\ report'.mutation_allowed => complete
      PROVE  CountInv'
  BY <1>1, Apart DEF CountInv, Present, Active, Place, Later
<1>2. CASE UNCHANGED vars
  BY <1>2 DEF CountInv, vars, github, found, history, Present, Active, Place
<1>3. CASE PullRequests \/ CandidateChecks \/ RateLimit
  BY <1>1, <1>3 DEF PullRequests, CandidateChecks, RateLimit, Goto, github, history, Later
<1>4. CASE Decide
  BY <1>1, <1>4 DEF Decide, Goto, MutationAllowed, github, history, Later
<1>5. CASE CallFails
  BY <1>1, <1>5 DEF CallFails, Goto, github, found, history
<1>6. QED
  BY <1>2, <1>3, <1>4, <1>5, CountProtection, CountRecent, CountOlder, CountWorld
     DEF Next, Precheck

(* However GitHub moves the runs, an allowed mutation has counted every one   *)
(* that was active during the whole inventory, but for those taken back.      *)
THEOREM CountTheorem == Spec => []ActiveCounted
<1>1. CountInv => ActiveCounted
  BY DEF CountInv, ActiveCounted, Allowed, Reported, Later, Runs
<1>2. QED
  BY CountInit, CountStep, <1>1, PTL DEF Spec
-----------------------------------------------------------------------------
LEMMA CallPlaces ==
  /\ QueryOrder[1] \in Calls /\ QueryOrder[1] \in ActiveStatuses
  /\ \A s \in ActiveStatuses : s \in Calls /\ After(s) \in Calls
  /\ {"protection", "recent", "prs", "checks", "rate"} \subseteq Calls
  /\ Calls \cap {"decide", "done", "failed"} = {}
<1>1. Calls = {"protection", "recent", "requested", "pending", "queued", "waiting",
               "in_progress", "prs", "checks", "rate"}
  BY QueriesInOrder DEF Calls, Inventory
<1>2. QED
  BY <1>1, QueriesInOrder, NextCall

LEMMA TypeInit == Init => TypeOK
<1> SUFFICES ASSUME Init PROVE TypeOK
  OBVIOUS
<1>1. pc \in Calls
  BY CallPlaces DEF Init
<1>2. 0 \in 0 .. RecentLimit /\ head \in Heads \cup {NoHead}
  BY PrecheckAssumption DEF Init
<1>3. status \in [Runs -> WorkflowRunStatuses \cup {"absent"}]
  BY DEF Init
<1>4. QED
  BY <1>1, <1>2, <1>3 DEF Init, TypeOK, Reported

LEMMA TypeStep == TypeOK /\ GreenInv /\ [Next]_vars => TypeOK'
<1> SUFFICES ASSUME TypeOK, GreenInv, [Next]_vars PROVE TypeOK'
  OBVIOUS
<1> USE DEF TypeOK, Reported
<1>1. CASE UNCHANGED vars
  BY <1>1 DEF vars, github, found, history
<1>2. CASE RequiredChecks
  BY <1>2, CallPlaces DEF RequiredChecks, Goto
<1>3. CASE RecentPage
  <2>1. listed' \subseteq RecentRuns /\ counted' \subseteq Runs
    BY <1>3 DEF RecentPage, Page, First, Present, Runs
  <2>2. length' \in 0 .. RecentLimit
    <3>1. Upto \in 0 .. RecentLimit /\ Cardinality(Present) \in Nat
      BY PresentFinite, FS_CardinalityType, PrecheckAssumption DEF Upto
    <3>2. QED
      BY <1>3, <3>1, PrecheckAssumption DEF RecentPage
  <2>3. valid' \in BOOLEAN /\ complete' \in BOOLEAN
    BY <1>3 DEF RecentPage, WorkflowRunsValid
  <2>4. pc' \in Calls /\ pc \in Calls
    BY <1>3, CallPlaces DEF RecentPage, Goto
  <2>5. QED
    BY <1>3, <2>1, <2>2, <2>3, <2>4, CallPlaces DEF RecentPage, history
<1>4. CASE OlderRuns
  <2>1. counted' \subseteq Runs /\ valid' \in BOOLEAN /\ complete' \in BOOLEAN
    BY <1>4 DEF OlderRuns, First, Runs
  <2>2. pc' \in Calls /\ pc \in Calls
    BY <1>4, CallPlaces DEF OlderRuns, Goto
  <2>3. QED
    BY <1>4, <2>1, <2>2, CallPlaces DEF OlderRuns, history
<1>5. CASE PullRequests
  BY <1>5, CallPlaces DEF PullRequests, Goto, history
<1>6. CASE CandidateChecks
  BY <1>6, CallPlaces DEF CandidateChecks, Goto, history, GreenInv
<1>7. CASE RateLimit
  BY <1>7, CallPlaces DEF RateLimit, Goto, github
<1>8. CASE Decide
  BY <1>8, CallPlaces DEF Decide, Goto, github, history
<1>9. CASE CallFails
  BY <1>9, CallPlaces DEF CallFails, Goto, github, found, history
<1>10. ASSUME NEW r \in Runs, RunMoves(r) PROVE TypeOK'
  BY <1>10 DEF RunMoves, Note, found
<1>11. ASSUME NEW r \in Runs, RunCreated(r) PROVE TypeOK'
  BY <1>11, QueriesInOrder DEF RunCreated, Note, found
<1>12. ASSUME NEW h \in Heads, NEW c \in CheckRuns, CheckMoves(h, c) PROVE TypeOK'
  BY <1>12 DEF CheckMoves, found
<1>13. CASE HeadMoves
  BY <1>13 DEF HeadMoves, found
<1>14. CASE OthersCall
  BY <1>14 DEF OthersCall, found
<1>15. QED
  BY <1>1, <1>2, <1>3, <1>4, <1>5, <1>6, <1>7, <1>8, <1>9, <1>10, <1>11, <1>12, <1>13,
     <1>14 DEF Next, Precheck, GitHub

(* The variables of the precheck stay within their types.                     *)
THEOREM TypeCorrect == Spec => []TypeOK
  BY GreenInit, GreenStep, TypeInit, TypeStep, PTL DEF Spec
=============================================================================
