---------------------------- MODULE QueuePrecheck ----------------------------
(* scripts/renovate-queue-precheck.py: what the precheck concludes from some  *)
(* ten calls to GitHub made one after another, while workflow runs are        *)
(* created and advance, checks finish or run again, pull requests get new     *)
(* heads and other clients use up the quota.  The limits are scaled down:     *)
(* PageSize for the pages in which gh fetches a list, RecentLimit for         *)
(* WORKFLOW_RUN_SNAPSHOT_LIMIT, MaxActive for MAX_ACTIVE_RUNS, MinRemaining   *)
(* for both MIN_*_REMAINING.  Run identifiers grow with creation time.        *)
(* What the run inventory and the pull request inventory read is disjoint and *)
(* no property relates the two, so a behaviour has changes in one (focus).    *)
EXTENDS Integers, Sequences, FiniteSets

CONSTANTS
  OldRuns, RecentRuns,   \* identifiers created before and after the cutoff
  PageSize, RecentLimit, MaxActive, MinRemaining,
  Heads,                 \* heads a pull request may have
  Quota,                 \* either quota left when the precheck starts
  MaxOthers,             \* bound: calls of other clients on the same quota
  MaxMoves, MaxPushes    \* bounds: changes of runs, of pull requests, at GitHub

Runs == OldRuns \cup RecentRuns

ASSUME PrecheckAssumption ==
  /\ Runs \subseteq Nat /\ IsFiniteSet(Runs)
  /\ \A o \in OldRuns, r \in RecentRuns : o < r
  /\ PageSize \in Nat \ {0} /\ RecentLimit \in Nat /\ MaxActive \in Nat
  /\ 1 \in Heads
  /\ MinRemaining \in Nat /\ Quota \in Nat /\ MaxOthers \in Nat
  /\ MaxMoves \in Nat /\ MaxPushes \in Nat

VARIABLES
  status,      \* GitHub: status of each run, or "absent"
  checks,      \* GitHub: state of each check run of each head
  head,        \* GitHub: head of the pull request, or NoHead
  core, graphql,   \* GitHub: quota left
  pc,          \* the call made next
  listed,      \* identifiers in the recent snapshot, fetched page by page
  length,      \* and its length
  counted,     \* identifiers found active, recent and older
  valid, complete, identified,   \* ..._snapshots_valid, _complete, required_check_identity
  pr,          \* headRefOid of the listed, eligible pull request, or NoHead
  open,        \* pull_requests is not empty
  candidates, sample, report,
  throughout,  \* history: runs active at all times of the inventory
  backward,    \* history: those of them taken back to an earlier status
  green,       \* history: heads that had every required check successful
  others,      \* history: quota others used, in all and since the sample
  events,      \* changes at GitHub so far
  focus        \* what changes at GitHub: "runs" or "pulls"
github == <<status, checks, head, core, graphql>>
found == <<listed, length, counted, valid, complete, identified, pr, open, candidates, sample, report>>
history == <<throughout, backward, green, others, events, focus>>
vars == <<github, pc, found, history>>

-----------------------------------------------------------------------------

\* Broken: the statuses are asked for from the last to the first.
QueryOrderReversed == <<"in_progress", "waiting", "queued", "pending", "requested">>

\* ACTIVE_WORKFLOW_RUN_STATUS_QUERY_ORDER
QueryOrder == <<"requested", "pending", "queued", "waiting", "in_progress">>
ActiveStatuses == {QueryOrder[i] : i \in 1..Len(QueryOrder)}
WorkflowRunStatuses == ActiveStatuses \cup {"completed"}
NoHead == 0
NoReport == [wakeAgent |-> FALSE, mutation_allowed |-> FALSE, mutation_blockers |-> {}]
Active(r) == status[r] \in ActiveStatuses

\* The order the runs advance in, which the query order relies on.
Lifecycle == <<"requested", "pending", "queued", "waiting", "in_progress", "completed">>
Rank == [s \in WorkflowRunStatuses |-> CHOOSE i \in 1..6 : Lifecycle[i] = s]

\* A check is identified by its name and the application that reports it.
CheckRuns == {<<"flate", "ci">>, <<"talos", "ci">>, <<"flate", "other">>}
Required == {<<"flate", "ci">>, <<"talos", "ci">>}

Inventory == {"recent"} \cup ActiveStatuses
Calls == Inventory \cup {"protection", "prs", "checks", "rate"}

\* The statuses are queried in turn, then come the pull requests.
After(query) ==
  LET i == CHOOSE j \in 1..Len(QueryOrder) : QueryOrder[j] = query
  IN IF i = Len(QueryOrder) THEN "prs" ELSE QueryOrder[i + 1]

\* Broken: a check is identified by its name alone.
ChecksGreenByName(state, wellformed) ==
  wellformed /\ \A c \in Required : \E d \in CheckRuns : d[1] = c[1] /\ state[d] = "success"

\* checks_green: a complete, wellformed answer with a success of every one.
ChecksGreen(state, wellformed) ==
  wellformed /\ \A c \in Required : state[c] = "success"

\* workflow_runs_valid: n items with identifiers ids, none of them twice.
WorkflowRunsValid(ids, n) == Cardinality(ids) = n

\* The first n of a list of runs, which has the newest first.
Place(r, list) == Cardinality({s \in list : s >= r})
First(list, n) == {r \in list : Place(r, list) <= n}

Init == /\ status \in [Runs -> WorkflowRunStatuses \cup {"absent"}]
        /\ \A r \in OldRuns : status[r] # "absent"
        /\ \A r \in RecentRuns : status[r] \in {"absent", "queued", "in_progress", "completed"}
        /\ \A r, s \in RecentRuns : r < s /\ status[r] = "absent" => status[s] = "absent"
        /\ checks = [h \in Heads |-> [c \in CheckRuns |-> "pending"]]
        /\ \/ focus = "runs" /\ head = NoHead
           \/ focus = "pulls" /\ head \in {NoHead, 1} /\ \A r \in Runs : status[r] \in {"completed", "absent"}
        /\ core = Quota /\ graphql = Quota
        /\ pc = "protection"
        /\ listed = {} /\ length = 0 /\ counted = {}
        /\ valid = TRUE /\ complete = TRUE /\ identified = FALSE
        /\ pr = NoHead /\ open = FALSE /\ candidates = {} /\ sample = <<>> /\ report = NoReport
        /\ throughout = {} /\ backward = {} /\ others = <<0, 0>> /\ events = 0
        /\ green = {}

-----------------------------------------------------------------------------
(* The calls of main().  gh run list and gh api use the core quota, gh pr     *)
(* list the GraphQL quota, and rate_limit neither.                            *)

Goto(next) == pc' = next
Spend == core > 0 /\ core' = core - 1

\* checks: every configured check has a context and a positive app_id, or not.
RequiredChecks ==
  /\ pc = "protection" /\ Spend
  /\ identified' \in BOOLEAN
  /\ Goto("recent")
  /\ throughout' = {r \in Runs : Active(r)}
  /\ UNCHANGED <<status, checks, head, graphql, listed, length, counted, valid, complete, pr, open,
                 candidates, sample, report, backward, green, others, events, focus>>

\* One page of the recent runs, whatever their status: the runs after the first
\* length ones.  A page that is not full is the last one.
Present == {r \in RecentRuns : status[r] # "absent"}
Upto == IF length + PageSize < RecentLimit THEN length + PageSize ELSE RecentLimit
Page == First(Present, Upto) \ First(Present, length)

RecentPage ==
  /\ pc = "recent" /\ Spend
  /\ listed' = listed \cup Page
  /\ length' = IF Cardinality(Present) < Upto THEN Cardinality(Present) ELSE Upto
  /\ counted' = counted \cup {r \in Page : Active(r)}
  /\ IF Cardinality(Present) >= length + PageSize /\ length' < RecentLimit
     THEN UNCHANGED <<pc, valid, complete>>
     ELSE /\ Goto(QueryOrder[1])
          /\ valid' = WorkflowRunsValid(listed', length')
          /\ complete' = (valid' /\ length' < RecentLimit)
  /\ UNCHANGED <<status, checks, head, graphql, identified, pr, open, candidates, sample,
                 report, history>>

\* The older runs in one status, at most MaxActive of them.  An index behind
\* the data may show a run under a status it no longer has: not valid.
OlderRuns ==
  /\ pc \in ActiveStatuses /\ Spend
  /\ LET there == {r \in OldRuns : status[r] = pc}
     IN \E mismatch \in {m \in BOOLEAN : m => \E r \in OldRuns : status[r] # pc} :
          /\ counted' = counted \cup First(there, MaxActive)
          /\ valid' = (valid /\ ~mismatch)
          /\ complete' = (complete /\ ~mismatch /\ Cardinality(there) < MaxActive)
  /\ Goto(After(pc))
  /\ UNCHANGED <<status, checks, head, graphql, listed, length, identified, pr, open, candidates,
                 sample, report, history>>

Eligible(isDraft, mergeable, mergeStateStatus) ==
  ~isDraft /\ mergeable = "MERGEABLE" /\ mergeStateStatus \in {"CLEAN", "BEHIND"}

PullRequests ==
  /\ pc = "prs" /\ graphql > 0 /\ graphql' = graphql - 1
  /\ \E isDraft \in BOOLEAN, mergeable \in {"MERGEABLE", "UNKNOWN"},
        mergeStateStatus \in {"CLEAN", "BEHIND", "BLOCKED"} :
       pr' = IF head # NoHead /\ Eligible(isDraft, mergeable, mergeStateStatus) THEN head ELSE NoHead
  /\ open' = (head # NoHead)
  /\ Goto(IF identified /\ pr' # NoHead THEN "checks" ELSE "rate")
  /\ UNCHANGED <<status, checks, head, core, listed, length, counted, valid, complete, identified,
                 candidates, sample, report, history>>

\* The check runs of the head that was listed: malformed items, another
\* head's items or an incomplete page make the whole answer unusable.
CandidateChecks ==
  /\ pc = "checks" /\ Spend
  /\ \E wellformed \in BOOLEAN :
       candidates' = IF ChecksGreen(checks[pr], wellformed) THEN {pr} ELSE {}
  /\ Goto("rate")
  /\ UNCHANGED <<status, checks, head, graphql, listed, length, counted, valid, complete, identified,
                 pr, open, sample, report, history>>

RateLimit ==
  /\ pc = "rate"
  /\ sample' = <<core, graphql>> /\ others' = <<others[1], 0>>
  /\ Goto("decide")
  /\ UNCHANGED <<github, listed, length, counted, valid, complete, identified, pr, open, candidates, report,
                 throughout, backward, green, events, focus>>

RunCapacityOk == Cardinality(counted) < MaxActive
\* Broken: the GraphQL quota is taken for the core quota.
QuotaOkSwapped == sample[2] >= MinRemaining

QuotaOk == sample[1] >= MinRemaining
GraphqlQuotaOk == sample[2] >= MinRemaining

MutationAllowed ==
  QuotaOk /\ GraphqlQuotaOk /\ RunCapacityOk /\ valid /\ complete /\ identified

MutationBlockers ==
  {b \in {"core-quota", "graphql-quota", "capacity", "malformed", "truncated", "identity"} :
     CASE b = "core-quota" -> ~QuotaOk
       [] b = "graphql-quota" -> ~GraphqlQuotaOk
       [] b = "capacity" -> ~RunCapacityOk
       [] b = "malformed" -> ~valid
       [] b = "truncated" -> ~complete
       [] b = "identity" -> ~identified}

Decide ==
  /\ pc = "decide" /\ Goto("done")
  /\ report' = [wakeAgent |-> open, mutation_allowed |-> MutationAllowed,
                mutation_blockers |-> MutationBlockers]
  /\ UNCHANGED <<github, listed, length, counted, valid, complete, identified, pr, open, candidates, sample,
                 history>>

\* gh fails, times out or answers something else: exit 1, nothing reported.
CallFails == /\ pc \in Calls /\ Goto("failed")
             /\ UNCHANGED <<github, found, history>>

Precheck == RequiredChecks \/ RecentPage \/ OlderRuns \/ PullRequests \/ CandidateChecks
            \/ RateLimit \/ Decide \/ CallFails

-----------------------------------------------------------------------------
(* Meanwhile at GitHub.  Runs move while the precheck lists them, checks and  *)
(* heads while it looks at the pull requests; what happens outside of these   *)
(* phases is read by no call and belongs to the initial state of the phase.   *)

Note(now) == throughout' = {r \in throughout : now[r] \in ActiveStatuses}

Event(f) == /\ focus = f /\ events' = events + 1
            /\ events < IF f = "runs" THEN MaxMoves ELSE MaxPushes

\* A run takes any other status: mostly the next ones, but a later job of a run
\* in progress may wait or be queued again, and a completed run be run again.
RunMoves(r) == /\ pc \in Inventory /\ Event("runs") /\ status[r] # "absent"
               /\ \E t \in WorkflowRunStatuses \ {status[r]} :
                    /\ status' = [status EXCEPT ![r] = t]
                    /\ Note(status')
                    /\ backward' = throughout' \cap
                         (backward \cup {k \in {r} : Rank[t] < Rank[status[k]]})
               /\ UNCHANGED <<checks, head, core, graphql, pc, found, green, others, focus>>

RunCreated(r) == /\ pc \in Inventory /\ Event("runs")
                 /\ r \in RecentRuns /\ status[r] = "absent"
                 /\ \A s \in RecentRuns : s < r => status[s] # "absent"
                 /\ status' = [status EXCEPT ![r] = "requested"]
                 /\ Note(status')
                 /\ UNCHANGED <<checks, head, core, graphql, pc, found, backward, green, others, focus>>

\* A check finishes, or is run again.
CheckMoves(h, c) ==
  /\ pc \in {"prs", "checks"} /\ head # NoHead /\ Event("pulls")
  /\ \E s \in {"pending", "success"} \ {checks[h][c]} :
       checks' = [checks EXCEPT ![h][c] = s]
  /\ green' = green \cup {k \in Heads : \A d \in Required : checks'[k][d] = "success"}
  /\ UNCHANGED <<status, head, core, graphql, pc, found, throughout, backward, others, focus>>

\* A pull request is opened, or a push or a rebase gives it another head.
HeadMoves == /\ pc \in {"prs", "checks"} /\ Event("pulls")
             /\ head' \in Heads \ {head}
             /\ UNCHANGED <<status, checks, core, graphql, pc, found, throughout, backward, green, others,
                             focus>>

OthersCall == /\ others[1] < MaxOthers
              /\ pc \in {"prs", "rate", "decide"}
              /\ \/ core > 0 /\ core' = core - 1 /\ UNCHANGED graphql
                 \/ graphql > 0 /\ graphql' = graphql - 1 /\ UNCHANGED core
              /\ others' = <<others[1] + 1, others[2] + 1>>
              /\ UNCHANGED <<status, checks, head, pc, found, throughout, backward, green, events,
                             focus>>

GitHub == \/ \E r \in Runs : RunMoves(r) \/ RunCreated(r)
          \/ \E h \in Heads, c \in CheckRuns : CheckMoves(h, c)
          \/ HeadMoves \/ OthersCall

Next == Precheck \/ GitHub
Spec == Init /\ [][Next]_vars

-----------------------------------------------------------------------------
(* Properties *)

Reported == pc = "done"
Allowed == Reported /\ report.mutation_allowed

TypeOK == /\ status \in [Runs -> WorkflowRunStatuses \cup {"absent"}]
          /\ head \in Heads \cup {NoHead} /\ pr \in Heads \cup {NoHead}
          /\ pc \in Calls \cup {"decide", "done", "failed"}
          /\ listed \subseteq RecentRuns /\ length \in 0..RecentLimit
          /\ counted \subseteq Runs /\ candidates \subseteq Heads
          /\ valid \in BOOLEAN /\ complete \in BOOLEAN /\ identified \in BOOLEAN
          /\ throughout \subseteq Runs /\ backward \subseteq Runs /\ green \subseteq Heads
          /\ (pc \notin {"decide", "done"} => sample = <<>>) /\ (~Reported => report = NoReport)

\* A mutation is allowed only if every run that was active during the whole
\* inventory was found by one of its calls, so that fewer than MaxActive were,
\* although runs change status between the queries by status and new runs push
\* the others to later pages.  What it may miss is a run that GitHub took back
\* to an earlier status meanwhile, which the order of the queries leaves open.
ActiveCounted == Allowed => throughout \ backward \subseteq counted

\* The quota that an allowed mutation starts from is at least the reserve, less
\* what others used after the sample: the precheck's own calls are in it.
QuotaReserve == Allowed => core + others[2] >= MinRemaining /\ graphql + others[2] >= MinRemaining

\* A reported candidate is a head that had every required check, of the right
\* application, successful at one moment, even when the branch moved on.
CandidateGreen == Reported => candidates \subseteq green

=============================================================================
