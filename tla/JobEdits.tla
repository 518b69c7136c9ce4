------------------------------ MODULE JobEdits ------------------------------
(***************************************************************************)
(* JobService: requests that create, update and delete jobs, each a        *)
(* transaction that loads a row (from the replica or the primary), sets    *)
(* columns in memory, flushes the dependency edges and checks them for a   *)
(* cycle, and commits.  Requests overlap; the isolation is PostgreSQL's    *)
(* READ COMMITTED, and an UPDATE names only the columns that changed.      *)
(* The schedule columns are CronScheduler's; only job_type is kept here.   *)
(***************************************************************************)
EXTENDS Integers, FiniteSets, Functions

CONSTANTS
    Jobs,       \* job ids
    Slots,      \* requests served at the same time
    Creates,    \* payloads of POST /jobs: functions on all of Fields
    Updates,    \* payloads of PUT /jobs/{id}: functions on the fields that are set
    Fits,       \* {<<action_type, action_config>>}: what the schemas accept
    Seed,       \* jobs that exist at the start
    MaxCommits  \* bound: committed requests

Fields == {"action_type", "action_config", "job_type", "enabled",
           "upstream_job_ids", "downstream_job_ids"}
EdgeFields == {"upstream_job_ids", "downstream_job_ids"}
Columns == {"action_type", "action_config", "job_type", "enabled", "runtime_spec"}

ASSUME PayloadAssumption ==
    /\ \A p \in Creates : DOMAIN p = Fields
    /\ \A p \in Updates : DOMAIN p \subseteq Fields
    /\ \A p \in Creates \cup Updates : \A f \in EdgeFields \cap DOMAIN p :
           p[f] \subseteq Jobs
ASSUME SeedAssumption == Seed \subseteq Jobs
ASSUME MaxCommitsAssumption == MaxCommits \in Nat

VARIABLES
    rows,     \* the committed jobs: [existing jobs -> [Columns -> value]]
    edges,    \* the committed job_dependencies: pairs <<upstream, downstream>>
    replica,  \* the jobs as the replica has them
    txn,      \* per slot the request it serves
    commits,  \* bound
    stale,    \* history: jobs committed from an outdated copy
    raced,    \* history: edges committed after a check that missed others
    started   \* history: jobs that an edit has started since they were created

dbVars == <<rows, edges, replica>>
history == <<stale, raced, started>>
vars == <<dbVars, txn, commits, history>>

\* A request: data is its payload, was the row as loaded (<<>> for a new job),
\* set the columns to be written, links and unlinks the edges to be inserted and
\* deleted, seen the edges the cycle check read.
NoTxn == [phase |-> "idle"]
Txn(phase, j, data, was, set, links, unlinks, seen) ==
    [phase |-> phase, job |-> j, data |-> data, was |-> was, set |-> set,
     links |-> links, unlinks |-> unlinks, seen |-> seen]

Existing == DOMAIN rows

\* The row with the columns that are set in place of its own.
Over(set, row) ==
    [c \in DOMAIN set \cup DOMAIN row |-> IF c \in DOMAIN set THEN set[c] ELSE row[c]]

-----------------------------------------------------------------------------
(* Derived columns and the dependency graph. *)

BuildRuntimeSpec(type, config) == <<type, config>>

\* A bug to be caught: a new action_type alone does not move the spec.
DerivedOnConfigOnly(was, data) ==
    LET new == Over(data, was)
    IN  IF "action_config" \in DOMAIN data
          THEN [new EXCEPT !["runtime_spec"] =
                  BuildRuntimeSpec(new["action_type"], new["action_config"])]
          ELSE new

\* The row after the payload's columns are set, its spec derived again whenever
\* either input is part of the payload.
Derived(was, data) ==
    LET new == Over(data, was)
    IN  IF {"action_type", "action_config"} \cap DOMAIN data # {}
          THEN [new EXCEPT !["runtime_spec"] =
                  BuildRuntimeSpec(new["action_type"], new["action_config"])]
          ELSE new

Successors(E, j) == {d \in Jobs : <<j, d>> \in E}
ClosedUnder(E, S) == \A x \in S : Successors(E, x) \subseteq S

\* get_all_descendants: the least set that holds j's successors and theirs.
Descendants(E, j) ==
    {d \in Jobs : \A S \in SUBSET Jobs :
        Successors(E, j) \subseteq S /\ ClosedUnder(E, S) => d \in S}

\* The edges when each list the payload sets has replaced the one there is.
Relinked(E, j, data) ==
    {e \in E : /\ "upstream_job_ids" \in DOMAIN data => e[2] # j
               /\ "downstream_job_ids" \in DOMAIN data => e[1] # j}
    \cup {e \in Jobs \X Jobs :
            \/ /\ "upstream_job_ids" \in DOMAIN data
               /\ e[2] = j /\ e[1] \in data["upstream_job_ids"]
            \/ /\ "downstream_job_ids" \in DOMAIN data
               /\ e[1] = j /\ e[2] \in data["downstream_job_ids"]}

\* A bug to be caught: only new upstreams are checked for a cycle.
ClosesNoCycleUpstream(E, j, data) ==
    "upstream_job_ids" \notin DOMAIN data \/ j \notin Descendants(E, j)

\* _assert_acyclic
ClosesNoCycle(E, j, data) == j \notin Descendants(E, j)

-----------------------------------------------------------------------------
(* The requests. *)

ColumnsOf(data) == Restrict(data, DOMAIN data \ EdgeFields)
EditsEdges(data) == EdgeFields \cap DOMAIN data # {}

\* _jobs_by_id drops the ids that name no job; known gives per list the jobs its
\* query finds.
KnownOnly(data, known) ==
    [f \in DOMAIN data |-> IF f \in EdgeFields THEN data[f] \cap known[f] ELSE data[f]]

\* What a query of a fresh session may return: the replica's rows, or the
\* primary's when the replica is down.
MayLoad == {replica, rows}

Request(s, j, data, was, set) ==
    txn' = [txn EXCEPT ![s] = Txn("loaded", j, data, was, set, {}, {}, {})]

\* POST /jobs: the session is fresh when it looks up the ids, so a job the
\* replica does not have yet is dropped from the list.  Once it holds rows, it
\* reads the primary.
BeginCreate(s, j, p) ==
    /\ txn[s].phase = "idle" /\ commits < MaxCommits
    /\ j \notin Existing \cup DOMAIN replica
    /\ \A o \in Slots : txn[o].phase # "idle" => txn[o].job # j
    /\ <<p["action_type"], p["action_config"]>> \in Fits
    /\ \E first, second \in MayLoad :
         LET holdsRows == p["upstream_job_ids"] \cap DOMAIN first # {}
             known == [upstream_job_ids |-> DOMAIN first,
                       downstream_job_ids |->
                           IF holdsRows THEN Existing ELSE DOMAIN second]
         IN  Request(s, j, KnownOnly(p, known), <<>>,
                     Derived([c \in {"runtime_spec"} |-> <<>>], ColumnsOf(p)))
    /\ UNCHANGED <<dbVars, commits, history>>

\* PUT /jobs/{id}: the row is loaded and the columns are set; only those that
\* differ from the loaded ones will be written.
BeginUpdate(s, j, p) ==
    /\ txn[s].phase = "idle" /\ commits < MaxCommits
    /\ \E table \in MayLoad :
         LET new == Derived(table[j], ColumnsOf(p))
         IN  /\ j \in DOMAIN table
             /\ {"action_type", "action_config"} \cap DOMAIN p # {}
                  => <<new["action_type"], new["action_config"]>> \in Fits
             /\ Request(s, j, p, table[j],
                        Restrict(new, {c \in Columns : new[c] # table[j][c]}))
    /\ UNCHANGED <<dbVars, commits, history>>

\* Another transaction holds the lock on the row or on an edge.
Blocked(s, set, changed) ==
    \E o \in Slots \ {s} :
        /\ txn[o].phase = "checked"
        /\ \/ txn[o].job = txn[s].job /\ txn[o].set # <<>> /\ set # <<>>
           \/ (txn[o].links \cup txn[o].unlinks) \cap changed # {}

\* The edges are flushed and checked against what is committed now and against
\* the transaction's own; a cycle, or an id without a row, leaves only Rollback.
Flush(s) ==
    LET t == txn[s]
        data == IF t.was = <<>> THEN t.data ELSE KnownOnly(t.data, [f \in EdgeFields |-> Existing])
        wanted == Relinked(edges, t.job, data)
        links == wanted \ edges
        unlinks == edges \ wanted
    IN  /\ t.phase = "loaded" /\ (t.was = <<>> \/ EditsEdges(t.data))
        /\ t.was = <<>> \/ t.job \in Existing
        /\ \A e \in links : {e[1], e[2]} \subseteq Existing \cup {t.job}
        /\ ~Blocked(s, t.set, links \cup unlinks)
        /\ ClosesNoCycle(wanted, t.job, data)
        /\ txn' = [txn EXCEPT ![s] =
             Txn("checked", t.job, t.data, t.was, t.set, links, unlinks, edges)]
        /\ UNCHANGED <<dbVars, commits, history>>

\* The edit makes a one-time job run: it is enabled now and was not before, and
\* waits for no upstream.
StartsRun(was, row, j, E) ==
    /\ was = <<>> \/ ~was["enabled"]
    /\ row["enabled"] /\ row["job_type"] = "normal"
    /\ \A u \in Jobs : <<u, j>> \notin E

\* Commit, refresh, and the dispatch of a one-time job; the life of its task is
\* TaskLifecycle's.
Commit(s) ==
    LET t == txn[s]
        row == IF t.was = <<>> THEN t.set ELSE Over(t.set, rows[t.job])
        linked == (edges \cup t.links) \ t.unlinks
    IN  /\ \/ t.phase = "checked"
           \/ /\ t.phase = "loaded" /\ t.was # <<>> /\ ~EditsEdges(t.data)
              /\ ~Blocked(s, t.set, {})
        /\ t.was = <<>> \/ t.job \in Existing
        /\ commits < MaxCommits /\ commits' = commits + 1
        /\ rows' = [j \in Existing \cup {t.job} |-> IF j = t.job THEN row ELSE rows[j]]
        /\ edges' = linked
        /\ txn' = [txn EXCEPT ![s] = NoTxn]
        /\ stale' = IF t.was # <<>> /\ t.was # rows[t.job] THEN stale \cup {t.job} ELSE stale
        /\ raced' = (raced \/ (t.links # {} /\ ~(edges \subseteq t.seen)))
        /\ started' = IF StartsRun(t.was, row, t.job, linked)
                        THEN started \cup {t.job} ELSE started
        /\ UNCHANGED replica

\* Any error before the commit: a cycle, a conflict, an invalid payload, a call
\* that raises.  The session is closed without a commit.
Rollback(s) ==
    /\ txn[s].phase # "idle"
    /\ txn' = [txn EXCEPT ![s] = NoTxn]
    /\ UNCHANGED <<dbVars, commits, history>>

\* A bug to be caught: the edges of a deleted job stay.
DeleteJobKeepsEdges(j) ==
    /\ j \in Existing /\ commits < MaxCommits /\ commits' = commits + 1
    /\ rows' = Restrict(rows, Existing \ {j})
    /\ stale' = stale \ {j} /\ started' = started \ {j}
    /\ UNCHANGED <<edges, replica, txn, raced>>

\* The row goes with its edges; a transaction that has locked them is awaited.
DeleteJob(j) ==
    /\ j \in Existing /\ commits < MaxCommits /\ commits' = commits + 1
    /\ \A o \in Slots : txn[o].phase = "checked" =>
         /\ txn[o].job = j => txn[o].set = <<>>
         /\ \A e \in txn[o].links \cup txn[o].unlinks : j \notin {e[1], e[2]}
    /\ rows' = Restrict(rows, Existing \ {j})
    /\ edges' = {e \in edges : j \notin {e[1], e[2]}}
    /\ stale' = stale \ {j} /\ started' = started \ {j}
    /\ UNCHANGED <<replica, txn, raced>>

\* The replica catches up.
Replicate ==
    /\ replica # rows
    /\ replica' = rows
    /\ UNCHANGED <<rows, edges, txn, commits, history>>

-----------------------------------------------------------------------------

Init ==
    /\ \E p \in Creates : rows = [j \in Seed |->
         Derived([c \in {"runtime_spec"} |-> <<>>], ColumnsOf(p))]
    /\ edges = {} /\ replica = rows
    /\ txn = [s \in Slots |-> NoTxn]
    /\ commits = 0 /\ stale = {} /\ raced = FALSE
    /\ started = Seed

Next ==
    \/ \E s \in Slots, j \in Jobs :
         \/ \E p \in Creates : BeginCreate(s, j, p)
         \/ \E p \in Updates : BeginUpdate(s, j, p)
    \/ \E s \in Slots : Flush(s) \/ Commit(s) \/ Rollback(s)
    \/ \E j \in Jobs : DeleteJob(j)
    \/ Replicate

Spec == Init /\ [][Next]_vars

-----------------------------------------------------------------------------
(* Properties. *)

\* The tables keep their shape: every row has every column, and every edge
\* joins two jobs that exist.
TypeOK ==
    /\ Existing \subseteq Jobs /\ DOMAIN replica \subseteq Jobs
    /\ \A j \in Existing : DOMAIN rows[j] = Columns
    /\ edges \subseteq Existing \X Existing
    /\ \A s \in Slots : txn[s].phase \in {"idle", "loaded", "checked"}
    /\ commits \in 0..MaxCommits
    /\ stale \subseteq Existing /\ started \subseteq Existing /\ raced \in BOOLEAN

Acyclic(E) ==
    \A S \in SUBSET Jobs : S # {} => \E x \in S : \A y \in S : <<x, y>> \notin E

\* The dependency graph has no cycle, however creates, updates and deletes
\* follow and overlap each other, until a transaction adds edges that its check
\* never saw beside those of another one: get_all_descendants, asked about the
\* edited job only, is enough of a check, and that race is all that defeats it.
GraphIsAcyclic == ~raced => Acyclic(edges)

\* The runtime spec a worker executes is the one derived from the action the
\* row shows, unless the row was written from an outdated copy: partial updates
\* of the type, the configuration or neither keep it in step.
SpecMatchesAction ==
    \A j \in Existing \ stale :
        rows[j]["runtime_spec"] =
            BuildRuntimeSpec(rows[j]["action_type"], rows[j]["action_config"])

(* What the documentation says, without the exceptions. *)

\* README: "Cycles are rejected at create and update time."  Two requests that add
\* the two halves of a cycle at the same time are not.
NoCycleIsAccepted == Acyclic(edges)

\* update_job: "The runtime spec is derived state: re-derive it whenever either input
\* moves."  It is derived from the row as loaded, beside which another request may
\* write one of its inputs.
SpecIsDerived ==
    \A j \in Existing :
        rows[j]["runtime_spec"] =
            BuildRuntimeSpec(rows[j]["action_type"], rows[j]["action_config"])

\* _dispatch_if_one_time: "Run a one-time job right away, unless it is waiting on
\* upstreams."  The edit that takes away the last upstream does not.
OneTimeJobIsStarted ==
    \A j \in Existing :
        rows[j]["enabled"] /\ rows[j]["job_type"] = "normal"
          /\ (\A u \in Jobs : <<u, j>> \notin edges) => j \in started

=============================================================================
