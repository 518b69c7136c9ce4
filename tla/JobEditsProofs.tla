--------------------------- MODULE JobEditsProofs ---------------------------
(***************************************************************************)
(* Proofs about JobEdits, for every set of jobs, requests and payloads.    *)
(***************************************************************************)
EXTENDS JobEdits, TLAPS

-----------------------------------------------------------------------------
(* The dependency graph. *)

LEMMA DescendantsClosed ==
    ASSUME NEW E, NEW j
    PROVE  /\ Successors(E, j) \subseteq Descendants(E, j)
           /\ ClosedUnder(E, Descendants(E, j))
  BY DEF Successors, Descendants, ClosedUnder

LEMMA AcyclicSubset ==
    ASSUME NEW E, NEW F, F \subseteq E, Acyclic(E) PROVE Acyclic(F)
  BY DEF Acyclic

LEMMA DescendantsGrow ==
    ASSUME NEW E, NEW F, F \subseteq E, NEW j
    PROVE  Descendants(F, j) \subseteq Descendants(E, j)
  BY DEF Successors, Descendants, ClosedUnder

\* Asking for the descendants of the edited job is enough: a cycle that uses a new
\* edge runs through that job, and one that uses none was there before.
LEMMA EditStaysAcyclic ==
    ASSUME NEW E, NEW F, NEW j, Acyclic(E),
           \A x, y \in Jobs : <<x, y>> \in F => <<x, y>> \in E \/ j \in {x, y},
           j \notin Descendants(F, j)
    PROVE  Acyclic(F)
  <1> SUFFICES ASSUME NEW S \in SUBSET Jobs, S # {},
                      \A x \in S : \E y \in S : <<x, y>> \in F
               PROVE  FALSE
    BY DEF Acyclic
  <1> DEFINE D == Descendants(F, j)
             T == IF j \in S THEN S \cap D ELSE S
  <1>1. T \in SUBSET Jobs /\ j \notin T
    OBVIOUS
  <1>2. T # {}
    BY DescendantsClosed DEF Successors
  <1>3. \A x \in T : \E y \in T : <<x, y>> \in F
    BY DescendantsClosed DEF Successors, ClosedUnder
  <1>4. \A x \in T : \E y \in T : <<x, y>> \in E
    BY <1>1, <1>3
  <1> QED
    BY <1>1, <1>2, <1>4 DEF Acyclic

\* An edge that Relinked adds is one of the edited job's.
LEMMA RelinkedTouches ==
    ASSUME NEW E, NEW j, NEW data, NEW e \in Relinked(E, j, data) \ E
    PROVE  e \in Jobs \X Jobs /\ j \in {e[1], e[2]}
  BY DEF Relinked

-----------------------------------------------------------------------------
(* Rows and derived columns. *)

Matches(row) ==
    row["runtime_spec"] = BuildRuntimeSpec(row["action_type"], row["action_config"])

Inputs == {"action_type", "action_config", "job_type", "enabled"}

LEMMA DerivedRow ==
    ASSUME NEW was, NEW data, DOMAIN data \subseteq Inputs,
           DOMAIN was \subseteq Columns, "runtime_spec" \in DOMAIN was,
           Inputs \subseteq DOMAIN data \cup DOMAIN was
    PROVE  /\ DOMAIN Derived(was, data) = Columns
           /\ Matches(was) \/ DOMAIN data = Inputs => Matches(Derived(was, data))
  BY DEF Derived, Over, Matches, Inputs, Columns, BuildRuntimeSpec

\* What an UPDATE of the changed columns alone leaves in the row it was computed
\* from is the computed row.
LEMMA OverChanged ==
    ASSUME NEW was, NEW new, DOMAIN was = Columns, DOMAIN new = Columns,
           NEW set, set = Restrict(new, {c \in Columns : new[c] # was[c]})
    PROVE  /\ DOMAIN set \subseteq Columns /\ DOMAIN Over(set, was) = Columns
           /\ \A c \in Columns : Over(set, was)[c] = new[c]
  BY DEF Restrict, Over

LEMMA ColumnsOfPayload ==
    ASSUME NEW p
    PROVE  /\ p \in Creates => DOMAIN ColumnsOf(p) = Inputs
           /\ p \in Updates => DOMAIN ColumnsOf(p) \subseteq Inputs
  BY PayloadAssumption
     DEF ColumnsOf, Restrict, Fields, EdgeFields, Inputs

\* A new job's row is complete, and its spec is derived from its action.
LEMMA CreatedRow ==
    ASSUME NEW p \in Creates
    PROVE  LET r == Derived([c \in {"runtime_spec"} |-> <<>>], ColumnsOf(p))
           IN  DOMAIN r = Columns /\ Matches(r)
  BY ColumnsOfPayload, DerivedRow DEF Inputs, Columns

-----------------------------------------------------------------------------
(***************************************************************************)
(* The inductive invariant.  Requests says what a request in progress has  *)
(* established and what no other request can take from it: the id of a new *)
(* job is its own; the columns it will write keep the spec in step if the  *)
(* row still is the one it loaded; the edges it has flushed touch its job, *)
(* join jobs nobody can delete meanwhile, and close no cycle with the      *)
(* edges it saw.                                                           *)
(***************************************************************************)

NewRequest(t) ==
    /\ DOMAIN t.set = Columns /\ Matches(t.set)
    /\ t.job \notin Existing \cup DOMAIN replica

EditRequest(t) ==
    /\ DOMAIN t.was = Columns /\ DOMAIN t.set \subseteq Columns
    /\ Matches(t.was) => Matches(Over(t.set, t.was))

Checked(t) ==
    /\ \A e \in t.links : /\ e \in Jobs \X Jobs /\ t.job \in {e[1], e[2]}
                          /\ {e[1], e[2]} \subseteq Existing \cup {t.job}
    /\ t.job \notin Descendants((t.seen \cup t.links) \ t.unlinks, t.job)

Request1(t) ==
    /\ t.phase \in {"idle", "loaded", "checked"}
    /\ t.phase # "idle" =>
         /\ t.job \in Jobs
         /\ IF t.was = <<>> THEN NewRequest(t) ELSE EditRequest(t)
    /\ t.phase = "loaded" => t.links = {} /\ t.unlinks = {}
    /\ t.phase = "checked" => Checked(t)

\* No other request works on a job that is being created.
OwnId(t, o) ==
    t.phase # "idle" /\ o.phase # "idle" /\ t.was = <<>> => o.job # t.job

Requests ==
    /\ DOMAIN txn = Slots
    /\ \A s \in Slots : Request1(txn[s])
    /\ \A s, o \in Slots : s # o => OwnId(txn[s], txn[o])

Tables ==
    /\ TypeOK
    /\ \A j \in DOMAIN replica : DOMAIN replica[j] = Columns

EditsInv == Requests /\ Tables /\ GraphIsAcyclic /\ SpecMatchesAction

LEMMA EditsInit == Init => EditsInv
  <1> SUFFICES ASSUME Init PROVE EditsInv
    OBVIOUS
  <1>1. PICK p \in Creates : rows = [j \in Seed |->
          Derived([c \in {"runtime_spec"} |-> <<>>], ColumnsOf(p))]
    BY DEF Init
  <1>2. \A j \in Existing : DOMAIN rows[j] = Columns /\ Matches(rows[j])
    BY <1>1, CreatedRow DEF Existing
  <1>3. Requests
    BY DEF Init, Requests, Request1, OwnId, NoTxn
  <1>8. raced \in BOOLEAN
    BY Zenon DEF Init
  <1>4. Tables
    BY <1>1, <1>2, <1>8, SeedAssumption, MaxCommitsAssumption
       DEF Init, Tables, TypeOK, Existing, NoTxn
  <1>5. GraphIsAcyclic
    BY DEF Init, GraphIsAcyclic, Acyclic
  <1>6. SpecMatchesAction
    BY <1>2 DEF SpecMatchesAction, Matches
  <1> QED
    BY <1>3, <1>4, <1>5, <1>6 DEF EditsInv

-----------------------------------------------------------------------------
(* Steps that change no table. *)

LEMMA SlotStep ==
    ASSUME Requests, UNCHANGED dbVars, NEW s \in Slots, NEW t,
           txn' = [txn EXCEPT ![s] = t], Request1(t),
           \A o \in Slots \ {s} : OwnId(t, txn[o]) /\ OwnId(txn[o], t)
    PROVE  Requests'
  <1>1. \A o \in Slots : txn'[o] = IF o = s THEN t ELSE txn[o]
    BY DEF Requests
  <1>2. rows' = rows /\ replica' = replica
    BY DEF dbVars
  <1>3. DOMAIN txn' = Slots
    BY DEF Requests
  <1>4. ASSUME NEW o \in Slots PROVE Request1(txn[o])'
    <2>1. Request1(txn'[o])
      BY <1>1 DEF Requests
    <2> QED
      BY <1>2, <2>1 DEF Request1, NewRequest, EditRequest, Checked, Existing
  <1>5. ASSUME NEW a \in Slots, NEW o \in Slots, a # o
        PROVE  OwnId(txn[a], txn[o])'
    BY <1>1, <1>5 DEF Requests, OwnId
  <1> QED
    BY <1>3, <1>4, <1>5 DEF Requests

LEMMA TxnStep ==
    ASSUME EditsInv, UNCHANGED <<dbVars, commits, history>>, Requests'
    PROVE  EditsInv'
  BY DEF EditsInv, dbVars, history, Requests, Request1, Tables, TypeOK,
         GraphIsAcyclic, SpecMatchesAction, Existing

LEMMA CreateStep ==
    ASSUME EditsInv, NEW s \in Slots, NEW j \in Jobs, NEW p \in Creates,
           BeginCreate(s, j, p)
    PROVE  EditsInv'
  <1> DEFINE set == Derived([c \in {"runtime_spec"} |-> <<>>], ColumnsOf(p))
  <1>1. PICK known : txn' = [txn EXCEPT ![s] =
          Txn("loaded", j, KnownOnly(p, known), <<>>, set, {}, {}, {})]
    BY DEF BeginCreate, Request
  <1> DEFINE t == Txn("loaded", j, KnownOnly(p, known), <<>>, set, {}, {}, {})
  <1>2. Request1(t)
    BY CreatedRow DEF BeginCreate, Request1, NewRequest, Txn
  <1>3. \A o \in Slots \ {s} : OwnId(t, txn[o]) /\ OwnId(txn[o], t)
    BY DEF BeginCreate, OwnId, Txn
  <1>4. Requests'
    BY <1>1, <1>2, <1>3, SlotStep DEF BeginCreate, EditsInv
  <1> QED
    BY <1>4, TxnStep DEF BeginCreate

LEMMA UpdateStep ==
    ASSUME EditsInv, NEW s \in Slots, NEW j \in Jobs, NEW p \in Updates,
           BeginUpdate(s, j, p)
    PROVE  EditsInv'
  <1>1. PICK table \in MayLoad :
          LET new == Derived(table[j], ColumnsOf(p))
          IN  /\ j \in DOMAIN table
              /\ Request(s, j, p, table[j],
                         Restrict(new, {c \in Columns : new[c] # table[j][c]}))
    BY DEF BeginUpdate
  <1> DEFINE was == table[j]
             new == Derived(was, ColumnsOf(p))
             set == Restrict(new, {c \in Columns : new[c] # was[c]})
             t == Txn("loaded", j, p, was, set, {}, {}, {})
  <1>2. /\ j \in Existing \cup DOMAIN replica
        /\ DOMAIN was = Columns
    BY <1>1 DEF MayLoad, EditsInv, Tables, TypeOK, Existing
  <1>3. DOMAIN new = Columns /\ (Matches(was) => Matches(new))
    BY <1>2, ColumnsOfPayload, DerivedRow DEF Columns, Inputs
  <1>4. /\ DOMAIN set \subseteq Columns
        /\ \A c \in Columns : Over(set, was)[c] = new[c]
    BY <1>2, <1>3, OverChanged
  <1>5. Matches(was) => Matches(Over(set, was))
    BY <1>3, <1>4 DEF Matches, Columns
  <1>6. was # <<>>
    BY <1>2 DEF Columns
  <1>7. Request1(t)
    BY <1>2, <1>4, <1>5, <1>6 DEF Request1, EditRequest, Txn
  <1>8. \A o \in Slots \ {s} : OwnId(t, txn[o]) /\ OwnId(txn[o], t)
    BY <1>2, <1>6 DEF EditsInv, Requests, Request1, NewRequest, OwnId, Txn
  <1>9. Requests'
    BY <1>1, <1>7, <1>8, SlotStep DEF BeginUpdate, EditsInv, Request
  <1> QED
    BY <1>9, TxnStep DEF BeginUpdate

LEMMA FlushStep ==
    ASSUME EditsInv, NEW s \in Slots, Flush(s) PROVE EditsInv'
  <1> DEFINE r == txn[s]
             data == IF r.was = <<>> THEN r.data ELSE KnownOnly(r.data, [f \in EdgeFields |-> Existing])
             wanted == Relinked(edges, r.job, data)
             t == Txn("checked", r.job, r.data, r.was, r.set,
                      wanted \ edges, edges \ wanted, edges)
  <1>1. /\ r.phase = "loaded" /\ Request1(r)
        /\ \A e \in wanted \ edges : {e[1], e[2]} \subseteq Existing \cup {r.job}
        /\ r.job \notin Descendants(wanted, r.job)
        /\ txn' = [txn EXCEPT ![s] = t]
    BY DEF Flush, ClosesNoCycle, EditsInv, Requests
  <1>2. (edges \cup (wanted \ edges)) \ (edges \ wanted) = wanted
    OBVIOUS
  <1>3. Checked(t)
    BY <1>1, <1>2, RelinkedTouches DEF Checked, Txn
  <1>4. Request1(t)
    BY <1>1, <1>3 DEF Request1, NewRequest, EditRequest, Txn
  <1>5. \A o \in Slots \ {s} : OwnId(t, txn[o]) /\ OwnId(txn[o], t)
    BY <1>1 DEF EditsInv, Requests, OwnId, Txn
  <1>6. Requests'
    BY <1>1, <1>4, <1>5, SlotStep DEF Flush, EditsInv
  <1> QED
    BY <1>6, TxnStep DEF Flush

LEMMA RollbackStep ==
    ASSUME EditsInv, NEW s \in Slots, Rollback(s) PROVE EditsInv'
  <1>1. Request1(NoTxn) /\ \A o \in Slots : OwnId(NoTxn, txn[o]) /\ OwnId(txn[o], NoTxn)
    BY DEF Request1, OwnId, NoTxn
  <1>2. Requests'
    BY <1>1, SlotStep DEF Rollback, EditsInv
  <1> QED
    BY <1>2, TxnStep DEF Rollback

-----------------------------------------------------------------------------
(* Steps that change a table. *)

\* What is known of a request when it commits.
LEMMA CommitFacts ==
    ASSUME EditsInv, NEW s \in Slots, Commit(s)
    PROVE  LET t == txn[s]
           IN  /\ t.phase # "idle" /\ Request1(t) /\ t.job \in Jobs
               /\ t.was = <<>> => NewRequest(t)
               /\ t.was # <<>> => EditRequest(t) /\ t.job \in Existing
               /\ t.links # {} => Checked(t)
               /\ Existing' = Existing \cup {t.job}
               /\ \A j \in Existing \ {t.job} : rows'[j] = rows[j]
  BY DEF Commit, EditsInv, Requests, Request1, Existing

LEMMA CommitRequests ==
    ASSUME EditsInv, NEW s \in Slots, Commit(s) PROVE Requests'
  <1> DEFINE t == txn[s]
  <1>1. /\ DOMAIN txn' = Slots /\ txn'[s] = NoTxn
        /\ \A o \in Slots \ {s} : txn'[o] = txn[o]
        /\ replica' = replica
    BY DEF Commit, EditsInv, Requests
  <1>2. Existing' = Existing \cup {t.job} /\ t.phase # "idle"
    BY CommitFacts
  <1>3. ASSUME NEW o \in Slots PROVE Request1(txn[o])'
    <2>1. CASE o = s
      BY <1>1, <2>1 DEF Request1, NoTxn
    <2>2. CASE o # s
      <3>1. Request1(txn[o]) /\ OwnId(txn[o], t)
        BY <2>2 DEF EditsInv, Requests
      <3>2. txn'[o] = txn[o]
        BY <1>1, <2>2
      <3>3. txn[o].phase # "idle" /\ txn[o].was = <<>> => NewRequest(txn[o])'
        BY <1>1, <1>2, <3>1, <3>2 DEF Request1, NewRequest, OwnId
      <3>4. txn[o].phase # "idle" /\ txn[o].was # <<>> => EditRequest(txn[o])'
        BY <3>1, <3>2 DEF Request1, EditRequest
      <3>5. txn[o].phase = "checked" => Checked(txn[o])'
        BY <1>2, <3>1, <3>2 DEF Request1, Checked
      <3> QED
        BY <3>1, <3>2, <3>3, <3>4, <3>5 DEF Request1
    <2> QED
      BY <2>1, <2>2
  <1>4. ASSUME NEW a \in Slots, NEW o \in Slots, a # o
        PROVE  OwnId(txn[a], txn[o])'
    BY <1>1, <1>4 DEF EditsInv, Requests, OwnId, NoTxn
  <1> QED
    BY <1>1, <1>3, <1>4 DEF Requests

LEMMA CommitTables ==
    ASSUME EditsInv, NEW s \in Slots, Commit(s) PROVE Tables'
  <1> DEFINE t == txn[s]
  <1>1. /\ Existing' = Existing \cup {t.job} /\ t.job \in Jobs
        /\ t.links # {} => Checked(t)
    BY CommitFacts
  <1>2. ASSUME NEW j \in Existing' PROVE DOMAIN rows'[j] = Columns
    <2>1. CASE j # t.job
      BY <2>1, CommitFacts DEF EditsInv, Tables, TypeOK
    <2>2. CASE j = t.job /\ t.was = <<>>
      BY <2>2, CommitFacts DEF Commit, NewRequest
    <2>3. CASE j = t.job /\ t.was # <<>>
      <3>1. /\ rows'[j] = Over(t.set, rows[j])
            /\ DOMAIN t.set \subseteq Columns /\ DOMAIN rows[j] = Columns
        BY <2>3, CommitFacts DEF Commit, EditRequest, EditsInv, Tables, TypeOK
      <3> QED
        BY <3>1 DEF Over
    <2> QED
      BY <2>1, <2>2, <2>3
  <1>3. edges' \subseteq Existing' \X Existing'
    BY <1>1 DEF Commit, Checked, EditsInv, Tables, TypeOK
  <1>4. commits' \in 0..MaxCommits
    BY MaxCommitsAssumption DEF Commit, EditsInv, Tables, TypeOK
  <1>5. raced' \in BOOLEAN
    BY Zenon DEF Commit
  <1>6. \A o \in Slots : txn'[o].phase \in {"idle", "loaded", "checked"}
    BY CommitRequests DEF Requests, Request1
  <1>7. /\ Existing' \subseteq Jobs /\ stale' \subseteq Existing'
        /\ started' \subseteq Existing' /\ replica' = replica
    BY <1>1 DEF Commit, EditsInv, Tables, TypeOK
  <1> QED
    BY <1>2, <1>3, <1>4, <1>5, <1>6, <1>7 DEF EditsInv, Tables, TypeOK

LEMMA CommitAcyclic ==
    ASSUME EditsInv, NEW s \in Slots, Commit(s) PROVE GraphIsAcyclic'
  <1> DEFINE t == txn[s]
             linked == (edges \cup t.links) \ t.unlinks
             flushed == (t.seen \cup t.links) \ t.unlinks
  <1> SUFFICES ASSUME ~raced' PROVE Acyclic(linked)
    BY DEF Commit, GraphIsAcyclic, Acyclic
  <1>1. ~raced /\ (t.links = {} \/ edges \subseteq t.seen)
    BY DEF Commit
  <1>2. Acyclic(edges)
    BY <1>1 DEF EditsInv, GraphIsAcyclic
  <1>3. CASE t.links = {}
    BY <1>2, <1>3, AcyclicSubset
  <1>4. CASE t.links # {}
    <2>1. Checked(t)
      BY <1>4, CommitFacts
    <2>2. linked \subseteq flushed
      BY <1>1, <1>4
    <2>3. t.job \notin Descendants(linked, t.job)
      BY <2>1, <2>2, DescendantsGrow DEF Checked
    <2>4. \A x, y \in Jobs : <<x, y>> \in linked => <<x, y>> \in edges \/ t.job \in {x, y}
      BY <2>1 DEF Checked
    <2> QED
      BY <1>2, <2>3, <2>4, EditStaysAcyclic
  <1> QED
    BY <1>3, <1>4

\* A request that is not stale writes over the very row it was computed from.
LEMMA CommitRow ==
    ASSUME EditsInv, NEW s \in Slots, Commit(s), txn[s].job \notin stale'
    PROVE  LET t == txn[s]
           IN  /\ Matches(rows'[t.job])
               /\ t.was = <<>> => t.job \notin Existing
               /\ t.was # <<>> => t.job \in Existing /\ t.was = rows[t.job]
  <1> DEFINE t == txn[s]
  <1>1. CASE t.was = <<>>
    BY <1>1, CommitFacts DEF Commit, NewRequest
  <1>2. CASE t.was # <<>>
    <2>1. t.was = rows[t.job] /\ t.job \notin stale
      BY <1>2 DEF Commit
    <2>2. t.job \in Existing /\ EditRequest(t)
      BY <1>2, CommitFacts
    <2>3. Matches(rows[t.job])
      BY <2>1, <2>2 DEF EditsInv, SpecMatchesAction, Matches
    <2>4. rows'[t.job] = Over(t.set, rows[t.job])
      BY <1>2, <2>2 DEF Commit
    <2> QED
      BY <1>2, <2>1, <2>2, <2>3, <2>4 DEF EditRequest
  <1> QED
    BY <1>1, <1>2

LEMMA CommitStep ==
    ASSUME EditsInv, NEW s \in Slots, Commit(s) PROVE EditsInv'
  <1> DEFINE t == txn[s]
  <1>1. stale \subseteq stale' /\ t.job \in Jobs
    BY CommitFacts DEF Commit
  <1>2. SpecMatchesAction'
    <2> SUFFICES ASSUME NEW j \in Existing' \ stale' PROVE Matches(rows'[j])
      BY DEF SpecMatchesAction, Matches, BuildRuntimeSpec
    <2>1. CASE j = t.job
      BY <2>1, CommitRow
    <2>2. CASE j # t.job
      BY <1>1, <2>2, CommitFacts DEF EditsInv, SpecMatchesAction, Matches
    <2> QED
      BY <2>1, <2>2
  <1> QED
    BY <1>2, CommitRequests, CommitTables, CommitAcyclic DEF EditsInv

LEMMA DeleteStep ==
    ASSUME EditsInv, NEW j \in Jobs, DeleteJob(j) PROVE EditsInv'
  <1>1. /\ Existing' = Existing \ {j} /\ txn' = txn /\ replica' = replica
        /\ \A i \in Existing' : rows'[i] = rows[i]
    BY DEF DeleteJob, Existing, Restrict
  <1>2. Requests'
    <2>1. ASSUME NEW o \in Slots PROVE Request1(txn[o])'
      <3>1. Request1(txn[o])
        BY DEF EditsInv, Requests
      <3>2. NewRequest(txn[o]) => NewRequest(txn[o])'
        BY <1>1 DEF NewRequest
      <3>3. txn[o].phase = "checked" => Checked(txn[o])'
        BY <1>1, <3>1 DEF Request1, Checked, DeleteJob
      <3> QED
        BY <1>1, <3>1, <3>2, <3>3 DEF Request1, EditRequest
    <2> QED
      BY <1>1, <2>1 DEF EditsInv, Requests, OwnId
  <1>3. commits' \in 0..MaxCommits
    BY MaxCommitsAssumption DEF DeleteJob, EditsInv, Tables, TypeOK
  <1>4. edges' \subseteq Existing' \X Existing' /\ edges' \subseteq edges
    BY <1>1 DEF DeleteJob, EditsInv, Tables, TypeOK
  <1>5. Tables'
    BY <1>1, <1>3, <1>4 DEF DeleteJob, EditsInv, Tables, TypeOK
  <1>6. GraphIsAcyclic'
    BY <1>4, AcyclicSubset DEF DeleteJob, EditsInv, GraphIsAcyclic, Acyclic
  <1>7. SpecMatchesAction'
    BY <1>1 DEF DeleteJob, EditsInv, SpecMatchesAction, BuildRuntimeSpec
  <1> QED
    BY <1>2, <1>5, <1>6, <1>7 DEF EditsInv

\* The id of a job being created is in neither table, so the replica cannot
\* bring it in.
LEMMA ReplicateStep == EditsInv /\ Replicate => EditsInv'
  <1> SUFFICES ASSUME EditsInv, Replicate PROVE EditsInv'
    OBVIOUS
  <1>1. rows' = rows /\ edges' = edges /\ txn' = txn /\ replica' = rows
    BY DEF Replicate
  <1>2. ASSUME NEW o \in Slots PROVE Request1(txn[o])'
    <2>1. Request1(txn[o])
      BY DEF EditsInv, Requests
    <2>2. NewRequest(txn[o]) => NewRequest(txn[o])'
      BY <1>1 DEF NewRequest, Existing
    <2> QED
      BY <1>1, <2>1, <2>2 DEF Request1, EditRequest, Checked, Existing
  <1>3. Requests'
    BY <1>1, <1>2 DEF EditsInv, Requests, OwnId
  <1> QED
    BY <1>1, <1>3 DEF Replicate, history, EditsInv, Tables, TypeOK, GraphIsAcyclic,
       SpecMatchesAction, Existing

LEMMA EditsInductive == EditsInv /\ [Next]_vars => EditsInv'
  <1> SUFFICES ASSUME EditsInv, [Next]_vars PROVE EditsInv'
    OBVIOUS
  <1>1. CASE UNCHANGED vars
    <2>1. UNCHANGED <<dbVars, commits, history>> /\ txn' = txn
      BY <1>1 DEF vars
    <2>2. Requests'
      BY <2>1 DEF EditsInv, dbVars, Requests, Request1, NewRequest, EditRequest,
         Checked, OwnId, Existing
    <2> QED
      BY <2>1, <2>2, TxnStep
  <1>2. CASE Next
    BY <1>2, CreateStep, UpdateStep, FlushStep, CommitStep, RollbackStep, DeleteStep,
       ReplicateStep DEF Next
  <1> QED
    BY <1>1, <1>2

-----------------------------------------------------------------------------

\* The tables keep their shape whatever requests of JobService overlap: every row
\* is complete and no dependency edge outlives one of its jobs.
THEOREM EditsTypeCorrect == Spec => []TypeOK
  <1>1. EditsInv => TypeOK
    BY DEF EditsInv, Tables
  <1> QED
    BY <1>1, EditsInit, EditsInductive, PTL DEF Spec

\* _assert_acyclic, which asks for the descendants of the edited job only, keeps
\* the whole graph free of cycles until two edits that add edges overlap.
THEOREM GraphStaysAcyclic == Spec => []GraphIsAcyclic
  <1>1. EditsInv => GraphIsAcyclic
    BY DEF EditsInv
  <1> QED
    BY <1>1, EditsInit, EditsInductive, PTL DEF Spec

\* update_job keeps runtime_spec derived from the action the row shows, unless the
\* row was written from an outdated copy.
THEOREM SpecStaysInStep == Spec => []SpecMatchesAction
  <1>1. EditsInv => SpecMatchesAction
    BY DEF EditsInv
  <1> QED
    BY <1>1, EditsInit, EditsInductive, PTL DEF Spec

=============================================================================
