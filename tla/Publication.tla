------------------------------ MODULE Publication ------------------------------
(******************************************************************************)
(* What readers find beside the partitions, and the jobs that write it: the  *)
(* metadata tables (metadata.py), the manifest and its summary (catalog.py), *)
(* the STAC documents (portolan.py), under the concurrency group the         *)
(* workflows share (_setup.yml).                                             *)
(*                                                                           *)
(* Contents are versions.  Version v of the service's metadata has the       *)
(* stations 1 .. v, each with a network, a variable and a history of its     *)
(* own; version v of the observations is what v - 1 changes left.  Every     *)
(* GET and every object written is a step, so a job can die between any two  *)
(* and a shard of a backfill, which runs outside the group, can write there. *)
(******************************************************************************)
EXTENDS Naturals, Sequences, FiniteSets, Functions

CONSTANTS
    MaxUpstream,   \* bound: versions of the service's metadata
    MaxObs,        \* bound: versions of the observations
    MaxFailures,   \* bound: jobs that fail or die
    MaxCancels     \* bound: pending jobs the group drops for a newer one

ASSUME PublicationAssumption ==
    /\ {MaxUpstream, MaxObs} \subseteq Nat \ {0}
    /\ {MaxFailures, MaxCancels} \subseteq Nat

Tables == <<"networks", "variables", "stations", "histories">>
Collections == Range(Tables) \cup {"observations"}

\* The objects a collection's document registers with a checksum.  A thumbnail
\* is written and registered with the table it is drawn from, and left out.
Assets == [networks     |-> {"networks"},
           variables    |-> {"variables", "frequencies"},
           stations     |-> {"stations"},
           histories    |-> {"histories"},
           observations |-> {"manifest"}]

Objects == (UNION {Assets[c] : c \in Collections}) \cup {"summary"}

VARIABLES
    upstream,   \* version of the service's metadata
    obs,        \* version of the observations, 1 when there are none
    store,      \* store[o]: version of the object, 0 when it does not exist
    docs,       \* docs[c]: what collection.json says, or NoDoc(c)
    root,       \* the children catalog.json links to
    line,       \* the concurrency group: the workflow that runs, the pending
    at,         \* at[w]: which of its jobs the workflow is at, 0 when idle
    todo,       \* todo[w]: the steps that job has left
    mem,        \* mem[w]: versions the job has read
    kids,       \* kids[w]: collections it has described
    made,       \* history: the observations the chain's compaction left
    failures, cancels

vars == <<upstream, obs, store, docs, root, line, at, todo, mem, kids, made,
          failures, cancels>>

\* A document says how many rows the table has and the checksum of each asset.
NoDoc(c) == [table |-> 0, sums |-> [o \in Assets[c] |-> 0]]

--------------------------------------------------------------------------------
(* The jobs of a workflow, and the steps of a job in the order of the code.  *)

Chain == <<"compact", "catalog", "portolan">>

\* Mutant of JobsOf: portolan does not wait for the catalog.
JobsOfUnchained == [compact  |-> <<"compact", "portolan", "catalog">>,
                    backfill |-> <<"compact", "portolan", "catalog">>,
                    metadata |-> <<"metadata">>]

\* Mutant of JobsOf: only a backfill's workflow rebuilds the documents.
JobsOfBackfillOnly == [compact  |-> <<"compact", "catalog">>, backfill |-> Chain,
                       metadata |-> <<"metadata">>]

JobsOf == [compact |-> Chain, backfill |-> Chain, metadata |-> <<"metadata">>]

Workflows == DOMAIN JobsOf

Each(do, objects) == [i \in DOMAIN objects |-> [do |-> do, of |-> objects[i]]]

Fetches == Each("get", <<"networks", "variables", "frequencies", "stations",
                         "histories">>)
Writes == Each("put", <<"networks", "variables", "stations", "histories",
                        "frequencies">>)

Rebuild == <<[do |-> "build", of |-> "manifest"]>>
           \o Each("put", <<"manifest", "summary">>)

Load(c) == [do |-> "load", of |-> c]
Describe(c) == [do |-> "describe", of |-> c]

StepsOf(job) ==
    CASE job = "metadata" -> Fetches \o Writes
      [] job = "compact"  -> <<[do |-> "fold", of |-> "observations"]>> \o Rebuild
      [] job = "catalog"  -> Rebuild
      [] job = "portolan" ->
            <<Load("observations"),
              Load("networks"), Describe("networks"),
              Load("variables"), Describe("variables"),
              Load("stations"), Describe("stations"),
              Load("histories"), Describe("histories"),
              Describe("observations"), [do |-> "root", of |-> "catalog"]>>

--------------------------------------------------------------------------------
(* The concurrency group: one job runs, one is pending, and a job that asks  *)
(* for the group takes the place of the pending one, whose workflow ends.    *)

\* Mutant of Runs: the pending job does not wait.
RunsAtOnce(w) == w \in Range(line)

Runs(w) == line # <<>> /\ Head(line) = w

Idle(w) == at[w] = 0

NoMemory == [o \in Objects |-> 0]

Ask(w, rest, job) ==
    LET full == Len(rest) = 2 IN
    /\ full => cancels < MaxCancels
    /\ cancels' = IF full THEN cancels + 1 ELSE cancels
    /\ line' = IF full THEN <<rest[1], w>> ELSE Append(rest, w)
    /\ at' = [v \in Workflows |-> IF v = w THEN job
                                  ELSE IF full /\ v = rest[2] THEN 0 ELSE at[v]]
    /\ todo' = [v \in Workflows |-> IF v = w THEN StepsOf(JobsOf[w][job])
                                    ELSE IF full /\ v = rest[2] THEN <<>> ELSE todo[v]]
    /\ mem' = [mem EXCEPT ![w] = NoMemory]
    /\ kids' = [kids EXCEPT ![w] = {}]
    /\ made' = [v \in Workflows |-> IF full /\ v = rest[2] THEN 0 ELSE made[v]]

Trigger(w) ==
    /\ Idle(w)
    /\ Ask(w, line, 1)
    /\ UNCHANGED <<upstream, obs, store, docs, root, failures>>

\* The job is done: the pending one runs, and the next of the chain asks.
NextJob(w) ==
    /\ Runs(w) /\ todo[w] = <<>>
    /\ at[w] < Len(JobsOf[w])
    /\ Ask(w, Tail(line), at[w] + 1)
    /\ UNCHANGED <<upstream, obs, store, docs, root, failures>>

LeaveGroup(w) ==
    /\ line' = Tail(line)
    /\ at' = [at EXCEPT ![w] = 0]
    /\ todo' = [todo EXCEPT ![w] = <<>>]
    /\ mem' = [mem EXCEPT ![w] = NoMemory]
    /\ kids' = [kids EXCEPT ![w] = {}]
    /\ made' = [made EXCEPT ![w] = 0]

LastJob(w) ==
    /\ Runs(w) /\ todo[w] = <<>>
    /\ at[w] = Len(JobsOf[w])
    /\ LeaveGroup(w)
    /\ UNCHANGED <<upstream, obs, store, docs, root, failures, cancels>>

\* A GET or a write fails, or the runner dies: what needs the job does not run.
Fail(w) ==
    /\ Runs(w) /\ todo[w] # <<>>
    /\ failures < MaxFailures
    /\ failures' = failures + 1
    /\ LeaveGroup(w)
    /\ UNCHANGED <<upstream, obs, store, docs, root, cancels>>

--------------------------------------------------------------------------------
(* The steps.                                                                *)

At(w, do) == Runs(w) /\ todo[w] # <<>> /\ Head(todo[w]).do = do
Of(w) == Head(todo[w]).of
Job(w) == JobsOf[w][at[w]]
Go(w) == todo' = [todo EXCEPT ![w] = Tail(@)]
GoPast(w) == todo' = [todo EXCEPT ![w] = Tail(Tail(@))]
Stop(w) == todo' = [todo EXCEPT ![w] = <<>>]

\* fetch_all: one endpoint, in whatever version the service has by then.
Get(w) ==
    /\ At(w, "get")
    /\ mem' = [mem EXCEPT ![w][Of(w)] = upstream]
    /\ Go(w)
    /\ UNCHANGED <<upstream, obs, store, docs, root, line, at, kids, made,
                   failures, cancels>>

Lesser(m, n) == IF m < n THEN m ELSE n

\* Mutant of Histories: every history the endpoint lists is kept.
HistoriesAll(m) == m["histories"]

\* build_tables: a history whose station is in no embedded list is dropped,
\* and the histories that are left carry their station's name.
Histories(m) == Lesser(m["histories"], m["stations"])

\* What an object is written with, from what the job holds in memory.
Content(o, m) == IF o = "histories" THEN Histories(m) ELSE m[o]

Put(w) ==
    /\ At(w, "put")
    /\ store' = [store EXCEPT ![Of(w)] = Content(Of(w), mem[w])]
    /\ Go(w)
    /\ UNCHANGED <<upstream, obs, docs, root, line, at, mem, kids, made,
                   failures, cancels>>

\* catalog.build: the listing and every footer, for the manifest and, through
\* summarize, for its summary.
Build(w) ==
    /\ At(w, "build")
    /\ mem' = [mem EXCEPT ![w]["manifest"] = obs, ![w]["summary"] = obs]
    /\ Go(w)
    /\ UNCHANGED <<upstream, obs, store, docs, root, line, at, kids, made,
                   failures, cancels>>

\* A footer that cannot be read: `pcds compact` warns and succeeds.
BuildFails(w) ==
    /\ At(w, "build") /\ Job(w) = "compact"
    /\ failures < MaxFailures
    /\ failures' = failures + 1
    /\ Stop(w)
    /\ UNCHANGED <<upstream, obs, store, docs, root, line, at, mem, kids, made,
                   cancels>>

\* Without deltas compact returns; with them it swaps partitions, and goes on
\* to refresh a manifest that exists.
NothingToFold(w) ==
    /\ At(w, "fold")
    /\ Stop(w)
    /\ made' = [made EXCEPT ![w] = obs]
    /\ UNCHANGED <<upstream, obs, store, docs, root, line, at, mem, kids,
                   failures, cancels>>

Fold(w) ==
    /\ At(w, "fold")
    /\ obs < MaxObs
    /\ obs' = obs + 1
    /\ made' = [made EXCEPT ![w] = obs']
    /\ IF store["manifest"] = 0 THEN Stop(w) ELSE Go(w)
    /\ UNCHANGED <<upstream, store, docs, root, line, at, mem, kids, failures,
                   cancels>>

\* A shard of a backfill puts a file, before the jobs of its workflow start and
\* whatever the group is doing.
ShardWrites ==
    /\ Idle("backfill")
    /\ obs < MaxObs
    /\ obs' = obs + 1
    /\ UNCHANGED <<upstream, store, docs, root, line, at, todo, mem, kids, made,
                   failures, cancels>>

\* portolan.build starts from the summary, or from the manifest without one.
LoadSummary(w) ==
    /\ At(w, "load") /\ Of(w) = "observations"
    /\ mem' = [mem EXCEPT ![w]["summary"] = IF store["summary"] # 0
                                           THEN store["summary"]
                                           ELSE store["manifest"]]
    /\ Go(w)
    /\ UNCHANGED <<upstream, obs, store, docs, root, line, at, kids, made,
                   failures, cancels>>

LoadTable(w) ==
    /\ At(w, "load") /\ Of(w) # "observations"
    /\ store[Of(w)] # 0
    /\ mem' = [mem EXCEPT ![w][Of(w)] = store[Of(w)]]
    /\ Go(w)
    /\ UNCHANGED <<upstream, obs, store, docs, root, line, at, kids, made,
                   failures, cancels>>

\* A collection without its table is passed over; so are observations without
\* a file.
Missing(c) == IF c = "observations" THEN obs = 1 ELSE store[c] = 0

SkipCollection(w) ==
    /\ \/ At(w, "load") /\ Of(w) # "observations" /\ GoPast(w)
       \/ At(w, "describe") /\ Of(w) = "observations" /\ Go(w)
    /\ Missing(Of(w))
    /\ UNCHANGED <<upstream, obs, store, docs, root, line, at, mem, kids, made,
                   failures, cancels>>

\* _file_facts: the checksum is that of the object as it is now.
Checksums(c) == [o \in Assets[c] |-> store[o]]

RowsOf(c, m) == IF c = "observations" THEN m["summary"] ELSE m[c]

WriteDoc(w) ==
    /\ At(w, "describe")
    /\ Of(w) = "observations" => obs > 1
    /\ docs' = [docs EXCEPT ![Of(w)] = [table |-> RowsOf(Of(w), mem[w]),
                                       sums  |-> Checksums(Of(w))]]
    /\ kids' = [kids EXCEPT ![w] = @ \cup {Of(w)}]
    /\ Go(w)
    /\ UNCHANGED <<upstream, obs, store, root, line, at, mem, made, failures,
                   cancels>>

\* build_root_catalog, written after every collection.
WriteRoot(w) ==
    /\ At(w, "root")
    /\ root' = kids[w]
    /\ Go(w)
    /\ UNCHANGED <<upstream, obs, store, docs, line, at, mem, kids, made,
                   failures, cancels>>

\* The service adds a station, with its network, variable and history.
Upstream ==
    /\ upstream < MaxUpstream
    /\ upstream' = upstream + 1
    /\ UNCHANGED <<obs, store, docs, root, line, at, todo, mem, kids, made,
                   failures, cancels>>

--------------------------------------------------------------------------------
Init ==
    /\ upstream = 1
    /\ obs = 1
    /\ store = [o \in Objects |-> 0]
    /\ docs = [c \in Collections |-> NoDoc(c)]
    /\ root = {}
    /\ line = <<>>
    /\ at = [w \in Workflows |-> 0]
    /\ todo = [w \in Workflows |-> <<>>]
    /\ mem = [w \in Workflows |-> NoMemory]
    /\ kids = [w \in Workflows |-> {}]
    /\ made = [w \in Workflows |-> 0]
    /\ failures = 0
    /\ cancels = 0

Step(w) ==
    \/ Get(w) \/ Put(w) \/ Build(w) \/ NothingToFold(w) \/ Fold(w)
    \/ LoadSummary(w) \/ LoadTable(w) \/ SkipCollection(w) \/ WriteDoc(w)
    \/ WriteRoot(w)
    \/ NextJob(w) \/ LastJob(w)

Next ==
    \/ \E w \in Workflows : Trigger(w) \/ Step(w) \/ BuildFails(w) \/ Fail(w)
    \/ ShardWrites
    \/ Upstream

Spec == Init /\ [][Next]_vars

\* A job runs to its end, and the schedules come round again and again; a
\* backfill is dispatched by hand.
Scheduled == {"compact", "metadata"}

FairSpec ==
    /\ Spec
    /\ \A w \in Workflows : WF_vars(Step(w))
    /\ \A w \in Scheduled : SF_vars(Trigger(w))

--------------------------------------------------------------------------------
TypeOK ==
    /\ upstream \in 1 .. MaxUpstream
    /\ obs \in 1 .. MaxObs
    /\ store \in [Objects -> Nat]
    /\ DOMAIN docs = Collections
    /\ \A c \in Collections : docs[c] \in [table : Nat, sums : [Assets[c] -> Nat]]
    /\ root \subseteq Collections
    /\ IsInjective(line) /\ Len(line) <= 2 /\ Range(line) \subseteq Workflows
    /\ \A w \in Workflows : at[w] \in 0 .. Len(JobsOf[w])
    /\ \A w \in Workflows : Idle(w) <=> w \notin Range(line)
    /\ mem \in [Workflows -> [Objects -> Nat]]
    /\ kids \in [Workflows -> SUBSET Collections]
    /\ made \in [Workflows -> 0 .. MaxObs]

\* Every history that is published belongs to a published station, while a
\* refresh is half written too and after one that died: the order of the GETs,
\* the filter of build_tables and the order of the writes together
\* (metadata.py:48-54, 122-155, 174-194).
HistoriesHaveStations == store["histories"] <= store["stations"]

\* The document of a metadata table, of which there are four, counts the rows of
\* the very object whose checksum it registers, although portolan reads the table
\* first and hashes the object later (portolan.py:1055-1058, 464): the group lets
\* no refresh come between.  The document of the observations is not meant: their
\* shards write outside of the group.
DocAgreesWithItself ==
    \A c \in Range(Tables) : docs[c].table = docs[c].sums[c]

\* A chain that gets to its end has published what its compaction left: rows
\* and manifest are at least that new, whatever other chains, shards and
\* failures did in between (compact.yml:16-45, portolan.py:1040-1044).
ChainPublishes ==
    [][\A w \in {"compact", "backfill"} :
         LastJob(w) /\ made[w] > 1 =>
            /\ docs["observations"].table >= made[w]
            /\ docs["observations"].sums["manifest"] >= made[w]]_vars

\* Once the archive and the service are quiet, no more jobs fail and the group
\* drops no more of them, the documents come to describe what is there and the
\* tables what the service has.
Described ==
    /\ \A c \in Range(Tables) :
         /\ store[c] = upstream
         /\ docs[c] = [table |-> upstream, sums |-> [o \in Assets[c] |-> upstream]]
    /\ docs["observations"] = IF obs = 1 THEN NoDoc("observations")
                              ELSE [table |-> obs, sums |-> [manifest |-> obs]]
    /\ root = IF obs = 1 THEN Range(Tables) ELSE Collections

ComesToDescribe == <>[]Described

================================================================================
