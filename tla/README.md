# Foreign-Exchange: a TLA+ model of the programs

The repository holds a series of small programs that predict the direction of
a currency's bid price: one turns ticks into labelled candlesticks, the others
learn from the candlesticks with decision trees and random forests, alone,
over Cassandra, as a Hadoop job, and with Spark. Beside them it holds the
releases they run on, and of these the sources in Python: Hadoop on Demand
(HOD), which allocates Hadoop clusters from a batch system, and cqlsh, the
shell of Cassandra. This directory models all of them in TLA+, checks the
models with TLC on small instances and proves some of the results with TLAPS
for all instances.

Paths below `HOD` are those of `src/MRRandonForest/hadoop-1.2.1/contrib/hod`,
paths below `CASS` those of `src/MRRandonForest/apache-cassandra-1.2.6`.

## 1. Inventory

| Part | State it keeps | Operations | Interacts with |
|---|---|---|---|
| `DataPrep/src` | summary of the minute being read (`timeSlot`, `highPrice`, `lowPrice`, `closePrice`, `localMax`, `localMin`), the last finished candlestick `prev`, the output file | a line of the same minute, a line of another minute, end of file, exceptions | its output is the input of all other programs |
| `DecisionTree/src/DecisionTree` | the DTNodes with their lists of instances and test conditions, the stack of `buildDTree` | `train`, `classify` | sorts and copies lists of shared CandleStick objects |
| `DecisionTree/src/HW2` | the records read, the report | read at most 10000, shuffle, split 2000/8000, train, classify, report | one DecisionTree |
| `RandomForest/src` (`HW3`, `RandomForest`) | `instances`, reshuffled for each tree, the static `totalFeatures`, `trees`, `stats`, the report | read all, shuffle, split, `buildForest`, `classify`, `countVotes`, report | N trees that share the lists |
| `Cassandra/src` (`HW4`) | tables `forex` and `randforest` | SELECT LIMIT 10000, build, classify, INSERT | Cassandra, RandomForest |
| `MRRandonForest/src` | keyspace `randomforest`, one row of counter columns per tree, `randomforest_model/` | setup, `map`, `reduce`, `run` | Cassandra, Hadoop's task scheduling and retries |
| `SparkRF/Convert2LIBSVM` | none beyond its files | convert a sample of 10000 records | feeds the Spark drivers |
| Spark drivers (Scala) | none | call MLlib | Spark |
| HOD client (`HOD/hodlib/Hod`, `NodePools/torque.py`, `Schedulers/torque.py`) | `clusters.state` of the user, one state file per cluster in its directory, `hadoop-site.xml`, the exit code | `allocate`, `deallocate`, `info`, `list`, `script`, interrupts | batch system (qsub, qstat, qdel), ring master (XML-RPC), other clients of the user through the files |
| HOD configuration (`Common/setup.py`, `types.py`, `tcp.py`, `util.py`) | the options of each program, their definitions and defaults | parse, merge with hodrc, verify, print for the next program, one-letter options, subcommands | client to ring master through the shell of the batch job, ring master to hodrings |
| HOD ring master and grid services (`RingMaster/ringMaster.py`, `GridServices`) | which master is launched, up, failed and where | `getCommand`, `addMasterParams`, `setHodRingErrors`, `getServiceAddr`, `getTarList`, `registerTarSource`, `stopRM` | every hodring and the client, by XML-RPC |
| HOD ring master life cycle (`ringMaster.py`, `idleJobTracker.py`) | flags of `stop`, exit code, the threads that find and watch the job tracker | `main`, `stop`, `stopRM`, signals | three threads that may be in `stop` at once |
| hodring (`HodRing/hodRing.py`, `bin/hodring`, `bin/hodcleanup`) | commands, daemons, directories, log directories | start, run commands, check the job tracker, report, stop, clean up | ring master, Hadoop's daemons, the DFS |
| HOD service registry (`ServiceRegistry/serviceRegistry.py`, `Common/xmlrpc.py`) | nested dictionaries under a lock | `registerService`, `getServiceInfo` | clients that repeat calls |
| HOD threads, servers and ports (`Common/threads.py`, `socketServers.py`, `GridServices/service.py`) | stop and pause flags, child process, listening sockets, used ports | `loop`, `simpleCommand`, `kill`, server `pause`, `cont`, `stop`, `getUniqRandomPort` | each other, other programs on the node |
| cqlsh parser (`CASS/pylib/cqlshlib/pylexotron.py`) | a rule set | read rules, match, complete | |
| CQL 2 rules and completers (`cqlhandling.py`) | rules, tables of options, the schema as cqlsh shows it | match a statement, offer what follows | the parser, the cluster's schema |
| cqlsh statement loop (`CASS/bin/cqlsh`) | text read and not handled | a line, end of input, Ctrl-C, a command | splits with the lexer of the rules |
| Java code of Hadoop, Cassandra and the driver; IDE metadata | - | - | binaries, scripts and generated files |

What is hard in them:

* **One pass with two minutes held back** (DataPrep). A candlestick is written
  two roll-overs after its first tick. Correct: each record summarises its own
  minute and looks at the right next one, nothing is lost or doubled, and this
  is also so when a bad line kills the program half way.
* **Shared mutable lists** (trees and forests). Nodes sort their own lists in
  place while candidate splits are copies; each feature's sort starts from the
  order the previous one left; `totalFeatures.subList` is a view. Correct: the
  leaves partition the training set, the test conditions agree with the lists,
  each split is the best one, a tree's record of its features stays its own.
* **Ties and boundaries**: equal values in a sorted list, equal votes, empty
  lists (entropy NaN), `Double.MIN_VALUE`, N = 0, fewer than 10000 records.
* **Recursion**: it must end, on a bounded depth.
* **Partial failure** (HW3, HW4, MapReduce): outputs are erased first and
  written last, the keyspace cannot be created twice, the job's result is not
  read.

* **Everything between two programs of HOD**: a call that is repeated while the
  first one is still served (`xmlrpc.py` tries 30 times), handled after its
  caller is gone, or lost; a client that is killed between two files; two
  clients over one list without a lock; a hodring that dies with a master.
  Correct: one master per service, nobody is told of another, no cluster that
  nobody can find, and what is acknowledged stays.
* **Threads that stop each other** (`stop` of the ring master, `join` of a
  loop, `kill` of a command, the twisted server): flags tested and set in two
  steps. Correct: whoever waits is not kept for ever, and is told the truth.
* **Text that passes through three programs and a shell** (`setup.py`): each
  has its own definitions and defaults. Correct: what the client verified is
  what the others see, and they accept it.
* **A parser that offers while it matches** (pylexotron): branches that die
  later have offered already, and completers look at values bound so far.
  Correct: what is offered is what may follow, neither more nor less.

`PROJECT.json` lists the ones that matter most at their lines under `hazards`.

## 2. Modules

| Module | Models | Role |
|---|---|---|
| `DataPrep` | `DataPrep/src` | the state machine of `main` |
| `DataPrepProofs` | | TLAPS proofs about `DataPrep` |
| `DataPrep.cfg` | | TLC instance |
| `DecisionTree` | `DecisionTree/src`, and the copy in `RandomForest/src` | `buildDTree` as a stack of calls, `findMatch` as a walk |
| `DecisionTreeProofs` | | TLAPS proofs about `DecisionTree` |
| `MCDecisionTree` | | TLC instances |
| `CountVotes` | `countVotes` in `RandomForest/src` and `Cassandra/src` | operators, extended by the next two |
| `RandomForest` | `RandomForest/src` | `HW3.main` and class `RandomForest` |
| `RandomForestProofs` | | TLAPS proofs about `RandomForest` and `CountVotes` |
| `MCRandomForest` | | TLC instances |
| `HW4` | `Cassandra/src` | concurrent runs of `HW4.main` and the two tables |
| `HW4Proofs` | | TLAPS proofs about `HW4` |
| `MCHW4` | | TLC instances |
| `MRRandomForestSetup` | `MRRandonForest/src/MRRandomForestSetup` | the setup and the rows it writes |
| `MRRandomForest` | `MRRandonForest/src/MRRandomForest` | the Hadoop job, composed with the setup |
| `MRRandomForestProofs` | | TLAPS proofs about the setup and the job |
| `MCMRRandomForest` | | TLC instances |
| `TorquePool` | `NodePools/torque.py`, `Schedulers/torque.py`, `Hod/nodePool.py` | the batch system as the client sees it; extended by `Hod` |
| `Hod` | `Hod/hod.py`, `Hod/hadoop.py` | concurrent clients, their files, the jobs and ring masters |
| `HodProofs` | | TLAPS proofs about `Hod`, for any number of clients |
| `Types`, `Config` | `Common/types.py`, `Common/tcp.py`; `Common/setup.py` | the value types, and the way of the options from hodrc to the hodrings |
| `ShortOptions`, `CommandLine` | `Common/setup.py`, `Hod/hod.py` | the one-letter options; the subcommands and script.exitcode |
| `GridServices`, `RingMaster`, `HodRing` | `GridServices`, `ringMaster.py`, `hodRing.py` | the services, the calls on them, the ring that makes the calls; each extends the one before |
| `Cluster` | | the abstract specification that `HodRing` implements |
| `RingMasterStop` | `ringMaster.py`, `idleJobTracker.py` | the making and the end of the ring master on its threads |
| `TarSources` | `getTarList`, `registerTarSource`, `__download_package` | the distribution of the tarball |
| `HodRingEnd` | `hodRing.py`, `hodsvc.py`, `bin/hodring`, `bin/hodcleanup` | one hodring from its commands to its cleanup |
| `ServiceRegistry` | `serviceRegistry.py`, `xmlrpc.py` | the registry with its lock, threads and retrying clients |
| `Directory` | | the abstract specification that `ServiceRegistry` implements |
| `Ports`, `SocketServer` | `GridServices/service.py`, `Common/socketServers.py` | the choice of ports; the threaded and the twisted server |
| `LoopThread`, `SimpleCommand` | `Common/threads.py` | a periodic thread; a command that is run and killed |
| `MCConfig`, `MCHod`, `MCHodNode` | | values for `Config`; TLC instances of the parts of HOD |
| `MCHodProofs` | | TLAPS proofs about parts of `MCHod`: registry, ring, clients, script.exitcode, letters |
| `HodNodeProofs` | | TLAPS proofs about parts of `MCHodNode`: the end of a hodring, tarball, threads, servers, ports |
| `Pylexotron`, `CqlHandling`, `CqlShell` | `pylexotron.py`; `cqlhandling.py`; `bin/cqlsh`, `util.py` | parser; rules and completers; statement loop |
| `MCPylexotron`, `MCCqlsh` | | small rules for `Pylexotron`; the TLC instance of the three |

Definitions named `Mut...` are deliberate bugs. Each stands before the
definition it would replace and is used by no specification; every property
below is known to fail when one of them is put in place.

### DataPrep

A tick is a minute and an integer price. The variables have the names of the
locals of `main`. There is one action for each way through the loop's body:
`FirstLine`, `SameSlotLine`, `NewSlotLine`, the exceptions (`NoHighPrice`: no
bid of the minute was above `Double.MIN_VALUE`, so the `String[]` of the high
price is still empty; `BadPriceNewSlot`: a price that does not parse in a line
that has already finished a candlestick; `BadLine`: everything else) and
`EndOfFile`. A write is followed by a flush, so what was written survives the
death of the program. `frames` is a history variable: the ticks read, cut into
runs of one minute, and the reference the output is compared with. Currency
pairs and the format of a record are left out.

### DecisionTree

An instance is its position in the training list. `nodes` maps paths to
DTNodes and `stack` holds the calls of `buildDTree` that have not returned.
A call is `CallOnLeaf`, or `CallOnNode` followed for each feature by
`SortByFeature` (the stable in-place sort, defined by ranks) and
`TryThresholds` (the inner loop), and then `Grow` or `NoBestSplit`. A query is
`classify`, then `Descend` until `Answer`, or `EmptyLeaf` where `get(0)`
throws.

Entropies are real numbers; the model compares information gains exactly. n
times the entropy of a list of n instances is the logarithm of
n^n / (r^r d^d c^c), where r, d and c count the labels, so one gain is greater
than another when a product of integers is smaller. Doubles round: two splits
with the same label counts compute the same double, and the earlier one wins
as `>` is strict; two splits with equal gains from different counts may round
either way, and the model allows both. A gain that is smaller in exact
arithmetic is taken to be smaller in doubles.

`featureIdx` is the list 0, 1, 2, 3 for `DecisionTree/src` and a pair for
`RandomForest/src`.

### RandomForest

`HW3.main` with TOTAL_INSTANCES as a constant. A shuffle followed by `subList`
is the choice of a subset. A tree is what `DecisionTree` shows it to be, a
classifier that answers with the label of one of its training instances; each
is asked once for each instance, so the answer is chosen when it is asked.
`totalFeatures` holds the first two elements of the shared list, the part that
`subList(0, 2)` views. `CountVotes!EntryBefore` is the iteration order of
`java.util.HashMap` for the keys -1, 0 and 1: the hash of -1 is spread to a
multiple of 16, so it shares bucket 0 with 0, in order of insertion, and 1 is
in bucket 1. The report goes through a buffer: some lines may reach the file
before the others (`Flush`), the rest does when the writer is closed
(`Report`), and a write that fails (`WriteFails`) is caught by `main`, which
ends with what the file then holds.

### HW4

Each element of `Runs` is one run of the program; running it again is another
element. `run[c]` holds the locals of `main` and of its forest, also after the
run has died. An instance is its place in the order in which Cassandra returns
the rows, so `SELECT ... LIMIT` and the test `i < 8000` are both `First`. A
run is `Select`, N times `GrowTree` (or `EmptyTree`, where a tree grown on no
instance is asked for a label and throws), `classify` (or `NoTrees`) and
`Insert`; `Fails` may end it anywhere, and an INSERT that was not answered may
have been made. The loading of the table is commented out in the program and
is the external action `Load`, which may interleave with the runs.

### MRRandomForestSetup and MRRandomForest

A record is its place in the order of Cassandra's UTF8Type comparator, and a
row is a set of records: adding zero to a counter creates the column or
changes nothing. `ReadRecords` allows any prefix of the file, since a file
that is missing or fails half way is only reported. `setupKeyspace` works once
for a cluster, `AddColumn` is one `client.add`, `SetupFails` stops the program
between or during any two of them. The job is `Submit` or `Refused`, `map` for
every key of every input split, `AttemptFails` where Hadoop discards an
attempt and starts it again, and `reduce` or `JobFails`. A tree is identified
with the instances it was trained and tested on. The two programs share only
Cassandra and the composition lets them run in any order. Two setups do not
run at the same time in the model; the second would be refused like a later
one.

### Hod and TorquePool

A client is a process that runs `bin/hod` for one user. Its `pc` names the
place in `hodRunner` and `hadoopCluster`, and every read or write of a file,
every qsub, qstat, qdel and every call over the network is a step of its own:
`Start`, `Allocate` or `AllocateListed` (a directory that is already in the
list), `VerifyAccount`, `Submit` (with its retries), `CheckJobStatus`,
`FindRing`, `FindService`, `GenSiteConf`, then the writes of the state file
(`WriteOpen` truncates, `WriteDump` fills) and of the user's list (read,
changed, written back: `RecordRead`, `UserOpen`, `UserDump`), and `End`.
`deallocate`, `info`, `list` and `script` share these steps. `GiveUp` is what
`allocate` does with a job when one of its stages fails, `InterruptJob` when a
signal came. The call of `stopRM` in them may be lost (`TellRM`): `hodXRClient`
gives up and returns as if it had been made. `RecordFails` is a record or a
list that cannot be opened, read or written, at any of its steps, for which a
new cluster is given back; an interrupt may come first (exit code 127). An
exception while an entry is *removed* from the list (by `deallocate`, or when
`allocate` finds its old cluster dead) is not modelled: the program prints it
and ends with the code it had by then. From outside, jobs start and end,
daemons come up and die, clients are killed (`Crash`) and interrupted. Clients
share the files and the batch system only.

### Types, Config, ShortOptions, CommandLine

A text is a record of what the validators of `types.py` tell apart (digits,
unit, separators, path, backslashes); `verify_*`, `norm_*` and `tostring_*` are
operators on it with the names of the methods. Where Python's `None`
normalizes or a conversion raises, the operator returns the empty set.
`Config` follows one run: `ParseOptions` and `MergeConfig` of the client (the
command line wins unless its value is the default; parameters such as
server-params accumulate: hodrc is entered into a dictionary item by item, then
the command line, which replaces what is there or, for final-server-params,
only adds keys, so that of a key repeated there the first value stays; the
dictionary is written as a text again), `VerifyConfig`, `get_args` (the command line of the
next program, with quotes where `setup.py` puts them, read by the external
`Shell`), and the same for the ring master and the hodrings. A parameter
`k=` without a value is merged into the bare key `k`, which is not a keyval any
more, and the client refuses its whole configuration; the model does so too.
`ShortOptions` is the loop that gives out letters. `CommandLine` is a series
of runs of hod over one directory: what optparse makes of the line, which may
end the run at once (an error, `-h`, `-v`), the positional arguments, the
removal of script.exitcode, which may fail with no more than a warning, the
script's exit code that is written there, and a kill or Ctrl-C at any step.

### GridServices, RingMaster, HodRing and Cluster

`GridServices` holds the fields of the two `MasterSlave` services,
`RingMaster` the methods that hodrings and the client call, `HodRing` the
hodrings. The ring master handles each call in a thread, `getCommand` under
`cmdLock`, the other two under `masterParamLock`, so that one of each kind may
be at work at once. `getCommand` writes two fields of the service that it gives
away, and is two steps: `TakeMaster` (the service is launched) and `GiveMaster`
(to whom). In `giving` is the call between them, which holds its lock.
A reply of worker commands is one step, and so are the other calls:
`addMasterParams` writes one field that `getCommand` reads, as its last
write, and `setHodRingErrors` reads the address before it writes anything.
`TimeOut` leaves a call in `late` with what it carries, and `HandleLate` may
handle it at any time, also when its hodring has gone on or is gone;
`MissReply` is a hodring that gives its call up while the ring master is at
work on it, and `Unreachable` ends the tries. A hodring asks (`Poll`, and
`Answer` is the reply), runs its commands (`CommandRuns`, `CommandFails`),
reports addresses or failure and may die at any point. `disturbed` remembers
that a report of a hodring which had a service before was taken for one of the
next, between the two steps (see below). `Cluster` says what this is
for: a master is down, launching or up, Map/Reduce is launched only over an
HDFS that is up, what came up stays up, and workers join when both are. The refinement maps `phase` and
`workers` to the fields of the services and the hodrings (`HodRing!Abstract`).

### RingMasterStop

The model begins where the constructor installs the signal handlers
(`ringMaster.py:558`): it makes the node pool and the services (`Build`), the
server with its instance (`startService`), registers (`Register`) and makes and
starts the monitor (`MakeMonitor`, `StartMonitor`), and may raise on the way
(`Raise`). `main`'s loop, the thread of a `stopRM` call and a signal handler run `stop`
at once; the handler runs on the main thread, between any two of its
steps. The test (`Check`) and the set (`SetInProgress`) of the flag are two
steps, followed by `FindExitCode`, which finds 6 when there is no instance yet,
`StopMonitor`, which does nothing when there is no monitor yet, `JoinMonitor`
and `CleanUp`, which raises into the constructor when there is no node pool
yet (`CleanUpRaises`). An exception inside `stop` after that is not modelled.
The finder of the job tracker and its monitor are threads of their own, whose
tests of the stop flag are steps. A client error of the job tracker counts as
idle; time plays no part in the two properties, so the clock has two values.
That the main thread ends is not that the process does: a finder that nobody
told to stop is no daemon thread and goes on.

### TarSources

`getTarList` is its scan: the choice among the open servers of one with the
fewest downloads, and the misreading of a count of -1, which the loop takes
for its own initial value. `Ask`, `Fetch`, `FetchFails` and `Register` are
`__download_package`; a hodring that fails or dies never returns its slot.

### HodRingEnd

One hodring: its commands with their directories and daemons, the seven polls
of the job tracker's Jetty, the report, the wait, the stop, the list it writes
for `hodcleanup`, and that program's three stages: the system directory
(with the polls of the job tracker), the archive of the logs, the removal of
the directories. A poll of Jetty is two steps: a look at the command
(`CheckJobTracker`) and a question at the address (`AskJetty`), which whoever
listens there answers, the job tracker or a process that took the port before
it or after it (`Listen`). The end of a command is known only when its thread
has polled it (`Notice`). Assumed: log-destination-uri is given; daemons are
stopped by the resource manager; the pid of a daemon is not reused; nobody
kills the hodring itself.

### ServiceRegistry and Directory

A registration takes the lock (`Acquire`), finds its place in the nested
dictionaries (`Found`, `Depth`) and, as Python does, writes whole dictionaries
where nothing was found; a query copies. Requests are served by `Threads`;
`Retry` is the client's next attempt while a thread still serves the one
before, `GiveUp` the last. `Directory` promises a set of entries that only
grows, and answers that were right at some moment of the call.

### Ports, SocketServer, LoopThread, SimpleCommand

`Probe` binds and closes a port and `Daemon` binds it later, so others may take
it between. `SocketServer` has the loop of the threaded server
(`Top`, `Select`, `Handle`, `Gate`) and the reactor of the twisted one
(`Listen`, `Render`, `Unblock`), whose pause sleeps in the reactor. Each test of
a flag in `loop.run` and each call of `simpleCommand.run` and `kill` is a
step. The process of `simpleCommand` is the shell that runs the command
(`threads.py:239`), whose code is told and which is killed; what the shell has
started may hold the pipe when it is gone (`output`), and then whoever reads
to its end (`threads.py:125`), and whoever joins that thread, waits on.

### Pylexotron, CqlHandling, CqlShell

`Match` is the set-of-contexts semantics of the matchers: a context holds the
tokens left and the bindings, and completions are collected on the way, by
branches that fail later too. `ReadRule` reads the text of a rule, in which
`?` and `*` take the last piece. `CqlHandling` is every rule and every
completer of `cqlhandling.py`, by the names they have there. Developed beside
the Python code: its offers were compared with the code's own on the 3,444
prefixes the model reached, and were the same. `CqlShell` is `cmdloop` and
`onecmd`: text is lexed, cut at `;` or at the end of a line, and handled.
`Match` is recursive, so these modules hold no theorem.

## 3. Runs

A passing run checks conjunctions of named invariants; the modules define and
comment each part.

| Run | Instance | Checks |
|---|---|---|
| `dataprep` | 3 minutes, bids 0, 1, 2, files of up to 5 lines | `TypeOK`, `OutputFaithful`, `OutputComplete` |
| `tree` | all lists of up to 3 over 3 candlesticks and 3 labels, and of 4 over 3 candlesticks and 2 labels; all four features | `TreeSound` (types, `LeavesPartition`, `SplitsOrdered`, `DepthBounded`), `SplitsBest` (`SplitIsArgmax`, `LeavesPure`), `MisroutedOnlyByTies`; liveness `WorkEnds` (`TrainingEnds`, `MatchEnds`) |
| `tree_ties` | the same | `GroupedIntoOwnSubset` is violated |
| `forest` | TOTAL_INSTANCES = 5, three files (exact, longer, too short), N = 0 to 3 | `ForestSound` (types, `VoteIsPlurality`, `TiesDecided`, `PredictsTrainedLabels`, `ReportSound`) |
| `forest_features` | the same with N = 2 and two pairs of features | `FeatureIdxIsOwn` is violated |
| `cassandra` | two runs, two rfids, N = 0 or 2, a table of up to 4 rows, LIMIT = 3 = 2 + 1 | `RowSound` (types, `RowOfOneRun`, `StoredForestWhole`, `PrecisionSound`) |
| `cassandra_precision` | the same with LIMIT = 4 = 2 + 2 | `PrecisionIsShare` is violated |
| `mapreduce` | two runs of the setup, two of the job, three keys in two splits, TRAINING_COUNT = 2, two attempts per task | `RowsSound` (types, `OneTreePerRow`, `ForestOfEqualSamples`), action property `ModelSafe` (`SingleWriter`, `ModelKept`); liveness `ProgramsEnd` (`JobEnds`, `SetupEnds`) |
| `mapreduce_exit` | the same | `SuccessMeansModel` is violated |
| `hod` | eight parts, see below | invariants `EndsAsReported`, `NoOrphan`, `RingSound`, `ConfigKept`, `ConfigMeant`, `LettersServed`, `ExitCodeIsOfLastRun`; action properties `OwnClustersOnly`, `AcknowledgedStays`; refinements `ImplementsCluster`, `ImplementsDirectory` |
| `hod_node` | eight parts, see below | invariants `NoLeftovers`, `ConnectionsBounded`, `LateBounded`, `PortsApart`, `EndsAreTrue`; action property `NothingLost`; temporal safety `UpMeansAnswered`; liveness `StartsEnd`, `WaitsEnd` |
| `cqlsh` | three parts, see below | `ParsesAreDerivations`, `OffersAreFollowers`, `CompletionsContinue`, `SchemaOffered`, `SettingsOffered`, `HandledAsTyped` |

The last three runs hold several parts of their system, one at a time: the
variable `part` is chosen once and says whose actions are taken. The parts
share no variable; one that does not run stays in one initial state or has no
state at all, so the reachable states are the sum of theirs, not the product,
and each property is that of a part, or a conjunction over parts.

| Part of `hod` | Module | Instance | Property |
|---|---|---|---|
| `client` | `Hod` | one client, one directory, two operations out of five, requests for three nodes and a wall time and for a range of nodes above the limit, two retries, one mishap | `EndsAsReported`, `NoOrphan`, `OwnClustersOnly` |
| `clients` | `Hod` | two clients with a directory each, two operations each, a list of clusters that does not exist at first | the same |
| `ring` | `HodRing` | three hodrings, one worker command each, two master failures allowed, two losses (crashes, calls given up) | `RingSound`, `ImplementsCluster` |
| `config`, `types` | `Config` | fourteen of HOD's own options, one or two of them set; one option of every type | `ConfigKept`, `ConfigMeant` |
| `options` | `ShortOptions` | lists of up to four options over five letters, two of them reserved | `LettersServed` |
| `command` | `CommandLine` | two runs of hod; optparse's errors, `-h` and `-v`, subcommands with up to three arguments | `ExitCodeIsOfLastRun` |
| `registry` | `ServiceRegistry` | two clients with two calls each of two attempts, two threads (symmetric) | `AcknowledgedStays`, `ImplementsDirectory` |

| Part of `hod_node` | Module | Instance | Property |
|---|---|---|---|
| `end` | `HodRingEnd` | three lists of commands: both of the HDFS master, the job tracker, two workers; two polls of each kind; another process on the job tracker's port | `UpMeansAnswered`, `NoLeftovers`, `NothingLost`, `WaitsEnd` |
| `tar` | `TarSources` | three hodrings, one connection per server, two losses, one call handled late | `ConnectionsBounded`, `StartsEnd` |
| `ring` | `HodRing` | three hodrings, no losses; commands may fail | `StartsEnd` |
| `stop` | `RingMasterStop` | all threads, from the installation of the signal handlers on | `EndsAreTrue`, `WaitsEnd` |
| `server` | `SocketServer` | four requests, four uses of pause and cont | `LateBounded`, `WaitsEnd` |
| `ports` | `Ports` | two rings on a host, three ports for servers, four for daemons, two addresses each | `PortsApart` |
| `command` | `SimpleCommand` | a command whose shell ignores SIGTERM and ends with 0, 1 or 255 | `EndsAreTrue`, `WaitsEnd` |
| `loop` | `LoopThread` | five uses of pause, cont and join | `LateBounded`, `WaitsEnd` |

| Part of `cqlsh` | Module | Instance | Property |
|---|---|---|---|
| `rules` | `Pylexotron` | every rule of two pieces and groups of them, three tokens | `ParsesAreDerivations`, `OffersAreFollowers` |
| `statement` | `CqlHandling` | 35 openings of statements, four tokens after each, two keyspaces with three tables | `CompletionsContinue`, `SchemaOffered`, `SettingsOffered` |
| `shell` | `CqlShell` | five glyphs or ends of line, one Ctrl-C | `HandledAsTyped` |

Bounds. Five lines of input give files of three minutes with a repeated line,
four runs, a minute that comes back and a minute of zero bids; the theorems
below have no bound. Four instances give trees of depth three, nodes with
every kind of tie in every feature, and lists whose order depends on two
earlier sorts. Three trees give every split of the votes, including the tie of
all three labels. Two runs of HW4 can overwrite each other at every point; the
table has one row more than is read, and every smaller table occurs, with one
training instance, with none, and without testing instances. Three keys in two
splits give a task that fails between two rows and one that does not, two
setups a crash and the attempt to start again. `MaxSetups` and `MaxJobs` bound
how often a program is started, `MaxAttempts` is Hadoop's limit (4 by
default). MAX_VALUE only has to exceed the bids. The programs may stop
for good; their last states stutter (`Ended`, `Died`, `Rest`), so deadlock is checked
in these runs.

The bounds of HOD's parts. One client with two operations meets a directory
that is empty, allocated, dead or already released; two retries let a query
fail once and go on, and fail for good; one mishap reaches every step, and two
clients reach every interleaving of the reads and writes of one list. Three
hodrings are two masters and a worker, or a master that failed, its successor
and one more; two losses can kill a hodring with a
master and make the call of another late; with one failure allowed, the ring
master gives up before a second report could be counted for nothing, so two are. Two threads are enough for two
attempts of one call to be served at once. Two attempts stand for the 30 of
`hodXRClient`, two polls of the job tracker for the code's 7 and for the
retries of the cleanup: nothing depends on the number but the end of the
counting, and `NothingLost` is proved for any number of retries. Each text in `MCConfig` is there for
one branch of a validator. Four options over three free letters run out of
letters. Five glyphs hold a statement, its end, and a second one; a quote over
two lines. External services (`External`) are in the modules but empty in the
runs: with one, the ring master raises as it starts (below), and nothing
happens.

Deadlock is not checked in the last three runs: each of their parts may end.
`hod` takes the threads of the registry and the ids of jobs as symmetric: a
thread is as good as another, and `LastFile`, the only choice among jobs, has at
most one file to choose from.

Fairness. The programs have one thread. `DecisionTree` assumes weak fairness
of a step of `buildDTree` and of a step of `findMatch`: a program that can go
on does. `MRRandomForest` assumes it of the setup while it runs and of an
accepted job, which Hadoop drives to its end; that somebody starts a program
is never assumed. Nothing is assumed of `DataPrep`, `RandomForest` and `HW4`,
whose loops are bounded by their headers.

In `hod_node` each process or thread is weakly fair on its own: a hodring and
the cleanup process, the ring master's constructor and its threads, a server's thread and its
caller, the thread that runs a command and the one that kills it, the loop.
The code justifies it by running: none of these steps waits for another except
where the guard says so. Nothing is assumed of the environment: jobs and commands
may run as long as they like, requests and stops may never come, a call may be
lost (within the bound). The finder and the monitor of the job tracker are
fair because `stop` joins the second. The runs `hod` and `cqlsh` check safety
and assume nothing.

### What disagrees with the code's own words

* `tree_ties`: "find which deepest subset given CandleStick obj should be
  grouped into" (`DecisionTree.java:223`). `buildDTree` also splits between
  two instances with the same value and `inLeftBranch` sends an equal value
  right, so a training instance in the left list may be led to the right
  subset, and get another label than its own, although another feature tells
  it from every other instance. `MisroutedOnlyByTies`, which holds, says this
  is the only way out of the own subset.
* `forest_features`: "features used by this DTree"
  (`RandomForest/src/DecisionTree.java:20`). The field is a view of a static
  list; after the next shuffle it holds the next tree's features. Nothing in
  `RandomForest/src` reads it after training, so predictions are not affected.
* `cassandra_precision`: "10000 is chosen as the dataset size with 8K being
  training data and 2K being testing data" (`Cassandra/src/HW4.java:70`). The
  number of matches is divided by 2000 whatever the table held.
  `PrecisionSound`, which holds, says that a full table gives the right value.
* `mapreduce_exit`: "The RandomForest JSON serialized model is stored at
  randomforest_model/part-r-00000" (`MRRandonForest/README.txt:16`). A job that
  fails ends with exit status 0 and without that file; the directory it leaves
  makes the next run fail.

Further disagreements were met while HOD and cqlsh were modelled. The models
follow the code, and the properties above state what is left of the statement.

* `HOD/getting_started.txt:120`, an allocation that ends well has a
  `hadoop-site.xml`: with a node count n-m, `int(nodes)` (`hod.py:280`) raises
  before `_op_allocate` parses the range, and the exit code stays 0.
* `hod.py:732`, script "runs the specified script using the allocated cluster,
  and then deallocates the cluster": if the directory holds a cluster already,
  the allocation fails, the script is not run, and that cluster, whoever
  allocated it, is deallocated (`hod.py:668`) with exit code 0.
* `getting_started.txt:201`, `list` shows the user's clusters: of two
  allocations that end at once, one record overwrites the other (`hod.py:206`).
* `hod.py:247`, at most n-m masters can fail: failures are counted per service
  and forgotten when a master comes up (`service.py:141`).
* `HOD/config.txt:149`, an external Map/Reduce can be used: `mapred.py:60`
  assigns to a `ServiceDesc`, which has no items, and the ring master raises.
* `ringMaster.py:554`, "exit code with which the ringmaster main method should
  return": `main` may return while another thread in `stop` still looks for it.
  The handlers are installed four lines on: a SIGTERM from there to the end of
  the constructor finds no service to ask (the code is 6, `:986`), or no
  monitor to tell, which the constructor then starts (`:698`). `StoppedAfterFound`
  is what holds.
* `ringMaster.py:363`, `getCommand` gives each master away once, under
  `cmdLock`; `setHodRingErrors` holds `masterParamLock` (`:451`). Between `:380`
  and `:381` the service is launched and its address is still that of the
  hodring which failed before: a report of that hodring that is handled twice
  is counted again there, and the service, not launched any more, is given to
  the next that asks, so that two hodrings run its master. It takes a call that
  was given up and handled late. `RingSound` is what holds.
* `idleJobTracker.py:83`, "Joined the monitoring thread": the finder may start
  the monitor after `stop` has looked for it.
* `threads.py:259`, a loop runs "until join()": one that is paused during a call
  sleeps until it is resumed (`:312`). `threads.py:189`, "Returns process exit
  code": -1, the status of a command that still runs, is read as 255.
* `config.txt:10`, the command line overrides hodrc: not with a value that is
  the default (`setup.py:569`). `types.py:32`, a bool is 0, 1, true or false:
  the expressions are anchored on one side of one alternative, so 10 is true
  and frog false. `setup.py:893`, "the first letter ... that isn't still used":
  the loop takes the last (`:921`).
* `config.txt:59`, a port is picked among the available ones: `range` leaves
  the last out, and draws with repetition may miss the one that is free
  (`socketServers.py:295`). `service.py:198`, 900 retries at most: a port this
  process was given before is not counted (`:205`).
* `bin/ringmaster:109`, max-connect: a registration that is repeated takes a
  download off twice (`ringMaster.py:130`). `ConnectionsBounded` is what holds.
* `hodRing.py:17`, a hodring cleans up all its directories: one that fails on
  its way up ends without (`bin/hodring:264`). `hodRing.py:174`, the job
  tracker "did not exit": also said when the last poll found it gone.
  `bin/hodcleanup:172`, the archive status: it is that of the last tar alone.
* `helptopics.py:623`, consistency levels are identifiers: the lexer makes them
  keywords, and the CQL 2 rule takes none. `cqlhandling.py:193`: BEGIN, APPLY
  and BATCH are keywords too, so the splitter never sees a batch and
  cuts it at its first semicolon.
* A repetition of a rule that may be empty never ends (`pylexotron.py:161`); of
  the rules in the repository only that of HELP's topics is one, and it is left
  out.
* `hod -s script` without the subcommand does not remove an old
  script.exitcode; nor does a line that optparse refuses or answers with help
  (`setup.py:691`, before the removal at `:754`), nor a hod killed before it.
  That the file could not be removed is only a warning (`setup.py:813`).
  `ExitCodeIsOfLastRun` is about the subcommand and says so.
* `hodRing.py:697`, the check of the job tracker's Jetty: a 200 of any process
  on that port will do. `UpMeansAnswered` is what holds.

What holds of the MapReduce programs is worth reading closely.
`ForestOfEqualSamples` says that the setup's shuffle has no effect: the columns
of a row are sorted, so every tree is trained on the same instances and the
trees differ only in their features. `SingleWriter` says that a setup that died
is never completed, as no later run gets past the keyspace.

## 4. Proofs

`DataPrepProofs` proves, for every set of minutes and bids (integers below
MAX_VALUE) and files of any length,

* `TypeCorrect`: `Spec => []TypeOK`
* `OutputIsFaithful`: `Spec => []OutputFaithful`
* `OutputIsComplete`: `Spec => []OutputComplete`

from `DataPrepAssumption` alone. The two properties are about the output and
the ticks and say nothing of the variables in between, so neither is
inductive. `Inv` adds what the loop knows while it reads: no run is empty,
the summary variables are those of the last run (`SummaryInv`; a null high
price means that no bid was above MIN_VALUE), and `prev` summarises the run
before it (`PrevInv`). `OutputComplete` is needed in the proof of
`OutputFaithful`: it says that the run which a new line extends is not yet the
successor of any written record. The lemmas `TrackFirst` and `TrackMore` show
that one step of the comparisons keeps a summary right, `FinishFaithful` that
a finished candlestick labels the right record; then there is one lemma for
each action.

### The programs that learn

`DecisionTreeProofs` proves, for all training lists and lists of features
(`DecisionTreeAssumption`), `TreeIsSound` (`Spec => []TreeSound`) and
`OnlyTiesMisroute` (`Spec => []MisroutedOnlyByTies`). That the leaves partition
the instances is not inductive: nodes are split one at a time, and a split is
of the list as the last sort left it. The invariant adds the shape of the tree
(`Shape`), that a node's instances are those of its children (`Covering`), that
the calls on the stack are about different leaves (`Pending`), and that the
best split so far divides the current list and has a threshold that tells its
halves apart (`Search`). The lemmas about the sort are that a stable sort by
ranks is a permutation and is ordered (`RankOrder`, `SortProperties`).
`MisroutedOnlyByTies` is inductive on top of it: `findMatch` starts at the
root, which has every instance, and `Search` has left each split with a
threshold that only an equal value is led past.

`SplitsAreBest` (`Spec => []SplitsBest`): the split of a node gains at least as
much as a cut at any value of any feature, and every leaf has one label. The
invariant is `BestInv`, over the one above: after each feature the best split
so far is no worse than the cuts by the features tried (`SearchedBest`), and it
is a split as soon as one was. Three things make that hard. The list is sorted
in place between the features, so a split remembered from one order is compared
with splits of another: a gain depends on the two sets of instances only
(`GainsByRange`). Gains are compared as products of powers, which are defined
by recursion (`ExpExists`, `ExpDef`). And a node with two labels must find a
split at all, since `NoBestSplit` would leave an impure leaf. The loop cuts
the list at every position, ties included, and the first cut takes one instance
off. By Bernoulli's inequality the powers n^n are log-convex (`PowerConvex`), so
that cut gains (`OneOutGains`): `NoBestSplit` is taken on an empty training
list only (`NoBestSplitBest`).

The provers have no induction over data and the library's induction theorems
cannot be instantiated. The proofs get it from `WFMin` on the numbers: `LeastOf`
(a set of numbers has a least member), `Induction` (so a set with 0 and the
successors of its members is all of them) and, from it, the existence of the
functions that a recursive definition chooses.

`RandomForestProofs` proves `ForestIsSound` (`Spec => []ForestSound`) for all
files, numbers of trees and TOTAL_INSTANCES of at least 5, so that there is a
testing instance. That the vote is a plurality, and which label wins a tie,
follows from lemmas about `countVotes`: the entry the loop keeps has the most
votes and comes first among its equals in the iteration order of the HashMap,
`EntryBefore` (`BestExists`, `MaxEntryBest`).

`HW4Proofs` proves `RowsAreSound` (`Spec => []RowSound`) for any number of
runs, rows and rfids. `RowOfOneRun` says that a stored row is the work of one
run although several write to the table; the invariant adds what each run
knows of itself (`Divided`: the training places are filled first; `Grown`: one
statistic per tree, no more matches than instances).

`MRRandomForestProofs` proves `RowsAreSound` (`Spec => []RowsSound`) and
`ModelIsSafe` (`Spec => ModelSafe`) for all files, keys, splits, attempts and
programs started (`SetupAssumption`, `JobAssumption`: the splits divide the
keys, a slice holds a whole row). The setup writes row by row, so the rows that
it is past are equal to what was read and the others empty (`Adding`); a task
that starts again reads its keys anew (`Emitted`); a model that is read after
a finished setup is of all rows (`Forest`).

### HOD: the run `hod`

`HodProofs` proves for any number of clients, directories, jobs, requests and
mishaps, from `HodAssumption` (the directories of two clients are different, and
qsub is tried at least once): `Promises` (`Hod`'s `EndsAsReported` and `NoOrphan`),
`StopsItsOwn` (a client ends only its own clusters). `HodAssumption` is a
hypothesis of its theorems as `Hod` is only instantiated. `NoOrphan` speaks of
clients at rest and files; the invariant follows a job through the hands it is
in: a client that still creates it, a state file with an entry in the user's
list, or released (`Known`, `Released`). A directory has one file (`OneFile`),
which is what makes the client's reading of it right; `Local` says, for each
place in the code, what the client knows: the job it has submitted is the one
asked for (`Allocating`), a file is cleared only of a job that ends
(`Releasing`), and the list is read and written back by whoever adds or removes
(`Places`). Each of the actions has its lemma.

`MCHodProofs` takes the parts of the run `hod`.

* Clients. Its two instances of `Hod` satisfy `HodAssumption`
  (`ClientAssumption` is that the names in the cfg are different), and the
  steps of the run are theirs; so `NoClusterIsLost`, `ReportsAreTrue` and
  `StopsOnlyOwn` are the run's `NoOrphan`, `EndsAsReported` and
  `OwnClustersOnly`.
* Registry, for all clients, threads, users, numbers of attempts and requests
  (`RegistryAssumption`): `Invariance` (`TypeOK`; `LockInv`, a thread between
  its read and its write of the dictionaries holds the lock, and what it has
  read is still so; `ServingInv`, which attempt a thread serves, and that a
  client waits for at most the last one), `Forgetting` (no step removes a
  registration), `Acknowledged` (`AcknowledgedStays`), and `Implements`
  (`ImplementsDirectory`, with `entries` the services stored). The invariant
  is needed because the write puts back a whole dictionary: it keeps the
  others' entries only if nobody wrote since the read. `DepthFound`, `KeptAll`
  and `WriteEnters` say what the write stores at each depth of nesting.
* Ring, for any nodes, numbers of workers, failures allowed and losses
  (`ServicesAssumption`, `LossesAssumption`): `RingIsSound` (`RingSound`) and
  `RingImplementsCluster` (`ImplementsCluster`). What could make two masters of
  one service is a call that is handled after its hodring has gone on, so
  the invariant says what such a call may still carry (`LateCalls`); what a
  hodring was given and has run (`Given`, `Ran`), and that the ring master
  remembers it as long as it is at work (`Launched`, `Up`). `FailuresCounted`
  needs a weight on every failure that may still be reported (`Counted`), since
  one hodring may be counted twice when a poll is handled after it failed.
  As `getCommand` is two steps, these hold only while no report of an earlier
  hodring was handled between them: the service that is being given away is
  still at an address of which `Stale` says that its hodring has failed and has
  no call of its own left unless one was given up. So the invariant has two
  parts: `Always`, and `Undisturbed` for the rings that were not `disturbed`.
  `Always` proves what `RingSound` says of every ring: the client is
  told of a master that has run (`Addressed`), failures are bounded by the
  failed hodrings and the calls given up (`Bounded`), and `disturbed` takes such a
  call. `ImplementsCluster` is proved from `Always`, so it holds disturbed or not.
* `ExitCodeIsCurrent` (`ExitCodeIsOfLastRun`), from `FileAssumption`: between the
  arguments and the script of a run the old script.exitcode is gone or the user
  was warned, and a run that ends with the code of its script has written it.
* `ConfigIsMeant` (`ConfigMeant`), for all options, definitions, hodrc and
  command lines that `ConfigAssumption` admits. The parameters pass through
  three conversions: two texts become one dictionary, that becomes a text, and
  `verify` reads it. So the proof has three parts. A text is cut where it was
  joined (`Cut`, `Rejoined`: the parts have no separator of their own).
  A dictionary into which items are entered has, for each key, the value of
  the last of them or of the first, by induction over the items (`Put`,
  `EnteredMeans`). And what `verify_keyval` accepts has a key and a value in
  each part (`Accepted`), so that the dictionary it returns is the one
  that `AsText` wrote (`AsTextMeans`, `MergeMeans`); where the command line says nothing, it is
  hodrc's (`FileMeans`). For the defaults there is one lemma for each type,
  `RoundTrip`: a value that was normalized and printed is normalized to the same
  again. `ConfigInv` says of each stage of the client what its texts are made of.
  `ConfigAssumption` (`WellDefined`) says of the constants what `bin/hod`,
  `bin/ringmaster` and `bin/hodring` have: defaults are None, numbers, bools or
  texts, an address has host and port, a range two ends, no keyval has a default,
  and the client validates the lists of parameters, which are of type keyval. Of hodrc and
  the command line it only says that they are texts, one form for each.
* `LettersGoRound` (`LettersServed`) for all lists of options
  (`OptionsAssumption`): letters given out so far are free of the reserved and
  of each other.

### HOD: the run `hod_node`

`HodNodeProofs` takes the parts of the run `hod_node`.

* The end of a hodring, for any list of commands (`CommandListsAssumption`; a
  command in the foreground shares its work directory with a daemon, as the
  format and its name node do) and any number of retries (`RetriesAssumption`):
  `Answered` (`UpMeansAnswered`), `RemovedAfterExit`, `Archives` and with them
  `NothingIsLost` (`NothingLost`), `NothingLeft` (`NoLeftovers`). The invariant
  joins that the last poll saw the job tracker (`Seen`), that the hodring goes
  past a job tracker only with a 200 from its address (`Asked`), that log
  directories are noted before their command runs and archived or lost before
  they are removed (`Noted`), and that the cleanup only begins when the hodring
  is gone (`Afterwards`). For the directories, `EInv`: each belongs to a
  command, every daemon started is in the list of the running ones, and while
  the cleanup removes, what is still there is on its list. `UpMeansAnswered`
  has a second part, about the job tracker whose failure was known before a
  question: from then on the hodring has that failure before it or has
  failed, which every step keeps, so whoever answers on the port is never asked.
* Tarball, for all hodrings and connections (`HodRingsFinite`,
  `MaxConnectIsPos`, `BoundsAreNat`): `TypeCorrect`, also with calls handled
  late, and `Bounded` (`ConnectionsBounded`). A count covers the hodrings that
  hold a slot, `Counted`; a registration would break that if it reset the count of a
  server in use, hence `Unlisted`: a hodring that has not registered is not
  listed. Both hold until a call is handled late (`Undisturbed`), which no
  later step undoes. `AskKeeps` and `RegisterKeeps` count the holders.
* Threads and servers: `EndsAreTold` (`EndsAreTrue`), for every point at which a
  signal may interrupt the ring master, its constructor included: it is stopped
  only after an exit code was found and the monitor told, or, by a stop that
  began before the constructor returned, with a code found or 6 when there was
  nothing to ask; and who waits for a command is told its shell's code. The
  invariant (`Told`) says what a stop that began later may rely on
  (`MadeFirst`) and how far each thread in `stop` has come (`Begun`).
  `OneLate` (`LateBounded`): after a pause or a join at most one request or
  call is late. Both are for all bounds and exit codes (`NodeAssumption`).
* Ports: `PortsStayApart` (`PortsApart`) for any number of rings and any range
  of ports. A port given is remembered as used and is not given twice by its
  ring (`GivenOnce`), is bound by its daemon only (`NotYetBound`), and if it was
  lost another ring holds it (`Loser`).

### Only checked by TLC

* Liveness under fairness, out of the prover's reach: `WorkEnds`,
  `ProgramsEnd`, `StartsEnd`, `WaitsEnd`.
* `ConfigKept`: the way of a value through printing, shell and reading. It needs
  the round trip of every type through the shell too, and what `Optparse`, a
  fold over the arguments in any order of the options, gives back; and it
  depends on the definitions of three programs agreeing on each option. The
  texts in `MCConfig` are those in which the types differ.
* All of cqlsh: `Match` and the splitter of statements are RECURSIVE operators
  over rules and texts, and the prover loses its SMT solver in a module that
  reaches one.

## 5. Not modelled

* The CQL 3 rules (`cql3handling.py`): the same machinery as `CqlHandling`, and
  the larger sibling of its rules. The runs of CQL 2 take a minute for four
  tokens; a second grammar is the next thing to add.
* cqlsh's output, help texts, COPY, tracing, the connection: layout of values
  and calls of the driver, without state that outlives a statement.
* HOD's logging, log condensing, accounting, node descriptions, HTML reader and
  service proxy: records, files of logs, one request to a service.
* HOD with clients in one directory: the second client's cluster is orphaned by
  the first one's `clear`, after three operations; hod has no lock,
  and no document says what should happen. `NoOrphan` is about own
  directories.
* Values that are empty, have blanks or end in a backslash on the ring
  master's command line, which `setup.py` does not quote (`setup.py:266`):
  `ConfigKept` leaves them out (`Plain`).
* HW2, the workflow of `RandomForest` around one tree; Convert2LIBSVM; the JSON
  of the MapReduce job; the Spark drivers, scripts around MLlib.
* The Java code of Hadoop, Cassandra and the driver: releases without the
  source of their servers; IDE metadata.

Next: an abstract classifier that `DecisionTree` implements and `RandomForest`
and `HW4` use; a proof of `ConfigKept`, on the lemmas about texts and round
trips that `ConfigIsMeant` has; the CQL 3 rules.
