# A TLA+ verification project for Rucio

Rucio manages files on distributed storage. Users state *rules* ("two copies of
this dataset on these storage elements"); a set of daemons turns the rules into
locks on replicas, queues transfers, repairs what failed, recovers replicas that
were declared bad and deletes what nobody locks. All parts share one relational
database and nothing else: there is no leader, no message bus between the
daemons, and every guarantee rests on what each database transaction reads and
writes. This project models those transactions, checks them with TLC on small
instances and proves invariants of every module with TLAPS for every instance.

All paths below are relative to `src/lib/rucio/`.

## 1. Inventory

### The parts, their state and their operations

| Part | State | Operations | Modelled by |
|---|---|---|---|
| Replication rules (`core/rule.py`) | `rules`: state, copies, three lock counters | `add_rule`, `inject_rule`, `approve_rule`, `deny_rule`, `delete_rule`, `repair_rule`, `update_rule`, `re_evaluate_did`, `update_rules_for_lost_replica`, `update_rules_for_bad_replica`, move, reduce | RuleEngine |
| Rule grouping (`core/rule_grouping.py`) | none of its own | creates and repairs locks, replicas and requests for groupings NONE, DATASET, ALL | RuleEngine (NONE, DATASET) |
| RSE selection (`core/rse_selector.py`) | none | weighted draw under quotas | RuleEngine (as a choice) |
| Locks (`core/lock.py`) | `locks`: one row per rule, file and RSE, with a state; dataset locks | `successful_transfer`, `failed_transfer` | RuleEngine (replica locks) |
| Replicas (`core/replica.py`) | `replicas`: state, `lock_cnt`, `tombstone`; bad replicas | `update_replicas_states`, `declare_bad_file_replicas`, `list_and_mark_unlocked_replicas`, `delete_replicas` | RuleEngine |
| Data identifiers (`core/did.py`) | `dids`, `contents`, `updated_dids` | attach, detach, close, erase | RuleEngine (one open dataset) |
| Judge daemons (`daemons/judge/`) | batches of ids read from the database | injector, evaluator, repairer, cleaner | RuleEngine |
| Bad replicas (`daemons/badreplicas/`) | batches | minos, minos-temporary-expiration, necromancer | RuleEngine |
| Reaper (`daemons/reaper/reaper.py`) | batches | mark, delete on storage, delete rows | RuleEngine |
| Requests and conveyor (`core/request.py`, `core/transfer.py`, `daemons/conveyor/`) | `requests`, `sources`, `transfer_hops`; jobs in FTS | preparer, throttler, submitter, poller, receiver, finisher | Conveyor (one destination, in detail); RuleEngine sees a request from queueing to its final outcome |
| Paths of transfers (`core/topology.py`, `build_transfer_paths` in `core/transfer.py`, `PriorityQueue` in `common/utils.py`) | a graph of RSEs in memory, shared by threads | load edges, search, compress paths | Topology |
| RSE expressions (`core/rse_expression_parser.py`) | none | parse, set operations | RseExpression |
| Heartbeats (`core/heartbeat.py`, `daemons/common.py`) | `heartbeats`; the handler's last answer | sanity check, live, die: the partition of work | Heartbeat |
| Messages (`core/message.py`, `daemons/hermes/`) | `messages`, `messages_history` | add, retrieve, deliver, delete and archive | Hermes (over Heartbeat) |
| Counters (`core/account_counter.py`, `daemons/abacus/`) | account usage, collection replicas, the tables of updates | increase, decrease, the workers | Abacus |
| Namespace and undertaker (`core/did.py`, `daemons/undertaker/`) | `dids`, `contents`, `dataset_locks`, `deleted_dids`; paused DIDs | create, attach, detach, close, expire, erase, resurrect | Namespace |
| Roles (`core/role.py`, `core/permission/generic.py`) | `roles`, `account_role_map`, `role_did_permission_map` | calls of administrators, three bulk jobs, access decisions | Roles |
| Worker-node cache (`common/pcache.py`, `client/downloadclient.py`) | files and lock files of a directory | lock, look up, copy, link, clean | Pcache |
| Subscriptions, rebalancing, recoverer, atropos | batches | policies that call the functions above | see `PROJECT.json` |
| REST, clients, command line, authentication, protocols, transfer tools | outside the engine | | not modelled (section 7) |

`PROJECT.json` lists every component with what is and what is not modelled of it.

### How they interact

A user or a daemon calls `add_rule`. The rule locks replicas; a lock on a
replica that is not there creates the row in state COPYING and a transfer
request; the conveyor carries the request out and its finisher calls
`update_replicas_states`, which walks over *every* lock on the replica and moves
the counters of every rule concerned. Changes of the dataset leave an
`updated_dids` row that the evaluator turns into more or fewer locks. A rule
with a stuck lock is handled by the repairer. When the last lock on a replica
goes, the replica gets a tombstone and the reaper may delete it. A replica
declared bad is found by the necromancer, which either has it copied again or
declares the file lost, and then drops the locks.

So five daemons and the users write the same four tables (rules, locks,
replicas, requests), most of them from ids or states they read in an earlier
transaction.

Around this core: every change of locks or content queues rows for the abacus
workers, which keep the usage of accounts and the availability of datasets;
nested collections hand attachments and detachments on to the rules of all
collections above them, and the undertaker takes expired DIDs apart through the same
functions; the submitter and the preparer ask the shared topology for paths; every
function that changes something queues messages, which hermes delivers. All daemons
divide their rows among their workers by heartbeats. Roles guard what users may do.
The cache of a worker node stands apart: its processes share nothing but a file
system.

### What is hard

* Redundant state maintained by hand. A rule's state and its three counters
  repeat what its locks say, `lock_cnt` repeats how many locks a replica has, the
  tombstone repeats that this is zero. About ten functions adjust them with
  `+= 1` and `-= 1`.
* Batches. Injector, repairer, necromancer, reaper and finisher read ids in one
  transaction and act in another; almost none of them reads the state again.
* Deviations that do no harm by themselves and meet later: a row rewritten while
  the reaper holds it, counters left stale until the next repair.
* An unreliable partner. FTS jobs are submitted with calls that may time out, end
  at any time, are reported twice or never, and may be forgotten; a request can
  have had several jobs.
* Asynchronous progress: locks on detached files, bad replicas and failed
  transfers are all somebody else's later work.
* Work shared without a lock: a worker goes on with an old number of workers, reads
  rows in one transaction and delivers, adds up or deletes them in another.
* Locks that are names: the processes of the cache lock a file that another process
  may have unlinked.
* Two bodies of code for one meaning: a dry run and the real thing, a listing and a
  single decision, an expression parser and what its operators mean.

`PROJECT.json` lists these as hazards, each at the line where it bites and with
the property that would notice.

### What makes each part correct

* Rules: counters and state agree with the locks; a rule that says OK or
  REPLICATING holds its copies of every file; a suspended rule is left alone; a
  rule in INJECT or REPLICATING eventually shows its user an outcome.
* Locks: no lock survives the file's membership of the dataset; a lock that
  waits has something to wait for; an OK lock stands for a stored file.
* Replicas and reaper: a locked replica is never deleted; `lock_cnt` is exact, so
  that an unlocked replica can be deleted.
* Bad replicas: every bad replica is handled; only a file without a readable
  replica is declared lost.
* Conveyor: a COPYING replica has exactly one request; only the job that a request
  has now decides about it; AVAILABLE means stored; retries are limited; every
  wanted copy ends.
* Topology: the graph follows the distances of the database; the search finds the
  cheapest paths; the candidates are usable.
* RSE expressions: what is accepted is well-formed and means what its operators say.
* Hermes and heartbeats: no message is lost, none is sent twice without a fault, workers
  that agree on who is alive do not share rows, and what is not blocked is delivered.
* Counters: usage plus what is queued is what the locks say; collection replicas end
  up with the truth.
* Namespace: no collection is below itself; dataset locks follow the content at any
  depth; a locked rule protects its DID; an expired DID is erased in the end.
* Roles: a synchronisation commits, does what is supplied and what its dry run
  announced; a listing shows what single decisions allow.
* Cache: one process at a time fills a directory, a file reported ready is whole, and
  nobody waits for ever.

## 2. The modules

* `RuleEngine.tla`: the state, one action per transaction, the properties, and the
  deliberately broken variants of definitions (`<Definition>_<Bug>`) that show
  that each property can fail.
* `MCRuleEngine.tla`: the instances TLC checks; the `.cfg` files choose one each.
* `RuleEngineProofs.tla`: the theorems about it, first types, protection of locked replicas
  and suspension, then what a lock stands for and the numbers kept by hand.
* `Transfers.tla`: what the conveyor promises to the rule engine about one
  destination, as an abstract specification of eight actions.
* `Conveyor.tla`: the conveyor for one destination in detail, with its properties, its
  broken variants and the refinement mapping to `Transfers` (`Promise`, `Implements`).
* `MCConveyor.tla`, `ConveyorProofs.tla`: its instances and its theorems.
* `Topology.tla` with `RseExpression.tla`, `Hermes.tla` with `Heartbeat.tla`, `Abacus.tla`,
  `Namespace.tla`, `Roles.tla`, `Pcache.tla`: the parts around the core, each with an `MC`
  module. Topology uses the parser for the option that names the multihop RSEs; Hermes
  runs its workers on the heartbeats.
* `TopologyProofs.tla`, `HermesProofs.tla`, `AbacusProofs.tla`, `NamespaceProofs.tla`, `RolesProofs.tla`,
  `PcacheProofs.tla`: their theorems.

The two systems meet in the request of a slot. RuleEngine treats it as *pending*
until one of two outcomes; `Transfers` says exactly that, plus the two ways in which
the code falls short of it (`Late`, `Dropped`), and Conveyor implements it.

## 2.1 RuleEngine

### State

A *slot* `<<f, x>>` is the place of file `f` on storage element `x`.

| Variable | In the code |
|---|---|
| `state[r]`, `copies[r]`, `locks_cnt[r]` | columns of `ReplicationRule`; `locks_cnt` holds `locks_ok_cnt`, `locks_replicating_cnt`, `locks_stuck_cnt`. `NEW` and `DELETED` stand for no row |
| `lock[r][p]` | the `ReplicaLock` row of rule and slot |
| `replica[p]`, `lock_cnt[p]`, `tombstone[p]` | the `RSEFileAssociation` row; `tombstone` is a Boolean: a date in the past |
| `request` | slots with a row in `requests` |
| `bad`, `temporary`, `lost` | `BadReplica` rows in status BAD and TEMPORARY_UNAVAILABLE; availability LOST of the DID |
| `dids`, `content`, `flagged`, `updated` | DIDs, `DataIdentifierAssociation` rows of the dataset, their `rule_evaluation` flag, `UpdatedDID` rows |
| `injecting`, `repairing`, `necro`, `reaping` | what a daemon read in an earlier transaction and still has in memory |
| `events` | how many environment events were used (a bound, not code) |

Five variables record history and no action reads them:

* `stored`: slots on whose storage the file really is;
* `revived`: slots whose row was rewritten while it was BEING_DELETED;
* `faked`: slots that minos made readable although they were not;
* `skipped`: rules that were settled although a file of the dataset was never locked;
* `miscounted`: rules applied by a late injection while their counters did not
  match the locks.

The last four mark the victims of deviations of the code that section 5
describes. Safety properties exempt exactly the marked rows or rules, so that
they still say that nothing *else* goes wrong.

### Actions

| Action | Code |
|---|---|
| `AddRule`, `ApproveRule`, `DenyRule`, `DeleteRule` | `add_rule` (applied at once, asked for approval, or left to the injector), `approve_rule`, `deny_rule`, `delete_rule` |
| `InjectFetch`, `InjectRule` | `get_injected_rules`; `inject_rule`, which does not check that the rule is still INJECT |
| `Attach`, `Detach` | `attach_dids`, `detach_dids` for one file |
| `EvaluateAttach`, `EvaluateDetach` | `__evaluate_did_attach`, `__evaluate_did_detach` with the `delete_updated_did` that follows, or the death of the evaluator before it (`Evaluated`) |
| `RepairFetch`, `RepairRule` | `get_stuck_rules`; `repair_rule` with its outcomes: suspended after two weeks, aborted, locks repaired |
| `UpdateRule` | `update_rule` with option `state`, with and without `cancel_requests` |
| `FinishOk`, `FinishFail` | the finisher's `__update_replica` with `successful_transfer` or `failed_transfer` |
| `DeclareBad`, `DeclareTemporary`, `ExpireTemporary` | `declare_bad_file_replicas`, minos, minos-temporary-expiration |
| `NecroPick`, `NecroDecide`, `NecroRecover`, `NecroLost` | the necromancer's list, its read of the replica states, `update_rules_for_bad_replica`, `update_rules_for_lost_replica` |
| `ReaperMark`, `ReaperDelete`, `ReaperFail` | `list_and_mark_unlocked_replicas`, `delete_replicas` with its clean-up, a deletion that failed or a reaper that died |

Creation of locks is one idea used by five actions. `Choices` is the set of
lock functions a rule may get (which RSEs, and whether a source and a writable
destination exist, are arbitrary); `LockAt` is the decision of
`__create_lock_and_replica` on the state of one row; `Grant` applies the result to
locks, rows, counts, tombstones and requests. `Drop` is
`__delete_lock_and_update_replica` for any set of locks. The loop of the repairer
over stuck locks is described by the *fate* of each lock (`Feasible` says which
assignments the loop can end with, whatever its order).

### Abstractions

* One transaction is one atomic step. The code takes row locks (`with_for_update`,
  often `nowait`) on what it changes; a transaction that fails to get them rolls
  back and is no step.
* All rules are on one dataset. Rules on other datasets that share a file touch
  the same rows in the same way.
* RSEs are plain disk. Staging areas, tapes and grouping ALL over several
  datasets are left out.
* A request is pending from queueing to its final outcome; retries inside the
  conveyor are invisible. What the finisher does to a request that was cancelled
  and queued again between its two transactions is in module Conveyor.
* An account limit or missing target found in the middle of a list of files is
  modelled as found at the first file.
* Left out: `release_parent_rule` and child rules, dataset locks and collection
  replicas, account and RSE counters, notifications, rule history,
  `broken_rule_id`, `move_rule`, `reduce_rule`, expiry dates. Automatic approval
  is the case of `AddRule` that goes to INJECT.

## 2.2 Conveyor

One destination replica, its requests, the workers of the daemons, the jobs.

| Variable | In the code |
|---|---|
| `replica` | state of the `RSEFileAssociation` row, or ABSENT |
| `request[i]`, `issued` | `Request` rows: `state`, `retry_count` (0 is NULL), `external_id`; ARCHIVED stands for a row moved to `requests_history`, NONE for an id not given out yet |
| `preparing[p]`, `work[s]`, `batch[f]` | what a preparer, a submitter (and how far it got), a finisher (the row as it read it) has in memory |
| `polling` | jobs the poller has sent a query for |
| `job[j]`, `owner[j]`, `gone`, `launched` | external: what FTS knows of the jobs, and the request in their metadata |
| `events` | how many environment events were used (a bound, not code) |

`stored`, `late` and `dropped` are history that no action decides by (`stored` only says
whether FTS can find the file at the destination already).

| Action | Code |
|---|---|
| `Want` | a rule locks the replica or its repairer tries again: row COPYING and `queue_requests` (`Queued`) |
| `Cancel`, `Reap` | the last REPLICATING lock goes: `cancel_request_did`; the reaper deletes an unlocked replica |
| `PrepareFetch`, `PrepareHandle` | preparer: `list_and_mark_transfer_requests...`, `prepare_transfers` |
| `Release`, `ResetStale` | throttler |
| `SubmitFetch`, `NoPath`, `MarkSubmitting`, `MarkFails`, `Submit`, `Record` | submitter: fetch, path finding, `mark_submitting`, the call to FTS, `set_transfers_state` (`Recorded`) or the cancellation of the job |
| `JobEnds`, `Vanish` | external: FTS |
| `Receive`, `PollFetch`, `PollAnswer` | receiver and poller: status report and `update_transfer_state` (`Report`), `mark_transfer_lost` |
| `FinishFetch`, `Requeue`, `Finish` | finisher: `_fetch_requests`, `requeue_and_archive`, `__update_bulk_replicas` and `__update_replica` |
| `Crash` | a worker dies, or an unexpected exception makes it give up what it holds |

Abstractions:

* `last_processed_by` keeps a request from being fetched twice only for ten minutes, so
  any number of workers may hold the same request.
* Time limits (two hours in SUBMITTING, a day in WAITING) may expire at any moment. For a
  request whose submitter is still at work this is the event *slow*, which is bounded;
  for one whose submitter is gone it is free.
* Finding a path is a choice: there is one, NO_SOURCES (which stands also for
  ONLY_TAPE_SOURCES, treated alike), or MISMATCH_SCHEME. A request that is skipped
  because no transfer tool supports its path is left as it is and fetched again.
* FTS: a job that failed or was cancelled leaves the destination as it was; one may
  fail because the right file is there already (EXISTS), which the status reports
  turn into DONE. Jobs have distinct ids; the id used when a job was refused as a
  duplicate is the third case of `Submit`.
* Multi-hop paths, staging, bulk jobs of several requests, source ranking and the limits
  of the throttler are left out, and so is the state SUSPEND, which nothing sets.
* The rule engine is reduced to `Want` and `Cancel`, the reaper to `Reap`; nobody declares
  the replica bad.

## 2.3 Topology and RseExpression

State: the option `multihop_rse_expression` as it is typed (`option`), the distances of
the database (`db`, external), the object in memory (`nodes`, `edges`, `linked`, `loaded`,
`multihop`), one running search with its priority queue (`search`), the last result
(`answer`). `current`, `lost` (distances that were deleted and came back) and the
`disturbed` mark of a search are history.

| Action | Code |
|---|---|
| `Type`, `ConfigureMultihop` | the option and `_configure_multihop`, through `ParseExpression` |
| `SetDistance`, `OtherThread` | an administrator changes a distance; another thread adds RSEs and loads edges |
| `Reject`, `StartSearch` | the strategies of `build_transfer_paths` that refuse sources, `search_shortest_paths` |
| `Visit` | one round of `dijkstra_spf`: pop, yield, relax the neighbours through `SetItem`, `SiftUp`, `SiftDown` |
| `EndSearch` | `Kept`, `Compressed` (`__compress_multihops`), `Additional` (multi-source), the reason why there is no path |

`FindMatchingScheme` is `find_matching_scheme` of `rse/rsemanager.py`. All sources have one
ranking, so the choice among candidates is left out; so are the statistics that may
replace a distance. `Best` defines the least costs independently (by the number of
hops), and `WellFormed` and `Denotes` the meaning of expressions; the code is checked against both.

`Resolve` is the loop of `__resolve_term_expression` with the rest of the expression, the left term
and the operator as its argument. `Pending` is the set of the arguments with which the code can
come to the head of the loop: a term comes next at the start and after an operator, and
an operator, or the end, after a term. Beyond it the code would raise (`__extract_term`: "This
point in the code should not be reachable") or use an operator that is None. TLC stops with an
error when `Resolve` is applied outside of `Pending`.

## 2.4 Hermes and Heartbeat

Heartbeat: who is alive (`alive`), the age of each row (`beat`), what the last renewal of
each worker saw and how old it is (`view`); `Enter`, `Exit`, `Vanish`, `HandlerLive`, `SanityCheck`,
`Age`. `Assigned` is `filter_thread_work`. Time is ages: an age stops growing at the first
value beyond the limit it is compared with, so nothing is lost by the bound.

Hermes: the rows and their services, the configuration, which services work, the
place of every worker in the loop of `db_workqueue` and `run_once` (`pc`, `job`).
`AddMessage` is `add_messages`; `Retrieve` is the transaction that reads (`Retrieved`), `Deliver`
one service of the list (`Outcomes`, `Served`), `DeleteMessages` the second transaction, `Abandon` the
exception that ends an iteration, `Stop` and `Crash` the two ways a worker goes.
`Reconfigure`, `Outage`, `Repair` are the environment. `calm` is history: no crash, no failed
iteration, no row taken by two workers.

## 2.5 Abacus

One dataset, its rules, the usage of accounts on an RSE, the collection replicas, and
the two tables of updates with ids (`counts`, `updates`). Operations append updates as the
code does (`CreateRule`, `EvaluateAttach`, `EvaluateDetach`, `DeleteRule`, `ChangeAccount`, `TransferDone`,
`DeleteReplica`). A worker of abacus-account lists the keys (`GetUpdated`), sums the rows (`ReadRows`),
reads the counter (`ReadUsage`) and writes back (`UpdateAccountCounter`), each step separately; the
worker of abacus-collection-replica cleans its list (`GetCleanedUpdates`), counts
(`CountReplicas`) and writes (`UpdateCollectionReplica`). The two daemons share no table, so one of
them runs in a behaviour. All files have one size, so bytes follow files. `shared` and
`strayed` are history for the two ways the code counts wrongly (section 5).

## 2.6 Namespace

Containers, datasets and files with status, lifetime and content; rules with their
dataset locks; the queue of re-evaluations; the archive of erased DIDs; the list of
the undertaker. A client's `attach_dids` and `add_rule` are two steps each (what is read,
what is written); the database refuses what violates its keys. `DeleteDids` has the five
outcomes of `delete_dids`: rolled back by a locked rule, large rules made to expire
first, emptied and left for the next round because of parents, erased, rolled back by
a key. A DID has at most one rule, and the rule finds its RSEs; sizes are left out.
`overlapped` (rules created on changing content) and `crossed` (attachments under way at
the same time) are history.

## 2.7 Roles

Roles, assignments with dates, DID permissions, and bulk jobs that read in one step and
write in another (`IdpRead`/`IdpCommit`, `PolicyRead`/`PolicyCommit`, `CleanRead`/`CleanCommit`); calls of
administrators are single steps. A call the code refuses changes nothing and has no
action. A pattern is the set of scopes and names it matches. `PolicyGrants` is the single
decision of the permission policy, `DidAccess` the checker of listings; `IdpPlan` and
`DryRun` are the two bodies of the synchronisation. The parsing of patterns and dates, and
permissions on other things than DIDs, are left out.

## 2.8 Pcache

One cached file: its directory, lock file, data, transfer file and MRU link as inodes,
the lock as held on the inode that was opened. One action is one call of the
operating system. A download client looks the file up, goes away with the lock held,
comes back and links its copy (`Download`, `Return`, `Unlink`, `Publish`); pcache's own command
copies into the cache (`StartCopy`, `CopyEnds`, `CopyFails`, `Rename`, `Account`); the cleaner
lists and empties the directory without taking its lock; any process may be killed.
`broken` is history: a lock file in use was unlinked. Option force, statistics and the
choice of what to clean are left out.

## 3. What is checked

The runs of the rule engine instantiate `MCRuleEngine`: files are uploaded to `x1`, rule
`r1` draws its RSEs file by file (grouping NONE); in `two_rules` both rules are of grouping
DATASET and symmetric, which is sound as that run checks invariants and a property of
single steps. The bounds on events limit how often a user changes
the dataset, a replica is declared bad, declared temporarily unavailable, or a user
updates a rule. All daemons act without bound. Initially any subset of the files is in
the dataset and any uploaded replica may carry a tombstone.

`CHECK_DEADLOCK FALSE` is needed everywhere but in `hermes`, whose clock never stops: ids,
calls and environment events are used up, all rules may be deleted and all files gone,
and then nothing happens.

| Run | Instance | Shows |
|---|---|---|
| `two_rules` | 2 rules, 1 file, 2 RSEs, any two of: a bad replica, a temporary unavailability, an edit, an update | `LockProtection`, `OkStored`, `HasRequest`, `CountersExact`, `StateAgrees`, `SuspendedIsKept` |
| `two_files` | 1 rule, 2 files, 2 RSEs, 2 edits | `CopiesKept`, `NoStrandedLocks`, `StateAgrees` |
| `progress` | 1 rule with 1 or 2 copies, 1 file, 2 RSEs, 1 edit, 1 bad, with fairness | `LockCntExact`, `CopiesKept`, `RulesSettle`, `LocksReleased`, `BadIsHandled` |
| `conveyor` | 2 preparers, 1 submitter, 1 finisher, 2 requests, 2 jobs, 3 wants, 1 slow submitter | `CopyingHasRequest`, `DoneIsReal`, `AvailableIsStored`, `RetriesBounded` |
| `conveyor_progress` | 1 worker of each kind, 4 requests, 3 jobs, one event of each kind, with fairness | `CopyEnds`, `Implements` |
| `topology` | 5 RSEs; all graphs of 7 links with costs none, 1, 3, all stars of 4 sources with costs 1 to 3, and two graphs that change twice under two searches; 3 kinds of requests; all expressions of up to 7 tokens | `ParserAgrees`, `EdgesCurrent`, `ShortestPaths`, `CandidatesSound` |
| `hermes` | 2 workers on 2 hosts, a bulk and a single service, 2 messages, bulk 1, 2 faults, with fairness | `SentOnce`, `SameViewDisjoint`, `Delivered` |
| `abacus` | 2 files, 1 RSE, 2 accounts, 2 rules, 2 account workers, 4 operations (6 for collection replicas) | `UsageExact`, `CollectionExact` |
| `namespace` | 2 containers, 1 dataset, 1 file, 2 clients, chunks of 2, 4 operations, archive on, with fairness | `Acyclic`, `LocksFollowContent`, `LockedKept`, `ExpiredErased` |
| `roles` | 1 account, 3 roles (1 reserved), 1 bulk job, 2 scopes of 2 names, 3 patterns, dates 0 to 2, 3 calls | `SyncMeetsSupply`, `DryRunPredicts`, `ListingAgrees` |
| `pcache` | 1 download client, 2 pcache commands, 1 retry, 1 cleaning, 1 kill, with fairness | `Exclusive`, `ReadyIsWhole`, `DiesOnlyIfCleaned`, `EveryoneEnds` |
| `reaped_locked` | 2 rules, 1 file, 2 RSEs, 1 bad | violates `ReapsUnlocked` (section 5) |

Why these bounds are enough to be interesting: two rules on one file already
share a row, a request and a lock count; two RSEs give a source and a destination,
and a move of a lock; a rule of two copies has to tell its copies apart; two files are needed
for a rule that is partly satisfied (one file replicating while another leaves,
an evaluation that failed for one file, a total number of locks that is right
although one file has none). One bad replica meets every state of the row; a
second one adds only repetitions of the same handling.

For the conveyor, the second preparer is what gives one request two jobs (a late
preparer sends a submitted request back), and the third want is what lets
`queue_requests` meet a request that exists already after a late outcome. The retry
limit is 1 instead of 3: the limit is still met from below, exactly and with a
request that counts as retried from its start (`retry_count` 1), and
`RetryLimitKept` is proved for every limit. For `CopyEnds` the ids must not run out,
or a requeue would be blocked by the bound: a want may need one id per attempt and
one more for each crash or slow submitter, which makes four.

For the other modules: the search needs two sources, a hop and a source that is itself
a hop before a cheaper path can replace a dearer one; a heap needs four items before
its second level is used (the stars). Two workers with one message each are enough for every
overlap of shares, and bulk 1 for one service to stand in the way of another. Two
accounts with a rule each on the same dataset meet in one detachment, and two workers
in one counter. A container in a container with a dataset below is the least tree in
which a detachment must reach a rule two levels up; a name must be erased and used again
within four operations for the archive to be in the way. In `namespace` an operation that
overlaps open transactions counts once more for each, which keeps the number of
states down and still lets two attachments, or an attachment and a rule, overlap. Dates 0 to 2 give a past,
a present and a future, and the number after them means never. Two pcache commands
and a cleaner are needed for a lock name to be unlinked while its file is in use. The
largest runs, `abacus` and `topology`, have 2.4 and 1.2 million states; each ends within about
three minutes.

For every property one definition is replaced by a plausible bug (a counter that
is not decremented, a lock count that forgets stuck locks, a request queued only
for new rows, a suspended rule settled by an evaluation, ...) and the property
must fail; `PROJECT.json` lists these under `mutants`.

### The properties

* `CountersExact`, `StateAgrees`: what the user sees of an OK or REPLICATING rule is
  true of its locks. A STUCK, SUSPENDED or not yet injected rule is not included:
  there `update_rule` leaves the counters stale on purpose, and `repair_rule` recounts.
* `LockProtection`, `LockCntExact`: the reaper cannot reach a locked replica, and can
  reach an unlocked one.
* `CopiesKept`, `NoStrandedLocks`, `HasRequest`, `OkStored`: locks correspond to the
  dataset, to requests and to what is on storage.
* `SuspendedIsKept`: an action property about who may end a suspension.
* `RulesSettle`, `LocksReleased`, `BadIsHandled`: liveness.
* `CopyingHasRequest`: the rule engine's locks wait for something, and never for two
  requests that could end differently.
* `DoneIsReal`: a request can have had several jobs, each of which is reported at any
  time after its end, several times or never; only a success of the job the request
  names makes it DONE.
* `AvailableIsStored`: the same for the replica, through the finisher's stale batch. It
  excludes outcomes applied after the request was archived (`late`).
* `RetriesBounded`, `CopyEnds`: attempts are limited, and a wanted copy ends.
* `Implements`: every step is a step of `Transfers`.

* `EdgesCurrent`, `ShortestPaths`, `CandidatesSound`, `ParserAgrees`: the graph follows the
  database, the priority queue is a heap at every moment and an undisturbed search finds exactly
  the least costs; candidates lead over usable links from a source, without a tape or another
  source in between; the parser agrees with the meaning of expressions.
* `SentOnce`, `SameViewDisjoint`, `Delivered`: exactly-once is only promised while nothing
  fails; at least once always; two workers whose last renewals saw the same workers never
  hold the same row; with `query_by_service` no service stands in the way of another.
* `UsageExact`, `CollectionExact`: derived numbers against what they are derived from, at
  every moment for usage and after the last update for collection replicas.
* `Acyclic`, `LocksFollowContent`, `LockedKept`, `ExpiredErased`: the tree, its locks, and its end.
* `SyncMeetsSupply`, `DryRunPredicts`, `ListingAgrees`: checked in every reachable state for
  every possible supply, so that no order of calls before the synchronisation matters.
* `Exclusive`, `ReadyIsWhole`, `DiesOnlyIfCleaned`, `EveryoneEnds`: the cache, as long as no lock
  file in use has been unlinked (the first two), without a cleaning (the third), always (the last).

### Fairness

Each daemon polls its table for ever, so a step it can take and keeps being able to
take is taken: weak fairness of injection, repair of a fetched rule, the
evaluator's two steps and the necromancer's four. An FTS job has a lifetime, the
poller declares lost the jobs that vanish, and retries are limited, so a request
ends: weak fairness of `FinishOk \/ FinishFail`. Evaluation is one action with the
death of the evaluator as an outcome; `LocksReleased` speaks of the locks, which
are released by the first transaction whether or not the second one happens. Nothing is assumed
of users, of the reaper, of the fetch of stuck rules, of declarations of bad
replicas, or of the success of any transfer.

In the conveyor each worker is weakly fair as a whole (it keeps fetching and carries on
with what it holds), the throttler releases what waits, a job ends and the poller hears
of it. Nothing is assumed of wants, cancellations, the receiver, resets, or the success
of a job. `CopyEnds` therefore rests on the poller, the two-hour limit of the finisher
and the retry limit alone.

In Hermes somebody restarts a worker that is down, the operating system schedules the
workers, and time passes; nobody has to repair a service, and `Delivered` excuses what a
broken or unlisted service blocks. In Namespace the evaluator, the judge-cleaner and the
undertaker run in loops, transactions end, lifetimes run out and pauses end; clients have
to do nothing. In Pcache every process that was not killed is scheduled, and a copy
command ends, well or badly, because pcache runs it with a timeout; nothing is assumed of the cleaner.

## 4. What is proved

A theorem holds for every value of the constants that satisfies the named assumption of
its module, and from nothing else; TLC evaluates the assumptions on every run. Each
invariant below was checked by TLC on the instance of its run before it was proved. Victims of the
deviations of section 5 are exempt in the theorems exactly as in the runs.

`RuleEngineProofs.tla` proves, for every finite set of rules, files and RSEs, every
grouping, number of copies and bound on events (assumption `RuleEngineAssumption`,
which is all that is assumed):

* `TypeCorrect`: `Spec => []TypeOK`. The work is in the lemmas about the operators
  (what `LockAt`, `Grant`, `Drop`, the repairer's updates return), which are cited by
  name in the step of each action.
* `LockedIsProtected`: `Spec => []LockProtection`. `LockProtection` is inductive
  relative to `TypeOK` as it stands: its three parts need each other. That a row in
  the reaper's batch is BEING_DELETED is what makes its deletion harmless; that a
  locked row is not BEING_DELETED needs the count to be at least the number of
  holders, because the reaper looks at the count only; and the count stays high
  enough because every action that removes locks takes at most one per rule off it.
  The proof states this per slot (`Safe`) and shows with finite-set lemmas that
  granting, dropping and repairing keep it. Slots in `revived` are exempt and the
  set only grows, so a slot that was rewritten while BEING_DELETED never comes back
  into the claim.
* `SuspendedKept`: `Spec => SuspendedIsKept`, by cases on the action.

The same module proves the other seven invariants of the rule engine, from the same
assumption. Each rests on an inductive invariant of its own, relative to the ones before:

* `WaitsForRequest`, `OkIsStored` (`HasRequest`, `OkStored`): from `Backing`, slot by slot. A new lock
  takes its state from the row, so the invariant has to say what the states of the row
  mean: a COPYING row has a request or is declared bad, a BAD one is declared bad, a
  readable one is stored.
* `NoLockIsStranded` (`NoStrandedLocks`): from `Belonging`. What is flagged is in the dataset, a lost file is
  not, and a rule that was not applied yet or is deleted holds no lock, because the evaluator
  looks at no such rule.
* `CountersAreExact`, `StatesAgree` (`CountersExact`, `StateAgrees`): from `Counted`. The counters match the locks in
  every state but STUCK and SUSPENDED, hence also before a rule is applied; there they may be
  anything, and every way back goes through `repair_rule`, which recounts. The lemmas say for
  each change by hand (a grant, a drop, a finished or failed transfer, a bad replica) that
  it is the change the locks make.
* `LockCntIsExact`, `CopiesAreKept` (`LockCntExact`, `CopiesKept`): from `Numbers`. A rule holds on a file either no
  lock or exactly its number of copies, unless the file is lost. That is why a repair never finds a
  surplus lock, whose deletion in the code would leave `lock_cnt` one too high.

`ConveyorProofs.tla` proves, for every set of workers, every number of requests, jobs and
events and every retry limit (assumption `ConveyorAssumption`):

* `TypeCorrect`: `Spec => []TypeOK`, with the strengthening that a SUBMITTED request has
  a job (`TypeInv`), without which the poller could ask for none.
* `OneRequest`: `Spec => []CopyingHasRequest`, and `RetryLimitKept`:
  `Spec => []RetriesBounded`. Both come from one inductive invariant, `Ledger`: exactly the
  ids up to `issued` have been given out, at most one request is live, a finisher
  holds an id that was given out, a COPYING replica has a live request unless it was
  dropped, and counts are within the limit. The parts need each other: that a
  requeued request has no rival, so that `queue_requests` really adds the successor,
  is the uniqueness of the live one. The proof first shows that all steps but four
  neither begin nor end a request (`Quiet`, `StepKinds`), and describes the four as
  changes of the rows (`Added`, `Removed`, `Replaced`).
* `Refinement`: `Spec => Implements`. The initial state maps to the initial state, and
  with `Ledger` every step maps to a step of `Transfers` or to a stutter: quiet steps to
  stutters or `Reap`, the four others to `Want`, `Cancel`, `Succeed`, `Fail`, `Retry`, `Late` or
  `Dropped`.
* `DoneOnlyByItsJob`: `Spec => []DoneIsReal`, from `JobInv`, which adds that jobs not yet
  submitted have no outcome, so that a new job does not overwrite the outcome of an
  old one; a request that is DONE keeps its job because only QUEUED and SUBMITTING
  requests are given another.
* `AvailableReplicasAreStored`: `Spec => []AvailableIsStored`. Submitters and jobs know only requests that
  were given out (`IdsIssued`), and until an outcome comes late, a live request has a COPYING
  replica, which no reaper touches, so that whatever tells of its success (its state, one of its
  jobs, a finisher's batch) is still true when it is applied (`StoreInv`).

`HermesProofs.tla`, for any number of workers, services and rows, any hash and any bulk size
(`HermesAssumption`, `HeartbeatAssumption`: the renewal period is shorter than the age at which a row
is ignored, and that shorter than the age at which it is deleted):

* `ViewsSplitTheWork` (`SameViewDisjoint`): a worker is in its own view, and its batch fell to it in the view
  it still has (`Sharing`), because the view changes only between two iterations; the rest is
  the arithmetic of `filter_thread_work`: two members of one view have different numbers in it.
* `MessagesAreSentOnce` (`SentOnce`): `Delivering` says which rows each worker has sent, and, while nothing
  failed, that batches are disjoint, that a held row is in the queue, and that an accepted row
  is archived or about to be deleted by the worker that sent it.

`PcacheProofs.tla`, for any number of clients, commands, retries, cleanings and kills
(`PcacheAssumption`):

* `LockIsExclusive` (`Exclusive`): `Locking` ties the lock, the open file and the place in the program of each
  process together; two holders never share an inode, and while no lock file in use was
  unlinked everybody's inode is the one of the name `.LOCK`.
* `ReadyFilesAreWhole` (`ReadyIsWhole`): `Wholeness`. The holder of the lock is alone, so the transfer file
  it renames is its own.
* `DeathsAreCleanings` (`DiesOnlyIfCleaned`): `Undisturbed` lists what each place in the program takes for granted:
  the directory, the cached file, the transfer file.

`RolesProofs.tla`, for any accounts, roles, scopes, names, patterns and jobs (`RolesAssumption`):

* `DatesStayInOrder`: `Spec => []TypeOK`, which includes that every assignment is active before it expires
  (the database would refuse any other). A synchronisation is planned in one transaction and
  written in another, so what it would write has to be valid whatever happened in between, or be refused.
* `SyncsMeetTheSupply`, `DryRunsPredict`, `ListingsAgree`: consequences of the types for every supply, of the two bodies
  of the synchronisation, and of the two bodies of the decision. They are not inductive themselves.

`TopologyProofs.tla`, for any finite set of RSEs, distances, penalties, protocols, requests and
expressions (`TopologyAssumption`, `ExpressionAssumption`: a primitive is not an operator or a
parenthesis, and matches RSEs):

* `EdgesAreCurrent` (`EdgesCurrent`): `EdgesKept` relates the two structures
  that hold an edge: a linked one is in `_edges`, and one in `_edges` that is not linked was
  deleted once. Without it nothing would say that a load, which links only edges that are new to
  `_edges`, links all.
* `PathsAreShortest` (`ShortestPaths`): `SearchRight` is the invariant of a search (TLC checked it on the graphs of
  `topology` with options of up to 3 tokens). The queue is a heap, holds a node once,
  and nothing in it is closer than what was taken from it (`QueueRight`); a node was
  yielded with the distance it still has (`YieldedRight`); its next hop was taken from the
  queue before it, and its distance is that of the hop and one cost more (`HopsRight`);
  its path is the node and the path of its hop (`PathsRight`); and no neighbour
  of a node that left the queue would be closer by way of it (`Settled`). A search stops early,
  when all sources are found: `FinishedRight` says that all nodes up to some distance are
  settled then. A change by another thread leaves the first four without what they say of
  costs, which is why a disturbed search still has its queue in order. The distances are compared with `Best` by the number
  of hops, in both directions: `UpperBound` follows the path that was found, `LowerBound` any
  other.
* `CandidatesAreSound` (`CandidatesSound`): from the same invariant. A candidate that was cut at the last
  source on it is the path of that source.
* `ParserDecides` (`ParserAgrees`): from `NodesInv`, which only says that the option is a sequence
  of tokens; the rest is about the parser, for expressions of any length. `Depth` is the number of
  open parentheses. An expression that passes the counting of parentheses and PATTERN (`Proper`)
  is a primitive, or one that passes in parentheses, or two that pass with an operator between
  them (`SingleTerm`, `SplitProper`), and the other way round (`PrimitiveProper`, `WrapProper`,
  `JoinProper`): that is `WellFormed` (`FormsAgree`). The loop goes from the left while `Denotes`
  splits at the last operator, so the invariant of the loop is about what was read: whenever
  it is after a term outside of all parentheses, the left term is what the expression up to there
  denotes (`Agrees`, `TermStep`, `OperatorStep`, `LoopAgrees`). On the way the loop stays in `Pending`
  and its argument gets shorter (`RestOfTerm`, `ResolvedBelow`): it ends, `__extract_term`
  always finds the closing parenthesis (`GroupExtracted`), which is what its "This point in the code should not be
  reachable" says, and "operator will not be None here" holds.
* `TypeCorrect`: `Spec => []TypeOK`. That the nodes are RSEs needs the range of the parser
  (`ParserRight`); what it says of costs and the queue is part of `EdgesKept` and `SearchRight`.

What the recursive functions of Topology (`SiftUp`, `SiftDown`, `Relaxed`, `Best`) compute is shown in three steps: a function that
satisfies the recursive equation exists (`LoopExists`, `CountExists`), so the definition is one,
and then a property of all its values holds because there is no smallest number of
remaining steps at which it fails (`LeastMeasure`). Both use the library's `WFMin`, which
needs no predicate as a parameter. `Resolve`, `WellFormed` and `Denotes` call themselves twice, on parts
of their argument: `RecursionExists` does the first step for any recursion that descends along a
measure (`Descends`).

`AbacusProofs.tla`, for any finite sets of files, RSEs, accounts, rules and workers
(`AbacusAssumption`):

* `CollectionsAreExact` (`CollectionExact`): a collection replica is right, or a row of updates is waiting for it
  (`RowsRight`); what the worker has counted is still so, or a row other than the one it will
  delete is waiting (`CountRight`). The second part is what makes it safe to count in one
  statement and to write and delete in the next.
* `UsageIsExact` (`UsageExact`): `Balanced` says of *sets* of keys that usage and queued updates add up to
  the locks: of any set that no detachment charged wrongly, and of all accounts of an RSE together
  in any case, as long as no two workers share a key of the set. `WorkRight` says that what a worker
  has read of a key it alone handles is still so: its rows are in the table and the usage is the
  value it read.
* `TypeCorrect`: `Spec => []TypeOK`, which includes that a lock has its rule and that no two rows of
  a table of updates have the same id, although ids are chosen again when rows are gone.

The sums are the folds of the community modules. The lemmas about them (a sum is split, does
not depend on the names of its rows, ignores zeros, changes by what one value changes) are
shown by a smallest subset on which they would fail, which the library's `WFMin` gives without
a predicate as a parameter.

`NamespaceProofs.tla`, for any finite trees, clients and chunk size (`NamespaceAssumption`, which says of
the initial trees that they have no cycle). What is below a collection is `Reach`, the least set
closed under content; the lemmas about it (adding an edge, removing edges, going up) replace an
induction over depth.

* `TreesHaveNoCycle` (`Acyclic`): `TreeInv`. While only one attachment is under way, the parent it will write is not
  below the child, although the test was made in an earlier transaction.
* `ReferencesHold`: `Spec => []TypeOK`, from `RefInv`: content, rules and dataset locks refer to DIDs that
  exist, through every order of the undertaker's and the clients' transactions.
* `LockedDidsAreKept` (`LockedKept`): an action property, from the same invariant.
* `LocksFollow` (`LocksFollowContent`): `LockInv` says it for the moments between: every new association is queued for
  evaluation, a rule has locked all it reaches over associations that are not new, and for
  a lock on a dataset that the rule no longer reaches an evaluation is queued at a container
  that it still does reach. The last part is what the code depends on when a whole
  subtree is erased: the lowest container that stays is the one that was queued.

Only model-checked:

* Liveness: `RulesSettle`, `LocksReleased`, `BadIsHandled`, `CopyEnds`, `Delivered`, `ExpiredErased`, `EveryoneEnds`. Fairness and
  `ENABLED` are out of the prover's reach.

The type invariants of all modules and all other safety and action properties of the runs are
proved. `TypeOK` of Topology is not part of a run (added to `topology`, it holds there).

## 5. Where code and documentation disagree

The run `reaped_locked` ends with a counterexample and is a finding in `PROJECT.json`:

* `ReapsUnlocked` (RuleEngine): a replica declared bad while the reaper holds it can be
  locked again and is deleted under the lock; `core/replica.py:2577` says "List RSE File
  replicas with no locks." Victims: `revived`.

The following definitions state further sentences of the repository that the code does
not keep. They stand at the end of their modules; add one to the run named here to see
the shortest behaviour.

* `RepairCreatesMissing` (RuleEngine, as a property of `two_files`): "potential missing locks have to be
  created" (`core/rule.py:1305`), but the repairer looks for missing locks only if the total
  number of locks is off; a leftover lock on a detached file hides a missing one. Victims: `skipped`.
* `ApprovalIsAsked` (RuleEngine, as a property of `two_rules`): a detachment makes a rule OK that waits for approval
  ("Ask for approval of this replication rule", `client/ruleclient.py:94`). Victims: `skipped`.
* `LostHasNoReplica` (RuleEngine, as a property of `progress`): a transfer finishes between the
  necromancer's read and its update, and a file with a readable replica is marked lost
  (`daemons/badreplicas/necromancer.py:134`).
* `NoRequestDropped` (Conveyor, in `conveyor`): `requeue_and_archive` archives a request before
  it decides whether it has a successor, on a state read again. The shortest way: two preparers
  hold the same request, the first marks it MISMATCH_SCHEME, the finisher fetches it to retry it,
  the second marks it NO_SOURCES, and it is archived without a successor. A slow submitter with
  the retries used up does the same (SUBMITTING when fetched, SUBMITTED when read again). The
  replica stays COPYING (`daemons/conveyor/finisher.py:304`). Victims: `dropped`.
* `SourceAllowed` (Topology, in `topology` with a request of `MCTopology` whose `allowed` is `{a}`): a path
  that starts at an allowed source and passes through a refused one is cut by `__compress_multihops` to start at the
  refused one.
* `CleanRemovesExpired` (Roles, as a property of `roles`): the cleaning job reads an expired assignment,
  an administrator gives it a new date, the job deletes it by its key ("Remove the expired role
  assignments").
* `ReadyFileIsWhole` (Pcache, in `pcache`): the cleaner unlinks the lock file of a command that
  is copying; a second command makes a new one, replaces the transfer file by its own, and the
  first one renames that half file to `data` and reports it ready.
* `SizeNotNegative` (Pcache, in `pcache`): the download client links its copy into the cache
  without adding its size, and the cleaner that removes it subtracts the size; the comment says
  "The size should never be negative".

Further deviations are only marked, so that the properties can exempt their victims:

* `__create_lock_and_replica` takes a BAD replica for one that is being copied: the lock
  waits, nothing copies, and the necromancer no longer sees the row. Hence `bad` in
  `HasRequest` and `RulesSettle`.
* A temporary unavailability overwrites BAD and COPYING, because the condition on the old
  state is put on a statement that has already run, and its expiry makes the replica
  available (`faked`).
* An injector that holds the id of a rule that was meanwhile made STUCK by its user
  applies it and sets the state from stale counters (`miscounted`).
* A finisher that fetched a request before it was cancelled applies the outcome to a row
  that is by then wanted again, gone or re-registered (`late`).
* `delete_edge` unlinks an edge but leaves it in `_edges`; when its distance comes back, the
  edge is found there and never linked again (`lost`), while a multi-source transfer still uses it.
* A detachment charges the decreases of all rules to the account of the last one (`strayed`);
  two account workers with the same key apply the same updates twice (`shared`). A collection
  replica none of whose files is available any more keeps its old number, which
  `CollectionExact` excuses.
* Two clients that attach two containers to each other at the same time close a cycle, because
  each reads the parents before the other writes (`crossed`). A rule created while the content of its DID changes
  misses locks or holds too many (`overlapped`). A name that was archived once cannot be
  archived again, so that its DID, and the chunk it is in, is never erased; `ExpiredErased`
  excuses it.
* A worker that dies between delivery and deletion sends its messages again; without
  `query_by_service` the messages of a broken service stand in front of the others; an endpoint of influx
  or elastic that is no longer listed ends every iteration that holds a row for it.

## 6. Plan

Done: all modules above with their runs; the proofs of section 4, which cover every
safety property of the runs. What remains, in this order:

1. **Reaper**: several RSEs and workers, the `sources` rows that protect a source, the
   test for a last replica (write skew), the takeover of old BEING_DELETED rows.
2. **PartialGrant**: what is committed when a quota is hit in the middle of a file list.
3. The limits of the throttler; multi-hop requests (a failed hop fails the others).

## 7. Not modelled

* The REST server, the gateway, the clients and both command lines: a third of the
  source. They check parameters and permissions, convert formats and call one core
  function each; they keep no state between calls, so there is nothing for a state
  machine to say beyond the core function they call.
* Storage protocols, transfer tools, authentication and token handling: I/O with external
  systems. Their outcomes are choices in the modules that call them.
* Policies that only decide *when* to call a modelled function: subscriptions, bb8,
  decommissioning, suspicious-replica recovery, atropos, popularity.
* The auditor, dark reaper and storage consistency scans: comparisons of dumps outside the database.
* Listings, metadata plugins, statistics, history tables, importer and exporter: queries and
  single-row records without an invariant across steps.

`PROJECT.json` names each of these with its source files. Hazards that are known and not
covered: an account limit hit in the middle of a file list (`core/rule.py:3830`), two reapers
that each take the other's replica for the second one (`core/replica.py:2679`); smaller ones are two
injectors with the same rule (`daemons/judge/injector.py:82`), lists that are not cleared between chunks
(`daemons/badreplicas/minos_temporary_expiration.py:78`) and the two-week limit of a rule
whose user keeps making it stuck (`core/rule.py:1322`).
