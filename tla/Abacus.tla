-------------------------------- MODULE Abacus --------------------------------
(***************************************************************************)
(* The derived numbers of the catalogue and the daemons that keep them:    *)
(* the usage of an account on an RSE (core/account_counter.py,             *)
(* daemons/abacus/account.py), and the length and availability of the      *)
(* replica of a dataset (core/replica.py, daemons/abacus/                  *)
(* collection_replica.py).                                                 *)
(*                                                                         *)
(* Every change of the locks or of the content appends a row to a table of *)
(* updates in its own transaction; the workers read the rows, recompute,   *)
(* and delete them.  One dataset with its rules is modelled; a rule puts   *)
(* all its locks on one RSE, and all files have one size.                  *)
(***************************************************************************)
EXTENDS Integers, FiniteSets, Functions

CONSTANTS
  Files, Rses, Accounts, Rules,
  Target,           \* the RSE of each rule
  AccountWorkers,   \* threads of abacus-account
  NoAccount,        \* the rule does not exist
  NoUsage,          \* the account has no counter on the RSE
  AnyRse,           \* rse_id of an update that concerns all collection replicas
  MaxOps            \* bound: operations of users and other daemons, by the abacus that runs

ASSUME AbacusAssumption ==
  /\ IsFiniteSet(Files) /\ IsFiniteSet(Rses) /\ IsFiniteSet(Accounts) /\ IsFiniteSet(AccountWorkers)
  /\ Target \in [Rules -> Rses]
  /\ Rules \subseteq Nat /\ IsFiniteSet(Rules)
  /\ NoAccount \notin Accounts /\ AnyRse \notin Rses /\ NoUsage \notin Int
  /\ MaxOps \in [{"account", "collection"} -> Nat]

VARIABLES
  content,      \* files of the dataset
  pending,      \* re-evaluations queued for it
  account,      \* the account of each rule
  locks,        \* pairs of rule and file
  available,    \* pairs of file and RSE: the AVAILABLE replicas
  usage,        \* account_usage: the number of files, or NoUsage
  counts,       \* updated_account_counters: <<id, account, rse, files>>
  col,          \* collection_replicas of the dataset: a row by RSE, or NoCol
  updates,      \* updated_col_rep: <<id, rse>>
  work,         \* what each worker of abacus-account holds
  colWork,      \* what the worker of abacus-collection-replica holds
  shared,       \* keys that two workers of abacus-account handled at once
  strayed,      \* accounts that a detachment charged for another's locks, or instead of them
  ops           \* operations so far

ruleVars == <<content, pending, account, locks, available>>
countVars == <<usage, counts, work, shared>>
colVars == <<col, updates, colWork>>
vars == <<ruleVars, countVars, colVars, strayed, ops>>

Keys == Accounts \X Rses
NoCol == [length |-> -1, cnt |-> -1, ok |-> FALSE]
ColRows == [length : 0 .. Cardinality(Files), cnt : 0 .. Cardinality(Files), ok : BOOLEAN]

Idle == [at |-> "idle"]
Stopped == [at |-> "stopped"]

RowsOf(k) == {u \in counts : <<u[2], u[3]>> = k}
Total(rows) == SumFunction([u \in rows |-> u[4]])

Existing == {r \in Rules : account[r] # NoAccount}
LocksOf(r) == {l \in locks : l[1] = r}

\* Rows that a worker remembers keep their id for themselves.
UsedCountIds == {u[1] : u \in counts}
  \cup UNION {{u[1] : u \in work[w].rows} : w \in {v \in AccountWorkers : work[v].at \in {"rows", "usage"}}}
UsedUpdateIds == {u[1] : u \in updates \cup colWork.list}

\* The rows, in any order, with ids that are free.
Numbered(rows, used) ==
  LET free == (1 .. Cardinality(rows) + Cardinality(used)) \ used
  IN CHOOSE f \in [rows -> free] : \A x, y \in rows : f[x] = f[y] => x = y

NewCounts(rows) ==
  LET id == Numbered(rows, UsedCountIds)
  IN {<<id[x], x[2], x[3], x[4]>> : x \in {y \in rows : y[4] # 0}}

\* rows are pairs of a tag that tells the rows of one operation apart, and an
\* RSE.
NewUpdates(rows) ==
  LET id == Numbered(rows, UsedUpdateIds)
  IN {<<id[x], x[2]>> : x \in rows}

Running == IF colWork.at = "stopped" THEN "account" ELSE "collection"

TypeOK ==
  /\ content \subseteq Files
  /\ pending \subseteq {"ATTACH", "DETACH"}
  /\ account \in [Rules -> Accounts \cup {NoAccount}]
  /\ locks \subseteq Existing \X Files
  /\ available \subseteq Files \X Rses
  /\ usage \in [Keys -> Int \cup {NoUsage}]
  /\ counts \subseteq Nat \X Accounts \X Rses \X Int
  /\ \A u, v \in counts : u[1] = v[1] => u = v
  /\ col \in [Rses -> ColRows \cup {NoCol}]
  /\ updates \subseteq Nat \X (Rses \cup {AnyRse})
  /\ \A u, v \in updates : u[1] = v[1] => u = v
  \* A worker has a list of keys, then the transaction of one of them: the
  \* rows that it read, then the usage that it read.
  /\ \A w \in AccountWorkers : work[w].at \in {"stopped", "idle", "list", "rows", "usage"}
  /\ shared \subseteq Keys /\ strayed \subseteq Keys
  /\ ops \in 0 .. MaxOps[Running]

\* The two daemons share no table, so one of them runs in a behaviour.
Init ==
  /\ content = {} /\ pending = {}
  /\ account = [r \in Rules |-> NoAccount]
  /\ locks = {} /\ available = {}
  /\ usage = [k \in Keys |-> NoUsage]
  /\ counts = {}
  /\ col = [x \in Rses |-> NoCol]
  /\ updates = {}
  /\ \E daemon \in {"account", "collection"} :
       /\ work = [w \in AccountWorkers |-> IF daemon = "account" THEN Idle ELSE Stopped]
       /\ colWork = [at |-> IF daemon = "collection" THEN "idle" ELSE "stopped", list |-> {}]
  /\ shared = {} /\ strayed = {}
  /\ ops = 0

Call == ops < MaxOps[Running] /\ ops' = ops + 1

(***************************************************************************)
(* The operations that append updates.                                     *)
(***************************************************************************)
\* attach_dids and detach_dids queue a re-evaluation.
Attach(f) ==
  /\ Call
  /\ f \notin content
  /\ content' = content \cup {f}
  /\ pending' = pending \cup {"ATTACH"}
  /\ UNCHANGED <<account, locks, available, countVars, colVars, strayed>>

Detach(f) ==
  /\ Call
  /\ f \in content
  /\ content' = content \ {f}
  /\ pending' = pending \cup {"DETACH"}
  /\ UNCHANGED <<account, locks, available, countVars, colVars, strayed>>

\* A collection replica that the rule needs and nobody created.
WithCols(rses) ==
  [x \in Rses |-> IF x \in rses /\ col[x] = NoCol THEN [length |-> 0, cnt |-> 0, ok |-> FALSE] ELSE col[x]]
Missing(rses) == {x \in rses : col[x] = NoCol}

CreateRule(r, a) ==
  /\ Call
  /\ r \notin Existing /\ content # {}
  /\ account' = [account EXCEPT ![r] = a]
  /\ locks' = locks \cup ({r} \X content)
  /\ counts' = counts \cup NewCounts({<<1, a, Target[r], Cardinality(content)>>})
  /\ col' = WithCols({Target[r]})
  /\ updates' = updates \cup NewUpdates({<<x, AnyRse>> : x \in Missing({Target[r]})})
  /\ UNCHANGED <<content, pending, available, usage, work, shared, colWork, strayed>>

\* __evaluate_did_attach for the rules of the dataset.
EvaluateAttach ==
  /\ "ATTACH" \in pending
  /\ pending' = pending \ {"ATTACH"}
  /\ locks' = locks \cup (Existing \X content)
  /\ counts' = counts \cup
       NewCounts({<<r, account[r], Target[r], Cardinality({f \in content : <<r, f>> \notin locks})>> : r \in Existing})
  /\ LET rses == {Target[r] : r \in {q \in Existing : \E f \in content : <<q, f>> \notin locks}}
     IN /\ col' = WithCols(rses)
        /\ updates' = updates \cup NewUpdates({<<x, AnyRse>> : x \in Missing(rses) \cup {AnyRse}})
  /\ UNCHANGED <<content, account, available, usage, work, shared, colWork, strayed, ops>>

\* The decreases of all rules are summed by RSE.
Decreases(gone, payer) ==
  NewCounts({<<x, account[payer], x, -Cardinality({l \in gone : Target[l[1]] = x})>> : x \in Rses})

\* __evaluate_did_detach: after the loop over the rules, the decreases are
\* charged to the account of the rule that came last.
EvaluateDetach ==
  /\ "DETACH" \in pending
  /\ pending' = pending \ {"DETACH"}
  /\ LET gone == {l \in locks : l[2] \notin content}
     IN /\ locks' = locks \ gone
        /\ IF gone = {}
           THEN UNCHANGED <<counts, strayed>>
           ELSE \E last \in Existing :
             /\ counts' = counts \cup Decreases(gone, last)
             /\ strayed' = strayed \cup
                  UNION {{<<account[l[1]], Target[l[1]]>>, <<account[last], Target[l[1]]>>} :
                           l \in {m \in gone : account[m[1]] # account[last]}}
  /\ updates' = updates \cup NewUpdates({<<AnyRse, AnyRse>>})
  /\ UNCHANGED <<content, account, available, usage, work, shared, col, colWork, ops>>

DeleteRule(r) ==
  /\ Call
  /\ r \in Existing
  /\ account' = [account EXCEPT ![r] = NoAccount]
  /\ locks' = locks \ LocksOf(r)
  /\ counts' = counts \cup NewCounts({<<1, account[r], Target[r], -Cardinality(LocksOf(r))>>})
  /\ UNCHANGED <<content, pending, available, usage, work, shared, colVars, strayed>>

\* update_rule with an account: what one account loses the other gets.
ChangeAccount(r, a) ==
  /\ Call
  /\ r \in Existing /\ a # account[r]
  /\ account' = [account EXCEPT ![r] = a]
  /\ LET n == Cardinality(LocksOf(r))
     IN counts' = counts \cup NewCounts({<<1, account[r], Target[r], -n>>, <<2, a, Target[r], n>>})
  /\ UNCHANGED <<content, pending, locks, available, usage, work, shared, colVars, strayed>>

\* successful_transfer: one update for every lock that becomes OK.
TransferDone(f, x) ==
  LET done == {l \in locks : l[2] = f /\ Target[l[1]] = x}
  IN /\ Call
     /\ <<f, x>> \notin available /\ done # {}
     /\ available' = available \cup {<<f, x>>}
     /\ updates' = updates \cup NewUpdates({<<l[1], x>> : l \in done})
     /\ UNCHANGED <<content, pending, account, locks, countVars, col, colWork, strayed>>

\* delete_replicas of the reaper, for a replica without locks.
DeleteReplica(f, x) ==
  /\ Call
  /\ <<f, x>> \in available
  /\ ~\E l \in locks : l[2] = f /\ Target[l[1]] = x
  /\ available' = available \ {<<f, x>>}
  /\ updates' = updates \cup
       NewUpdates(IF f \in content /\ col[x] # NoCol THEN {<<x, x>>} ELSE {})
  /\ UNCHANGED <<content, pending, account, locks, countVars, col, colWork, strayed>>

(***************************************************************************)
(* abacus-account.  The share of a worker is what its heartbeat made it;   *)
(* Heartbeat shows when two shares overlap.                                *)
(***************************************************************************)
UpdatedKeys == {k \in Keys : RowsOf(k) # {}}

GetUpdated(w) ==
  /\ work[w].at = "idle"
  /\ \E share \in (SUBSET UpdatedKeys) \ {{}} :
       work' = [work EXCEPT ![w] = [at |-> "list", todo |-> share]]
  /\ UNCHANGED <<ruleVars, usage, counts, shared, colVars, strayed, ops>>

Busy(w, k) == work[w].at \in {"rows", "usage"} /\ work[w].key = k

ReadRows(w, k) ==
  /\ work[w].at = "list" /\ k \in work[w].todo
  /\ work' = [work EXCEPT ![w] =
       [at |-> "rows", todo |-> @.todo \ {k}, key |-> k, rows |-> RowsOf(k), value |-> NoUsage]]
  /\ shared' = IF \E v \in AccountWorkers : Busy(v, k) THEN shared \cup {k} ELSE shared
  /\ UNCHANGED <<ruleVars, usage, counts, colVars, strayed, ops>>

ReadUsage(w) ==
  /\ work[w].at = "rows"
  /\ work' = [work EXCEPT ![w].at = "usage", ![w].value = usage[work[w].key]]
  /\ UNCHANGED <<ruleVars, usage, counts, shared, colVars, strayed, ops>>

Rest(todo) == IF todo = {} THEN Idle ELSE [at |-> "list", todo |-> todo]

\* Mutant: the rows are deleted by account and RSE.
Consumed_ByKey(w) == RowsOf(work[w].key)

\* The rows that were summed, and no other, are deleted.
Consumed(w) == work[w].rows

\* The new value is computed from the one that was read.  A counter that did
\* not exist is inserted; if another worker inserted it first, the exception
\* ends the iteration.
UpdateAccountCounter(w) ==
  /\ work[w].at = "usage"
  /\ LET k == work[w].key
         old == work[w].value
     IN IF old = NoUsage /\ usage[k] # NoUsage
        THEN /\ work' = [work EXCEPT ![w] = Idle]
             /\ UNCHANGED <<usage, counts>>
        ELSE /\ usage' = [usage EXCEPT ![k] =
                  (IF old = NoUsage THEN 0 ELSE old) + Total(work[w].rows)]
             /\ counts' = counts \ Consumed(w)
             /\ work' = [work EXCEPT ![w] = Rest(@.todo)]
  /\ UNCHANGED <<ruleVars, shared, colVars, strayed, ops>>

(***************************************************************************)
(* abacus-collection-replica, with one worker.                             *)
(***************************************************************************)
\* Updates without a collection replica, and all but one of those for the
\* same one, are deleted; the rest is the list.
GetCleanedUpdates ==
  /\ colWork.at = "idle" /\ updates # {}
  /\ LET live == {u \in updates : IF u[2] = AnyRse THEN \E x \in Rses : col[x] # NoCol ELSE col[u[2]] # NoCol}
     IN \E kept \in SUBSET live :
          /\ \A u \in live : \E v \in kept : v[2] = u[2]
          /\ \A u, v \in kept : u[2] = v[2] => u = v
          /\ updates' = kept
          /\ colWork' = [at |-> IF kept = {} THEN "idle" ELSE "list", list |-> kept]
  /\ UNCHANGED <<ruleVars, countVars, col, strayed, ops>>

Available(x) == Cardinality({f \in content : <<f, x>> \in available})

\* The transaction counts the files and their replicas first.
CountReplicas(u) ==
  /\ colWork.at = "list" /\ u \in colWork.list
  /\ colWork' = [at |-> "counted", list |-> colWork.list, row |-> u, length |-> Cardinality(content),
                 cnt |-> [x \in Rses |-> Available(x)], old |-> col]
  /\ UNCHANGED <<ruleVars, countVars, col, updates, strayed, ops>>

Listed(list) == [at |-> IF list = {} THEN "idle" ELSE "list", list |-> list]

\* One collection replica: its own length decides, and it goes with its last
\* available file.  If it is gone the exception ends the iteration.
UpdateOne ==
  LET x == colWork.row[2]
      old == colWork.old[x]
      n == colWork.cnt[x]
  IN IF old = NoCol
     THEN /\ colWork' = Listed({})
          /\ UNCHANGED <<col, updates>>
     ELSE /\ col' = [col EXCEPT ![x] =
                IF old.cnt > 0 /\ n = 0 THEN NoCol
                ELSE [length |-> old.length, cnt |-> n, ok |-> n >= old.length]]
          /\ updates' = updates \ {colWork.row}
          /\ colWork' = Listed(colWork.list \ {colWork.row})

\* All of them: the new length for each, the availability where a file of the
\* dataset is available.
UpdateAll ==
  /\ col' = [x \in Rses |->
       IF col[x] = NoCol \/ colWork.old[x] = NoCol THEN col[x]
       ELSE IF colWork.cnt[x] = 0 THEN [col[x] EXCEPT !.length = colWork.length]
       ELSE [length |-> colWork.length, cnt |-> colWork.cnt[x], ok |-> colWork.cnt[x] >= colWork.length]]
  /\ updates' = updates \ {colWork.row}
  /\ colWork' = Listed(colWork.list \ {colWork.row})

\* Mutant: every update of the same collection replica is deleted with it.
UpdateCollectionReplica_DeletesAll ==
  /\ colWork.at = "counted"
  /\ IF colWork.row[2] = AnyRse
     THEN /\ col' = [x \in Rses |->
               IF col[x] = NoCol \/ colWork.old[x] = NoCol THEN col[x]
               ELSE IF colWork.cnt[x] = 0 THEN [col[x] EXCEPT !.length = colWork.length]
               ELSE [length |-> colWork.length, cnt |-> colWork.cnt[x], ok |-> colWork.cnt[x] >= colWork.length]]
          /\ updates' = {u \in updates : u[2] # AnyRse}
          /\ colWork' = Listed(colWork.list \ {colWork.row})
     ELSE UpdateOne
  /\ UNCHANGED <<ruleVars, countVars, strayed, ops>>

UpdateCollectionReplica ==
  /\ colWork.at = "counted"
  /\ IF colWork.row[2] = AnyRse THEN UpdateAll ELSE UpdateOne
  /\ UNCHANGED <<ruleVars, countVars, strayed, ops>>

Operations ==
  \/ \E f \in Files : Attach(f) \/ Detach(f)
  \/ \E r \in Rules, a \in Accounts : CreateRule(r, a) \/ ChangeAccount(r, a)
  \/ \E r \in Rules : DeleteRule(r)
  \/ EvaluateAttach \/ EvaluateDetach
  \/ \E f \in Files, x \in Rses : TransferDone(f, x) \/ DeleteReplica(f, x)

AccountUpdate(w) ==
  \/ GetUpdated(w) \/ ReadUsage(w) \/ UpdateAccountCounter(w)
  \/ \E k \in Keys : ReadRows(w, k)

CollectionReplicaUpdate ==
  \/ GetCleanedUpdates \/ UpdateCollectionReplica
  \/ \E u \in colWork.list : CountReplicas(u)

Next ==
  \/ Operations
  \/ \E w \in AccountWorkers : AccountUpdate(w)
  \/ CollectionReplicaUpdate

Spec == Init /\ [][Next]_vars

(***************************************************************************)
(* Properties.                                                             *)
(***************************************************************************)
Used(k) == (IF usage[k] = NoUsage THEN 0 ELSE usage[k]) + Total(RowsOf(k))
Held(k) == Cardinality({l \in locks : <<account[l[1]], Target[l[1]]>> = k})

\* The usage of an account and the updates not yet applied are exactly the
\* locks of its rules, at every moment and however the operations and the two
\* transactions of the workers interleave; except where two workers handled
\* the counter at once, or a detachment took locks of several accounts.  A
\* detachment that charges the wrong account charges the right amount: the sum
\* over the accounts is always the number of locks on the RSE.
UsageExact ==
  /\ \A k \in Keys \ (shared \cup strayed) : Used(k) = Held(k)
  /\ \A x \in Rses : (\A a \in Accounts : <<a, x>> \notin shared) =>
       SumFunction([k \in Accounts \X {x} |-> Used(k)]) = Cardinality({l \in locks : Target[l[1]] = x})

\* Once all updates are applied, a collection replica has the length of the
\* dataset, and where any of its files is available the number of them and
\* the state that follows: no change is lost that came while the worker was
\* computing.
CollectionExact ==
  updates = {} /\ pending = {} /\ colWork.at = "idle" =>
    \A x \in Rses : col[x] # NoCol =>
      /\ col[x].length = Cardinality(content)
      /\ Available(x) > 0 =>
           col[x].cnt = Available(x) /\ (col[x].ok <=> Available(x) = Cardinality(content))

=============================================================================
