---------------------------- MODULE NamespaceProofs ----------------------------
(***************************************************************************)
(* Proofs about Namespace for any collections, files and clients, any tree *)
(* to start from and any bound on the operations.                          *)
(***************************************************************************)
EXTENDS Namespace, FiniteSetTheorems, TLAPS

(***************************************************************************)
(* Reachability over the associations: list_child_datasets and             *)
(* list_all_parent_dids follow them to the end.                            *)
(***************************************************************************)
\* A set of collections that the associations of t do not lead out of.
Closed(t, S) == \A e \in t : e[1] \in S /\ e[2] \in Collections => e[2] \in S

\* A collection reaches itself.
LEMMA ReachItself ==
  ASSUME NEW t, NEW d \in Collections
  PROVE  d \in Reach(t, d)
  BY DEF Reach

\* What is reached is a closed set of collections,
LEMMA ReachClosed ==
  ASSUME NEW t, NEW d
  PROVE  Reach(t, d) \subseteq Collections /\ Closed(t, Reach(t, d))
  BY Zenon DEF Reach, Closed

\* and the least one.
LEMMA ReachLeast ==
  ASSUME NEW t, NEW d, NEW S \in SUBSET Collections, d \in S, Closed(t, S)
  PROVE  Reach(t, d) \subseteq S
  BY Zenon DEF Reach, Closed

\* Whatever a collection below d reaches, d reaches.
LEMMA ReachTransitive ==
  ASSUME NEW t, NEW d, NEW x \in Reach(t, d)
  PROVE  Reach(t, x) \subseteq Reach(t, d)
  BY ReachClosed, ReachLeast

\* Fewer associations reach less.
LEMMA ReachMonotone ==
  ASSUME NEW t, NEW u \in SUBSET t, NEW d
  PROVE  Reach(u, d) \subseteq Reach(t, d)
  <1>1. CASE d \in Collections
    <2>1. Closed(u, Reach(t, d))
      BY ReachClosed DEF Closed
    <2> QED
      BY <1>1, <2>1, ReachClosed, ReachItself, ReachLeast
  <1>2. CASE d \notin Collections
    BY <1>2, Zenon DEF Reach
  <1> QED
    BY <1>1, <1>2

\* A new association from p to d lets a collection reach no more than what it
\* reached, and what d reached if it reached p.
LEMMA ReachExtended ==
  ASSUME NEW t, NEW p, NEW d \in Collections, p \notin Reach(t, d), NEW x \in Collections
  PROVE  Reach(t \cup {<<p, d>>}, x)
           \subseteq Reach(t, x) \cup (IF p \in Reach(t, x) THEN Reach(t, d) ELSE {})
  <1> DEFINE S == Reach(t, x) \cup (IF p \in Reach(t, x) THEN Reach(t, d) ELSE {})
  <1>1. S \in SUBSET Collections /\ x \in S
    BY ReachClosed, ReachItself
  <1>2. ASSUME NEW e \in t, e[1] \in S, e[2] \in Collections PROVE e[2] \in S
    BY <1>2, ReachClosed DEF Closed
  <1>3. p \in S => d \in S
    BY ReachItself
  <1>4. Closed(t \cup {<<p, d>>}, S)
    <2> HIDE DEF S
    <2> QED
      BY <1>2, <1>3 DEF Closed
  <1> HIDE DEF S
  <1>5. Reach(t \cup {<<p, d>>}, x) \subseteq S
    BY <1>1, <1>4, ReachLeast
  <1> QED
    BY <1>5 DEF S

\* Associations with files lead to no collection.
LEMMA ReachFiles ==
  ASSUME NEW t, NEW u, NEW x, t \subseteq u, \A e \in u : e[2] \in Collections => e \in t
  PROVE  Reach(u, x) = Reach(t, x)
  BY Zenon DEF Reach

(***************************************************************************)
(* Trees.                                                                  *)
(***************************************************************************)
\* No collection of t is below itself.
NoCycle(t) == \A e \in t : e[2] \in Collections => e[1] \notin Reach(t, e[2])

\* A new association whose parent is not below its child closes no cycle.
LEMMA NoCycleExtended ==
  ASSUME NEW t, NEW p, NEW d \in Collections, NoCycle(t), p \notin Reach(t, d)
  PROVE  NoCycle(t \cup {<<p, d>>})
  <1> DEFINE u == t \cup {<<p, d>>}
  <1>1. p \notin Reach(u, d)
    BY ReachExtended
  <1>2. ASSUME NEW e \in t, e[2] \in Collections, e[1] \in Reach(u, e[2]) PROVE FALSE
    <2>1. e[1] \notin Reach(t, e[2])
      BY <1>2 DEF NoCycle
    <2>2. Reach(u, e[2]) \subseteq Reach(t, e[2]) \cup (IF p \in Reach(t, e[2]) THEN Reach(t, d) ELSE {})
      BY <1>2, ReachExtended
    <2>3. p \in Reach(t, e[2]) /\ e[1] \in Reach(t, d)
      BY <1>2, <2>1, <2>2
    <2>4. e[2] \in Reach(t, d)
      BY <1>2, <2>3, ReachClosed DEF Closed
    <2>5. p \in Reach(t, d)
      BY <2>3, <2>4, ReachTransitive
    <2> QED
      BY <2>5
  <1> HIDE DEF u
  <1>3. \A e \in u : e \in t \/ e = <<p, d>>
    BY DEF u
  <1>4. \A e \in u : e[2] \in Collections => e[1] \notin Reach(u, e[2])
    BY <1>1, <1>2, <1>3
  <1> QED
    BY <1>4 DEF NoCycle, u

\* Nor does one with a file.
LEMMA NoCycleFile ==
  ASSUME NEW t, NEW p, NEW f, f \notin Collections, NoCycle(t)
  PROVE  NoCycle(t \cup {<<p, f>>})
  <1> DEFINE u == t \cup {<<p, f>>}
  <1>1. t \subseteq u /\ \A e \in u : e[2] \in Collections => e \in t
    OBVIOUS
  <1> HIDE DEF u
  <1>2. \A x : Reach(u, x) = Reach(t, x)
    BY <1>1, ReachFiles
  <1>3. NoCycle(u)
    BY <1>1, <1>2 DEF NoCycle
  <1> QED
    BY <1>3 DEF u

\* A tree stays one when associations go.
LEMMA NoCycleShrunk ==
  ASSUME NEW t, NEW u \in SUBSET t, NoCycle(t)
  PROVE  NoCycle(u)
  <1>1. \A x : Reach(u, x) \subseteq Reach(t, x)
    BY ReachMonotone
  <1> QED
    BY <1>1 DEF NoCycle

(***************************************************************************)
(* The tree and the attachments under way.                                 *)
(***************************************************************************)
\* The open transactions.
Attachments == [at : {"attach"}, parent : Collections, child : Dids]
NewRules == [at : {"rule"}, did : Collections, kind : Kinds, datasets : SUBSET Datasets]
TxnTyped ==
  /\ txn \in [Clients -> {Idle} \cup Attachments \cup NewRules]
  /\ \A c \in Clients : txn[c].at = "attach" => Fits(txn[c].parent, txn[c].child)

\* Associations lead from collections to DIDs that fit.
ContentTyped == \A e \in content : e \in Collections \X Dids /\ Fits(e[1], e[2])

\* As long as no two attachments have been under way at once, the only one that
\* may be has a parent that is not below its child, and the tree has no cycle.
OneAttachment ==
  /\ \A c, k \in Clients : txn[c].at = "attach" /\ txn[k].at = "attach" => c = k
  /\ \A c \in Clients : txn[c].at = "attach" /\ txn[c].child \in Collections =>
                          txn[c].parent \notin Reach(content, txn[c].child)
  /\ NoCycle(content)

TreeInv == TxnTyped /\ ContentTyped /\ (~crossed => OneAttachment)

\* The kind of a transaction tells what it holds.
LEMMA TxnOfKind ==
  ASSUME TxnTyped, NEW c \in Clients
  PROVE  /\ txn[c].at = "attach" => txn[c] \in Attachments
         /\ txn[c].at = "rule" => txn[c] \in NewRules
         /\ Idle.at = "idle"
  BY DEF TxnTyped, Attachments, NewRules, Idle

\* Steps that only take associations away.
LEMMA TreeShrunk ==
  ASSUME TreeInv, content' \subseteq content, UNCHANGED <<txn, crossed>>
  PROVE  TreeInv'
  <1>1. TxnTyped'
    BY DEF TreeInv, TxnTyped, Fits
  <1>2. ContentTyped'
    BY DEF TreeInv, ContentTyped, Fits
  <1>3. ASSUME ~crossed' PROVE OneAttachment'
    <2>1. OneAttachment
      BY <1>3 DEF TreeInv
    <2>2. NoCycle(content')
      BY <2>1, NoCycleShrunk DEF OneAttachment
    <2>3. \A x : Reach(content', x) \subseteq Reach(content, x)
      BY ReachMonotone
    <2>4. \A c \in Clients : txn[c].at = "attach" /\ txn[c].child \in Collections =>
                               txn[c].parent \notin Reach(content', txn[c].child)
      BY <2>1, <2>3 DEF OneAttachment
    <2>5. NoCycle(content)'
      BY <2>2 DEF NoCycle, Reach
    <2>6. \A c \in Clients : txn'[c].at = "attach" /\ txn'[c].child \in Collections =>
                               txn'[c].parent \notin Reach(content', txn'[c].child)
      BY <2>4
    <2>7. \A c, k \in Clients : txn'[c].at = "attach" /\ txn'[k].at = "attach" => c = k
      BY <2>1 DEF OneAttachment
    <2> QED
      BY <2>2, <2>6, <2>7 DEF OneAttachment, NoCycle, Reach
  <1> QED
    BY <1>1, <1>2, <1>3 DEF TreeInv

\* A dataset has no collection below it but itself.
LEMMA DatasetIsLeaf ==
  ASSUME ContentTyped, NEW d \in Datasets
  PROVE  Reach(content, d) \subseteq {d}
  <1>1. {d} \in SUBSET Collections
    BY DEF Collections
  <1>2. Closed(content, {d})
    BY NamespaceAssumption DEF Closed, ContentTyped, Fits
  <1> QED
    BY <1>1, <1>2, ReachLeast

\* attach_dids refuses what would close a cycle.
LEMMA AttachReadTree ==
  ASSUME TreeInv, NEW c \in Clients, NEW p \in Collections, NEW d \in Dids, AttachRead(c, p, d)
  PROVE  TreeInv'
  <1>0. TxnTyped /\ ContentTyped
    BY DEF TreeInv
  <1>1. /\ txn' = [txn EXCEPT ![c] = [at |-> "attach", parent |-> p, child |-> d]]
        /\ content' = content /\ Fits(p, d)
        /\ crossed' = (crossed \/ \E k \in Clients : txn[k].at = "attach")
    BY DEF AttachRead, tree
  <1>2. [at |-> "attach", parent |-> p, child |-> d] \in Attachments
    BY DEF Attachments
  <1>3. /\ txn'[c] = [at |-> "attach", parent |-> p, child |-> d]
        /\ \A k \in Clients : k # c => txn'[k] = txn[k]
    BY <1>0, <1>1 DEF TxnTyped
  <1>4. TxnTyped'
    BY <1>0, <1>1, <1>2, <1>3 DEF TxnTyped, Fits
  <1>5. ContentTyped'
    BY <1>0, <1>1 DEF ContentTyped, Fits
  <1>6. d \in Collections => p \notin Reach(content, d)
    <2>1. CASE d \in Containers
      BY <2>1 DEF AttachRead, Circular, Above, Below, Collections
    <2>2. CASE d \in Datasets
      BY <1>0, <2>2, DatasetIsLeaf DEF AttachRead
    <2> QED
      BY <2>1, <2>2 DEF Collections
  <1>7. ASSUME ~crossed' PROVE OneAttachment'
    <2>1. ~crossed /\ \A k \in Clients : txn[k].at # "attach"
      BY <1>1, <1>7
    <2>2. NoCycle(content)
      BY <2>1 DEF TreeInv, OneAttachment
    <2>3. \A k \in Clients : txn'[k].at = "attach" => k = c
      BY <1>3, <2>1
    <2>4. txn'[c].parent = p /\ txn'[c].child = d
      BY <1>3
    <2> QED
      BY <1>1, <1>6, <2>2, <2>3, <2>4 DEF OneAttachment, NoCycle, Reach
  <1> QED
    BY <1>4, <1>5, <1>7 DEF TreeInv

\* What it checked still holds when it commits, if it was the only one.
LEMMA AttachCommitTree ==
  ASSUME TreeInv, NEW c \in Clients, AttachCommit(c)
  PROVE  TreeInv'
  <1> DEFINE p == txn[c].parent
             d == txn[c].child
  <1>0. TxnTyped /\ ContentTyped
    BY DEF TreeInv
  <1>1. /\ txn[c].at = "attach" /\ txn' = [txn EXCEPT ![c] = Idle] /\ crossed' = crossed
        /\ content' \in {content, content \cup {<<p, d>>}}
    BY DEF AttachCommit
  <1>2. p \in Collections /\ d \in Dids /\ Fits(p, d)
    BY <1>0, <1>1, TxnOfKind DEF Attachments, TxnTyped
  <1>3. txn'[c] = Idle /\ \A k \in Clients : k # c => txn'[k] = txn[k]
    BY <1>0, <1>1 DEF TxnTyped
  <1>4. Idle.at # "attach"
    BY DEF Idle
  <1>5. TxnTyped'
    BY <1>0, <1>1, <1>3, <1>4 DEF TxnTyped, Fits
  <1>6. ContentTyped'
    <2> HIDE DEF p, d
    <2>1. ASSUME NEW e \in content' PROVE e \in content \/ e = <<p, d>>
      BY <1>1
    <2> QED
      BY <1>0, <1>2, <2>1 DEF ContentTyped, Fits
  <1>7. ASSUME ~crossed' PROVE OneAttachment'
    <2>1. OneAttachment
      BY <1>1, <1>7 DEF TreeInv
    <2>2. \A k \in Clients : txn'[k].at # "attach"
      BY <1>1, <1>3, <1>4, <2>1 DEF OneAttachment
    <2>3. d \in Collections => p \notin Reach(content, d)
      BY <1>1, <2>1 DEF OneAttachment
    <2>4. NoCycle(content)
      BY <2>1 DEF OneAttachment
    <2> HIDE DEF p, d
    <2>5. NoCycle(content \cup {<<p, d>>})
      BY <2>3, <2>4, NoCycleExtended, NoCycleFile
    <2>6. NoCycle(content')
      BY <1>1, <2>4, <2>5
    <2> QED
      BY <2>2, <2>6 DEF OneAttachment, NoCycle, Reach
  <1> QED
    BY <1>5, <1>6, <1>7 DEF TreeInv

\* Transactions of rules have nothing to do with it.
LEMMA RuleTree ==
  ASSUME TreeInv, NEW c \in Clients,
         (\E d \in Collections, kind \in Kinds : RuleRead(c, d, kind)) \/ RuleCommit(c)
  PROVE  TreeInv'
  <1>0. TxnTyped /\ ContentTyped
    BY DEF TreeInv
  <1>1. content' = content /\ crossed' = crossed
    BY DEF RuleRead, RuleCommit, tree
  <1>2. \E t \in {Idle} \cup NewRules : txn' = [txn EXCEPT ![c] = t]
    <2>1. ASSUME NEW d \in Collections, NEW kind \in Kinds, RuleRead(c, d, kind)
          PROVE  \E t \in NewRules : txn' = [txn EXCEPT ![c] = t]
      <3>1. [at |-> "rule", did |-> d, kind |-> kind, datasets |-> DatasetsUnder(d)] \in NewRules
        BY DEF NewRules, DatasetsUnder
      <3> QED
        BY <2>1, <3>1 DEF RuleRead
    <2>2. CASE RuleCommit(c)
      BY <2>2 DEF RuleCommit
    <2> QED
      BY <2>1, <2>2
  <1>3. PICK t \in {Idle} \cup NewRules : txn' = [txn EXCEPT ![c] = t]
    BY <1>2
  <1>4. t.at # "attach"
    BY DEF NewRules, Idle
  <1>5. txn'[c] = t /\ \A k \in Clients : k # c => txn'[k] = txn[k]
    BY <1>0, <1>3 DEF TxnTyped
  <1>6. TxnTyped'
    BY <1>0, <1>3, <1>4, <1>5 DEF TxnTyped, Fits
  <1>7. ContentTyped'
    BY <1>0, <1>1 DEF ContentTyped, Fits
  <1>8. ASSUME ~crossed' PROVE OneAttachment'
    <2>1. OneAttachment
      BY <1>1, <1>8 DEF TreeInv
    <2>2. \A k \in Clients : txn'[k].at = "attach" => txn'[k] = txn[k]
      BY <1>4, <1>5
    <2> QED
      BY <1>1, <2>1, <2>2 DEF OneAttachment, NoCycle, Reach
  <1> QED
    BY <1>6, <1>7, <1>8 DEF TreeInv

\* Everything else leaves the tree alone or prunes it.
LEMMA PrunedTree ==
  ASSUME TreeInv,
         \/ \E c \in Clients, d \in Collections :
              AddDid(c, d) \/ SetStatus(c, d) \/ LockRule(c, d) \/ Resurrect(c, d)
         \/ \E c \in Clients, p \in Collections, d \in Dids : Detach(c, p, d)
         \/ \E c \in Clients, d \in Dids, e \in {"never", "later"} : SetLifetime(c, d, e)
         \/ \E d \in Dids : Expire(d)
         \/ \E u \in pending : Evaluate(u)
         \/ \E d \in Collections : CleanRule(d)
         \/ ListExpired
         \/ \E S \in Chunks : DeleteChunk(S)
         \/ \E S \in Chunks : Busy(S)
         \/ PauseEnds
  PROVE  TreeInv'
  <1>1. ASSUME NEW S, DeleteChunk(S) PROVE content' \subseteq content /\ UNCHANGED <<txn, crossed>>
    BY <1>1 DEF DeleteChunk, DeleteDids, RolledBack, LargeRulesExpire, Emptied, tree
  <1>2. content' \subseteq content /\ UNCHANGED <<txn, crossed>>
    BY <1>1 DEF AddDid, SetStatus, LockRule, Resurrect, Detach, SetLifetime, Expire, Evaluate, CleanRule,
                ListExpired, Busy, PauseEnds, tree
  <1> QED
    BY <1>2, TreeShrunk

\* The steps of Next, for the proofs below.
LEMMA NextCases ==
  ASSUME Next
  PROVE  \/ \E c \in Clients, d \in Collections :
              AddDid(c, d) \/ SetStatus(c, d) \/ LockRule(c, d) \/ Resurrect(c, d)
         \/ \E c \in Clients, p \in Collections, d \in Dids : Detach(c, p, d)
         \/ \E c \in Clients, d \in Dids, e \in {"never", "later"} : SetLifetime(c, d, e)
         \/ \E d \in Dids : Expire(d)
         \/ \E u \in pending : Evaluate(u)
         \/ \E d \in Collections : CleanRule(d)
         \/ ListExpired
         \/ \E S \in Chunks : DeleteChunk(S)
         \/ \E S \in Chunks : Busy(S)
         \/ PauseEnds
         \/ \E c \in Clients, p \in Collections, d \in Dids : AttachRead(c, p, d)
         \/ \E c \in Clients : AttachCommit(c)
         \/ \E c \in Clients : (\E d \in Collections, kind \in Kinds : RuleRead(c, d, kind)) \/ RuleCommit(c)
  BY Zenon DEF Next, Client, Commit, Undertake

\* A tree to start from has no cycle, and nothing is under way.
LEMMA TreeInit ==
  ASSUME Init
  PROVE  TreeInv
  <1>1. TxnTyped
    BY DEF Init, TxnTyped, Idle
  <1>2. content \subseteq (Containers \X Collections) \cup (Datasets \X Files) /\ NoCycle(content)
    BY NamespaceAssumption DEF Init, NoCycle
  <1>3. ContentTyped
    BY <1>2, NamespaceAssumption DEF ContentTyped, Fits, Collections, Dids
  <1>4. OneAttachment
    BY <1>2 DEF Init, OneAttachment, Idle
  <1> QED
    BY <1>1, <1>3, <1>4 DEF TreeInv

\* Every step keeps the tree.
LEMMA TreeStep ==
  ASSUME TreeInv, [Next]_vars
  PROVE  TreeInv'
  <1>1. CASE Next
    BY <1>1, NextCases, PrunedTree, AttachReadTree, AttachCommitTree, RuleTree
  <1>2. CASE UNCHANGED vars
    BY <1>2, TreeShrunk DEF vars, tree
  <1> QED
    BY <1>1, <1>2

\* No collection is ever below itself, as long as no two attachments are under
\* way at the same time (__add_collections_to_container).
THEOREM TreesHaveNoCycle == Spec => []Acyclic
  <1>1. Init => TreeInv
    BY TreeInit
  <1>2. TreeInv /\ [Next]_vars => TreeInv'
    BY TreeStep
  <1>3. TreeInv => Acyclic
    BY DEF TreeInv, OneAttachment, NoCycle, Acyclic, Below
  <1> QED
    BY <1>1, <1>2, <1>3, PTL DEF Spec

(***************************************************************************)
(* References: associations, rules and dataset locks refer to DIDs that    *)
(* exist, whatever is erased and created again.                            *)
(***************************************************************************)
RuleRows == {NoRule} \cup [kind : {"small", "big", "expiring"}, locked : BOOLEAN]

DidsTyped ==
  /\ status \in [Collections -> {"absent", "open", "closed"}]
  /\ expiry \in [Dids -> {"never", "later", "past"}]
  /\ deleted \in [Collections -> {"absent", "open", "closed"}]
ContentRefers ==
  /\ \A e \in content : Exists(e[1]) /\ Exists(e[2])
  /\ fresh \subseteq content
  /\ pending \subseteq Collections \X {"ATTACH", "DETACH"}
RulesRefer ==
  /\ rule \in [Collections -> RuleRows]
  /\ \A c \in Collections : rule[c] # NoRule => Exists(c)
  /\ \A h \in held : /\ h \in Collections \X Datasets
                     /\ rule[h[1]] # NoRule /\ Exists(h[2])
  /\ overlapped \subseteq Collections
ListsTyped ==
  /\ todo \subseteq Dids /\ paused \subseteq Dids /\ crossed \in BOOLEAN
  /\ ops \in 0 .. MaxOps

RefInv == TreeInv /\ DidsTyped /\ ContentRefers /\ RulesRefer /\ ListsTyped

\* The parts are the whole.
LEMMA RefInvTyped ==
  ASSUME RefInv
  PROVE  TypeOK
  <1>1. \A c \in Clients : txn[c].at \in {"idle", "attach", "rule"}
    BY DEF RefInv, TreeInv, TxnTyped, Attachments, NewRules, Idle
  <1>2. \A e \in content : Exists(e[1]) /\ Exists(e[2]) /\ Fits(e[1], e[2])
    BY DEF RefInv, TreeInv, ContentTyped, ContentRefers
  <1>3. held \subseteq {c \in Collections : rule[c] # NoRule} \X {d \in Datasets : Exists(d)}
    <2> SUFFICES ASSUME NEW h \in held
                 PROVE  h \in {c \in Collections : rule[c] # NoRule} \X {d \in Datasets : Exists(d)}
      OBVIOUS
    <2>1. h \in Collections \X Datasets /\ rule[h[1]] # NoRule /\ Exists(h[2])
      BY DEF RefInv, RulesRefer
    <2> QED
      BY <2>1
  <1> QED
    BY <1>1, <1>2, <1>3 DEF RefInv, DidsTyped, ContentRefers, RulesRefer, ListsTyped, TypeOK, RuleRows

\* A call stays within the bound.
LEMMA CallTyped ==
  ASSUME ListsTyped, Call
  PROVE  ops' \in 0 .. MaxOps
  <1> DEFINE busy == {c \in Clients : txn[c] # Idle}
  <1>1. IsFiniteSet(busy)
    BY NamespaceAssumption, FS_Subset
  <1>2. Cardinality(busy) \in Nat
    BY <1>1, FS_CardinalityType
  <1> HIDE DEF busy
  <1>3. ops' = ops + 1 + Cardinality(busy) /\ ops' <= MaxOps
    BY DEF Call, busy
  <1> QED
    BY <1>2, <1>3, NamespaceAssumption DEF ListsTyped

\* A collection that exists goes on existing, and nothing else changes.
LEMMA StatusWritten ==
  ASSUME ContentRefers, RulesRefer, UNCHANGED <<content, fresh, pending, rules>>,
         \A x \in Collections : status[x] # "absent" => status'[x] # "absent"
  PROVE  ContentRefers' /\ RulesRefer'
  <1>1. \A x : Exists(x) => Exists(x)'
    BY DEF Exists
  <1>2. ContentRefers'
    BY <1>1 DEF ContentRefers
  <1>3. RulesRefer'
    BY <1>1 DEF RulesRefer, rules
  <1> QED
    BY <1>2, <1>3

\* Associations go.
LEMMA ContentShrunk ==
  ASSUME ContentRefers, UNCHANGED status, content' \subseteq content, fresh' \subseteq content',
         pending' \subseteq Collections \X {"ATTACH", "DETACH"}
  PROVE  ContentRefers'
  BY DEF ContentRefers, Exists

\* Rules go, and their locks with them.
LEMMA RulesGone ==
  ASSUME RulesRefer, UNCHANGED status, NEW S, RulesDeleted(S)
  PROVE  RulesRefer'
  <1>1. rule' \in [Collections -> RuleRows]
    BY DEF RulesRefer, RulesDeleted, RuleRows
  <1>2. \A c \in Collections : rule'[c] # NoRule => rule[c] # NoRule /\ c \notin S
    BY DEF RulesDeleted
  <1>3. \A c \in Collections : c \notin S => rule'[c] = rule[c]
    BY DEF RulesDeleted
  <1>4. \A x : Exists(x)' <=> Exists(x)
    BY DEF Exists
  <1>5. ASSUME NEW h \in held'
        PROVE  h \in Collections \X Datasets /\ rule'[h[1]] # NoRule /\ Exists(h[2])'
    <2>1. h \in held /\ h[1] \notin S
      BY DEF RulesDeleted
    <2>2. h \in Collections \X Datasets /\ rule[h[1]] # NoRule /\ Exists(h[2])
      BY <2>1 DEF RulesRefer
    <2>3. h[1] \in Collections
      BY <2>2
    <2> QED
      BY <1>3, <1>4, <2>1, <2>2, <2>3
  <1>6. overlapped' \subseteq Collections
    BY DEF RulesRefer, RulesDeleted
  <1> QED
    BY <1>1, <1>2, <1>4, <1>5, <1>6 DEF RulesRefer

\* What is unchanged refers to what it did.
LEMMA RulesSame ==
  ASSUME RulesRefer, UNCHANGED <<status, rules>>
  PROVE  RulesRefer'
  BY DEF RulesRefer, Exists, rules

\* The collections below one that exists exist: they are the children of
\* associations.
LEMMA BelowExists ==
  ASSUME ContentRefers, NEW d \in Collections, Exists(d), NEW x \in Below(d)
  PROVE  x \in Collections /\ Exists(x)
  <1> DEFINE S == {y \in Collections : Exists(y)}
  <1>1. Closed(content, S)
    BY DEF Closed, ContentRefers
  <1>2. S \in SUBSET Collections /\ d \in S
    OBVIOUS
  <1> HIDE DEF S
  <1>3. Reach(content, d) \subseteq S
    BY <1>1, <1>2, ReachLeast
  <1> QED
    BY <1>3 DEF Below, S

\* The references, without the tree.
Referring == DidsTyped /\ ContentRefers /\ RulesRefer /\ ListsTyped

\* The calls of clients that do not open a transaction.
LEMMA CallsRefer ==
  ASSUME RefInv,
         \/ \E c \in Clients, d \in Collections :
              AddDid(c, d) \/ SetStatus(c, d) \/ LockRule(c, d) \/ Resurrect(c, d)
         \/ \E c \in Clients, p \in Collections, d \in Dids : Detach(c, p, d)
         \/ \E c \in Clients, d \in Dids, e \in {"never", "later"} : SetLifetime(c, d, e)
  PROVE  Referring'
  <1>0. DidsTyped /\ ContentRefers /\ RulesRefer /\ ListsTyped
    BY DEF RefInv
  <1>1. ListsTyped'
    <2>1. ops' \in 0 .. MaxOps
      BY <1>0, CallTyped DEF AddDid, SetStatus, LockRule, Resurrect, Detach, SetLifetime
    <2>2. UNCHANGED <<todo, paused, crossed>>
      BY DEF AddDid, SetStatus, LockRule, Resurrect, Detach, SetLifetime, undertaker
    <2> QED
      BY <1>0, <2>1, <2>2 DEF ListsTyped
  <1>2. ASSUME NEW c \in Clients, NEW d \in Collections, AddDid(c, d) \/ SetStatus(c, d) \/ Resurrect(c, d)
        PROVE  Referring'
    <2>1. UNCHANGED <<content, fresh, pending, rules>>
      BY <1>2 DEF AddDid, SetStatus, Resurrect
    <2>2. d \in Dids
      BY DEF Dids
    <2>3. DidsTyped'
      BY <1>0, <1>2, <2>2 DEF DidsTyped, AddDid, SetStatus, Resurrect
    <2>4. \A x \in Collections : status[x] # "absent" => status'[x] # "absent"
      BY <1>0, <1>2 DEF DidsTyped, AddDid, SetStatus, Resurrect
    <2> QED
      BY <1>0, <1>1, <2>1, <2>3, <2>4, StatusWritten DEF Referring
  <1>3. ASSUME NEW c \in Clients, NEW d \in Collections, LockRule(c, d) PROVE Referring'
    <2>1. UNCHANGED <<tree, held, overlapped, expiry, deleted>> /\ rule[d] # NoRule
          /\ rule' = [rule EXCEPT ![d].locked = ~rule[d].locked]
      BY <1>3 DEF LockRule
    <2>2. DidsTyped' /\ ContentRefers'
      BY <1>0, <2>1 DEF DidsTyped, ContentRefers, Exists, tree
    <2>3. rule[d] \in [kind : {"small", "big", "expiring"}, locked : BOOLEAN]
      BY <1>0, <2>1 DEF RulesRefer, RuleRows
    <2>4. [rule[d] EXCEPT !.locked = ~rule[d].locked]
            \in [kind : {"small", "big", "expiring"}, locked : BOOLEAN]
      BY <2>3
    <2>5. rule' = [rule EXCEPT ![d] = [rule[d] EXCEPT !.locked = ~rule[d].locked]]
      BY <2>1
    <2>6. rule'[d] # NoRule
      BY <1>0, <2>4, <2>5 DEF RulesRefer, NoRule
    <2>7. rule' \in [Collections -> RuleRows] /\ \A x \in Collections : rule'[x] # NoRule <=> rule[x] # NoRule
      BY <1>0, <2>1, <2>4, <2>5, <2>6 DEF RulesRefer, RuleRows
    <2>8. RulesRefer'
      BY <1>0, <2>1, <2>7 DEF RulesRefer, Exists, tree
    <2> QED
      BY <1>1, <2>2, <2>8 DEF Referring
  <1>4. ASSUME NEW c \in Clients, NEW p \in Collections, NEW d \in Dids, Detach(c, p, d) PROVE Referring'
    <2>1. UNCHANGED <<status, rules, expiry, deleted>> /\ content' = content \ {<<p, d>>}
          /\ fresh' = fresh \ {<<p, d>>} /\ pending' = pending \cup {<<p, "DETACH">>}
      BY <1>4 DEF Detach
    <2>2. pending' \subseteq Collections \X {"ATTACH", "DETACH"}
      BY <1>0, <2>1 DEF ContentRefers
    <2>3. content' \subseteq content /\ fresh' \subseteq content'
      BY <1>0, <2>1 DEF ContentRefers
    <2>4. ContentRefers' /\ RulesRefer' /\ DidsTyped'
      BY <1>0, <2>1, <2>2, <2>3, ContentShrunk, RulesSame DEF DidsTyped
    <2> QED
      BY <1>1, <2>4 DEF Referring
  <1>5. ASSUME NEW c \in Clients, NEW d \in Dids, NEW e \in {"never", "later"}, SetLifetime(c, d, e)
        PROVE  Referring'
    <2>1. UNCHANGED <<tree, rules, deleted>> /\ expiry' = [expiry EXCEPT ![d] = e]
      BY <1>5 DEF SetLifetime
    <2>2. DidsTyped' /\ ContentRefers'
      BY <1>0, <2>1 DEF DidsTyped, ContentRefers, Exists, tree
    <2>3. RulesRefer'
      BY <1>0, <2>1, RulesSame DEF tree
    <2> QED
      BY <1>1, <2>2, <2>3 DEF Referring
  <1> QED
    BY <1>2, <1>3, <1>4, <1>5

\* The foreign keys refuse a commit that refers to what is gone.
LEMMA CommitsRefer ==
  ASSUME RefInv, NEW c \in Clients,
         \/ \E p \in Collections, d \in Dids : AttachRead(c, p, d)
         \/ AttachCommit(c)
         \/ \E d \in Collections, kind \in Kinds : RuleRead(c, d, kind)
         \/ RuleCommit(c)
  PROVE  Referring'
  <1>0. DidsTyped /\ ContentRefers /\ RulesRefer /\ ListsTyped /\ TxnTyped
    BY DEF RefInv, TreeInv
  <1>1. CASE \/ \E p \in Collections, d \in Dids : AttachRead(c, p, d)
             \/ \E d \in Collections, kind \in Kinds : RuleRead(c, d, kind)
    <2>1. UNCHANGED <<tree, rules, undertaker, expiry, deleted>> /\ Call
      BY <1>1 DEF AttachRead, RuleRead
    <2>2. crossed' \in BOOLEAN
      BY <1>0, <1>1 DEF AttachRead, RuleRead, ListsTyped
    <2>3. ListsTyped'
      BY <1>0, <2>1, <2>2, CallTyped DEF ListsTyped, undertaker
    <2>4. DidsTyped' /\ ContentRefers' /\ RulesRefer'
      BY <1>0, <2>1, RulesSame DEF DidsTyped, ContentRefers, Exists, tree
    <2> QED
      BY <2>3, <2>4 DEF Referring
  <1>2. CASE AttachCommit(c)
    <2> DEFINE p == txn[c].parent
               d == txn[c].child
    <2>1. p \in Collections /\ d \in Dids
      BY <1>0, <1>2, TxnOfKind DEF AttachCommit, Attachments
    <2>2. /\ UNCHANGED <<status, rules, undertaker, expiry, deleted, ops, crossed>>
          /\ \/ /\ Exists(p) /\ Exists(d)
                /\ content' = content \cup {<<p, d>>}
                /\ fresh' = fresh \cup {<<p, d>>}
                /\ pending' = pending \cup {<<p, "ATTACH">>}
             \/ UNCHANGED <<content, fresh, pending>>
      BY <1>2 DEF AttachCommit
    <2>3. DidsTyped' /\ RulesRefer' /\ ListsTyped'
      BY <1>0, <2>2, RulesSame DEF DidsTyped, ListsTyped, undertaker
    <2> HIDE DEF p, d
    <2>4. \A x : Exists(x)' <=> Exists(x)
      BY <2>2 DEF Exists
    <2>5. \A e \in content' : Exists(e[1]) /\ Exists(e[2])
      BY <1>0, <2>2 DEF ContentRefers
    <2>6. fresh' \subseteq content' /\ pending' \subseteq Collections \X {"ATTACH", "DETACH"}
      BY <1>0, <2>1, <2>2 DEF ContentRefers
    <2>7. ContentRefers'
      BY <2>4, <2>5, <2>6 DEF ContentRefers
    <2> QED
      BY <2>3, <2>7 DEF Referring
  <1>3. CASE RuleCommit(c)
    <2> DEFINE d == txn[c].did
               found == txn[c].datasets
               row == [kind |-> txn[c].kind, locked |-> FALSE]
    <2>1. txn[c] \in NewRules
      BY <1>0, <1>3, TxnOfKind DEF RuleCommit
    <2>2. /\ d \in Collections /\ found \subseteq Datasets
          /\ row \in [kind : {"small", "big", "expiring"}, locked : BOOLEAN]
          /\ row # NoRule
      <3>1. txn[c].kind \in {"small", "big"}
        BY <2>1, NamespaceAssumption DEF NewRules
      <3> QED
        BY <2>1, <3>1 DEF NewRules, NoRule
    <2>3. /\ UNCHANGED <<tree, undertaker, expiry, deleted, ops, crossed>>
          /\ \/ /\ Exists(d) /\ \A x \in found : Exists(x)
                /\ rule' = [rule EXCEPT ![d] = row]
                /\ held' = held \cup ({d} \X found)
                /\ overlapped' \subseteq overlapped \cup {d}
             \/ UNCHANGED rules
      BY <1>3 DEF RuleCommit
    <2>4. DidsTyped' /\ ContentRefers' /\ ListsTyped'
      BY <1>0, <2>3 DEF DidsTyped, ContentRefers, ListsTyped, Exists, undertaker, tree
    <2>5. CASE UNCHANGED rules
      BY <1>0, <2>3, <2>4, <2>5, RulesSame DEF Referring, tree
    <2>6. CASE /\ Exists(d) /\ \A x \in found : Exists(x)
               /\ rule' = [rule EXCEPT ![d] = row]
               /\ held' = held \cup ({d} \X found)
               /\ overlapped' \subseteq overlapped \cup {d}
      <3> HIDE DEF d, found, row
      <3>1. rule' \in [Collections -> RuleRows] /\ rule'[d] # NoRule
            /\ \A x \in Collections : x # d => rule'[x] = rule[x]
        BY <1>0, <2>2, <2>6 DEF RulesRefer, RuleRows
      <3>2. \A x : Exists(x)' <=> Exists(x)
        BY <2>3 DEF Exists, tree
      <3>3. \A x \in Collections : rule'[x] # NoRule => Exists(x)
        BY <1>0, <2>6, <3>1 DEF RulesRefer
      <3>4. ASSUME NEW h \in held'
            PROVE  h \in Collections \X Datasets /\ rule'[h[1]] # NoRule /\ Exists(h[2])
        <4>1. CASE h \in held
          <5>1. h \in Collections \X Datasets /\ rule[h[1]] # NoRule /\ Exists(h[2])
            BY <1>0, <4>1 DEF RulesRefer
          <5>2. h[1] \in Collections
            BY <5>1
          <5> QED
            BY <3>1, <5>1, <5>2
        <4>2. CASE h \in {d} \X found
          <5>1. h[1] = d /\ h[2] \in found
            BY <4>2
          <5>2. h \in Collections \X Datasets
            BY <2>2, <4>2
          <5> QED
            BY <2>6, <3>1, <5>1, <5>2
        <4> QED
          BY <2>6, <4>1, <4>2
      <3>5. overlapped' \subseteq Collections
        BY <1>0, <2>2, <2>6 DEF RulesRefer
      <3>6. RulesRefer'
        BY <3>1, <3>2, <3>3, <3>4, <3>5 DEF RulesRefer
      <3> QED
        BY <2>4, <3>6 DEF Referring
    <2> QED
      BY <2>3, <2>5, <2>6
  <1> QED
    BY <1>1, <1>2, <1>3

\* judge-evaluator locks only datasets that are below an association, and
\* judge-cleaner takes a rule with its locks.
LEMMA JudgeRefers ==
  ASSUME RefInv, (\E u \in pending : Evaluate(u)) \/ (\E d \in Collections : CleanRule(d))
  PROVE  Referring'
  <1>0. DidsTyped /\ ContentRefers /\ RulesRefer /\ ListsTyped /\ ContentTyped
    BY DEF RefInv, TreeInv
  <1>1. ASSUME NEW d \in Collections, CleanRule(d) PROVE Referring'
    <2>1. UNCHANGED <<tree, undertaker, expiry, deleted, ops, crossed>> /\ RulesDeleted({d})
      BY <1>1 DEF CleanRule
    <2>2. RulesRefer'
      BY <1>0, <2>1, RulesGone DEF tree
    <2>3. DidsTyped' /\ ContentRefers' /\ ListsTyped'
      BY <1>0, <2>1 DEF DidsTyped, ContentRefers, ListsTyped, Exists, tree, undertaker
    <2> QED
      BY <2>2, <2>3 DEF Referring
  <1>2. ASSUME NEW u \in pending, Evaluate(u) PROVE Referring'
    <2>1. /\ UNCHANGED <<status, content, rule, overlapped, undertaker, expiry, deleted, ops, crossed>>
          /\ pending' \subseteq pending
      BY <1>2 DEF Evaluate
    <2>2. fresh' \subseteq fresh
      BY <1>2 DEF Evaluate, EvaluateAttach, EvaluateDetach
    <2>3. DidsTyped' /\ ContentRefers' /\ ListsTyped'
      BY <1>0, <2>1, <2>2 DEF DidsTyped, ContentRefers, ListsTyped, Exists, undertaker
    <2>4. ASSUME NEW e \in fresh, NEW x \in Brought(e) PROVE x \in Datasets /\ Exists(x)
      <3>1. e \in content /\ Exists(e[1]) /\ Exists(e[2])
        BY <1>0 DEF ContentRefers
      <3>2. e[1] \in Collections /\ e[2] \in Dids /\ Fits(e[1], e[2])
        BY <1>0, <3>1 DEF ContentTyped
      <3>3. CASE e[2] \in Files
        BY <3>1, <3>2, <3>3, <2>4, NamespaceAssumption DEF Brought, Fits, Collections
      <3>4. CASE e[2] \notin Files
        <4>1. e[2] \in Collections
          BY <3>2, <3>4 DEF Dids
        <4>2. x \in Below(e[2]) /\ x \in Datasets
          BY <2>4, <3>4 DEF Brought, DatasetsUnder
        <4> QED
          BY <1>0, <3>1, <4>1, <4>2, BelowExists
      <3> QED
        BY <3>3, <3>4
    <2>5. ASSUME NEW h \in held'
          PROVE  h \in Collections \X Datasets /\ rule[h[1]] # NoRule /\ Exists(h[2])
      <3>1. CASE h \in held
        BY <1>0, <3>1 DEF RulesRefer
      <3>2. CASE h \notin held
        <4>1. EvaluateAttach(u[1])
          BY <1>2, <2>5, <3>2 DEF Evaluate, EvaluateDetach
        <4>2. h \in {x \in Above(u[1]) : rule[x] # NoRule} \X UNION {Brought(e) : e \in {e \in fresh : e[1] = u[1]}}
          BY <2>5, <3>2, <4>1 DEF EvaluateAttach
        <4>3. h[1] \in Above(u[1]) /\ rule[h[1]] # NoRule /\ h = <<h[1], h[2]>>
          BY <4>2
        <4>4. h[2] \in UNION {Brought(e) : e \in {e \in fresh : e[1] = u[1]}}
          BY <4>2
        <4>5. \E e \in fresh : h[2] \in Brought(e)
          BY <4>4
        <4>6. h[2] \in Datasets /\ Exists(h[2])
          BY <2>4, <4>5
        <4>7. h[1] \in Collections
          BY <4>3 DEF Above
        <4> QED
          BY <4>3, <4>6, <4>7
      <3> QED
        BY <3>1, <3>2
    <2>6. RulesRefer'
      <3>1. \A x : Exists(x)' <=> Exists(x)
        BY <2>1 DEF Exists
      <3> QED
        BY <1>0, <2>1, <2>5, <3>1 DEF RulesRefer
    <2> QED
      BY <2>3, <2>6 DEF Referring
  <1> QED
    BY <1>1, <1>2

\* What the undertaker does to a chunk, whole or not at all: it erases a
\* collection only once nothing refers to it.
LEMMA ChunkRefers ==
  ASSUME RefInv, NEW S \in Chunks, DeleteChunk(S)
  PROVE  Referring'
  <1>0. DidsTyped /\ ContentRefers /\ RulesRefer /\ ListsTyped /\ ContentTyped
    BY DEF RefInv, TreeInv
  <1>1. ListsTyped'
    BY <1>0 DEF ListsTyped, DeleteChunk
  <1>2. CASE RolledBack
    BY <1>0, <1>1, <1>2, RulesSame DEF Referring, RolledBack, DidsTyped, ContentRefers, Exists, tree
  <1>3. CASE LargeRulesExpire(S)
    <2> DEFINE large == {d \in S : Big(d)}
               others == (S \cap Collections) \ large
    <2>1. /\ rule' = [d \in Collections |->
                        IF d \in large THEN [rule[d] EXCEPT !.kind = "expiring"]
                        ELSE IF d \in others THEN NoRule ELSE rule[d]]
          /\ held' = {h \in held : h[1] \notin others}
          /\ overlapped' = overlapped \ others
          /\ expiry' = [d \in Dids |-> IF d \in large THEN "later" ELSE expiry[d]]
          /\ UNCHANGED <<status, content, fresh, pending, deleted>>
      BY <1>3 DEF LargeRulesExpire, tree
    <2>2. DidsTyped' /\ ContentRefers'
      BY <1>0, <2>1 DEF DidsTyped, ContentRefers, Exists
    <2>3. ASSUME NEW d \in large
          PROVE  /\ d \in Collections
                 /\ [rule[d] EXCEPT !.kind = "expiring"] \in [kind : {"small", "big", "expiring"}, locked : BOOLEAN]
                 /\ [rule[d] EXCEPT !.kind = "expiring"] # NoRule
                 /\ rule[d] # NoRule
      <3>1. d \in Collections /\ rule[d].kind \in {"big", "expiring"}
        BY DEF Big
      <3>2. rule[d] \in [kind : {"small", "big", "expiring"}, locked : BOOLEAN]
        BY <1>0, <3>1 DEF RulesRefer, RuleRows, NoRule
      <3> QED
        BY <3>1, <3>2 DEF NoRule
    <2> HIDE DEF large
    <2>4. rule' \in [Collections -> RuleRows]
      BY <1>0, <2>1, <2>3 DEF RulesRefer, RuleRows
    <2>5. \A d \in Collections : rule'[d] # NoRule <=> rule[d] # NoRule /\ d \notin others
      BY <2>1, <2>3
    <2> HIDE DEF others
    <2>6. \A x : Exists(x)' <=> Exists(x)
      BY <2>1 DEF Exists
    <2>7. ASSUME NEW h \in held'
          PROVE  h \in Collections \X Datasets /\ rule'[h[1]] # NoRule /\ Exists(h[2])
      <3>1. h \in held /\ h[1] \notin others
        BY <2>1
      <3>2. h \in Collections \X Datasets /\ rule[h[1]] # NoRule /\ Exists(h[2])
        BY <1>0, <3>1 DEF RulesRefer
      <3>3. h[1] \in Collections
        BY <3>2
      <3> QED
        BY <2>5, <3>1, <3>2, <3>3
    <2>8. overlapped' \subseteq Collections
      BY <1>0, <2>1 DEF RulesRefer
    <2>9. RulesRefer'
      BY <1>0, <2>4, <2>5, <2>6, <2>7, <2>8 DEF RulesRefer
    <2> QED
      BY <1>1, <2>2, <2>9 DEF Referring
  <1>4. ASSUME Emptied(S)
        PROVE  /\ content' = {e \in content : e[1] \notin S /\ e[2] \notin S}
               /\ fresh' \subseteq content'
               /\ pending' \subseteq Collections \X {"ATTACH", "DETACH"}
    <2>1. \A e \in Parents(S) : e[1] \in Collections
      BY <1>0 DEF Parents, ContentTyped
    <2>2. pending' = pending \cup {<<e[1], "DETACH">> : e \in Parents(S)}
      BY <1>4 DEF Emptied
    <2>3. pending' \subseteq Collections \X {"ATTACH", "DETACH"}
      BY <1>0, <2>1, <2>2 DEF ContentRefers
    <2> QED
      BY <1>4, <2>3 DEF Emptied
  <1>5. CASE Emptied(S) /\ UNCHANGED <<status, expiry, deleted>>
    <2>1. RulesDeleted(S)
      BY <1>5 DEF Emptied
    <2>2. RulesRefer'
      BY <1>0, <1>5, <2>1, RulesGone
    <2>3. ContentRefers'
      BY <1>0, <1>4, <1>5, ContentShrunk
    <2> QED
      BY <1>0, <1>1, <1>5, <2>2, <2>3 DEF Referring, DidsTyped
  <1>6. CASE ~Blocked(S) /\ Emptied(S) /\ Erased(S)
    <2>1. DidsTyped'
      BY <1>0, <1>6 DEF DidsTyped, Erased
    <2>2. \A x : Exists(x) /\ x \notin S => Exists(x)'
      BY <1>6 DEF Exists, Erased
    <2>3. ContentRefers'
      BY <1>0, <1>4, <1>6, <2>2 DEF ContentRefers
    <2>4. /\ rule' = [d \in Collections |-> IF d \in S THEN NoRule ELSE rule[d]]
          /\ held' = {h \in held : h[1] \notin S}
          /\ overlapped' = overlapped \ S
      BY <1>6 DEF Emptied, RulesDeleted
    <2>5. rule' \in [Collections -> RuleRows] /\ overlapped' \subseteq Collections
      BY <1>0, <2>4 DEF RulesRefer, RuleRows
    <2>6. \A d \in Collections : rule'[d] # NoRule => Exists(d)'
      BY <1>0, <2>2, <2>4 DEF RulesRefer
    <2>7. ASSUME NEW h \in held'
          PROVE  h \in Collections \X Datasets /\ rule'[h[1]] # NoRule /\ Exists(h[2])'
      <3>1. h \in held /\ h[1] \notin S /\ h[2] \notin S
        BY <1>6, <2>4 DEF Blocked
      <3>2. h \in Collections \X Datasets /\ rule[h[1]] # NoRule /\ Exists(h[2])
        BY <1>0, <3>1 DEF RulesRefer
      <3>3. h[1] \in Collections
        BY <3>2
      <3> QED
        BY <2>2, <2>4, <3>1, <3>2, <3>3
    <2>8. RulesRefer'
      BY <2>5, <2>6, <2>7 DEF RulesRefer
    <2> QED
      BY <1>1, <2>1, <2>3, <2>8 DEF Referring
  <1> QED
    BY <1>2, <1>3, <1>5, <1>6 DEF DeleteChunk, DeleteDids

\* The other steps write neither the tree nor the rules.
LEMMA ListsRefer ==
  ASSUME RefInv, (\E d \in Dids : Expire(d)) \/ ListExpired \/ (\E S \in Chunks : Busy(S)) \/ PauseEnds
  PROVE  Referring'
  <1>0. DidsTyped /\ ContentRefers /\ RulesRefer /\ ListsTyped
    BY DEF RefInv
  <1>1. UNCHANGED <<tree, rules, deleted>>
    BY DEF Expire, ListExpired, Busy, PauseEnds
  <1>2. ContentRefers' /\ RulesRefer'
    BY <1>0, <1>1, RulesSame DEF ContentRefers, Exists, tree
  <1>3. DidsTyped'
    BY <1>0, <1>1 DEF DidsTyped, tree, Expire, ListExpired, Busy, PauseEnds
  <1>4. ListsTyped'
    <2>1. ops' \in 0 .. MaxOps /\ crossed' = crossed
      BY <1>0, CallTyped DEF ListsTyped, Expire, ListExpired, Busy, PauseEnds
    <2>2. todo' \subseteq Dids /\ paused' \subseteq Dids
      BY <1>0 DEF ListsTyped, Expire, ListExpired, Busy, PauseEnds, Chunks, undertaker
    <2> QED
      BY <1>0, <2>1, <2>2 DEF ListsTyped
  <1> QED
    BY <1>2, <1>3, <1>4 DEF Referring

\* The references hold from the start and after every step.
LEMMA RefInvInvariant == Spec => []RefInv
  <1>1. Init => RefInv
    <2> SUFFICES ASSUME Init PROVE RefInv
      OBVIOUS
    <2>1. TreeInv
      BY TreeInit
    <2>2. ContentTyped
      BY <2>1 DEF TreeInv
    <2>3. \A x : Exists(x)
      BY DEF Exists, Init
    <2>4. DidsTyped
      BY DEF Init, DidsTyped
    <2>5. ContentRefers
      BY <2>3 DEF Init, ContentRefers
    <2>6. RulesRefer
      BY DEF Init, RulesRefer, RuleRows
    <2>7. ListsTyped
      <3>1. ops \in 0 .. MaxOps
        BY NamespaceAssumption, SMT DEF Init
      <3>2. todo \subseteq Dids /\ paused \subseteq Dids /\ crossed \in BOOLEAN
        BY DEF Init
      <3> QED
        BY <3>1, <3>2 DEF ListsTyped
    <2> QED
      BY <2>1, <2>4, <2>5, <2>6, <2>7 DEF RefInv
  <1>2. RefInv /\ [Next]_vars => RefInv'
    <2> SUFFICES ASSUME RefInv, [Next]_vars PROVE RefInv'
      OBVIOUS
    <2>1. TreeInv'
      BY TreeStep DEF RefInv
    <2>2. CASE Next
      <3>1. Referring'
        BY <2>2, NextCases, CallsRefer, CommitsRefer, JudgeRefers, ChunkRefers, ListsRefer
      <3> QED
        BY <2>1, <3>1 DEF Referring, RefInv
    <2>3. CASE UNCHANGED vars
      <3>1. DidsTyped' /\ ContentRefers' /\ RulesRefer' /\ ListsTyped'
        BY <2>3, RulesSame DEF RefInv, DidsTyped, ContentRefers, ListsTyped, Exists, vars, tree, undertaker
      <3> QED
        BY <2>1, <3>1 DEF RefInv
    <2> QED
      BY <2>2, <2>3
  <1> QED
    BY <1>1, <1>2, PTL DEF Spec

\* Associations, rules and dataset locks never refer to a DID that is gone,
\* whatever is erased, resurrected and created again: what attach_dids and
\* add_rule read is checked again by the foreign keys, and delete_dids erases
\* a DID only once nothing holds it.
THEOREM ReferencesHold == Spec => []TypeOK
  <1>1. RefInv => TypeOK
    BY RefInvTyped
  <1> QED
    BY <1>1, RefInvInvariant, PTL

\* The undertaker never erases, empties or unlocks a DID whose rule is locked
\* (delete_dids), also when the rule was locked after list_expired_dids.
THEOREM LockedDidsAreKept == Spec => LockedKept
  <1> DEFINE Kept(d) == /\ Exists(d)' /\ Locked(d)'
                        /\ \A e \in content : e[1] = d /\ e[2] \notin todo => e \in content'
  <1>1. ASSUME RefInv, Next, NEW d \in Collections, Locked(d), todo' # todo
        PROVE  Kept(d)
    <2>1. Exists(d)
      BY <1>1 DEF RefInv, RulesRefer, Locked, NoRule
    <2>2. CASE UNCHANGED <<tree, rules>>
      BY <1>1, <2>1, <2>2 DEF Exists, Locked, tree, rules
    <2>3. ASSUME NEW S \in Chunks, DeleteChunk(S) PROVE Kept(d)
      <3>1. S \subseteq todo
        BY DEF Chunks
      <3>2. CASE RolledBack
        BY <2>2, <3>2 DEF RolledBack
      <3>3. CASE d \notin S /\ LargeRulesExpire(S)
        BY <1>1, <2>1, <3>3 DEF LargeRulesExpire, Exists, Locked, tree
      <3>4. CASE d \notin S /\ Emptied(S) /\ (status' = status \/ Erased(S))
        <4>1. rule'[d] = rule[d] /\ status'[d] = status[d]
          BY <1>1, <3>4 DEF Emptied, RulesDeleted, Erased
        <4>2. \A e \in content : e[1] = d /\ e[2] \notin todo => e \in content'
          BY <3>1, <3>4 DEF Emptied
        <4> QED
          BY <1>1, <2>1, <4>1, <4>2 DEF Exists, Locked
      <3>5. RolledBack \/ d \notin S
        BY <1>1, <2>3 DEF DeleteChunk, DeleteDids
      <3> QED
        BY <2>3, <3>2, <3>3, <3>4, <3>5 DEF DeleteChunk, DeleteDids
    <2>4. \/ UNCHANGED <<tree, rules>>
          \/ \E S \in Chunks : DeleteChunk(S)
      BY <1>1, NextCases
         DEF AddDid, SetStatus, LockRule, Resurrect, Detach, SetLifetime, Expire, Evaluate, CleanRule,
             ListExpired, Busy, PauseEnds, AttachRead, AttachCommit, RuleRead, RuleCommit, undertaker
    <2> QED
      BY <2>2, <2>3, <2>4
  <1>2. RefInv /\ [Next]_vars =>
          [\A d \in Collections :
             Locked(d) /\ (todo' # todo) =>
               /\ Exists(d)' /\ Locked(d)'
               /\ \A e \in content : e[1] = d /\ e[2] \notin todo => e \in content']_vars
    BY <1>1
  <1> QED
    BY <1>2, RefInvInvariant, PTL DEF Spec, LockedKept

(***************************************************************************)
(* Dataset locks follow the content.                                       *)
(***************************************************************************)
\* The evaluator will come by every new association,
FreshIsQueued == \A e \in fresh : <<e[1], "ATTACH">> \in pending

\* a rule has locked all it reaches over the others,
SettledIsLocked ==
  \A c \in Collections \ overlapped : rule[c] # NoRule =>
    \A x \in Reach(content \ fresh, c) \cap Datasets : <<c, x>> \in held

\* and a lock on a dataset that the rule does not reach any more goes, since the
\* evaluator will come by a container that it still reaches.
StaleIsQueued ==
  \A h \in held : h[1] \notin overlapped =>
    \/ h[2] \in Reach(content, h[1])
    \/ \E q \in Reach(content, h[1]) \cap Containers : <<q, "DETACH">> \in pending

LockInv == FreshIsQueued /\ SettledIsLocked /\ StaleIsQueued

\* What c reaches when the DIDs of D lose all their associations: as much as
\* before, or a container that lost one of its own and was queued.
LEMMA ReachPruned ==
  ASSUME NEW t, NEW u \in SUBSET t, NEW D, NEW Q, NEW c \in Collections \ D,
         \A e \in u : e[2] \notin D,
         \A e \in t \ u : e[1] \notin D /\ e[2] \in Collections => e[1] \in Q
  PROVE  Reach(t, c) \subseteq Reach(u, c) \/ Reach(u, c) \cap Q # {}
  <1> DEFINE R == Reach(u, c)
             Outside == Collections \ D
  <1>1. Closed(u, Outside)
    BY DEF Closed
  <1>2. Outside \in SUBSET Collections /\ c \in Outside
    OBVIOUS
  <1> HIDE DEF Outside
  <1>3. R \subseteq Outside
    BY <1>1, <1>2, ReachLeast
  <1>4. R \in SUBSET Collections /\ Closed(u, R) /\ c \in R
    BY ReachClosed, ReachItself
  <1> HIDE DEF R
  <1>5. CASE R \cap Q = {}
    <2>1. ASSUME NEW e \in t, e[1] \in R, e[2] \in Collections PROVE e[2] \in R
      <3>1. e[1] \notin D /\ e[1] \notin Q
        BY <1>3, <1>5, <2>1 DEF Outside
      <3>2. e \in u
        BY <2>1, <3>1
      <3> QED
        BY <1>4, <2>1, <3>2 DEF Closed
    <2>2. Closed(t, R)
      BY <2>1 DEF Closed
    <2>3. Reach(t, c) \subseteq R
      BY <1>4, <2>2, ReachLeast
    <2> QED
      BY <2>3 DEF R
  <1>6. CASE R \cap Q # {}
    BY <1>6 DEF R
  <1> QED
    BY <1>5, <1>6

\* Steps that take rules and associations away: the rules of S with their
\* locks, and all associations of D, a part of S.
LEMMA LocksPruned ==
  ASSUME RefInv, LockInv, NEW S, NEW D \in SUBSET S,
         content' \subseteq content, fresh' = fresh \cap content', pending \subseteq pending',
         \A e \in content' : e[2] \notin D,
         \A e \in content \ content' : e[1] \notin D /\ e[2] \in Collections => <<e[1], "DETACH">> \in pending',
         held' = {h \in held : h[1] \notin S}, overlapped' = overlapped \ S,
         \A c \in Collections : rule'[c] # NoRule => rule[c] # NoRule /\ c \notin S
  PROVE  LockInv'
  <1>0. ContentTyped /\ RulesRefer /\ fresh \subseteq content
    BY DEF RefInv, TreeInv, ContentRefers
  <1>1. FreshIsQueued'
    BY DEF LockInv, FreshIsQueued
  <1>2. ASSUME NEW c \in Collections \ overlapped', rule'[c] # NoRule,
               NEW x \in Reach(content' \ fresh', c) \cap Datasets
        PROVE  <<c, x>> \in held'
    <2>1. c \in Collections \ overlapped /\ rule[c] # NoRule /\ c \notin S
      BY <1>2
    <2>2. content' \ fresh' \in SUBSET (content \ fresh)
      OBVIOUS
    <2>3. x \in Reach(content \ fresh, c)
      BY <1>2, <2>2, ReachMonotone
    <2>4. <<c, x>> \in held
      BY <1>2, <2>1, <2>3 DEF LockInv, SettledIsLocked
    <2> QED
      BY <2>1, <2>4
  <1>3. ASSUME NEW h \in held', h[1] \notin overlapped'
        PROVE  \/ h[2] \in Reach(content', h[1])
               \/ \E q \in Reach(content', h[1]) \cap Containers : <<q, "DETACH">> \in pending'
    <2> DEFINE c == h[1]
               Q == {q \in Containers : <<q, "DETACH">> \in pending'}
    <2>1. h \in held /\ c \notin S /\ c \notin overlapped /\ c \notin D
      BY <1>3
    <2>2. c \in Collections
      BY <1>0, <2>1 DEF RulesRefer
    <2>3. \A e \in content \ content' : e[1] \notin D /\ e[2] \in Collections => e[1] \in Q
      <3> SUFFICES ASSUME NEW e \in content \ content', e[1] \notin D, e[2] \in Collections
                   PROVE  e[1] \in Q
        OBVIOUS
      <3>1. e[1] \in Collections /\ Fits(e[1], e[2])
        BY <1>0 DEF ContentTyped
      <3>2. e[1] \in Containers
        BY <3>1, NamespaceAssumption DEF Fits, Collections
      <3> QED
        BY <3>2
    <2>4. \/ c \in Collections /\ h[2] \in Reach(content, c)
          \/ \E q \in Reach(content, c) : q \in Q
      BY <2>1, <2>2 DEF LockInv, StaleIsQueued
    <2> HIDE DEF Q
    <2>5. Reach(content, c) \subseteq Reach(content', c) \/ Reach(content', c) \cap Q # {}
      <3> HIDE DEF c
      <3> QED
        BY <2>1, <2>2, <2>3, ReachPruned
    <2>6. h[2] \in Reach(content', c) \/ \E q \in Reach(content', c) : q \in Q
      BY <2>4, <2>5
    <2> QED
      BY <2>6 DEF Q
  <1>4. SettledIsLocked'
    BY <1>2 DEF SettledIsLocked, Reach
  <1>5. StaleIsQueued'
    BY <1>3 DEF StaleIsQueued, Reach
  <1> QED
    BY <1>1, <1>4, <1>5 DEF LockInv

\* The same when no DID loses all its associations.
LEMMA LocksReduced ==
  ASSUME RefInv, LockInv, NEW S,
         content' \subseteq content, fresh' = fresh \cap content', pending \subseteq pending',
         \A e \in content \ content' : <<e[1], "DETACH">> \in pending',
         held' = {h \in held : h[1] \notin S}, overlapped' = overlapped \ S,
         \A c \in Collections : rule'[c] # NoRule => rule[c] # NoRule /\ c \notin S
  PROVE  LockInv'
  <1> DEFINE D == {}
  <1>1. /\ D \in SUBSET S /\ \A e \in content' : e[2] \notin D
        /\ \A e \in content \ content' : e[1] \notin D /\ e[2] \in Collections => <<e[1], "DETACH">> \in pending'
    OBVIOUS
  <1> HIDE DEF D
  <1> QED
    BY <1>1, LocksPruned

\* A new association is fresh, and takes nothing away.
LEMMA LocksAttached ==
  ASSUME RefInv, LockInv, NEW c \in Clients, AttachCommit(c)
  PROVE  LockInv'
  <1> DEFINE e == <<txn[c].parent, txn[c].child>>
  <1>0. UNCHANGED rules /\ fresh \subseteq content
    BY DEF RefInv, ContentRefers, AttachCommit
  <1>1. CASE UNCHANGED <<content, fresh, pending>>
    BY <1>0, <1>1 DEF LockInv, FreshIsQueued, SettledIsLocked, StaleIsQueued, Reach, rules
  <1>2. CASE /\ e \notin content /\ content' = content \cup {e} /\ fresh' = fresh \cup {e}
             /\ pending' = pending \cup {<<txn[c].parent, "ATTACH">>}
    <2>1. FreshIsQueued'
      <3>1. e[1] = txn[c].parent
        OBVIOUS
      <3> HIDE DEF e
      <3>2. \A k \in fresh' : <<k[1], "ATTACH">> \in pending'
        BY <1>2, <3>1 DEF LockInv, FreshIsQueued
      <3> QED
        BY <3>2 DEF FreshIsQueued
    <2> HIDE DEF e
    <2>2. content' \ fresh' = content \ fresh
      BY <1>0, <1>2
    <2>3. SettledIsLocked'
      BY <1>0, <2>2 DEF LockInv, SettledIsLocked, Reach, rules
    <2>4. \A x : Reach(content, x) \subseteq Reach(content', x)
      BY <1>2, ReachMonotone
    <2>5. \A h \in held : h[1] \notin overlapped =>
            \/ h[2] \in Reach(content', h[1])
            \/ \E q \in Reach(content', h[1]) \cap Containers : <<q, "DETACH">> \in pending'
      BY <1>2, <2>4 DEF LockInv, StaleIsQueued
    <2>6. StaleIsQueued'
      BY <1>0, <2>5 DEF StaleIsQueued, Reach, rules
    <2> QED
      BY <2>1, <2>3, <2>6 DEF LockInv
  <1> QED
    BY <1>1, <1>2 DEF AttachCommit

\* A new rule locks what it read; if that is not its content any more, it
\* counts as overlapped.
LEMMA LocksCreated ==
  ASSUME RefInv, LockInv, NEW c \in Clients, RuleCommit(c)
  PROVE  LockInv'
  <1> DEFINE d == txn[c].did
             found == txn[c].datasets
  <1>0. UNCHANGED tree /\ RulesRefer /\ TxnTyped
    BY DEF RefInv, TreeInv, RuleCommit
  <1>1. d \in Collections
    BY <1>0, TxnOfKind DEF RuleCommit, NewRules
  <1>2. CASE UNCHANGED rules
    BY <1>0, <1>2 DEF LockInv, FreshIsQueued, SettledIsLocked, StaleIsQueued, Reach, rules, tree
  <1>3. CASE /\ rule' = [rule EXCEPT ![d] = [kind |-> txn[c].kind, locked |-> FALSE]]
             /\ held' = held \cup ({d} \X found)
             /\ overlapped' = IF DatasetsUnder(d) = found THEN overlapped ELSE overlapped \cup {d}
    <2> HIDE DEF d, found
    <2>1. \A x \in Collections \ overlapped' : x \notin overlapped /\ (x = d => DatasetsUnder(d) = found)
      BY <1>3
    <2>2. \A x \in Collections : x # d => rule'[x] = rule[x]
      BY <1>0, <1>3 DEF RulesRefer
    <2>3. \A x : Reach(content \ fresh, x) \subseteq Reach(content, x)
      BY ReachMonotone
    <2>4. ASSUME NEW x \in Collections \ overlapped', rule'[x] # NoRule,
                 NEW y \in Reach(content \ fresh, x) \cap Datasets
          PROVE  <<x, y>> \in held'
      <3>1. CASE x = d
        <4>1. y \in found
          BY <2>1, <2>3, <2>4, <3>1 DEF DatasetsUnder, Below
        <4> QED
          BY <1>3, <3>1, <4>1
      <3>2. CASE x # d
        <4>1. <<x, y>> \in held
          BY <2>1, <2>2, <2>4, <3>2 DEF LockInv, SettledIsLocked
        <4> QED
          BY <1>3, <4>1
      <3> QED
        BY <3>1, <3>2
    <2>5. ASSUME NEW h \in held', h[1] \notin overlapped'
          PROVE  \/ h[2] \in Reach(content, h[1])
                 \/ \E q \in Reach(content, h[1]) \cap Containers : <<q, "DETACH">> \in pending
      <3>1. CASE h \in held
        BY <1>3, <2>5, <3>1 DEF LockInv, StaleIsQueued
      <3>2. CASE h \in {d} \X found
        <4>1. h[1] = d /\ h[2] \in found
          BY <3>2
        <4>2. DatasetsUnder(d) = found
          BY <1>1, <2>1, <2>5, <4>1 DEF d
        <4> QED
          BY <4>1, <4>2 DEF DatasetsUnder, Below
      <3> QED
        BY <1>3, <3>1, <3>2
    <2>6. FreshIsQueued' /\ SettledIsLocked' /\ StaleIsQueued'
      <3>1. FreshIsQueued'
        BY <1>0 DEF LockInv, FreshIsQueued, tree
      <3>2. SettledIsLocked'
        BY <1>0, <2>4 DEF SettledIsLocked, Reach, tree
      <3>3. StaleIsQueued'
        BY <1>0, <2>5 DEF StaleIsQueued, Reach, tree
      <3> QED
        BY <3>1, <3>2, <3>3
    <2> QED
      BY <2>6 DEF LockInv
  <1> QED
    BY <1>2, <1>3 DEF RuleCommit

\* What c reaches over more associations: what it did, and all that is below
\* their ends.
LEMMA ReachMore ==
  ASSUME NEW t, NEW u \in SUBSET t, NEW more \in SUBSET t, NEW c \in Collections,
         NEW x \in Reach(u \cup more, c)
  PROVE  \/ x \in Reach(u, c)
         \/ \E e \in more : e[1] \in Reach(t, c) /\ e[2] \in Collections /\ x \in Reach(t, e[2])
  <1> DEFINE new == {y \in Collections : \E e \in more : /\ e[1] \in Reach(t, c) /\ e[2] \in Collections
                                                         /\ y \in Reach(t, e[2])}
             R == Reach(u, c) \cup new
  <1>1. R \in SUBSET Collections /\ c \in R
    BY ReachClosed, ReachItself
  <1>2. ASSUME NEW y \in R PROVE y \in Reach(t, c)
    <2>1. CASE y \in Reach(u, c)
      BY <2>1, ReachMonotone
    <2>2. CASE y \in new
      <3>1. PICK k \in more : k[1] \in Reach(t, c) /\ k[2] \in Collections /\ y \in Reach(t, k[2])
        BY <2>2
      <3>2. k[2] \in Reach(t, c)
        BY <3>1, ReachClosed DEF Closed
      <3> QED
        BY <3>1, <3>2, ReachTransitive
    <2> QED
      BY <1>2, <2>1, <2>2
  <1>3. ASSUME NEW e \in u, e[1] \in R, e[2] \in Collections PROVE e[2] \in R
    <2>1. CASE e[1] \in Reach(u, c)
      BY <1>3, <2>1, ReachClosed DEF Closed
    <2>2. CASE e[1] \in new
      <3>1. PICK k \in more : k[1] \in Reach(t, c) /\ k[2] \in Collections /\ e[1] \in Reach(t, k[2])
        BY <2>2
      <3>2. e[2] \in Reach(t, k[2])
        BY <1>3, <3>1, ReachClosed DEF Closed
      <3> QED
        BY <1>3, <3>1, <3>2
    <2> QED
      BY <1>3, <2>1, <2>2
  <1>4. ASSUME NEW e \in more, e[1] \in R, e[2] \in Collections PROVE e[2] \in R
    <2>1. e[1] \in Reach(t, c)
      BY <1>2, <1>4
    <2>2. e[2] \in Reach(t, e[2])
      BY <1>4, ReachItself
    <2> QED
      BY <1>4, <2>1, <2>2
  <1> HIDE DEF R
  <1>5. Closed(u \cup more, R)
    BY <1>3, <1>4 DEF Closed
  <1>6. Reach(u \cup more, c) \subseteq R
    BY <1>1, <1>5, ReachLeast
  <1>7. x \in R
    BY <1>6
  <1> QED
    BY <1>7 DEF R

\* The evaluator settles what is fresh and drops what is stale.
LEMMA LocksEvaluated ==
  ASSUME RefInv, LockInv, NEW u \in pending, Evaluate(u)
  PROVE  LockInv'
  <1> DEFINE d == u[1]
  <1>0. /\ UNCHANGED <<status, content, rule, overlapped>> /\ pending' = pending \ {u}
        /\ ContentTyped /\ ContentRefers /\ RulesRefer
        /\ fresh \subseteq content /\ pending \subseteq Collections \X {"ATTACH", "DETACH"}
    BY DEF Evaluate, RefInv, TreeInv, ContentRefers
  <1>1. d \in Collections /\ u = <<d, u[2]>> /\ u[2] \in {"ATTACH", "DETACH"}
    BY <1>0
  <1>2. CASE Exists(d) /\ u[2] = "ATTACH" /\ EvaluateAttach(d)
    <2> DEFINE new == {e \in fresh : e[1] = d}
               brought == UNION {Brought(e) : e \in new}
    <2>1. fresh' = fresh \ new /\ held' = held \cup ({x \in Above(d) : rule[x] # NoRule} \X brought)
      BY <1>2 DEF EvaluateAttach
    <2>2. FreshIsQueued'
      <3>1. \A e \in fresh' : e \in fresh /\ e[1] # d
        BY <2>1
      <3> HIDE DEF d
      <3>2. \A e \in fresh' : <<e[1], "ATTACH">> # u
        BY <1>1, <3>1
      <3>3. \A e \in fresh' : <<e[1], "ATTACH">> \in pending'
        BY <1>0, <3>1, <3>2 DEF LockInv, FreshIsQueued
      <3> QED
        BY <3>3 DEF FreshIsQueued
    <2>3. /\ new \in SUBSET content /\ \A e \in new : e[1] = d
          /\ content' \ fresh' = (content \ fresh) \cup new
      BY <1>0, <2>1
    <2>4. ASSUME NEW c \in Collections \ overlapped, rule[c] # NoRule,
                 NEW x \in Reach(content' \ fresh', c) \cap Datasets
          PROVE  <<c, x>> \in held'
      <3>1. CASE x \in Reach(content \ fresh, c)
        BY <2>1, <2>4, <3>1 DEF LockInv, SettledIsLocked
      <3>2. CASE \E e \in new : /\ d \in Reach(content, c) /\ e[2] \in Collections
                                /\ x \in Reach(content, e[2])
        <4>1. PICK e \in new : /\ d \in Reach(content, c) /\ e[2] \in Collections
                               /\ x \in Reach(content, e[2])
          BY <3>2
        <4>2. x \in Brought(e)
          BY <2>4, <4>1, NamespaceAssumption DEF Brought, DatasetsUnder, Below
        <4>3. x \in brought
          BY <4>2
        <4>4. c \in {y \in Above(d) : rule[y] # NoRule}
          BY <2>4, <4>1 DEF Above, Below
        <4> QED
          BY <2>1, <4>3, <4>4
      <3>3. x \in Reach(content \ fresh, c)
            \/ \E e \in new : d \in Reach(content, c) /\ e[2] \in Collections /\ x \in Reach(content, e[2])
        <4> DEFINE old == content \ fresh
        <4>1. /\ old \in SUBSET content /\ new \in SUBSET content /\ c \in Collections
              /\ x \in Reach(old \cup new, c)
          BY <2>3, <2>4
        <4> HIDE DEF new, old
        <4>2. \/ x \in Reach(old, c)
              \/ \E e \in new : e[1] \in Reach(content, c) /\ e[2] \in Collections /\ x \in Reach(content, e[2])
          BY <4>1, ReachMore
        <4> QED
          BY <2>3, <4>2 DEF old
      <3> QED
        BY <3>1, <3>2, <3>3
    <2>5. ASSUME NEW h \in held', h[1] \notin overlapped
          PROVE  \/ h[2] \in Reach(content, h[1])
                 \/ \E q \in Reach(content, h[1]) \cap Containers : <<q, "DETACH">> \in pending'
      <3>1. CASE h \in held
        <4>1. \A q : <<q, "DETACH">> \in pending => <<q, "DETACH">> \in pending'
          BY <1>0, <1>1, <1>2
        <4> QED
          BY <2>5, <3>1, <4>1 DEF LockInv, StaleIsQueued
      <3>2. CASE h \in {x \in Above(d) : rule[x] # NoRule} \X brought
        <4>1. h[1] \in Above(d) /\ h[2] \in brought
          BY <3>2
        <4>2. PICK e \in new : h[2] \in Brought(e)
          BY <4>1
        <4>3. d \in Reach(content, h[1]) /\ e \in content /\ e[1] = d /\ e[2] \in Dids
          BY <1>0, <4>1, <4>2 DEF Above, Below, ContentTyped
        <4>4. CASE e[2] \in Files
          BY <4>2, <4>3, <4>4 DEF Brought
        <4>5. CASE e[2] \notin Files
          <5>1. e[2] \in Collections /\ h[2] \in Reach(content, e[2])
            BY <4>2, <4>3, <4>5 DEF Brought, DatasetsUnder, Below, Dids
          <5>2. e[2] \in Reach(content, h[1])
            BY <4>3, <5>1, ReachClosed DEF Closed
          <5> QED
            BY <5>1, <5>2, ReachTransitive
        <4> QED
          BY <4>4, <4>5
      <3> QED
        BY <2>1, <3>1, <3>2
    <2>6. SettledIsLocked'
      BY <1>0, <2>4 DEF SettledIsLocked, Reach
    <2>7. StaleIsQueued'
      BY <1>0, <2>5 DEF StaleIsQueued, Reach
    <2> QED
      BY <2>2, <2>6, <2>7 DEF LockInv
  <1>3. CASE Exists(d) /\ u[2] = "DETACH" /\ EvaluateDetach(d)
    <2>1. /\ fresh' = fresh
          /\ held' = {h \in held : d \in Containers /\ h[1] \in Above(d) => h[2] \in DatasetsUnder(h[1])}
      BY <1>3 DEF EvaluateDetach
    <2>2. FreshIsQueued'
      BY <1>0, <1>1, <1>3, <2>1 DEF LockInv, FreshIsQueued
    <2>3. \A x : Reach(content \ fresh, x) \subseteq Reach(content, x)
      BY ReachMonotone
    <2>4. ASSUME NEW c \in Collections \ overlapped, rule[c] # NoRule,
                 NEW x \in Reach(content \ fresh, c) \cap Datasets
          PROVE  <<c, x>> \in held'
      <3>1. <<c, x>> \in held
        BY <2>4 DEF LockInv, SettledIsLocked
      <3>2. x \in DatasetsUnder(c)
        BY <2>3, <2>4 DEF DatasetsUnder, Below
      <3> QED
        BY <2>1, <3>1, <3>2
    <2>5. ASSUME NEW h \in held', h[1] \notin overlapped
          PROVE  \/ h[2] \in Reach(content, h[1])
                 \/ \E q \in Reach(content, h[1]) \cap Containers : <<q, "DETACH">> \in pending'
      <3>1. h \in held /\ (d \in Containers /\ h[1] \in Above(d) => h[2] \in DatasetsUnder(h[1]))
        BY <2>1
      <3>2. h[1] \in Collections
        BY <1>0, <3>1 DEF RulesRefer
      <3>3. CASE d \in Containers /\ h[1] \in Above(d)
        BY <3>1, <3>3 DEF DatasetsUnder, Below
      <3>4. CASE ~(d \in Containers /\ d \in Reach(content, h[1]))
        <4>1. \A q \in Reach(content, h[1]) \cap Containers :
                <<q, "DETACH">> \in pending => <<q, "DETACH">> \in pending'
          BY <1>0, <1>1, <3>4
        <4> QED
          BY <2>5, <3>1, <4>1 DEF LockInv, StaleIsQueued
      <3> QED
        BY <3>2, <3>3, <3>4 DEF Above, Below
    <2>6. SettledIsLocked'
      BY <1>0, <2>1, <2>4 DEF SettledIsLocked, Reach
    <2>7. StaleIsQueued'
      BY <1>0, <2>5 DEF StaleIsQueued, Reach
    <2> QED
      BY <2>2, <2>6, <2>7 DEF LockInv
  <1>4. CASE ~Exists(d) /\ UNCHANGED <<held, fresh>>
    <2>1. \A e \in fresh : e[1] # d
      BY <1>0, <1>4 DEF ContentRefers
    <2>2. FreshIsQueued'
      <3> HIDE DEF d
      <3>1. \A e \in fresh : <<e[1], "ATTACH">> # u
        BY <1>1, <2>1
      <3>2. \A e \in fresh' : <<e[1], "ATTACH">> \in pending'
        BY <1>0, <1>4, <3>1 DEF LockInv, FreshIsQueued
      <3> QED
        BY <3>2 DEF FreshIsQueued
    <2>3. ASSUME NEW h \in held, NEW q \in Reach(content, h[1]) PROVE q # d
      <3>1. h[1] \in Collections /\ Exists(h[1])
        BY <1>0 DEF RulesRefer
      <3>2. Exists(q)
        BY <1>0, <2>3, <3>1, BelowExists DEF Below
      <3> QED
        BY <1>4, <3>2
    <2>4. ASSUME NEW h \in held, h[1] \notin overlapped
          PROVE  \/ h[2] \in Reach(content, h[1])
                 \/ \E q \in Reach(content, h[1]) \cap Containers : <<q, "DETACH">> \in pending'
      <3>1. \A q \in Reach(content, h[1]) : <<q, "DETACH">> \in pending => <<q, "DETACH">> \in pending'
        BY <1>0, <1>1, <2>3
      <3> QED
        BY <2>4, <3>1 DEF LockInv, StaleIsQueued
    <2>5. SettledIsLocked'
      BY <1>0, <1>4 DEF LockInv, SettledIsLocked, Reach
    <2>6. StaleIsQueued'
      BY <1>0, <1>4, <2>4 DEF StaleIsQueued, Reach
    <2> QED
      BY <2>2, <2>5, <2>6 DEF LockInv
  <1> QED
    BY <1>2, <1>3, <1>4 DEF Evaluate

\* Every other step only takes rules, locks and associations away, if anything.
LEMMA LocksStep ==
  ASSUME RefInv, LockInv, [Next]_vars
  PROVE  LockInv'
  <1>0. /\ fresh \subseteq content /\ RulesRefer /\ DidsTyped
        /\ \A c \in Collections : rule[c] \in RuleRows
    BY DEF RefInv, ContentRefers, RulesRefer
  <1>1. ASSUME UNCHANGED <<content, fresh, pending, held, overlapped>>,
               \A c \in Collections : rule'[c] # NoRule => rule[c] # NoRule
        PROVE  LockInv'
    <2> DEFINE S == {}
    <2>1. /\ held' = {h \in held : h[1] \notin S} /\ overlapped' = overlapped \ S
          /\ \A c \in Collections : rule'[c] # NoRule => rule[c] # NoRule /\ c \notin S
      BY <1>1
    <2>2. content' \subseteq content /\ fresh' = fresh \cap content' /\ pending \subseteq pending'
      BY <1>0, <1>1
    <2> HIDE DEF S
    <2> QED
      BY <1>1, <2>1, <2>2, LocksReduced
  <1>2. ASSUME NEW c \in Clients, NEW p \in Collections, NEW d \in Dids, Detach(c, p, d) PROVE LockInv'
    <2>1. /\ content' = content \ {<<p, d>>} /\ fresh' = fresh \ {<<p, d>>}
          /\ pending' = pending \cup {<<p, "DETACH">>}
          /\ UNCHANGED <<rule, held, overlapped>>
      BY <1>2 DEF Detach, rules
    <2>2. fresh' = fresh \cap content'
      BY <1>0, <2>1
    <2>3. \A e \in content \ content' : <<e[1], "DETACH">> \in pending'
      BY <2>1
    <2> DEFINE S == {}
    <2>4. /\ held' = {h \in held : h[1] \notin S} /\ overlapped' = overlapped \ S
          /\ \A x \in Collections : rule'[x] # NoRule => rule[x] # NoRule /\ x \notin S
          /\ content' \subseteq content /\ pending \subseteq pending'
      BY <2>1
    <2> HIDE DEF S
    <2> QED
      BY <2>2, <2>3, <2>4, LocksReduced
  <1>3. ASSUME NEW d \in Collections, CleanRule(d) PROVE LockInv'
    <2> DEFINE S == {d}
    <2>1. /\ UNCHANGED <<content, fresh, pending>>
          /\ held' = {h \in held : h[1] \notin S} /\ overlapped' = overlapped \ S
          /\ \A c \in Collections : rule'[c] # NoRule => rule[c] # NoRule /\ c \notin S
      BY <1>3 DEF CleanRule, RulesDeleted, tree
    <2>2. content' \subseteq content /\ fresh' = fresh \cap content' /\ pending \subseteq pending'
      BY <1>0, <2>1
    <2> HIDE DEF S
    <2> QED
      BY <2>1, <2>2, LocksReduced
  <1>4. ASSUME NEW S \in Chunks, DeleteChunk(S) PROVE LockInv'
    <2>1. CASE RolledBack
      BY <1>1, <2>1 DEF RolledBack, tree, rules
    <2>2. CASE LargeRulesExpire(S)
      <3> DEFINE large == {d \in S : Big(d)}
                 others == (S \cap Collections) \ large
      <3>1. /\ UNCHANGED <<content, fresh, pending>>
            /\ held' = {h \in held : h[1] \notin others} /\ overlapped' = overlapped \ others
        BY <2>2 DEF LargeRulesExpire, tree
      <3>2. ASSUME NEW c \in Collections, rule'[c] # NoRule PROVE rule[c] # NoRule /\ c \notin others
        <4>1. CASE c \in large
          BY <4>1 DEF Big, NoRule
        <4>2. CASE c \notin large
          BY <2>2, <3>2, <4>2 DEF LargeRulesExpire
        <4> QED
          BY <4>1, <4>2
      <3> HIDE DEF others
      <3>3. content' \subseteq content /\ fresh' = fresh \cap content' /\ pending \subseteq pending'
        BY <1>0, <3>1
      <3> QED
        BY <3>1, <3>2, <3>3, LocksReduced
    <2>3. CASE Emptied(S)
      <3>1. /\ content' = {e \in content : e[1] \notin S /\ e[2] \notin S}
            /\ fresh' = fresh \cap content'
            /\ pending' = pending \cup {<<e[1], "DETACH">> : e \in Parents(S)}
            /\ held' = {h \in held : h[1] \notin S} /\ overlapped' = overlapped \ S
            /\ \A c \in Collections : rule'[c] # NoRule => rule[c] # NoRule /\ c \notin S
        BY <2>3 DEF Emptied, RulesDeleted
      <3>2. ASSUME NEW e \in content \ content', e[1] \notin S PROVE <<e[1], "DETACH">> \in pending'
        <4>1. e \in Parents(S)
          BY <3>1, <3>2 DEF Parents
        <4> QED
          BY <3>1, <4>1
      <3>3. content' \subseteq content /\ pending \subseteq pending' /\ \A e \in content' : e[2] \notin S
        BY <3>1
      <3> QED
        BY <3>1, <3>2, <3>3, LocksPruned
    <2> QED
      BY <1>4, <2>1, <2>2, <2>3 DEF DeleteChunk, DeleteDids
  <1>5. ASSUME NEW c \in Clients, NEW d \in Collections, LockRule(c, d) PROVE LockInv'
    <2>1. UNCHANGED <<content, fresh, pending, held, overlapped>>
      BY <1>5 DEF LockRule, tree
    <2>2. \A x \in Collections : rule'[x] # NoRule => rule[x] # NoRule
      BY <1>0, <1>5 DEF LockRule, RulesRefer
    <2> QED
      BY <1>1, <2>1, <2>2
  <1>6. CASE \/ \E c \in Clients, d \in Collections : AddDid(c, d) \/ SetStatus(c, d) \/ Resurrect(c, d)
             \/ \E c \in Clients, d \in Dids, e \in {"never", "later"} : SetLifetime(c, d, e)
             \/ \E d \in Dids : Expire(d)
             \/ ListExpired \/ PauseEnds
             \/ \E S \in Chunks : Busy(S)
             \/ \E c \in Clients, p \in Collections, d \in Dids : AttachRead(c, p, d)
             \/ \E c \in Clients, d \in Collections, kind \in Kinds : RuleRead(c, d, kind)
             \/ UNCHANGED vars
    <2>1. UNCHANGED <<content, fresh, pending, rule, held, overlapped>>
      BY <1>6 DEF AddDid, SetStatus, Resurrect, SetLifetime, Expire, ListExpired, PauseEnds, Busy,
                  AttachRead, RuleRead, vars, tree, rules
    <2> QED
      BY <1>1, <2>1
  <1> QED
    BY <1>2, <1>3, <1>4, <1>5, <1>6, NextCases, LocksAttached, LocksCreated, LocksEvaluated

\* Once the evaluator is done, every rule locks exactly the datasets below its
\* DID, at any depth, whoever attached or detached what in between, if its
\* content did not change while it was created (__evaluate_did_attach,
\* __evaluate_did_detach, delete_dids).
THEOREM LocksFollow == Spec => []LocksFollowContent
  <1>1. Init => LockInv
    BY DEF Init, LockInv, FreshIsQueued, SettledIsLocked, StaleIsQueued
  <1>2. RefInv /\ LockInv /\ [Next]_vars => LockInv'
    BY LocksStep
  <1>3. RefInv /\ LockInv => LocksFollowContent
    <2> SUFFICES ASSUME RefInv, LockInv, pending = {}, NEW c \in Collections \ overlapped, rule[c] # NoRule
                 PROVE  {h[2] : h \in {x \in held : x[1] = c}} = DatasetsUnder(c)
      BY DEF LocksFollowContent
    <2>1. fresh = {} /\ content \ fresh = content
      BY DEF LockInv, FreshIsQueued
    <2>2. ASSUME NEW x \in DatasetsUnder(c) PROVE <<c, x>> \in held
      BY <2>1, <2>2 DEF LockInv, SettledIsLocked, DatasetsUnder, Below
    <2>3. ASSUME NEW h \in held, h[1] = c PROVE h[2] \in DatasetsUnder(c)
      <3>1. h[2] \in Datasets
        BY DEF RefInv, RulesRefer
      <3>2. h[2] \in Reach(content, c)
        BY <2>3 DEF LockInv, StaleIsQueued
      <3> QED
        BY <3>1, <3>2 DEF DatasetsUnder, Below
    <2>4. ASSUME NEW x \in DatasetsUnder(c) PROVE x \in {h[2] : h \in {k \in held : k[1] = c}}
      <3>1. <<c, x>> \in {k \in held : k[1] = c} /\ <<c, x>>[2] = x
        BY <2>2, <2>4
      <3> QED
        BY <3>1
    <2> QED
      BY <2>3, <2>4
  <1> QED
    BY <1>1, <1>2, <1>3, RefInvInvariant, PTL DEF Spec

=============================================================================
