------------------------------ MODULE Namespace ------------------------------
(***************************************************************************)
(* The tree of data identifiers and its end: collections get and lose      *)
(* content (core/did.py), rules lock the datasets below them, DIDs expire  *)
(* and the undertaker erases them (daemons/undertaker/undertaker.py) while *)
(* clients, judge-evaluator and judge-cleaner go on working.               *)
(*                                                                         *)
(* A DID has at most one rule; a rule finds its RSEs, so that it holds a   *)
(* dataset lock on every dataset below its DID.  The sizes of a collection *)
(* are left out.  There is one undertaker; it, the evaluator and the       *)
(* cleaner do each of their transactions in one step.                      *)
(***************************************************************************)
EXTENDS Naturals, FiniteSets

CONSTANTS
  Containers, Datasets, Files,
  Clients,
  ArchiveDids, \* the option deletion/archive_dids
  ChunkSize,   \* DIDs that the undertaker deletes in one transaction
  Trees,       \* contents to start from, whose re-evaluations are done
  Kinds,       \* rules that clients create: "small", "big"
  MaxOps       \* bound: operations of the clients and busy row locks, see Call

Collections == Containers \cup Datasets
Dids == Collections \cup Files

\* The collections that can be reached from d over the associations of t.
Reach(t, d) ==
  {x \in Collections : \A S \in SUBSET Collections :
     (d \in S /\ \A e \in t : e[1] \in S /\ e[2] \in Collections => e[2] \in S) => x \in S}

ASSUME NamespaceAssumption ==
  /\ Containers \cap Datasets = {} /\ Collections \cap Files = {}
  /\ IsFiniteSet(Dids)
  /\ ArchiveDids \in BOOLEAN
  /\ IsFiniteSet(Clients) /\ ChunkSize \in Nat \ {0} /\ MaxOps \in Nat
  /\ Kinds \subseteq {"small", "big"}
  /\ \A t \in Trees : /\ t \subseteq (Containers \X Collections) \cup (Datasets \X Files)
                      /\ \A e \in t : e[2] \in Collections => e[1] \notin Reach(t, e[2])

VARIABLES
  status,      \* of each collection: "absent", "open" or "closed"
  expiry,      \* expired_at of each DID: "never", "later" or "past"
  content,     \* pairs of a collection and its child
  fresh,       \* the pairs of content that are flagged for rule evaluation
  pending,     \* updated_dids: pairs of a collection and an action
  rule,        \* the rule of each collection, or NoRule
  held,        \* dataset_locks: pairs of the collection of the rule and a dataset
  deleted,     \* deleted_dids: the status with which a collection was archived
  txn,         \* the open transaction of each client
  todo,        \* the expired DIDs that the undertaker listed and did not try yet
  paused,      \* paused_dids of the undertaker
  overlapped,  \* rules that were created while the content of their DID changed
  crossed,     \* history: two attachments have been under way at the same time
  ops          \* operations so far, as Call counts them

tree == <<status, content, fresh, pending>>
rules == <<rule, held, overlapped>>
undertaker == <<todo, paused>>
vars == <<tree, rules, undertaker, expiry, deleted, txn, crossed, ops>>

NoRule == [kind |-> "none", locked |-> FALSE]
Idle == [at |-> "idle"]

Exists(d) == d \in Collections => status[d] # "absent"

\* The collections at and below d (list_content, list_child_datasets and list_files
\* follow the associations down), and those at and above it
\* (list_all_parent_dids).
Below(d) == Reach(content, d)
Above(d) == {x \in Collections : d \in Below(x)}
DatasetsUnder(d) == Below(d) \cap Datasets

\* Both ends of an association fit: files in datasets, collections in
\* containers.
Fits(p, d) == IF p \in Datasets THEN d \in Files ELSE d \in Collections

TypeOK ==
  /\ status \in [Collections -> {"absent", "open", "closed"}]
  /\ expiry \in [Dids -> {"never", "later", "past"}]
  /\ \A e \in content : Exists(e[1]) /\ Exists(e[2]) /\ Fits(e[1], e[2])
  /\ fresh \subseteq content
  /\ pending \subseteq Collections \X {"ATTACH", "DETACH"}
  /\ rule \in [Collections -> {NoRule} \cup [kind : {"small", "big", "expiring"}, locked : BOOLEAN]]
  /\ \A c \in Collections : rule[c] # NoRule => Exists(c)
  /\ held \subseteq {c \in Collections : rule[c] # NoRule} \X {d \in Datasets : Exists(d)}
  /\ deleted \in [Collections -> {"absent", "open", "closed"}]
  /\ \A c \in Clients : txn[c].at \in {"idle", "attach", "rule"}
  /\ todo \subseteq Dids /\ paused \subseteq Dids
  /\ overlapped \subseteq Collections /\ crossed \in BOOLEAN
  /\ ops \in 0 .. MaxOps

Init ==
  /\ status = [c \in Collections |-> "open"]
  /\ expiry = [d \in Dids |-> "never"]
  /\ content \in Trees /\ fresh = {} /\ pending = {}
  /\ rule = [c \in Collections |-> NoRule] /\ held = {}
  /\ deleted = [c \in Collections |-> "absent"]
  /\ txn = [c \in Clients |-> Idle]
  /\ todo = {} /\ paused = {} /\ overlapped = {} /\ crossed = FALSE
  /\ ops = 0

\* An operation counts once, and once more for every transaction it overlaps.
Call ==
  /\ ops' = ops + 1 + Cardinality({c \in Clients : txn[c] # Idle})
  /\ ops' <= MaxOps
Free(c) == txn[c] = Idle

(***************************************************************************)
(* The clients.                                                            *)
(***************************************************************************)
\* add_dids: the primary key refuses a name that is in use; the name of an
\* erased DID may be used again.
AddDid(c, d) ==
  /\ Free(c) /\ Call
  /\ status[d] = "absent"
  /\ status' = [status EXCEPT ![d] = "open"]
  /\ expiry' = [expiry EXCEPT ![d] = "never"]
  /\ UNCHANGED <<content, fresh, pending, rules, undertaker, deleted, txn, crossed>>

\* Mutant: the parents of the child are looked at, not those of the parent.
Circular_OfChild(p, d) == d \in Containers /\ p \in Above(d) \ {d}

\* What __add_collections_to_container refuses to add to p.
Circular(p, d) == d \in Containers /\ d \in Above(p) \ {p}

\* attach_dids reads the parent, the child and all the parents of the parent.
AttachRead(c, p, d) ==
  /\ Free(c) /\ Call
  /\ status[p] = "open" /\ Exists(d) /\ Fits(p, d)
  /\ p # d /\ ~Circular(p, d)
  /\ txn' = [txn EXCEPT ![c] = [at |-> "attach", parent |-> p, child |-> d]]
  /\ crossed' = (crossed \/ \E k \in Clients : txn[k].at = "attach")
  /\ UNCHANGED <<tree, rules, undertaker, expiry, deleted>>

\* The association is refused by the foreign keys when one of the two is gone,
\* and by the primary key when it exists.
AttachCommit(c) ==
  LET p == txn[c].parent
      d == txn[c].child
  IN /\ txn[c].at = "attach"
     /\ txn' = [txn EXCEPT ![c] = Idle]
     /\ \/ /\ Exists(p) /\ Exists(d) /\ <<p, d>> \notin content
           /\ content' = content \cup {<<p, d>>}
           /\ fresh' = fresh \cup {<<p, d>>}
           /\ pending' = pending \cup {<<p, "ATTACH">>}
        \/ /\ ~Exists(p) \/ ~Exists(d) \/ <<p, d>> \in content
           /\ UNCHANGED <<content, fresh, pending>>
     /\ UNCHANGED <<status, rules, undertaker, expiry, deleted, ops, crossed>>

\* detach_dids, which does not look at the status of the collection.
Detach(c, p, d) ==
  /\ Free(c) /\ Call
  /\ <<p, d>> \in content
  /\ content' = content \ {<<p, d>>}
  /\ fresh' = fresh \ {<<p, d>>}
  /\ pending' = pending \cup {<<p, "DETACH">>}
  /\ UNCHANGED <<status, rules, undertaker, expiry, deleted, txn, crossed>>

\* set_status.
SetStatus(c, d) ==
  /\ Free(c) /\ Call
  /\ status[d] # "absent"
  /\ status' = [status EXCEPT ![d] = IF @ = "open" THEN "closed" ELSE "open"]
  /\ UNCHANGED <<content, fresh, pending, rules, undertaker, expiry, deleted, txn, crossed>>

\* set_metadata with the key lifetime.
SetLifetime(c, d, e) ==
  /\ Free(c) /\ Call
  /\ Exists(d)
  /\ e \in {"never", "later"} /\ expiry[d] # e
  /\ expiry' = [expiry EXCEPT ![d] = e]
  /\ UNCHANGED <<tree, rules, undertaker, deleted, txn, crossed>>

\* add_rule resolves the DID to its datasets and creates the locks.
RuleRead(c, d, kind) ==
  /\ Free(c) /\ Call
  /\ Exists(d) /\ rule[d] = NoRule
  /\ txn' = [txn EXCEPT ![c] = [at |-> "rule", did |-> d, kind |-> kind, datasets |-> DatasetsUnder(d)]]
  /\ UNCHANGED <<tree, rules, undertaker, expiry, deleted, crossed>>

\* The foreign keys refuse the rule when the DID or one of the datasets is
\* gone.
RuleCommit(c) ==
  LET d == txn[c].did
      found == txn[c].datasets
      possible == Exists(d) /\ rule[d] = NoRule /\ \A x \in found : Exists(x)
  IN /\ txn[c].at = "rule"
     /\ txn' = [txn EXCEPT ![c] = Idle]
     /\ \/ /\ possible
           /\ rule' = [rule EXCEPT ![d] = [kind |-> txn[c].kind, locked |-> FALSE]]
           /\ held' = held \cup ({d} \X found)
           /\ overlapped' = IF DatasetsUnder(d) = found THEN overlapped ELSE overlapped \cup {d}
        \/ ~possible /\ UNCHANGED rules
     /\ UNCHANGED <<tree, undertaker, expiry, deleted, ops, crossed>>

\* update_rule with the option locked.
LockRule(c, d) ==
  /\ Free(c) /\ Call
  /\ rule[d] # NoRule
  /\ rule' = [rule EXCEPT ![d].locked = ~@]
  /\ UNCHANGED <<tree, held, overlapped, undertaker, expiry, deleted, txn, crossed>>

\* What delete_rule does to the rules of a set of DIDs: it deletes their locks.
RulesDeleted(S) ==
  /\ rule' = [d \in Collections |-> IF d \in S THEN NoRule ELSE rule[d]]
  /\ held' = {h \in held : h[1] \notin S}
  /\ overlapped' = overlapped \ S

\* resurrect: out of the archive, without content, or before the undertaker
\* comes.  It fails when the name is in use again.
Resurrect(c, d) ==
  /\ Free(c) /\ Call
  /\ \/ /\ deleted[d] # "absent" /\ status[d] = "absent"
        /\ status' = [status EXCEPT ![d] = deleted[d]]
        /\ deleted' = [deleted EXCEPT ![d] = "absent"]
     \/ /\ deleted[d] = "absent" /\ Exists(d) /\ expiry[d] = "past"
        /\ UNCHANGED <<status, deleted>>
  /\ expiry' = [expiry EXCEPT ![d] = "never"]
  /\ UNCHANGED <<content, fresh, pending, rules, undertaker, txn, crossed>>

\* External: time passes.
Expire(d) ==
  /\ expiry[d] = "later"
  /\ expiry' = [expiry EXCEPT ![d] = "past"]
  /\ UNCHANGED <<tree, rules, undertaker, deleted, txn, ops, crossed>>

(***************************************************************************)
(* The judge.                                                              *)
(***************************************************************************)
\* The datasets that a new association brings under the rules above it.
Brought(e) == IF e[2] \in Files THEN {e[1]} ELSE DatasetsUnder(e[2])

\* __evaluate_did_attach, for the rules of the DID and of all DIDs above it.
EvaluateAttach(d) ==
  LET new == {e \in fresh : e[1] = d}
  IN /\ held' = held \cup ({x \in Above(d) : rule[x] # NoRule} \X UNION {Brought(e) : e \in new})
     /\ fresh' = fresh \ new

\* __evaluate_did_detach: dataset locks go only when the DID is a container.
EvaluateDetach(d) ==
  /\ held' = {h \in held : d \in Containers /\ h[1] \in Above(d) => h[2] \in DatasetsUnder(h[1])}
  /\ fresh' = fresh

\* judge-evaluator takes an entry of updated_dids.
Evaluate(u) ==
  /\ u \in pending
  /\ pending' = pending \ {u}
  /\ \/ Exists(u[1]) /\ u[2] = "ATTACH" /\ EvaluateAttach(u[1])
     \/ Exists(u[1]) /\ u[2] = "DETACH" /\ EvaluateDetach(u[1])
     \/ ~Exists(u[1]) /\ UNCHANGED <<held, fresh>>
  /\ UNCHANGED <<status, content, rule, overlapped, undertaker, expiry, deleted, txn, ops, crossed>>

\* judge-cleaner deletes an expired rule that is not locked.
CleanRule(d) ==
  /\ rule[d].kind = "expiring" /\ ~rule[d].locked
  /\ RulesDeleted({d})
  /\ UNCHANGED <<tree, undertaker, expiry, deleted, txn, ops, crossed>>

(***************************************************************************)
(* The undertaker.                                                         *)
(***************************************************************************)
Locked(d) == d \in Collections /\ rule[d].locked
Big(d) == d \in Collections /\ rule[d].kind \in {"big", "expiring"}

\* list_expired_dids, without the paused ones.
ListExpired ==
  /\ todo = {}
  /\ todo' = {d \in Dids : Exists(d) /\ expiry[d] = "past" /\ ~Locked(d)} \ paused
  /\ todo' # {}
  /\ UNCHANGED <<tree, rules, paused, expiry, deleted, txn, ops, crossed>>

\* The first rule that is locked raises UnsupportedOperation, and the
\* transaction of the whole chunk is rolled back.
RolledBack == UNCHANGED <<tree, rules, expiry, deleted>>

\* Large rules expire in an hour and their DIDs in a day; the other rules of
\* the chunk are deleted, the DIDs and their content are not.
LargeRulesExpire(S) ==
  LET large == {d \in S : Big(d)}
      others == (S \cap Collections) \ large
  IN /\ rule' = [d \in Collections |->
                   IF d \in large THEN [rule[d] EXCEPT !.kind = "expiring"]
                   ELSE IF d \in others THEN NoRule ELSE rule[d]]
     /\ held' = {h \in held : h[1] \notin others}
     /\ overlapped' = overlapped \ others
     /\ expiry' = [d \in Dids |-> IF d \in large THEN "later" ELSE expiry[d]]
     /\ UNCHANGED <<tree, deleted>>

Parents(S) == {e \in content : e[2] \in S}

\* Mutant: the parents are not queued for evaluation.
Emptied_NoEvaluation(S) ==
  /\ RulesDeleted(S)
  /\ content' = {e \in content : e[1] \notin S /\ e[2] \notin S}
  /\ fresh' = fresh \cap content'
  /\ pending' = pending

\* The rules go, the DIDs are detached from their parents and lose their
\* content.
Emptied(S) ==
  /\ RulesDeleted(S)
  /\ content' = {e \in content : e[1] \notin S /\ e[2] \notin S}
  /\ fresh' = fresh \cap content'
  /\ pending' = pending \cup {<<e[1], "DETACH">> : e \in Parents(S)}

\* A dataset lock of another rule, or the archived DID of the same name, is in
\* the way of the deletion.
Blocked(S) ==
  \/ \E h \in held : h[2] \in S /\ h[1] \notin S
  \/ ArchiveDids /\ \E d \in S \cap Collections : Exists(d) /\ deleted[d] # "absent"

Erased(S) ==
  /\ status' = [d \in Collections |-> IF d \in S THEN "absent" ELSE status[d]]
  /\ deleted' = [d \in Collections |-> IF ArchiveDids /\ d \in S /\ Exists(d) THEN status[d] ELSE deleted[d]]
  /\ expiry' = [d \in Dids |-> IF d \in S THEN "never" ELSE expiry[d]]

\* Mutant: the locks of rules are ignored.
DeleteDids_IgnoresLocks(S) ==
  \/ /\ \E d \in S : Big(d)
     /\ LargeRulesExpire(S)
  \/ /\ ~\E d \in S : Big(d)
     /\ Emptied(S)
     /\ \/ Parents(S) # {} /\ UNCHANGED <<status, expiry, deleted>>
        \/ Parents(S) = {} /\ ~Blocked(S) /\ Erased(S)
  \/ /\ ~\E d \in S : Big(d)
     /\ Parents(S) = {} /\ Blocked(S)
     /\ RolledBack

\* Mutant: the DIDs are deleted at once, also those that were detached.
DeleteDids_AtOnce(S) ==
  \/ /\ \E d \in S : Locked(d)
     /\ RolledBack
  \/ /\ ~\E d \in S : Locked(d)
     /\ \E d \in S : Big(d)
     /\ LargeRulesExpire(S)
  \/ /\ ~\E d \in S : Locked(d) \/ Big(d)
     /\ ~Blocked(S)
     /\ Emptied(S)
     /\ Erased(S)
  \/ /\ ~\E d \in S : Locked(d) \/ Big(d)
     /\ Blocked(S)
     /\ RolledBack

\* delete_dids with expire_rules.
DeleteDids(S) ==
  \/ /\ \E d \in S : Locked(d)
     /\ RolledBack
  \/ /\ ~\E d \in S : Locked(d)
     /\ \E d \in S : Big(d)
     /\ LargeRulesExpire(S)
  \/ /\ ~\E d \in S : Locked(d) \/ Big(d)
     /\ Parents(S) # {}
     /\ Emptied(S)
     /\ UNCHANGED <<status, expiry, deleted>>
  \/ /\ ~\E d \in S : Locked(d) \/ Big(d)
     /\ Parents(S) = {} /\ ~Blocked(S)
     /\ Emptied(S)
     /\ Erased(S)
  \/ /\ ~\E d \in S : Locked(d) \/ Big(d)
     /\ Parents(S) = {} /\ Blocked(S)
     /\ RolledBack

Chunks ==
  {S \in SUBSET todo :
     /\ S # {} /\ Cardinality(S) <= ChunkSize
     /\ Cardinality(S) < ChunkSize => S = todo}

DeleteChunk(S) ==
  /\ todo' = todo \ S
  /\ DeleteDids(S)
  /\ UNCHANGED <<paused, txn, ops, crossed>>

\* A row is locked by another transaction: the chunk waits.
Busy(S) ==
  /\ Call
  /\ \E d \in S \cap Collections : rule[d] # NoRule
  /\ todo' = todo \ S
  /\ paused' = paused \cup S
  /\ UNCHANGED <<tree, rules, expiry, deleted, txn, crossed>>

PauseEnds ==
  /\ paused # {}
  /\ paused' = {}
  /\ UNCHANGED <<tree, rules, todo, expiry, deleted, txn, ops, crossed>>

Client(c) ==
  \/ \E d \in Collections : AddDid(c, d) \/ SetStatus(c, d) \/ LockRule(c, d) \/ Resurrect(c, d)
  \/ \E p \in Collections, d \in Dids : AttachRead(c, p, d) \/ Detach(c, p, d)
  \/ \E d \in Dids, e \in {"never", "later"} : SetLifetime(c, d, e)
  \/ \E d \in Collections, kind \in Kinds : RuleRead(c, d, kind)

Commit(c) == AttachCommit(c) \/ RuleCommit(c)
Undertake == ListExpired \/ \E S \in Chunks : DeleteChunk(S)

Next ==
  \/ \E c \in Clients : Client(c) \/ Commit(c)
  \/ \E d \in Dids : Expire(d)
  \/ \E u \in pending : Evaluate(u)
  \/ \E d \in Collections : CleanRule(d)
  \/ Undertake
  \/ \E S \in Chunks : Busy(S)
  \/ PauseEnds

Spec == Init /\ [][Next]_vars

\* The daemons run in a loop, transactions end, and time passes.
FairSpec ==
  /\ Spec
  /\ \A c \in Clients : WF_vars(Commit(c))
  /\ \A d \in Dids : WF_vars(Expire(d))
  /\ \A u \in Collections \X {"ATTACH", "DETACH"} : WF_vars(Evaluate(u))
  /\ \A d \in Collections : WF_vars(CleanRule(d))
  /\ WF_vars(Undertake)
  /\ WF_vars(PauseEnds)

(***************************************************************************)
(* Properties.                                                             *)
(***************************************************************************)
\* No collection is below itself, whatever is attached, detached, erased and
\* created again ("Circular attachment detected", __add_collections_to_container):
\* a rule, a listing or the evaluator that walked such a tree would not end.
\* Two attachments under way at the same time do not see each other.
Acyclic ==
  ~crossed => \A e \in content : e[2] \in Collections => e[1] \notin Below(e[2])

\* When all re-evaluations are done, a rule locks exactly the datasets below
\* its DID: attachments and detachments at any depth, by clients or by the
\* undertaker, reach the rules of all collections above.
LocksFollowContent ==
  pending = {} =>
    \A c \in Collections \ overlapped : rule[c] # NoRule =>
      {h[2] : h \in {x \in held : x[1] = c}} = DatasetsUnder(c)

\* The undertaker leaves a DID whose rule is locked alone, also when the rule
\* was locked after the undertaker had listed the DID: its rule, its content
\* and the DID stay, except for content that itself is erased.
LockedKept ==
  [][\A d \in Collections :
       Locked(d) /\ (todo' # todo) =>
         /\ Exists(d)' /\ Locked(d)'
         /\ \A e \in content : e[1] = d /\ e[2] \notin todo => e \in content']_vars

\* An expired DID is erased in the end, if it does not get a new lifetime, no
\* locked rule keeps it, its name is not already in the archive, and no rule
\* was created on top of a changing collection.
ExpiredErased ==
  \A d \in Collections :
    (Exists(d) /\ expiry[d] = "past")
      ~> (~Exists(d) \/ expiry[d] = "never" \/ (\E x \in Collections : Locked(x))
          \/ overlapped # {} \/ \E x \in Collections : Exists(x) /\ deleted[x] # "absent")

=============================================================================
