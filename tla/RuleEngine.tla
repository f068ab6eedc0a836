----------------------------- MODULE RuleEngine -----------------------------
(***************************************************************************)
(* The replication-rule engine: rules, the locks they hold on file         *)
(* replicas, the replicas, the transfer requests that make a replica real, *)
(* and the daemons that change these tables (judge, conveyor finisher,     *)
(* necromancer, minos, reaper).                                            *)
(*                                                                         *)
(* One action is one database transaction.  All rules are placed on one    *)
(* dataset whose content changes.  A slot <<f, x>> is the place where file *)
(* f is or may be stored on RSE x; it carries at most one replica row, one *)
(* lock per rule and one transfer request.                                 *)
(*                                                                         *)
(* Abstracted: which RSE the weighted draw of the RSE selector returns is  *)
(* an arbitrary choice among RSEs; whether a source and a writable         *)
(* destination exist is an arbitrary choice (ready); RSEs are plain disk   *)
(* endpoints (no staging area, staging_required false); retries inside the *)
(* conveyor are invisible, so a request is pending until it is finished.   *)
(* An account limit or target shortage found in the middle of a file list  *)
(* is modelled as found at its first file.                                 *)
(***************************************************************************)
EXTENDS Integers, FiniteSets

CONSTANTS
  Rules,      \* ids of the rules that may be created (never reused)
  Files,      \* files
  RSEs,       \* storage elements; every rule's expression resolves to them
  Origin,     \* Origin[f]: the RSE on which f was uploaded
  Grouping,   \* Grouping[r] \in {"NONE", "DATASET"}
  MaxCopies,  \* a rule asks for 1 .. MaxCopies copies
  MaxEvents   \* bounds on the environment events of each kind: a behaviour keeps to one of them

EventKinds == {"bad", "temporary", "edit", "update"}

ASSUME RuleEngineAssumption ==
  /\ IsFiniteSet(Rules) /\ IsFiniteSet(Files) /\ IsFiniteSet(RSEs)
  /\ Origin \in [Files -> RSEs]
  /\ Grouping \in [Rules -> {"NONE", "DATASET"}]
  /\ MaxCopies \in Nat
  /\ MaxEvents \subseteq [EventKinds -> Nat]

VARIABLES
  state,      \* state[r]: RuleState, "NEW" before add_rule, "DELETED" after delete_rule
  copies,     \* copies[r]
  locks_cnt,  \* locks_cnt[r][s]: locks_ok_cnt, locks_replicating_cnt, locks_stuck_cnt
  lock,       \* lock[r][p]: state of the ReplicaLock of r on slot p, or "NONE"
  replica,    \* replica[p]: state of the RSEFileAssociation row, or "ABSENT"
  lock_cnt,   \* lock_cnt[p]: the lock_cnt column of that row
  tombstone,  \* tombstone[p]: the row has a tombstone in the past
  request,    \* slots with a pending transfer request
  bad,        \* slots with a BadReplica row in status BAD
  temporary,  \* slots with a BadReplica row in status TEMPORARY_UNAVAILABLE
  lost,       \* files whose DID availability is LOST
  dids,       \* files whose DID exists
  content,    \* files attached to the dataset
  flagged,    \* content rows with rule_evaluation set
  updated,    \* pending UpdatedDID rows of the dataset
  injecting,  \* rule ids in the batch of a judge-injector
  repairing,  \* rule ids in the batch of a judge-repairer
  necro,      \* the necromancer's current replica and decision
  reaping,    \* slots in the batch of a reaper
  events,     \* environment events so far
  stored,     \* slots on whose storage the file really is, intact
  revived,    \* history: slots whose row was rewritten while BEING_DELETED
  faked,      \* history: slots minos made readable although they were not
  skipped,    \* history: rules settled although a file was never locked
  miscounted  \* history: rules injected late, on counters that did not match

ruleVars    == <<state, copies, locks_cnt, lock>>
replicaVars == <<replica, lock_cnt, tombstone, request>>
badVars     == <<bad, temporary, lost>>
didVars     == <<dids, content, flagged, updated>>
workVars    == <<injecting, repairing, necro, reaping>>
ghostVars   == <<stored, revived, faked, skipped, miscounted>>
vars == <<ruleVars, replicaVars, badVars, didVars, workVars, events, ghostVars>>

Slots == Files \X RSEs
LockStates == {"OK", "REPLICATING", "STUCK"}
RuleStates == {"NEW", "WAITING_APPROVAL", "INJECT", "REPLICATING", "OK",
               "STUCK", "SUSPENDED", "DELETED"}
ReplicaStates == {"ABSENT", "AVAILABLE", "UNAVAILABLE", "COPYING", "BAD",
                  "BEING_DELETED", "TEMPORARY_UNAVAILABLE"}
Readable == {"AVAILABLE", "TEMPORARY_UNAVAILABLE"}

SlotsOf(F) == {p \in Slots : p[1] \in F}
Existing == {r \in Rules : state[r] \notin {"NEW", "DELETED"}}
Holders(p) == {r \in Rules : lock[r][p] # "NONE"}
Held(l, F) == {p \in SlotsOf(F) : l[p] # "NONE"}
InState(l, s) == {p \in Slots : l[p] = s}
NoLock == [p \in Slots |-> "NONE"]
NoLocks == [r \in Rules |-> NoLock]

Exists(p) == replica[p] # "ABSENT"
\* The rows of P are written whatever their state, BEING_DELETED included.
Revive(P) == revived' = revived \cup {p \in P : replica[p] = "BEING_DELETED"}

Happens(kind) ==
  /\ events' = [events EXCEPT ![kind] = @ + 1]
  /\ \E bound \in MaxEvents : \A k \in EventKinds : events'[k] <= bound[k]

(***************************************************************************)
(* Counters of a rule: adding the locks of l, moving one lock between      *)
(* states.                                                                 *)
(***************************************************************************)
AddAll(c, l) == [s \in LockStates |-> c[s] + Cardinality(InState(l, s))]
SubAll(c, l) == [s \in LockStates |-> c[s] - Cardinality(InState(l, s))]
Moved_NoDecrement(c, from, to) == [s \in LockStates |-> c[s] + (IF s = to THEN 1 ELSE 0)]
Moved(c, from, to) ==
  [s \in LockStates |-> c[s] + (IF s = to THEN 1 ELSE 0)
                             - (IF s = from THEN 1 ELSE 0)]
Recount(l) == [s \in LockStates |-> Cardinality(InState(l, s))]

(***************************************************************************)
(* __create_lock_and_replica: the state a new lock takes, and what a set   *)
(* of new locks (new[r][p], "NONE" where there is none) does to the        *)
(* replica rows and the requests.  Only the first lock on a row that is    *)
(* missing or UNAVAILABLE queues a transfer; every other state that is not *)
(* readable is treated as COPYING.                                         *)
(***************************************************************************)
LockAt_CopyingIsThere(s, ready) ==
  IF s \in Readable \cup {"COPYING"} THEN "OK" ELSE IF ready \/ s = "BAD" THEN "REPLICATING" ELSE "STUCK"
LockAt(s, ready) ==
  CASE s \in Readable -> "OK"
    [] s \in {"ABSENT", "UNAVAILABLE"} -> IF ready THEN "REPLICATING" ELSE "STUCK"
    [] OTHER -> "REPLICATING"

Granted(new, p) == {r \in Rules : new[r][p] # "NONE"}
Replicating(new, p) == \E r \in Rules : new[r][p] = "REPLICATING"

WithLocks(L, new) ==
  [r \in Rules |-> [p \in Slots |-> IF new[r][p] # "NONE" THEN new[r][p] ELSE L[r][p]]]
ReplicaAfter(S, new) ==
  [p \in Slots |-> IF Replicating(new, p) THEN "COPYING"
                   ELSE IF Granted(new, p) # {} /\ S[p] = "ABSENT" THEN "UNAVAILABLE"
                   ELSE S[p]]
LockCntAfter_SkipsStuck(C, new) ==
  [p \in Slots |-> C[p] + Cardinality({r \in Granted(new, p) : new[r][p] # "STUCK"})]
LockCntAfter(C, new) == [p \in Slots |-> C[p] + Cardinality(Granted(new, p))]
TombstoneAfter(K, new) == [p \in Slots |-> K[p] /\ Granted(new, p) = {}]
RequestAfter_OnlyNewRows(Q, S, new) == Q \cup {p \in Slots : Replicating(new, p) /\ S[p] = "ABSENT"}
RequestAfter(Q, S, new) ==
  Q \cup {p \in Slots : Replicating(new, p) /\ S[p] \in {"ABSENT", "UNAVAILABLE"}}

(***************************************************************************)
(* RSE selection for rule r with n copies on the files F, given the locks  *)
(* l the rule already holds: a file that has its n locks is skipped; any   *)
(* other file gets n RSEs, of which those already locked are skipped.  A   *)
(* slot whose row is BEING_DELETED is invisible to the selection, and      *)
(* choosing it ends in a duplicate key and a rollback: no step.            *)
(***************************************************************************)
Draws_OneShort(r, n, F) == {[f \in F |-> X] : X \in {Y \in SUBSET RSEs : Cardinality(Y) = n - 1}}
Draws(r, n, F) ==
  LET sets == {X \in SUBSET RSEs : Cardinality(X) = n}
  IN  IF Grouping[r] = "NONE" THEN [F -> sets]
      ELSE {[f \in F |-> X] : X \in sets}
Targets(n, F, l, draw) ==
  {p \in SlotsOf(F) : /\ Cardinality(Held(l, {p[1]})) # n
                      /\ p[2] \in draw[p[1]]
                      /\ l[p] = "NONE"}
LocksOn(T, S, ready) ==
  [p \in Slots |-> IF p \in T THEN LockAt(S[p], p \in ready) ELSE "NONE"]
Choices(r, n, F, l, S) ==
  UNION {{LocksOn(T, S, ready) : ready \in SUBSET {p \in T : S[p] \in {"ABSENT", "UNAVAILABLE"}}} :
         T \in {U \in {Targets(n, F, l, draw) : draw \in Draws(r, n, F)} :
                \A p \in U : S[p] # "BEING_DELETED"}}

\* One choice per rule of R; the others get nothing.
Assignments(R, F) ==
  LET may(r) == IF r \in R THEN Choices(r, copies[r], F, lock[r], replica) ELSE {NoLock}
  IN  {new \in [Rules -> UNION {may(r) : r \in Rules}] : \A r \in Rules : new[r] \in may(r)}

Grant(new) ==
  /\ lock' = WithLocks(lock, new)
  /\ replica' = ReplicaAfter(replica, new)
  /\ lock_cnt' = LockCntAfter(lock_cnt, new)
  /\ tombstone' = TombstoneAfter(tombstone, new)
  /\ request' = RequestAfter(request, replica, new)

(***************************************************************************)
(* __delete_lock_and_update_replica for the locks gone[r] of each rule r.  *)
(* The lock whose removal brings lock_cnt to 0 sets the tombstone; if that *)
(* lock was REPLICATING (the slots of cancel) the row becomes UNAVAILABLE  *)
(* and the request is cancelled.                                           *)
(***************************************************************************)
Removed(gone, p) == {r \in Rules : p \in gone[r]}
ReachesZero(gone, p) ==
  /\ replica[p] # "ABSENT"
  /\ lock_cnt[p] \in 1..Cardinality(Removed(gone, p))
Cancellable(gone) ==
  LET zero == {p \in Slots : ReachesZero(gone, p)}
      may  == {p \in zero : \E r \in Removed(gone, p) : lock[r][p] = "REPLICATING"}
      must == {p \in zero : \A r \in Removed(gone, p) : lock[r][p] = "REPLICATING"}
  IN  {C \in SUBSET may : must \subseteq C}
Drop(gone, cancel) ==
  /\ lock' = [r \in Rules |-> [p \in Slots |-> IF p \in gone[r] THEN "NONE" ELSE lock[r][p]]]
  /\ lock_cnt' = [p \in Slots |-> IF replica[p] = "ABSENT" THEN lock_cnt[p]
                                  ELSE lock_cnt[p] - Cardinality(Removed(gone, p))]
  /\ tombstone' = [p \in Slots |-> tombstone[p] \/ ReachesZero(gone, p)]
  /\ replica' = [p \in Slots |-> IF p \in cancel THEN "UNAVAILABLE" ELSE replica[p]]
  /\ request' = request \ cancel

-----------------------------------------------------------------------------
(***************************************************************************)
(* Creation, approval, injection, deletion.                                *)
(***************************************************************************)
AppliedState(c) ==
  IF c["STUCK"] > 0 THEN "STUCK" ELSE IF c["REPLICATING"] = 0 THEN "OK" ELSE "REPLICATING"

Apply(r, n) ==
  \E m \in Choices(r, n, content, lock[r], replica) :
    /\ Grant([NoLocks EXCEPT ![r] = m])
    /\ locks_cnt' = [locks_cnt EXCEPT ![r] = AddAll(@, m)]
    /\ state' = [state EXCEPT ![r] = AppliedState(AddAll(locks_cnt[r], m))]

AddRule(r, n) ==
  /\ state[r] = "NEW"
  /\ copies' = [copies EXCEPT ![r] = n]
  /\ \/ Apply(r, n)
     \/ /\ state' = [state EXCEPT ![r] = "WAITING_APPROVAL"]
        /\ UNCHANGED <<locks_cnt, lock, replicaVars>>
     \/ /\ state' = [state EXCEPT ![r] = "INJECT"]
        /\ UNCHANGED <<locks_cnt, lock, replicaVars>>
  /\ UNCHANGED <<badVars, didVars, workVars, events, ghostVars>>

ApproveRule(r) ==
  /\ state[r] = "WAITING_APPROVAL"
  /\ state' = [state EXCEPT ![r] = "INJECT"]
  /\ UNCHANGED <<copies, locks_cnt, lock, replicaVars, badVars, didVars, workVars, events, ghostVars>>

\* The judge-injector reads the ids of INJECT rules in one transaction and
\* injects each one in another.
InjectFetch(r) ==
  /\ state[r] = "INJECT"
  /\ r \notin injecting
  /\ injecting' = injecting \cup {r}
  /\ UNCHANGED <<ruleVars, replicaVars, badVars, didVars, repairing, necro, reaping, events, ghostVars>>

\* inject_rule does not look at the state again.  The rule is applied, or
\* suspended when the quota is short.
InjectRule(r) ==
  /\ r \in injecting
  /\ injecting' = injecting \ {r}
  /\ \/ /\ r \in Existing
        /\ Apply(r, copies[r])
        /\ miscounted' = IF locks_cnt[r] = Recount(lock[r]) THEN miscounted ELSE miscounted \cup {r}
     \/ /\ r \in Existing
        /\ state' = [state EXCEPT ![r] = "SUSPENDED"]
        /\ UNCHANGED <<locks_cnt, lock, replicaVars, miscounted>>
     \/ r \notin Existing /\ UNCHANGED <<state, locks_cnt, lock, replicaVars, miscounted>>
  /\ UNCHANGED <<copies, badVars, didVars, repairing, necro, reaping, events, stored, revived, faked, skipped>>

DeleteRule(r) ==
  /\ r \in Existing
  /\ LET gone == [q \in Rules |-> IF q = r THEN Held(lock[r], Files) ELSE {}]
     IN  \E cancel \in Cancellable(gone) : Drop(gone, cancel)
  /\ state' = [state EXCEPT ![r] = "DELETED"]
  /\ locks_cnt' = [locks_cnt EXCEPT ![r] = [s \in LockStates |-> 0]]
  /\ UNCHANGED <<copies, badVars, didVars, workVars, events, ghostVars>>

DenyRule(r) == state[r] = "WAITING_APPROVAL" /\ DeleteRule(r)


-----------------------------------------------------------------------------
(***************************************************************************)
(* Changes of the dataset and the judge-evaluator.                         *)
(***************************************************************************)
Attach(f) ==
  /\ Happens("edit")
  /\ f \in dids \ (content \cup lost)
  /\ content' = content \cup {f}
  /\ flagged' = flagged \cup {f}
  /\ updated' = updated \cup {"ATTACH"}
  /\ UNCHANGED <<ruleVars, replicaVars, badVars, dids, workVars, ghostVars>>

Detach(f) ==
  /\ Happens("edit")
  /\ f \in content
  /\ content' = content \ {f}
  /\ flagged' = flagged \ {f}
  /\ updated' = updated \cup {"DETACH"}
  /\ UNCHANGED <<ruleVars, replicaVars, badVars, dids, workVars, ghostVars>>

\* The evaluator removes the UpdatedDID row in a transaction of its own, or
\* dies before it does.
Evaluated(action) == updated' \in {updated \ {action}, updated}

AttachedState(s, before, after) ==
  IF s = "STUCK" THEN s
  ELSE IF after["STUCK"] > 0 THEN (IF after["STUCK"] # before["STUCK"] THEN "STUCK" ELSE s)
  ELSE IF after["REPLICATING"] > 0 THEN "REPLICATING"
  ELSE IF after["REPLICATING"] = 0 /\ after["STUCK"] = 0 THEN "OK"
  ELSE s

\* __evaluate_did_attach: a rule whose expression, weight, targets or account
\* limit fail (abort) becomes STUCK; the others lock the new files.
EvaluateAttach ==
  /\ "ATTACH" \in updated
  /\ LET eligible == IF flagged = {} THEN {}
                     ELSE {r \in Existing : state[r] \notin {"SUSPENDED", "WAITING_APPROVAL", "INJECT"}}
     IN  \E abort \in SUBSET eligible : \E new \in Assignments(eligible \ abort, flagged) :
           /\ Grant(new)
           /\ locks_cnt' = [r \in Rules |-> AddAll(locks_cnt[r], new[r])]
           /\ state' = [r \in Rules |->
                IF r \in abort THEN "STUCK"
                ELSE IF r \in eligible
                  THEN AttachedState(state[r], locks_cnt[r], AddAll(locks_cnt[r], new[r]))
                  ELSE state[r]]
  /\ flagged' = {}
  /\ Evaluated("ATTACH")
  /\ UNCHANGED <<copies, badVars, dids, content, workVars, events, ghostVars>>

\* A rule that is neither SUSPENDED nor STUCK becomes OK when the counters
\* say that nothing is pending.
Settled_Suspended(s, c) ==
  IF s # "STUCK" /\ c["REPLICATING"] = 0 /\ c["STUCK"] = 0 THEN "OK" ELSE s
Settled_IgnoresReplicating(s, c) ==
  IF s \notin {"SUSPENDED", "STUCK"} /\ c["STUCK"] = 0 THEN "OK" ELSE s
Settled(s, c) ==
  IF s \notin {"SUSPENDED", "STUCK"} /\ c["REPLICATING"] = 0 /\ c["STUCK"] = 0 THEN "OK" ELSE s

GivesUp_NotSuspended(r) ==
  IF r \in Existing /\ state[r] # "SUSPENDED" THEN Held(lock[r], Files \ content) ELSE {}
GivesUp(r) == IF r \in Existing THEN Held(lock[r], Files \ content) ELSE {}

\* __evaluate_did_detach: every rule gives up its locks on files that left.
EvaluateDetach ==
  /\ "DETACH" \in updated
  /\ LET gone == [r \in Rules |-> GivesUp(r)]
         left == [r \in Rules |-> [p \in Slots |-> IF p \in gone[r] THEN lock[r][p] ELSE "NONE"]]
     IN  /\ \E cancel \in Cancellable(gone) : Drop(gone, cancel)
         /\ locks_cnt' = [r \in Rules |-> SubAll(locks_cnt[r], left[r])]
         /\ state' = [r \in Rules |->
              IF r \in Existing THEN Settled(state[r], SubAll(locks_cnt[r], left[r])) ELSE state[r]]
  /\ skipped' = skipped \cup {r \in Rules : state[r] \in {"WAITING_APPROVAL", "INJECT"} /\ state'[r] = "OK"}
  /\ Evaluated("DETACH")
  /\ UNCHANGED <<copies, badVars, dids, content, flagged, workVars, events, stored, revived, faked, miscounted>>

-----------------------------------------------------------------------------
(***************************************************************************)
(* The judge-repairer reads the ids of STUCK rules in one transaction and  *)
(* repairs each one in another.  repair_rule does not look at the state    *)
(* again: a rule that was suspended or settled meanwhile is repaired too.  *)
(***************************************************************************)
RepairFetch(r) ==
  /\ state[r] = "STUCK"
  /\ r \notin repairing
  /\ repairing' = repairing \cup {r}
  /\ UNCHANGED <<ruleVars, replicaVars, badVars, didVars, injecting, necro, reaping, events, ghostVars>>

\* A dataset whose number of locks is off, or whose copies are drawn file by
\* file, is repaired in hard mode: missing locks are looked for too.
Hard(r) ==
  \/ Cardinality(content) * copies[r] # Cardinality(Held(lock[r], Files))
  \/ copies[r] > 1 /\ Grouping[r] = "NONE"
Missing_Never(r) == {}
Missing(r) ==
  IF Hard(r) THEN {f \in content : Cardinality(Held(lock[r], {f})) < copies[r]} ELSE {}

\* The loop over the STUCK locks decides the fate of each one.  A lock is
\* surplus once enough locks of the file are good, becomes OK if its replica
\* is readable, and is otherwise moved to another RSE (grouping NONE only),
\* retried or kept.  S: replica states; good: locks seen as not STUCK; m: the
\* locks created by the moves to.
Fates == {"surplus", "ok", "retry", "keep", "move"}
Feasible(r, S, good, fate, to, m) ==
  LET stuck == DOMAIN fate
      improves(p) == \/ fate[p] \in {"ok", "retry"}
                     \/ fate[p] = "move" /\ m[<<p[1], to[p]>>] # "STUCK"
  IN  /\ \A p \in stuck :
           /\ fate[p] # "surplus" => (fate[p] = "ok" <=> S[p] \in Readable)
           /\ fate[p] = "move" => Grouping[r] = "NONE"
           /\ fate[p] \in {"retry", "move"} => S[p] \notin {"ABSENT", "BEING_DELETED"}
      /\ \A f \in Files :
           LET mine == {p \in stuck : p[1] = f}
               seen == Cardinality({p \in good : p[1] = f})
               then == seen + Cardinality({p \in mine : improves(p)})
           IN  /\ \A p \in mine : fate[p] # "surplus" => seen < copies[r]
               /\ \A p \in mine : fate[p] = "surplus" => then >= copies[r]
               /\ \A p \in mine : improves(p) => then <= copies[r]

\* A moved lock goes to an RSE on which the rule has no lock for the file.
Moves(L, S, moved) ==
  {to \in [moved -> RSEs] :
     /\ \A p \in moved : L[<<p[1], to[p]>>] = "NONE" /\ S[<<p[1], to[p]>>] # "BEING_DELETED"
     /\ \A p, q \in moved : p[1] = q[1] /\ to[p] = to[q] => p = q}

RepairedState_Optimistic(c) == IF c["REPLICATING"] > 0 THEN "REPLICATING" ELSE "OK"
RepairedState(c) ==
  IF c["STUCK"] # 0 THEN "STUCK" ELSE IF c["REPLICATING"] > 0 THEN "REPLICATING" ELSE "OK"

\* Carrying out the fates on locks L, replica states S, lock counts C,
\* tombstones K, requests Q and the recounted counters c of rule r.  A surplus
\* lock is deleted without touching lock_cnt; the request of a moved lock is
\* not cancelled.
RepairStuck(r, L, S, C, K, Q, c, fate, m) ==
  LET fated(k) == {p \in DOMAIN fate : fate[p] = k}
      created == {p \in Slots : m[p] # "NONE"}
      new     == [NoLocks EXCEPT ![r] = m]
      becomes == [p \in Slots |-> IF p \in created THEN m[p]
                                  ELSE IF p \in fated("ok") THEN "OK"
                                  ELSE IF p \in fated("retry") THEN "REPLICATING" ELSE "NONE"]
      leaves  == [p \in Slots |-> IF p \in DOMAIN fate \ fated("keep") THEN "STUCK" ELSE "NONE"]
      count   == AddAll(SubAll(c, leaves), becomes)
      freed   == {p \in fated("move") : C[p] = 1}
  IN  /\ lock' = [L EXCEPT ![r] = [p \in Slots |->
           IF becomes[p] # "NONE" THEN becomes[p]
           ELSE IF leaves[p] # "NONE" THEN "NONE" ELSE L[r][p]]]
      /\ replica' = [p \in Slots |->
           IF p \in fated("retry") THEN "COPYING"
           ELSE IF p \in freed THEN "UNAVAILABLE" ELSE ReplicaAfter(S, new)[p]]
      /\ lock_cnt' = [p \in Slots |->
           IF p \in fated("ok") THEN Cardinality({q \in Rules : L[q][p] # "NONE"})
           ELSE IF p \in fated("move") THEN C[p] - 1 ELSE LockCntAfter(C, new)[p]]
      /\ tombstone' = [p \in Slots |->
           p \in freed \/ (p \notin fated("ok") /\ TombstoneAfter(K, new)[p])]
      /\ request' = RequestAfter(Q, S, new) \cup fated("retry")
      /\ locks_cnt' = [locks_cnt EXCEPT ![r] = count]
      /\ state' = [state EXCEPT ![r] = RepairedState(count)]

RepairLocks(r) ==
  \E m1 \in Choices(r, copies[r], Missing(r), lock[r], replica) :
    LET new   == [NoLocks EXCEPT ![r] = m1]
        L     == WithLocks(lock, new)
        S     == ReplicaAfter(replica, new)
        stuck == {p \in SlotsOf(content) : L[r][p] = "STUCK"}
        good  == IF Hard(r) THEN {p \in SlotsOf(content) : L[r][p] \in {"OK", "REPLICATING"}} ELSE {}
    IN  \E fate \in [stuck -> Fates] : \E to \in Moves(L[r], S, {p \in stuck : fate[p] = "move"}) :
          LET dest == {<<p[1], to[p]>> : p \in DOMAIN to}
          IN  \E m2 \in {LocksOn(dest, S, ready) : ready \in SUBSET dest} :
                /\ Feasible(r, S, good, fate, to, m2)
                /\ RepairStuck(r, L, S, LockCntAfter(lock_cnt, new), TombstoneAfter(tombstone, new),
                               RequestAfter(request, replica, new), AddAll(Recount(lock[r]), m1), fate, m2)

\* An expression, weight or target error ends the repair before the counters
\* are reset, an account limit after.
RepairAborts(r) ==
  /\ state' = [state EXCEPT ![r] = "STUCK"]
  /\ \/ UNCHANGED locks_cnt
     \/ /\ Missing(r) # {} \/ (Grouping[r] = "NONE" /\ InState(lock[r], "STUCK") # {})
        /\ locks_cnt' = [locks_cnt EXCEPT ![r] = Recount(lock[r])]
  /\ UNCHANGED <<lock, replicaVars>>

\* A rule that has been STUCK for two weeks is suspended.
RepairSuspends(r) ==
  /\ state' = [state EXCEPT ![r] = "SUSPENDED"]
  /\ UNCHANGED <<locks_cnt, lock, replicaVars>>

\* A soft repair that settles a rule although a file of its dataset has too
\* few locks: only the total number of locks was right.
Overlooks(r) ==
  /\ ~Hard(r)
  /\ state'[r] \in {"OK", "REPLICATING"}
  /\ \E f \in content \ flagged : Cardinality(Held(lock[r], {f})) < copies[r]

RepairRule(r) ==
  /\ r \in repairing
  /\ repairing' = repairing \ {r}
  /\ \/ r \notin Existing /\ UNCHANGED <<state, locks_cnt, lock, replicaVars>>
     \/ r \in Existing /\ (RepairSuspends(r) \/ RepairAborts(r) \/ RepairLocks(r))
  /\ skipped' = IF Overlooks(r) THEN skipped \cup {r} ELSE skipped
  /\ UNCHANGED <<copies, badVars, didVars, injecting, necro, reaping, events, stored, revived, faked, miscounted>>

\* update_rule with option state: suspended or stuck, with or without
\* cancel_requests.  The counters are left as they are.
UpdateRule(r, s, cancel) ==
  /\ Happens("update")
  /\ r \in Existing
  /\ LET own == InState(lock[r], "REPLICATING")
         hit(q, p) == lock[q][p] = "REPLICATING" /\ p \in own /\ (cancel \/ (q = r /\ s = "STUCK"))
     IN  /\ cancel => \A p \in own : Exists(p)
         /\ lock' = [q \in Rules |-> [p \in Slots |-> IF hit(q, p) THEN "STUCK" ELSE lock[q][p]]]
         /\ state' = [q \in Rules |->
              IF q = r THEN s
              ELSE IF state[q] # "SUSPENDED" /\ \E p \in Slots : hit(q, p) THEN "STUCK" ELSE state[q]]
         /\ request' = IF cancel THEN request \ own ELSE request
         /\ replica' = [p \in Slots |-> IF cancel /\ p \in own THEN "UNAVAILABLE" ELSE replica[p]]
         /\ Revive(IF cancel THEN own ELSE {})
  /\ UNCHANGED <<copies, locks_cnt, lock_cnt, tombstone, badVars, didVars, workVars, stored, faked, skipped, miscounted>>

-----------------------------------------------------------------------------
(***************************************************************************)
(* Outcomes of transfers (conveyor-finisher, update_replicas_states).      *)
(***************************************************************************)
\* The locks on p that are in a state of from go to state to.
MoveLocks(p, from, to) ==
  /\ lock' = [r \in Rules |-> IF lock[r][p] \in from THEN [lock[r] EXCEPT ![p] = to] ELSE lock[r]]
  /\ locks_cnt' = [r \in Rules |-> IF lock[r][p] \in from THEN Moved(locks_cnt[r], lock[r][p], to)
                                   ELSE locks_cnt[r]]

\* successful_transfer and the state of the row.  Only a REPLICATING rule
\* becomes OK; a STUCK one waits for the repairer.
BecomeAvailable(p) ==
  /\ MoveLocks(p, {"REPLICATING", "STUCK"}, "OK")
  /\ state' = [r \in Rules |->
       IF /\ lock[r][p] \in {"REPLICATING", "STUCK"}
          /\ state[r] = "REPLICATING"
          /\ locks_cnt'[r]["STUCK"] <= 0 /\ locks_cnt'[r]["REPLICATING"] = 0
       THEN "OK" ELSE state[r]]
  /\ replica' = [replica EXCEPT ![p] = "AVAILABLE"]
  /\ bad' = bad \ {p}
  /\ Revive({p})

\* A finished transfer to a row that is gone registers a row for the reaper.
FinishOk(p) ==
  /\ p \in request
  /\ request' = request \ {p}
  /\ stored' = stored \cup {p}
  /\ \/ Exists(p) /\ BecomeAvailable(p) /\ UNCHANGED tombstone
     \/ /\ ~Exists(p)
        /\ replica' = [replica EXCEPT ![p] = "AVAILABLE"]
        /\ tombstone' = [tombstone EXCEPT ![p] = TRUE]
        /\ UNCHANGED <<state, locks_cnt, lock, bad, revived>>
  /\ UNCHANGED <<copies, lock_cnt, temporary, lost, didVars, workVars, events, faked, skipped, miscounted>>

\* failed_transfer, once the retries of the request are used up.
FinishFail(p) ==
  /\ p \in request
  /\ request' = request \ {p}
  /\ \/ /\ Exists(p)
        /\ MoveLocks(p, {"OK", "REPLICATING"}, "STUCK")
        /\ state' = [r \in Rules |->
             IF /\ lock[r][p] \in {"OK", "REPLICATING"}
                /\ state[r] # "SUSPENDED"
                /\ locks_cnt'[r]["STUCK"] > 0
             THEN "STUCK" ELSE state[r]]
        /\ replica' = [replica EXCEPT ![p] = "UNAVAILABLE"]
        /\ Revive({p})
     \/ ~Exists(p) /\ UNCHANGED <<state, locks_cnt, lock, replica, revived>>
  /\ UNCHANGED <<copies, lock_cnt, tombstone, badVars, didVars, workVars, events, stored, faked, skipped, miscounted>>

-----------------------------------------------------------------------------
(***************************************************************************)
(* Bad and temporarily unavailable replicas (declare_bad_file_replicas,    *)
(* minos, minos-temporary-expiration, necromancer).                        *)
(***************************************************************************)
DeclareBad(p, force) ==
  /\ Happens("bad")
  /\ Exists(p)
  /\ force \/ p \notin bad
  /\ replica' = [replica EXCEPT ![p] = "BAD"]
  /\ bad' = bad \cup {p}
  /\ stored' = stored \ {p}
  /\ Revive({p})
  /\ UNCHANGED <<ruleVars, lock_cnt, tombstone, request, temporary, lost, didVars, workVars, faked, skipped, miscounted>>

\* The state the row had is not looked at (the filter is put on a statement
\* that is not executed again).
DeclareTemporary(p) ==
  /\ Happens("temporary")
  /\ Exists(p)
  /\ replica' = [replica EXCEPT ![p] = "TEMPORARY_UNAVAILABLE"]
  /\ temporary' = temporary \cup {p}
  /\ Revive({p})
  /\ faked' = IF replica[p] \in Readable THEN faked ELSE faked \cup {p}
  /\ UNCHANGED <<ruleVars, lock_cnt, tombstone, request, bad, lost, didVars, workVars, stored, skipped, miscounted>>

ExpireTemporary(p) ==
  /\ p \in temporary
  /\ temporary' = temporary \ {p}
  /\ \/ /\ replica[p] \notin {"ABSENT", "BAD"}
        /\ BecomeAvailable(p)
        /\ faked' = IF replica[p] \in Readable THEN faked ELSE faked \cup {p}
     \/ /\ replica[p] \in {"ABSENT", "BAD"}
        /\ UNCHANGED <<state, locks_cnt, lock, replica, bad, revived, faked>>
  /\ UNCHANGED <<copies, lock_cnt, tombstone, request, lost, didVars, workVars, events, stored, skipped, miscounted>>

\* The necromancer picks a BAD replica, then reads the states of the file's
\* replicas, then acts, each in a transaction of its own.
Idle == [stage |-> "idle", slot |-> <<>>]
NecroPick_OnlyLocked(p) ==
  /\ necro = Idle
  /\ replica[p] = "BAD" /\ Holders(p) # {}
  /\ p[1] \notin lost
  /\ necro' = [stage |-> "picked", slot |-> p]
  /\ UNCHANGED <<ruleVars, replicaVars, badVars, didVars, injecting, repairing, reaping, events, ghostVars>>
NecroPick(p) ==
  /\ necro = Idle
  /\ replica[p] = "BAD"
  /\ p[1] \notin lost
  /\ necro' = [stage |-> "picked", slot |-> p]
  /\ UNCHANGED <<ruleVars, replicaVars, badVars, didVars, injecting, repairing, reaping, events, ghostVars>>

NecroDecide ==
  /\ necro.stage = "picked"
  /\ necro' = [necro EXCEPT !.stage =
       IF \E x \in RSEs : replica[<<necro.slot[1], x>>] \in Readable THEN "recover" ELSE "lost"]
  /\ UNCHANGED <<ruleVars, replicaVars, badVars, didVars, injecting, repairing, reaping, events, ghostVars>>

\* update_rules_for_bad_replica; nothing happens if the row is gone.
NecroRecover ==
  /\ necro.stage = "recover"
  /\ necro' = Idle
  /\ LET p == necro.slot
     IN  \/ /\ Exists(p)
            /\ MoveLocks(p, LockStates, "REPLICATING")
            /\ state' = [r \in Rules |->
                 IF lock[r][p] # "NONE" /\ state[r] \notin {"SUSPENDED", "STUCK"}
                 THEN "REPLICATING" ELSE state[r]]
            /\ replica' = [replica EXCEPT ![p] = IF Holders(p) # {} THEN "COPYING" ELSE "UNAVAILABLE"]
            /\ tombstone' = [tombstone EXCEPT ![p] = @ \/ Holders(p) = {}]
            /\ request' = IF Holders(p) # {} THEN request \cup {p} ELSE request
            /\ Revive({p})
         \/ ~Exists(p) /\ UNCHANGED <<state, locks_cnt, lock, replica, tombstone, request, revived>>
  /\ UNCHANGED <<copies, lock_cnt, badVars, didVars, injecting, repairing, reaping, events, stored, faked, skipped, miscounted>>

\* update_rules_for_lost_replica: the locks on the slot go, the file is LOST
\* and leaves the dataset.
NecroLost ==
  /\ necro.stage = "lost"
  /\ necro' = Idle
  /\ LET p == necro.slot
     IN  \/ /\ Exists(p)
            /\ request' = request \ {p}
            /\ lock' = [r \in Rules |-> [lock[r] EXCEPT ![p] = "NONE"]]
            /\ locks_cnt' = [r \in Rules |-> [s \in LockStates |->
                               locks_cnt[r][s] - (IF lock[r][p] = s THEN 1 ELSE 0)]]
            /\ state' = [r \in Rules |->
                 IF lock[r][p] # "NONE" THEN Settled(state[r], locks_cnt'[r]) ELSE state[r]]
            /\ lock_cnt' = [lock_cnt EXCEPT ![p] = 0]
            /\ tombstone' = [tombstone EXCEPT ![p] = TRUE]
            /\ replica' = [replica EXCEPT ![p] = "UNAVAILABLE"]
            /\ lost' = lost \cup {p[1]}
            /\ bad' = bad \ {p}
            /\ content' = content \ {p[1]}
            /\ flagged' = flagged \ {p[1]}
            /\ updated' = IF p[1] \in content THEN updated \cup {"DETACH"} ELSE updated
            /\ Revive({p})
         \/ ~Exists(p) /\ UNCHANGED <<state, locks_cnt, lock, replicaVars, lost, bad, content, flagged, updated, revived>>
  /\ UNCHANGED <<copies, temporary, dids, injecting, repairing, reaping, events, stored, faked, skipped, miscounted>>

-----------------------------------------------------------------------------
(***************************************************************************)
(* The reaper marks unlocked rows, removes the files and then the rows.    *)
(***************************************************************************)
OtherAvailable(p) == \E x \in RSEs \ {p[2]} : replica[<<p[1], x>>] = "AVAILABLE"
Requested(f) == \E q \in request : q[1] = f

ReaperMark(p) ==
  /\ replica[p] \in {"AVAILABLE", "UNAVAILABLE", "BAD", "BEING_DELETED"}
  /\ lock_cnt[p] = 0 /\ tombstone[p]
  /\ OtherAvailable(p) \/ ~Requested(p[1])
  /\ replica' = [replica EXCEPT ![p] = "BEING_DELETED"]
  /\ reaping' = reaping \cup {p}
  /\ UNCHANGED <<ruleVars, lock_cnt, tombstone, request, badVars, didVars, injecting, repairing, necro, events, ghostVars>>

\* With its last row a file leaves the dataset and its DID goes, unless it is
\* LOST; a request for the file makes the transaction fail on its foreign key.
CleanupAfterDeletion(p) ==
  IF p[1] \notin lost /\ \A x \in RSEs \ {p[2]} : ~Exists(<<p[1], x>>)
    THEN /\ ~Requested(p[1])
         /\ content' = content \ {p[1]}
         /\ flagged' = flagged \ {p[1]}
         /\ dids' = dids \ {p[1]}
    ELSE UNCHANGED <<content, flagged, dids>>

\* delete_replicas looks neither at the state nor at lock_cnt.
ReaperDelete(p) ==
  /\ p \in reaping
  /\ reaping' = reaping \ {p}
  /\ Exists(p)
  /\ replica' = [replica EXCEPT ![p] = "ABSENT"]
  /\ lock_cnt' = [lock_cnt EXCEPT ![p] = 0]
  /\ tombstone' = [tombstone EXCEPT ![p] = FALSE]
  /\ bad' = bad \ {p}
  /\ CleanupAfterDeletion(p)
  /\ stored' = stored \ {p}
  /\ UNCHANGED <<ruleVars, request, temporary, lost, updated, injecting, repairing, necro, events, revived, faked, skipped, miscounted>>

\* The storage did not delete the file, or the reaper died around its deletion.
ReaperFail(p) ==
  /\ p \in reaping
  /\ reaping' = reaping \ {p}
  /\ stored' \in {stored, stored \ {p}}
  /\ UNCHANGED <<ruleVars, replicaVars, badVars, didVars, injecting, repairing, necro, events, revived, faked, skipped, miscounted>>

-----------------------------------------------------------------------------
Init ==
  /\ state = [r \in Rules |-> "NEW"]
  /\ copies = [r \in Rules |-> 0]
  /\ locks_cnt = [r \in Rules |-> [s \in LockStates |-> 0]]
  /\ lock = NoLocks
  /\ replica = [p \in Slots |-> IF p[2] = Origin[p[1]] THEN "AVAILABLE" ELSE "ABSENT"]
  /\ lock_cnt = [p \in Slots |-> 0]
  /\ tombstone \in {t \in [Slots -> BOOLEAN] : \A p \in Slots : t[p] => Exists(p)}
  /\ request = {} /\ bad = {} /\ temporary = {} /\ lost = {}
  /\ dids = Files
  /\ content \in SUBSET Files
  /\ flagged = {} /\ updated = {}
  /\ injecting = {} /\ repairing = {} /\ necro = Idle /\ reaping = {}
  /\ events = [k \in EventKinds |-> 0]
  /\ stored = {p \in Slots : Exists(p)}
  /\ revived = {} /\ faked = {} /\ skipped = {} /\ miscounted = {}

RuleStep(r) ==
  \/ \E n \in 1..MaxCopies : AddRule(r, n)
  \/ ApproveRule(r) \/ InjectFetch(r) \/ InjectRule(r) \/ DeleteRule(r) \/ DenyRule(r)
  \/ RepairFetch(r) \/ RepairRule(r)
  \/ \E s \in {"SUSPENDED", "STUCK"}, cancel \in BOOLEAN : UpdateRule(r, s, cancel)
SlotStep(p) ==
  \/ FinishOk(p) \/ FinishFail(p)
  \/ \E force \in BOOLEAN : DeclareBad(p, force)
  \/ DeclareTemporary(p) \/ ExpireTemporary(p)
  \/ NecroPick(p)
  \/ ReaperMark(p) \/ ReaperDelete(p) \/ ReaperFail(p)
Next ==
  \/ \E r \in Rules : RuleStep(r)
  \/ \E p \in Slots : SlotStep(p)
  \/ \E f \in Files : Attach(f) \/ Detach(f)
  \/ EvaluateAttach \/ EvaluateDetach
  \/ NecroDecide \/ NecroRecover \/ NecroLost

Spec == Init /\ [][Next]_vars

-----------------------------------------------------------------------------
TypeOK ==
  /\ state \in [Rules -> RuleStates]
  /\ copies \in [Rules -> Nat]
  /\ locks_cnt \in [Rules -> [LockStates -> Int]]
  /\ lock \in [Rules -> [Slots -> LockStates \cup {"NONE"}]]
  /\ replica \in [Slots -> ReplicaStates]
  /\ lock_cnt \in [Slots -> Int]
  /\ tombstone \in [Slots -> BOOLEAN]
  /\ request \subseteq Slots /\ bad \subseteq Slots /\ temporary \subseteq Slots
  /\ lost \subseteq Files /\ dids \subseteq Files
  /\ content \subseteq Files /\ flagged \subseteq Files
  /\ updated \subseteq {"ATTACH", "DETACH"}
  /\ injecting \subseteq Rules /\ repairing \subseteq Rules /\ reaping \subseteq Slots
  /\ \/ necro = Idle
     \/ necro \in [stage : {"picked", "recover", "lost"}, slot : Slots]
  /\ events \in [EventKinds -> Nat]
  /\ stored \subseteq Slots /\ revived \subseteq Slots /\ faked \subseteq Slots
  /\ skipped \subseteq Rules /\ miscounted \subseteq Rules

(***************************************************************************)
(* Safety.  revived, faked and skipped exempt exactly the rows and rules   *)
(* hit by the deviations that the section below states as claims of the    *)
(* repository, miscounted the rules that a late injection took out of      *)
(* STUCK without the recount of repair_rule: everything else must be       *)
(* untouched by them.                                                      *)
(***************************************************************************)
\* While a rule is OK or REPLICATING its three counters are the numbers of its
\* locks in each state, whatever mixture of grants, detachments, transfers,
\* repairs and bad replicas changed them (the code adds and subtracts by hand
\* in every one of those functions, and recounts only in repair_rule).
CountersExact ==
  \A r \in Rules \ miscounted : state[r] \in {"OK", "REPLICATING"} => locks_cnt[r] = Recount(lock[r])

\* An OK rule holds OK locks only, and a REPLICATING rule waits for at least
\* one transfer and has no STUCK lock: the state the user sees agrees with the
\* locks, although no function but repair_rule looks at the locks to set it.
StateAgrees ==
  \A r \in Rules \ miscounted :
    /\ state[r] = "OK" => \A p \in Slots : lock[r][p] \in {"NONE", "OK"}
    /\ state[r] = "REPLICATING" => /\ InState(lock[r], "STUCK") = {}
                                   /\ InState(lock[r], "REPLICATING") # {}

\* A locked replica is never in the reaper's reach: its lock_cnt is at least
\* the number of rules that hold it, so list_and_mark_unlocked_replicas does
\* not select it, and its row neither is being deleted nor is gone.  A row in
\* the batch of a reaper stays BEING_DELETED until the reaper is done with it.
LockProtection ==
  \A p \in Slots \ revived :
    /\ Cardinality(Holders(p)) <= lock_cnt[p]
    /\ replica[p] \in {"ABSENT", "BEING_DELETED"} => Holders(p) = {}
    /\ p \in reaping => replica[p] = "BEING_DELETED"

\* The converse: lock_cnt never exceeds the locks, so that a replica nobody
\* locks any more can be reaped (__delete_lock_and_update_replica sets the
\* tombstone only when the count reaches 0).
LockCntExact ==
  \A p \in Slots \ revived : lock_cnt[p] = Cardinality(Holders(p))

\* A rule that says it is satisfied or on its way holds its number of copies of
\* every file of the dataset that the evaluator has seen.
CopiesKept ==
  \A r \in Rules \ skipped : state[r] \in {"OK", "REPLICATING"} =>
    \A f \in content \ flagged : Cardinality(Held(lock[r], {f})) >= copies[r]

\* A lock on a file that left the dataset is known to the evaluator: the
\* re-evaluation that will drop it is still queued.
NoStrandedLocks ==
  \A r \in Rules : \A p \in Slots \ revived :
    lock[r][p] # "NONE" /\ p[1] \notin content => "DETACH" \in updated

\* A lock waits for a transfer only while there is a request that will end the
\* wait, or the replica is declared bad (LockAt takes a BAD row for one that is
\* being copied).
HasRequest ==
  \A r \in Rules : \A p \in Slots \ revived :
    lock[r][p] = "REPLICATING" => p \in request \cup bad

\* An OK lock stands for a file that is really on the storage, or whose loss
\* has been declared and is being handled.
OkStored ==
  \A r \in Rules : \A p \in Slots \ (revived \cup faked) :
    lock[r][p] = "OK" => p \in stored \cup bad

\* Only the user, or an injector or repairer that had read the rule before,
\* takes a rule out of SUSPENDED: the evaluator, the finisher, the necromancer and updates of
\* other rules leave it alone.
SuspendedIsKept ==
  [][\A r \in Rules : state[r] = "SUSPENDED" /\ state'[r] \notin {"SUSPENDED", "DELETED"} =>
       r \in injecting \cup repairing \/ \E cancel \in BOOLEAN : UpdateRule(r, "STUCK", cancel)]_vars

-----------------------------------------------------------------------------
(***************************************************************************)
(* Liveness.  Every daemon keeps polling its table and every transfer ends *)
(* (FTS jobs have a lifetime and the poller fails the ones that vanish),   *)
(* so a step that stays possible is taken; the evaluator does not die      *)
(* between its two transactions for ever.  Users and storage failures owe  *)
(* nothing.                                                                *)
(***************************************************************************)
Fairness ==
  /\ \A p \in Slots : WF_vars(FinishOk(p) \/ FinishFail(p))
  /\ \A r \in Rules : WF_vars(InjectFetch(r)) /\ WF_vars(InjectRule(r)) /\ WF_vars(RepairRule(r))
  /\ WF_vars(EvaluateAttach) /\ WF_vars(EvaluateDetach)
  /\ WF_vars(\E p \in Slots : NecroPick(p))
  /\ WF_vars(NecroDecide) /\ WF_vars(NecroRecover) /\ WF_vars(NecroLost)
FairSpec == Spec /\ Fairness

\* A rule that is being injected or replicated reaches a state in which its
\* user can see the outcome: no transfer it waits for is forgotten, unless the
\* reaper deleted the locked row (see ReapsUnlocked), the replica is declared
\* bad (LockAt takes it for one that is being copied) or the counters that end
\* the wait were wrong when the rule was injected.
RulesSettle ==
  \A r \in Rules :
    state[r] \in {"INJECT", "REPLICATING"}
      ~> \/ state[r] \notin {"INJECT", "REPLICATING"}
         \/ \E p \in revived \cup bad : lock[r][p] = "REPLICATING"
         \/ r \in miscounted

\* A lock on a detached file is dropped, unless the file is attached again.
LocksReleased ==
  \A r \in Rules, p \in Slots :
    lock[r][p] # "NONE" /\ p[1] \notin content
      ~> lock[r][p] = "NONE" \/ p[1] \in content \/ p \in revived

\* A replica declared bad is recovered, or its file is declared lost.
BadIsHandled ==
  \A p \in Slots : replica[p] = "BAD" ~> replica[p] # "BAD" \/ p[1] \in lost

-----------------------------------------------------------------------------
(***************************************************************************)
(* What the repository's documentation says and the code does not do.      *)
(***************************************************************************)
\* A repair that leaves a rule OK or REPLICATING has created its missing locks.
RepairCreatesMissing ==
  [][\A r \in Rules : RepairRule(r) /\ state'[r] \in {"OK", "REPLICATING"} =>
       \A f \in content \ flagged : Cardinality(Held(lock'[r], {f})) >= copies[r]]_vars

\* A rule that asks for approval stays so until it is approved or denied.
ApprovalIsAsked ==
  [][\A r \in Rules : state[r] = "WAITING_APPROVAL" /\ state'[r] # "WAITING_APPROVAL" =>
       state'[r] \in {"INJECT", "DELETED", "SUSPENDED", "STUCK"}]_vars

\* A file is declared lost only if it has no available replica.
LostHasNoReplica ==
  [][\A f \in Files : f \in lost' \ lost =>
       \A x \in RSEs : replica[<<f, x>>] \notin Readable]_vars

\* The reaper deletes rows without locks.
ReapsUnlocked ==
  [][\A p \in Slots : ReaperDelete(p) => Holders(p) = {}]_vars
=============================================================================
