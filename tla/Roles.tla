-------------------------------- MODULE Roles --------------------------------
(***************************************************************************)
(* Role-based access control: the roles, their assignments to accounts,    *)
(* the DID permissions they grant, and the three bulk jobs that rewrite    *)
(* them: the synchronisation with the policy package, the one with an      *)
(* identity provider, and the cleaning of expired assignments.             *)
(*                                                                         *)
(* A call of an administrator is one action.  A bulk job reads the tables, *)
(* decides what to write from what it read, and writes by primary key,     *)
(* with no row locked in between: reading and committing are two actions   *)
(* and tx[w] holds what job w has decided to write.  A call that the code  *)
(* refuses changes nothing and has no action.                              *)
(*                                                                         *)
(* Dates are numbers; an absent expires_at is the number Never, since the  *)
(* code treats it as later than every date.  A DID pattern is the set of   *)
(* scopes its scope part matches with the set of names its name part       *)
(* matches; whole tells that the name part is '*'.                         *)
(***************************************************************************)
EXTENDS Integers, FiniteSets

CONSTANTS
  Accounts,
  RoleNames,
  Reserved,     \* RESERVED_ROLES
  PolicyRoles,  \* the roles that the policy package defines
  Jobs,         \* bulk jobs that may run at the same time
  Scopes, Names,
  Patterns,     \* DID patterns that are granted
  ScopeOwner,   \* scopes.account
  DidOwner,     \* dids.account
  MaxTime,      \* bound on the clock and on the dates
  MaxOps        \* bound on the calls of administrators and on the jobs started

Dates == 0 .. MaxTime
Never == MaxTime + 1
Expiries == 0 .. Never
Operations == {"read", "delete"}

ASSUME RolesAssumption ==
  /\ Reserved \subseteq RoleNames /\ PolicyRoles \subseteq RoleNames
  /\ MaxTime \in Nat /\ MaxOps \in Nat
  /\ Patterns \subseteq [scopes : SUBSET Scopes, names : SUBSET Names, whole : BOOLEAN]
  /\ \A p \in Patterns : IF p.whole THEN p.names = Names ELSE Cardinality(p.scopes) = 1
  /\ DOMAIN ScopeOwner = Scopes /\ DOMAIN DidOwner = Scopes \X Names

VARIABLES
  now,    \* the clock of the servers
  role,   \* role[r]: the row of table roles, NoRole where there is none
  held,   \* held[a][r]: the row of account_role_map, NotHeld where there is none
  perms,  \* role_did_permission_map: <<role, pattern, operation>>
  tx,     \* tx[w]: what bulk job w is about to write, Idle where it does not run
  ops     \* calls made so far

vars == <<now, role, held, perms, tx, ops>>

NoRole == [description |-> "", assignable |-> FALSE, locked |-> FALSE]
\* "own" was written by an administrator, "policy" by the policy package,
\* "reserved" is the one of RESERVED_ROLES.
Descriptions == {"own", "policy", "reserved"}
RoleRows == [description : Descriptions, assignable : BOOLEAN, locked : BOOLEAN]

NotHeld == [act |-> 0, exp |-> 0]
Rows == [act : Dates, exp : Expiries]

Exists(r) == role[r] # NoRole
Holds(a, r) == held[a][r] # NotHeld

\* What an identity provider supplies: roles, and the expires_at of each.
Supplies == UNION {[given -> Expiries \ {0}] : given \in SUBSET RoleNames}

Idle == [kind |-> "idle"]

TypeOK ==
  /\ now \in Dates
  /\ role \in [RoleNames -> RoleRows \cup {NoRole}]
  /\ held \in [Accounts -> [RoleNames -> Rows]]
  /\ \A a \in Accounts, r \in RoleNames : Holds(a, r) => held[a][r].act < held[a][r].exp
  /\ perms \subseteq RoleNames \X Patterns \X Operations
  /\ tx \in [Jobs -> {Idle}
       \cup [kind : {"idp"}, account : Accounts, at : Dates, removed : SUBSET RoleNames,
             added : Supplies, updated : Supplies]
       \cup [kind : {"policy"}, create : SUBSET RoleNames, describe : SUBSET RoleNames,
             delete : SUBSET RoleNames]
       \cup [kind : {"clean"}, expired : SUBSET (Accounts \X RoleNames)]]
  /\ ops \in 0 .. MaxOps

\* The rows that setup_reserved_roles and the policy package create.
ReservedRow == [description |-> "reserved", assignable |-> FALSE, locked |-> TRUE]
PolicyRow == [description |-> "policy", assignable |-> TRUE, locked |-> FALSE]

\* A new database, or one on which both have been set up.
Init ==
  /\ now = 0
  /\ \E new \in BOOLEAN : role = [r \in RoleNames |->
       IF new THEN NoRole ELSE IF r \in Reserved THEN ReservedRow
       ELSE IF r \in PolicyRoles THEN PolicyRow ELSE NoRole]
  /\ held = [a \in Accounts |-> [r \in RoleNames |-> NotHeld]]
  /\ perms = {}
  /\ tx = [w \in Jobs |-> Idle]
  /\ ops = 0

Call == ops < MaxOps /\ ops' = ops + 1

(***************************************************************************)
(* Roles.                                                                  *)
(***************************************************************************)
AddRole(r, assignable, locked) ==
  /\ Call
  /\ r \notin Reserved /\ ~Exists(r)
  /\ role' = [role EXCEPT ![r] =
       [description |-> "own", assignable |-> assignable, locked |-> locked]]
  /\ UNCHANGED <<now, held, perms, tx>>

Unlocked(r, force) == force \/ ~role[r].locked

\* description, assignable and locked are the sets of at most one value given.
UpdateRole(r, description, assignable, locked, force) ==
  /\ Call
  /\ Exists(r)
  /\ IF r \in Reserved
     THEN description = {} /\ locked = {}
     ELSE (description # {} \/ assignable # {}) => Unlocked(r, force)
  /\ role' = [role EXCEPT ![r] =
       [description |-> IF description = {} THEN @.description ELSE CHOOSE d \in description : TRUE,
        assignable |-> IF assignable = {} THEN @.assignable ELSE CHOOSE b \in assignable : TRUE,
        locked |-> IF locked = {} THEN @.locked ELSE CHOOSE b \in locked : TRUE]]
  /\ UNCHANGED <<now, held, perms, tx>>

\* The assignments go first (ON DELETE RESTRICT), the permissions with the
\* role (ON DELETE CASCADE).
RemoveRoles(gone) ==
  /\ held' = [a \in Accounts |-> [r \in RoleNames |-> IF r \in gone THEN NotHeld ELSE held[a][r]]]
  /\ perms' = {p \in perms : p[1] \notin gone}

DeleteRole(r, force) ==
  /\ Call
  /\ Exists(r) /\ r \notin Reserved /\ Unlocked(r, force)
  /\ ~force => \A a \in Accounts : ~Holds(a, r)
  /\ role' = [role EXCEPT ![r] = NoRole]
  /\ RemoveRoles({r})
  /\ UNCHANGED <<now, tx>>

SetupReservedRoles ==
  /\ Call
  /\ role' = [r \in RoleNames |->
       IF r \in Reserved /\ ~Exists(r)
       THEN ReservedRow ELSE role[r]]
  /\ UNCHANGED <<now, held, perms, tx>>

(***************************************************************************)
(* Assignments.                                                            *)
(***************************************************************************)
AddAccountRole(a, r, act, exp, force) ==
  /\ Call
  /\ Exists(r) /\ ~Holds(a, r)
  /\ force \/ role[r].assignable
  /\ exp > act
  /\ held' = [held EXCEPT ![a][r] = [act |-> act, exp |-> exp]]
  /\ UNCHANGED <<now, role, perms, tx>>

DeleteAccountRole(a, r, force) ==
  /\ Call
  /\ Holds(a, r)
  /\ force \/ role[r].assignable
  /\ held' = [held EXCEPT ![a][r] = NotHeld]
  /\ UNCHANGED <<now, role, perms, tx>>

\* A date that is KEPT is given as the stored one.
SetAccountRoleDates(a, r, act, exp) ==
  /\ Call
  /\ Holds(a, r)
  /\ exp > act
  /\ held' = [held EXCEPT ![a][r] = [act |-> act, exp |-> exp]]
  /\ UNCHANGED <<now, role, perms, tx>>

(***************************************************************************)
(* Permissions.  A row holds one Boolean per operation, so the rows of a   *)
(* role are the set of its pairs of pattern and operation.                 *)
(***************************************************************************)
AddRolePermission(r, p, op, force) ==
  /\ Call
  /\ r \notin Reserved /\ Exists(r) /\ Unlocked(r, force)
  /\ <<r, p, op>> \notin perms
  /\ perms' = perms \cup {<<r, p, op>>}
  /\ UNCHANGED <<now, role, held, tx>>

DeleteRolePermission(r, p, op, force) ==
  /\ Call
  /\ r \notin Reserved /\ Unlocked(r, force)
  /\ <<r, p, op>> \in perms
  /\ perms' = perms \ {<<r, p, op>>}
  /\ UNCHANGED <<now, role, held, tx>>

\* An assignment grants its role while it is active.
Active(a, r) == Holds(a, r) /\ held[a][r].act <= now /\ now < held[a][r].exp

GrantedTargets(a, op) ==
  {p \in Patterns : \E r \in RoleNames : Active(a, r) /\ <<r, p, op>> \in perms}

\* A pattern with the name part '*' matches the scope itself and all its DIDs;
\* any other one only the DIDs of its scope with a matching name.
PatternMatchesScope(s, p) == p.whole /\ s \in p.scopes
PatternMatches(s, n, p) ==
  \/ PatternMatchesScope(s, p)
  \/ ~p.whole /\ s \in p.scopes /\ n \in p.names

HasPermission(a, s, n, op) == \E p \in GrantedTargets(a, op) : PatternMatches(s, n, p)
HasAnyScopePrefixAccess(a, s, op) == \E p \in GrantedTargets(a, op) : s \in p.scopes
HasAdminRole(a) == \E r \in Reserved : Active(a, r)

\* How the permission policy decides a single request on a DID.
RbacPermissionAccess(a, s, n, op) == ScopeOwner[s] = a \/ HasPermission(a, s, n, op)
RbacDidOwnershipAccess(a, s, n) ==
  HasAnyScopePrefixAccess(a, s, "read") /\ DidOwner[<<s, n>>] = a
PolicyGrants(a, s, n, op) ==
  HasAdminRole(a) \/ RbacPermissionAccess(a, s, n, op) \/ RbacDidOwnershipAccess(a, s, n)

\* How a listing is filtered: first by scope, then by the patterns with a name
\* part of their own, then by the owner of the DID.
ScopeAccess(a, s, op, anyDid) ==
  \/ HasAdminRole(a)
  \/ \E p \in GrantedTargets(a, op) : PatternMatchesScope(s, p)
  \/ ScopeOwner[s] = a
  \/ anyDid /\ \E p \in GrantedTargets(a, op) : s \in p.scopes
\* Mutant: the owner of a DID needs the operation itself in its scope.
DidAccess_OwnerNeedsOperation(a, s, n, op) ==
  \/ ScopeAccess(a, s, op, FALSE)
  \/ \E p \in GrantedTargets(a, op) : ~p.whole /\ PatternMatches(s, n, p)
  \/ ScopeAccess(a, s, op, TRUE) /\ DidOwner[<<s, n>>] = a

DidAccess(a, s, n, op) ==
  \/ ScopeAccess(a, s, op, FALSE)
  \/ \E p \in GrantedTargets(a, op) : ~p.whole /\ PatternMatches(s, n, p)
  \/ ScopeAccess(a, s, "read", TRUE) /\ DidOwner[<<s, n>>] = a

(***************************************************************************)
(* Synchronisation with an identity provider.                              *)
(***************************************************************************)
NotAssignable(r) == Exists(r) /\ ~role[r].assignable

\* Mutant: the dry run forgets the activation date.
DryRun_IgnoresActivation(a, desired) ==
  LET current == {r \in RoleNames : Holds(a, r)}
      expired == {r \in current : held[a][r].exp < now /\ ~NotAssignable(r)}
      remaining == current \ expired
      new == {r \in DOMAIN desired \ remaining : Exists(r) /\ ~NotAssignable(r)}
      differ == {r \in DOMAIN desired \cap remaining :
                   desired[r] # held[a][r].exp /\ ~NotAssignable(r)}
      supplied_expired == {r \in DOMAIN desired : desired[r] <= now}
  IN [removed_expired |-> expired,
      removed_unsupplied |-> {r \in remaining \ DOMAIN desired : ~NotAssignable(r)},
      added |-> new \ supplied_expired,
      updated |-> differ \ supplied_expired,
      ignored_expired |-> (new \cup differ) \cap supplied_expired]

\* sync_account_roles_from_idp_dry_run: the buckets of its report.
DryRun(a, desired) ==
  LET current == {r \in RoleNames : Holds(a, r)}
      expired == {r \in current : held[a][r].exp < now /\ ~NotAssignable(r)}
      remaining == current \ expired
      new == {r \in DOMAIN desired \ remaining : Exists(r) /\ ~NotAssignable(r)}
      differ == {r \in DOMAIN desired \cap remaining :
                   desired[r] # held[a][r].exp /\ ~NotAssignable(r)}
      supplied_expired == {r \in DOMAIN desired : desired[r] <= now}
      supplied_before_activation == {r \in differ : desired[r] <= held[a][r].act}
  IN [removed_expired |-> expired,
      removed_unsupplied |-> {r \in remaining \ DOMAIN desired : ~NotAssignable(r)},
      added |-> new \ supplied_expired,
      updated |-> differ \ (supplied_expired \cup supplied_before_activation),
      ignored_expired |-> (new \cap supplied_expired)
        \cup (differ \cap (supplied_expired \cup supplied_before_activation))]

\* Mutant: a role that is supplied again is not assigned anew when its old
\* assignment has just been removed as expired.
IdpPlan_NoReassign(a, desired) ==
  LET remaining == {r \in RoleNames : Holds(a, r)
                      /\ (held[a][r].exp >= now \/ NotAssignable(r))}
      removed == {r \in RoleNames : Holds(a, r) /\ ~NotAssignable(r)
                    /\ (held[a][r].exp < now \/ r \notin DOMAIN desired)}
      added == {r \in DOMAIN desired : ~Holds(a, r) /\
                  Exists(r) /\ ~NotAssignable(r) /\ desired[r] > now}
      updated == {r \in DOMAIN desired \cap remaining :
                    /\ desired[r] # held[a][r].exp /\ ~NotAssignable(r)
                    /\ desired[r] > now /\ desired[r] > held[a][r].act}
  IN [kind |-> "idp", account |-> a, at |-> now, removed |-> removed,
      added |-> [r \in added |-> desired[r]], updated |-> [r \in updated |-> desired[r]]]

\* sync_account_roles_from_idp: the rows it deletes, inserts and updates.
IdpPlan(a, desired) ==
  LET remaining == {r \in RoleNames : Holds(a, r)
                      /\ (held[a][r].exp >= now \/ NotAssignable(r))}
      removed == {r \in RoleNames : Holds(a, r) /\ ~NotAssignable(r)
                    /\ (held[a][r].exp < now \/ r \notin DOMAIN desired)}
      added == {r \in DOMAIN desired \ remaining :
                  Exists(r) /\ ~NotAssignable(r) /\ desired[r] > now}
      updated == {r \in DOMAIN desired \cap remaining :
                    /\ desired[r] # held[a][r].exp /\ ~NotAssignable(r)
                    /\ desired[r] > now /\ desired[r] > held[a][r].act}
  IN [kind |-> "idp", account |-> a, at |-> now, removed |-> removed,
      added |-> [r \in added |-> desired[r]], updated |-> [r \in updated |-> desired[r]]]

\* The rows of the account after the deletes, the inserts and the updates,
\* in this order; an update of a row that is gone does nothing.
IdpApplied(plan) ==
  [r \in RoleNames |->
     LET row == held[plan.account][r]
     IN IF r \in DOMAIN plan.added THEN [act |-> plan.at, exp |-> plan.added[r]]
        ELSE IF r \in plan.removed THEN NotHeld
        ELSE IF r \in DOMAIN plan.updated /\ row # NotHeld
          THEN [row EXCEPT !.exp = plan.updated[r]]
        ELSE row]

\* The constraints of account_role_map that the database checks: the key and
\* the role of an inserted row, and that a row expires after it activates.
IdpValid(plan) ==
  /\ \A r \in DOMAIN plan.added :
       Exists(r) /\ (Holds(plan.account, r) => r \in plan.removed)
  /\ \A r \in RoleNames :
       LET row == IdpApplied(plan)[r] IN row # NotHeld => row.act < row.exp

IdpRead(w, a, desired) ==
  /\ Call
  /\ tx[w] = Idle
  /\ tx' = [tx EXCEPT ![w] = IdpPlan(a, desired)]
  /\ UNCHANGED <<now, role, held, perms>>

\* A constraint that does not hold rolls the whole synchronisation back.
IdpCommit(w) ==
  /\ tx[w].kind = "idp"
  /\ tx' = [tx EXCEPT ![w] = Idle]
  /\ held' = IF IdpValid(tx[w])
             THEN [held EXCEPT ![tx[w].account] = IdpApplied(tx[w])] ELSE held
  /\ UNCHANGED <<now, role, perms, ops>>

(***************************************************************************)
(* Synchronisation with the policy package.                                *)
(***************************************************************************)
PolicyRead(w) ==
  /\ Call
  /\ tx[w] = Idle
  /\ LET reachable == {r \in RoleNames \ Reserved : Exists(r) /\ ~role[r].locked}
     IN tx' = [tx EXCEPT ![w] =
          [kind |-> "policy",
           create |-> {r \in PolicyRoles \ Reserved : ~Exists(r)},
           describe |-> {r \in reachable \cap PolicyRoles : role[r].description # "policy"},
           delete |-> reachable \ PolicyRoles]]
  /\ UNCHANGED <<now, role, held, perms>>

\* Creating a role that exists by now violates the key of table roles.
PolicyCommit(w) ==
  /\ tx[w].kind = "policy"
  /\ tx' = [tx EXCEPT ![w] = Idle]
  /\ IF \E r \in tx[w].create : Exists(r)
     THEN UNCHANGED <<role, held, perms>>
     ELSE /\ role' = [r \in RoleNames |->
                IF r \in tx[w].create
                THEN PolicyRow
                ELSE IF r \in tx[w].delete THEN NoRole
                ELSE IF r \in tx[w].describe /\ Exists(r)
                  THEN [role[r] EXCEPT !.description = "policy"]
                ELSE role[r]]
          /\ RemoveRoles(tx[w].delete)
  /\ UNCHANGED <<now, ops>>

(***************************************************************************)
(* Cleaning of expired assignments.                                        *)
(***************************************************************************)
CleanRead(w) ==
  /\ Call
  /\ tx[w] = Idle
  /\ tx' = [tx EXCEPT ![w] =
       [kind |-> "clean",
        expired |-> {x \in Accounts \X RoleNames :
                       Holds(x[1], x[2]) /\ held[x[1]][x[2]].exp < now}]]
  /\ UNCHANGED <<now, role, held, perms>>

CleanCommit(w) ==
  /\ tx[w].kind = "clean"
  /\ tx' = [tx EXCEPT ![w] = Idle]
  /\ held' = [a \in Accounts |-> [r \in RoleNames |->
       IF <<a, r>> \in tx[w].expired THEN NotHeld ELSE held[a][r]]]
  /\ UNCHANGED <<now, role, perms, ops>>

Tick ==
  /\ now < MaxTime
  /\ now' = now + 1
  /\ UNCHANGED <<role, held, perms, tx, ops>>

\* At most one value of S, the empty set where a parameter is not given.
Given(S) == {{}} \cup {{x} : x \in S}

RoleCalls(r) ==
  \/ \E assignable, locked \in BOOLEAN : AddRole(r, assignable, locked)
  \/ \E description \in Given({"own"}), assignable, locked \in Given(BOOLEAN),
        force \in BOOLEAN : UpdateRole(r, description, assignable, locked, force)
  \/ \E force \in BOOLEAN : DeleteRole(r, force)
  \/ \E p \in Patterns, op \in Operations, force \in BOOLEAN :
       AddRolePermission(r, p, op, force) \/ DeleteRolePermission(r, p, op, force)

AssignmentCalls(a, r) ==
  \/ \E act \in Dates, exp \in Expiries, force \in BOOLEAN : AddAccountRole(a, r, act, exp, force)
  \/ \E force \in BOOLEAN : DeleteAccountRole(a, r, force)
  \/ \E act \in Dates, exp \in Expiries : SetAccountRoleDates(a, r, act, exp)

JobSteps(w) ==
  \/ \E a \in Accounts, desired \in Supplies : IdpRead(w, a, desired)
  \/ PolicyRead(w) \/ CleanRead(w)
  \/ IdpCommit(w) \/ PolicyCommit(w) \/ CleanCommit(w)

Next ==
  \/ \E r \in RoleNames : RoleCalls(r)
  \/ \E a \in Accounts, r \in RoleNames : AssignmentCalls(a, r)
  \/ SetupReservedRoles
  \/ \E w \in Jobs : JobSteps(w)
  \/ Tick

Spec == Init /\ [][Next]_vars

(***************************************************************************)
(* Properties.                                                             *)
(***************************************************************************)

\* An identity provider sync that nobody interferes with, whatever is supplied,
\* satisfies the constraints of the database, which would otherwise roll all of
\* it back, and the account then holds of the assignable roles none that is not
\* supplied, and every one supplied with a date to come, until that date unless
\* its assignment activates only after it; the assignments of the other roles
\* are what they were.  (role.py sync_account_roles_from_idp, which checks the
\* dates itself and against two different dates.)
SyncMeetsSupply ==
  \A a \in Accounts, desired \in Supplies :
    LET plan == IdpPlan(a, desired)
        rows == IdpApplied(plan)
    IN /\ IdpValid(plan)
       /\ \A r \in RoleNames :
            IF NotAssignable(r) THEN rows[r] = held[a][r]
            ELSE /\ r \notin DOMAIN desired => rows[r] = NotHeld
                 /\ r \in DOMAIN desired /\ Exists(r) /\ desired[r] > now =>
                      rows[r] # NotHeld /\ (rows[r].exp = desired[r] \/ desired[r] <= rows[r].act)

\* The dry run of an IdP sync reports exactly what the sync then does, and
\* leaves no assignable role that is supplied without a verdict.  (role.py
\* sync_account_roles_from_idp_dry_run and its twin, two bodies of code.)
DryRunPredicts ==
  \A a \in Accounts, desired \in Supplies :
    LET report == DryRun(a, desired)
        plan == IdpPlan(a, desired)
    IN /\ plan.removed = report.removed_expired \cup report.removed_unsupplied
       /\ DOMAIN plan.added = report.added
       /\ DOMAIN plan.updated = report.updated
       /\ \A r \in DOMAIN desired : Exists(r) /\ ~NotAssignable(r) =>
            \/ r \in report.added \cup report.updated \cup report.ignored_expired
            \/ held[a][r].exp = desired[r]

\* A listing shows an account exactly the DIDs that the permission policy
\* lets it act on one by one.  (role.py did_access_checker, which caches and
\* splits the patterns, against permission/generic.py _rbac_can_read_did.)
ListingAgrees ==
  \A a \in Accounts, s \in Scopes, n \in Names, op \in Operations :
    DidAccess(a, s, n, op) = PolicyGrants(a, s, n, op)

-----------------------------------------------------------------------------
(***************************************************************************)
(* What the repository says and the code does not do: the README gives the *)
(* shortest behaviours that violate these.                                 *)
(***************************************************************************)
\* The cleaning removes only assignments that are expired.  (role.py
\* clean_expired_account_roles: "Remove the expired role assignments".)
CleanRemovesExpired ==
  [][\A w \in Jobs : tx[w].kind = "clean" /\ tx'[w] = Idle =>
       \A a \in Accounts, r \in RoleNames :
         Holds(a, r) /\ held'[a][r] = NotHeld => held[a][r].exp < now]_vars
==============================================================================
