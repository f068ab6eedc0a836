------------------------------ MODULE RolesProofs ------------------------------
(***************************************************************************)
(* Proofs about Roles for any accounts, roles, jobs, patterns and dates.   *)
(* The properties speak of every account and every supply in every state,  *)
(* so the dates that the tables hold, whichever bulk jobs wrote them and   *)
(* in whichever order, have to be kept typed and in order first.           *)
(***************************************************************************)
EXTENDS Roles, TLAPS

\* The plans of the three bulk jobs.
IdpPlans ==
  [kind : {"idp"}, account : Accounts, at : Dates, removed : SUBSET RoleNames,
   added : Supplies, updated : Supplies]
PolicyPlans ==
  [kind : {"policy"}, create : SUBSET RoleNames, describe : SUBSET RoleNames, delete : SUBSET RoleNames]
CleanPlans == [kind : {"clean"}, expired : SUBSET (Accounts \X RoleNames)]

\* A row of account_role_map expires after it activates.
InOrder(row) == row # NotHeld => row.act < row.exp

\* The same types, with the assignments and the plans under names of their own.
HeldTyped ==
  /\ held \in [Accounts -> [RoleNames -> Rows]]
  /\ \A a \in Accounts, r \in RoleNames : InOrder(held[a][r])
TxTyped == tx \in [Jobs -> {Idle} \cup IdpPlans \cup PolicyPlans \cup CleanPlans]
RolesTyped == role \in [RoleNames -> RoleRows \cup {NoRole}]

\* TypeOK is those, and the types of the clock, the permissions and the calls.
LEMMA TypeOKParts ==
  TypeOK <=> /\ now \in Dates /\ RolesTyped /\ HeldTyped /\ TxTyped
             /\ perms \subseteq RoleNames \X Patterns \X Operations
             /\ ops \in 0 .. MaxOps
  BY DEF TypeOK, RolesTyped, HeldTyped, TxTyped, InOrder, Holds, IdpPlans, PolicyPlans, CleanPlans

\* And so it is in the next state.
LEMMA NextTyped ==
  ASSUME now' \in Dates, RolesTyped', HeldTyped', TxTyped',
         perms' \subseteq RoleNames \X Patterns \X Operations, ops' \in 0 .. MaxOps
  PROVE  TypeOK'
  BY DEF TypeOK, RolesTyped, HeldTyped, TxTyped, InOrder, Holds, IdpPlans, PolicyPlans, CleanPlans

\* The dates are integers, and an absent assignment is a row.
LEMMA DatesTyped ==
  /\ Dates \subseteq Int /\ Expiries \subseteq Int /\ NotHeld \in Rows /\ InOrder(NotHeld)
  /\ 0 \in Dates /\ MaxTime \in Dates
  BY RolesAssumption DEF Dates, Expiries, Never, NotHeld, Rows, InOrder

\* A supply restricted to some of its roles is a supply.
LEMMA SuppliesRestrict ==
  ASSUME NEW desired \in Supplies, NEW some \in SUBSET DOMAIN desired
  PROVE  /\ [r \in some |-> desired[r]] \in Supplies
         /\ DOMAIN desired \subseteq RoleNames
         /\ \A r \in DOMAIN desired : desired[r] \in Expiries \ {0}
  <1>1. PICK given \in SUBSET RoleNames : desired \in [given -> Expiries \ {0}]
    BY DEF Supplies
  <1>2. some \in SUBSET RoleNames /\ DOMAIN desired = given
    BY <1>1
  <1>3. [r \in some |-> desired[r]] \in [some -> Expiries \ {0}]
    BY <1>1, <1>2
  <1>4. [r \in some |-> desired[r]] \in Supplies
    BY <1>2, <1>3 DEF Supplies
  <1> QED
    BY <1>1, <1>2, <1>4

\* The parts of a plan.
LEMMA IdpPlanParts ==
  ASSUME NEW a, NEW desired
  PROVE  LET plan == IdpPlan(a, desired)
         IN /\ plan.kind = "idp" /\ plan.account = a /\ plan.at = now
            /\ plan.removed = {r \in RoleNames : Holds(a, r) /\ ~NotAssignable(r)
                                 /\ (held[a][r].exp < now \/ r \notin DOMAIN desired)}
            /\ DOMAIN plan.added =
                 {r \in DOMAIN desired \ {r \in RoleNames : Holds(a, r)
                                            /\ (held[a][r].exp >= now \/ NotAssignable(r))} :
                    Exists(r) /\ ~NotAssignable(r) /\ desired[r] > now}
            /\ DOMAIN plan.updated =
                 {r \in DOMAIN desired \cap {r \in RoleNames : Holds(a, r)
                                               /\ (held[a][r].exp >= now \/ NotAssignable(r))} :
                    /\ desired[r] # held[a][r].exp /\ ~NotAssignable(r)
                    /\ desired[r] > now /\ desired[r] > held[a][r].act}
            /\ plan.added = [r \in DOMAIN plan.added |-> desired[r]]
            /\ plan.updated = [r \in DOMAIN plan.updated |-> desired[r]]
  BY DEF IdpPlan

\* What sync_account_roles_from_idp decides to write is a plan.
LEMMA IdpPlanTyped ==
  ASSUME TypeOK, NEW a \in Accounts, NEW desired \in Supplies
  PROVE  IdpPlan(a, desired) \in IdpPlans
  <1> DEFINE plan == IdpPlan(a, desired)
             added == DOMAIN plan.added
             updated == DOMAIN plan.updated
  <1>1. /\ added \in SUBSET DOMAIN desired /\ updated \in SUBSET DOMAIN desired
        /\ plan.removed \in SUBSET RoleNames
        /\ plan.added = [r \in added |-> desired[r]]
        /\ plan.updated = [r \in updated |-> desired[r]]
    BY IdpPlanParts
  <1>2. plan.added \in Supplies /\ plan.updated \in Supplies
    <2> HIDE DEF added, updated, plan
    <2> QED
      BY <1>1, SuppliesRestrict
  <1>3. plan = [kind |-> "idp", account |-> a, at |-> now, removed |-> plan.removed,
                added |-> plan.added, updated |-> plan.updated]
    BY DEF IdpPlan
  <1>4. now \in Dates
    BY DEF TypeOK
  <1> HIDE DEF added, updated, plan
  <1>5. plan \in IdpPlans
    BY <1>1, <1>2, <1>3, <1>4 DEF IdpPlans
  <1> QED
    BY <1>5 DEF plan

\* Its kind tells which job a plan belongs to.
LEMMA PlanOfKind ==
  ASSUME TypeOK, NEW w \in Jobs
  PROVE  /\ tx[w].kind = "idp" => tx[w] \in IdpPlans
         /\ tx[w].kind = "policy" => tx[w] \in PolicyPlans
         /\ tx[w].kind = "clean" => tx[w] \in CleanPlans
  <1>1. tx[w] \in {Idle} \cup IdpPlans \cup PolicyPlans \cup CleanPlans
    BY TypeOKParts DEF TxTyped
  <1>2. CASE tx[w] = Idle
    BY <1>2 DEF Idle
  <1>3. CASE tx[w] \in IdpPlans
    BY <1>3 DEF IdpPlans
  <1>4. CASE tx[w] \in PolicyPlans
    BY <1>4 DEF PolicyPlans
  <1>5. CASE tx[w] \in CleanPlans
    BY <1>5 DEF CleanPlans
  <1> QED
    BY <1>1, <1>2, <1>3, <1>4, <1>5

\* A valid plan leaves rows of account_role_map.
LEMMA AppliedTyped ==
  ASSUME TypeOK, NEW plan \in IdpPlans
  PROVE  /\ IdpApplied(plan) \in [RoleNames -> Rows]
         /\ IdpValid(plan) => \A r \in RoleNames : InOrder(IdpApplied(plan)[r])
  <1> DEFINE rows == IdpApplied(plan)
  <1>1. plan.account \in Accounts /\ plan.at \in Dates
        /\ plan.added \in Supplies /\ plan.updated \in Supplies
    BY DEF IdpPlans
  <1>2. /\ \A r \in DOMAIN plan.added : plan.added[r] \in Expiries
        /\ \A r \in DOMAIN plan.updated : plan.updated[r] \in Expiries
    BY <1>1, SuppliesRestrict
  <1>3. ASSUME NEW r \in RoleNames PROVE rows[r] \in Rows
    <2>1. held[plan.account][r] \in Rows
      BY <1>1 DEF TypeOK
    <2>2. r \in DOMAIN plan.added => [act |-> plan.at, exp |-> plan.added[r]] \in Rows
      BY <1>1, <1>2 DEF Rows
    <2>3. r \in DOMAIN plan.updated => [held[plan.account][r] EXCEPT !.exp = plan.updated[r]] \in Rows
      BY <1>2, <2>1 DEF Rows
    <2> QED
      BY <2>1, <2>2, <2>3, DatesTyped DEF IdpApplied
  <1>4. rows \in [RoleNames -> Rows]
    <2>1. rows = [r \in RoleNames |-> rows[r]]
      BY DEF IdpApplied
    <2> QED
      BY <1>3, <2>1
  <1>5. IdpValid(plan) => \A r \in RoleNames : InOrder(rows[r])
    BY DEF IdpValid, InOrder
  <1> QED
    BY <1>4, <1>5

\* What a plan does with one role.
LEMMA PlanRows ==
  ASSUME NEW a, NEW desired, NEW plan, plan = IdpPlan(a, desired)
  PROVE  /\ plan.account = a /\ plan.at = now
         /\ \A r : r \in plan.removed <=>
              /\ r \in RoleNames /\ Holds(a, r) /\ ~NotAssignable(r)
              /\ held[a][r].exp < now \/ r \notin DOMAIN desired
         /\ \A r : r \in DOMAIN plan.added <=>
              /\ r \in DOMAIN desired
              /\ ~(r \in RoleNames /\ Holds(a, r) /\ (held[a][r].exp >= now \/ NotAssignable(r)))
              /\ Exists(r) /\ ~NotAssignable(r) /\ desired[r] > now
         /\ \A r : r \in DOMAIN plan.updated <=>
              /\ r \in DOMAIN desired
              /\ r \in RoleNames /\ Holds(a, r) /\ (held[a][r].exp >= now \/ NotAssignable(r))
              /\ desired[r] # held[a][r].exp /\ ~NotAssignable(r)
              /\ desired[r] > now /\ desired[r] > held[a][r].act
         /\ \A r \in DOMAIN plan.added : plan.added[r] = desired[r]
         /\ \A r \in DOMAIN plan.updated : plan.updated[r] = desired[r]
  <1>1. plan.account = a /\ plan.at = now
    BY DEF IdpPlan
  <1>2. \A r : r \in plan.removed <=>
              /\ r \in RoleNames /\ Holds(a, r) /\ ~NotAssignable(r)
              /\ held[a][r].exp < now \/ r \notin DOMAIN desired
    BY DEF IdpPlan
  <1>3. /\ \A r : r \in DOMAIN plan.added <=>
              /\ r \in DOMAIN desired
              /\ ~(r \in RoleNames /\ Holds(a, r) /\ (held[a][r].exp >= now \/ NotAssignable(r)))
              /\ Exists(r) /\ ~NotAssignable(r) /\ desired[r] > now
        /\ \A r \in DOMAIN plan.added : plan.added[r] = desired[r]
    BY DEF IdpPlan
  <1>4. /\ \A r : r \in DOMAIN plan.updated <=>
              /\ r \in DOMAIN desired
              /\ r \in RoleNames /\ Holds(a, r) /\ (held[a][r].exp >= now \/ NotAssignable(r))
              /\ desired[r] # held[a][r].exp /\ ~NotAssignable(r)
              /\ desired[r] > now /\ desired[r] > held[a][r].act
        /\ \A r \in DOMAIN plan.updated : plan.updated[r] = desired[r]
    BY DEF IdpPlan
  <1> QED
    BY <1>1, <1>2, <1>3, <1>4

\* The dates of a row are integers, and so is the clock.
LEMMA HeldDates ==
  ASSUME TypeOK, NEW a \in Accounts, NEW r \in RoleNames
  PROVE  held[a][r] \in Rows /\ held[a][r].exp \in Int /\ held[a][r].act \in Int /\ now \in Int
  <1>1. held[a][r] \in Rows /\ now \in Dates
    BY DEF TypeOK
  <1>2. held[a][r].exp \in Expiries /\ held[a][r].act \in Dates
    BY <1>1 DEF Rows
  <1> QED
    BY <1>1, <1>2, DatesTyped

\* A supplied date is a positive integer.
LEMMA SuppliedDates ==
  ASSUME NEW desired \in Supplies, NEW r \in DOMAIN desired
  PROVE  r \in RoleNames /\ desired[r] \in Int /\ desired[r] > 0
  <1>1. r \in RoleNames /\ desired[r] \in Expiries \ {0}
    BY SuppliesRestrict
  <1>2. \A x \in Expiries \ {0} : x \in Int /\ x > 0
    BY RolesAssumption DEF Expiries, Never
  <1> QED
    BY <1>1, <1>2

(***************************************************************************)
(* Every step keeps the types, and the order of the dates with them.       *)
(***************************************************************************)
\* A call of an administrator stays within the bound.
LEMMA CallTyped ==
  ASSUME TypeOK, Call
  PROVE  ops' \in 0 .. MaxOps
  BY RolesAssumption DEF TypeOK, Call

\* Rows that are deleted leave the others in order.
LEMMA HeldRemoved ==
  ASSUME TypeOK, NEW gone, HeldTyped,
         held' = [a \in Accounts |-> [r \in RoleNames |-> IF <<a, r>> \in gone THEN NotHeld ELSE held[a][r]]]
  PROVE  HeldTyped'
  <1>1. ASSUME NEW a \in Accounts, NEW r \in RoleNames
        PROVE  held'[a][r] \in Rows /\ InOrder(held'[a][r])
    BY DatesTyped DEF HeldTyped
  <1>2. held' \in [Accounts -> [RoleNames -> Rows]]
    BY <1>1
  <1> QED
    BY <1>1, <1>2 DEF HeldTyped

\* So do the rows of deleted roles, and their permissions.
LEMMA RolesRemoved ==
  ASSUME TypeOK, NEW gone, RemoveRoles(gone)
  PROVE  HeldTyped' /\ perms' \subseteq RoleNames \X Patterns \X Operations
  <1>1. HeldTyped /\ perms \subseteq RoleNames \X Patterns \X Operations
    BY TypeOKParts
  <1>2. ASSUME NEW a \in Accounts, NEW r \in RoleNames
        PROVE  held'[a][r] \in Rows /\ InOrder(held'[a][r])
    BY <1>1, DatesTyped DEF HeldTyped, RemoveRoles
  <1>3. held' \in [Accounts -> [RoleNames -> Rows]]
    BY <1>2 DEF RemoveRoles
  <1> QED
    BY <1>1, <1>2, <1>3 DEF HeldTyped, RemoveRoles

\* One row of account_role_map is written.
LEMMA RowWritten ==
  ASSUME TypeOK, NEW a \in Accounts, NEW r \in RoleNames, NEW row \in Rows, InOrder(row),
         held' = [held EXCEPT ![a][r] = row]
  PROVE  HeldTyped'
  <1>1. HeldTyped
    BY TypeOKParts
  <1>2. ASSUME NEW b \in Accounts, NEW q \in RoleNames
        PROVE  held'[b][q] \in Rows /\ InOrder(held'[b][q])
    BY <1>1 DEF HeldTyped
  <1>3. held' \in [Accounts -> [RoleNames -> Rows]]
    BY <1>1 DEF HeldTyped
  <1> QED
    BY <1>2, <1>3 DEF HeldTyped

\* The calls on roles and permissions.
LEMMA RoleCallsTyped ==
  ASSUME TypeOK, NEW r \in RoleNames, RoleCalls(r)
  PROVE  TypeOK'
  <1>0. /\ now \in Dates /\ RolesTyped /\ HeldTyped /\ TxTyped
        /\ perms \subseteq RoleNames \X Patterns \X Operations
    BY TypeOKParts
  <1>1. ASSUME NEW assignable \in BOOLEAN, NEW locked \in BOOLEAN, AddRole(r, assignable, locked)
        PROVE  TypeOK'
    <2>1. [description |-> "own", assignable |-> assignable, locked |-> locked] \in RoleRows
      BY DEF RoleRows, Descriptions
    <2>2. RolesTyped'
      BY <1>0, <1>1, <2>1 DEF AddRole, RolesTyped
    <2>3. HeldTyped' /\ TxTyped'
      BY <1>0, <1>1 DEF AddRole, HeldTyped, TxTyped
    <2>4. now' \in Dates /\ perms' \subseteq RoleNames \X Patterns \X Operations /\ ops' \in 0 .. MaxOps
      BY <1>0, <1>1, CallTyped DEF AddRole
    <2> QED
      BY <2>2, <2>3, <2>4, NextTyped
  <1>2. ASSUME NEW description \in Given({"own"}), NEW assignable \in Given(BOOLEAN),
               NEW locked \in Given(BOOLEAN), NEW force \in BOOLEAN,
               UpdateRole(r, description, assignable, locked, force)
        PROVE  TypeOK'
    <2> DEFINE row == [description |-> IF description = {} THEN role[r].description
                                       ELSE CHOOSE d \in description : TRUE,
                       assignable |-> IF assignable = {} THEN role[r].assignable
                                      ELSE CHOOSE b \in assignable : TRUE,
                       locked |-> IF locked = {} THEN role[r].locked ELSE CHOOSE b \in locked : TRUE]
    <2>1. role[r] \in RoleRows
      BY <1>0, <1>2 DEF UpdateRole, RolesTyped, Exists
    <2>2. /\ description # {} => (CHOOSE d \in description : TRUE) \in Descriptions
          /\ assignable # {} => (CHOOSE b \in assignable : TRUE) \in BOOLEAN
          /\ locked # {} => (CHOOSE b \in locked : TRUE) \in BOOLEAN
      BY DEF Given, Descriptions
    <2>3. row \in RoleRows
      BY <2>1, <2>2 DEF RoleRows
    <2>4. role' = [role EXCEPT ![r] = row]
      BY <1>2 DEF UpdateRole
    <2> HIDE DEF row
    <2>5. RolesTyped'
      BY <1>0, <2>3, <2>4 DEF RolesTyped
    <2>6. HeldTyped' /\ TxTyped'
      BY <1>0, <1>2 DEF UpdateRole, HeldTyped, TxTyped
    <2>7. now' \in Dates /\ perms' \subseteq RoleNames \X Patterns \X Operations /\ ops' \in 0 .. MaxOps
      BY <1>0, <1>2, CallTyped DEF UpdateRole
    <2> QED
      BY <2>5, <2>6, <2>7, NextTyped
  <1>3. ASSUME NEW force \in BOOLEAN, DeleteRole(r, force) PROVE TypeOK'
    <2>1. RolesTyped' /\ TxTyped' /\ now' \in Dates
      BY <1>0, <1>3 DEF DeleteRole, RolesTyped, TxTyped
    <2>2. HeldTyped' /\ perms' \subseteq RoleNames \X Patterns \X Operations
      BY <1>3, RolesRemoved DEF DeleteRole
    <2>3. ops' \in 0 .. MaxOps
      BY <1>3, CallTyped DEF DeleteRole
    <2> QED
      BY <2>1, <2>2, <2>3, NextTyped
  <1>4. ASSUME NEW p \in Patterns, NEW op \in Operations, NEW force \in BOOLEAN,
               AddRolePermission(r, p, op, force) \/ DeleteRolePermission(r, p, op, force)
        PROVE  TypeOK'
    <2>1. RolesTyped' /\ TxTyped' /\ HeldTyped' /\ now' \in Dates
      BY <1>0, <1>4 DEF AddRolePermission, DeleteRolePermission, RolesTyped, TxTyped, HeldTyped
    <2>2. perms' \subseteq RoleNames \X Patterns \X Operations
      BY <1>0, <1>4 DEF AddRolePermission, DeleteRolePermission
    <2>3. ops' \in 0 .. MaxOps
      BY <1>4, CallTyped DEF AddRolePermission, DeleteRolePermission
    <2> QED
      BY <2>1, <2>2, <2>3, NextTyped
  <1> QED
    BY <1>1, <1>2, <1>3, <1>4 DEF RoleCalls

\* The calls on assignments check the two dates against each other.
LEMMA AssignmentCallsTyped ==
  ASSUME TypeOK, NEW a \in Accounts, NEW r \in RoleNames, AssignmentCalls(a, r)
  PROVE  TypeOK'
  <1>0. now \in Dates /\ RolesTyped /\ TxTyped /\ perms \subseteq RoleNames \X Patterns \X Operations
    BY TypeOKParts
  <1>1. UNCHANGED <<now, role, perms, tx>> /\ Call
    BY DEF AssignmentCalls, AddAccountRole, DeleteAccountRole, SetAccountRoleDates
  <1>2. RolesTyped' /\ TxTyped' /\ now' \in Dates /\ perms' \subseteq RoleNames \X Patterns \X Operations
        /\ ops' \in 0 .. MaxOps
    BY <1>0, <1>1, CallTyped DEF RolesTyped, TxTyped
  <1>3. \E row \in Rows : InOrder(row) /\ held' = [held EXCEPT ![a][r] = row]
    <2>1. ASSUME NEW act \in Dates, NEW exp \in Expiries, exp > act,
                 held' = [held EXCEPT ![a][r] = [act |-> act, exp |-> exp]]
          PROVE  \E row \in Rows : InOrder(row) /\ held' = [held EXCEPT ![a][r] = row]
      <3>1. [act |-> act, exp |-> exp] \in Rows
        BY DEF Rows
      <3>2. act < exp
        BY <2>1, DatesTyped
      <3>3. InOrder([act |-> act, exp |-> exp])
        BY <3>2 DEF InOrder
      <3> QED
        BY <2>1, <3>1, <3>3
    <2>2. CASE \E act \in Dates, exp \in Expiries, force \in BOOLEAN : AddAccountRole(a, r, act, exp, force)
      BY <2>1, <2>2 DEF AddAccountRole
    <2>3. CASE \E act \in Dates, exp \in Expiries : SetAccountRoleDates(a, r, act, exp)
      BY <2>1, <2>3 DEF SetAccountRoleDates
    <2>4. CASE \E force \in BOOLEAN : DeleteAccountRole(a, r, force)
      BY <2>4, DatesTyped DEF DeleteAccountRole
    <2> QED
      BY <2>2, <2>3, <2>4 DEF AssignmentCalls
  <1>4. HeldTyped'
    BY <1>3, RowWritten
  <1> QED
    BY <1>2, <1>4, NextTyped

\* A job plans from what it reads.
LEMMA JobReadsTyped ==
  ASSUME TypeOK, NEW w \in Jobs,
         \/ \E a \in Accounts, desired \in Supplies : IdpRead(w, a, desired)
         \/ PolicyRead(w) \/ CleanRead(w)
  PROVE  TypeOK'
  <1>0. /\ now \in Dates /\ RolesTyped /\ HeldTyped /\ TxTyped
        /\ perms \subseteq RoleNames \X Patterns \X Operations
    BY TypeOKParts
  <1>1. \E plan \in IdpPlans \cup PolicyPlans \cup CleanPlans : tx' = [tx EXCEPT ![w] = plan]
    <2>1. ASSUME NEW a \in Accounts, NEW desired \in Supplies, IdpRead(w, a, desired)
          PROVE  \E plan \in IdpPlans : tx' = [tx EXCEPT ![w] = plan]
      BY <2>1, IdpPlanTyped DEF IdpRead
    <2>2. CASE PolicyRead(w)
      <3> DEFINE reachable == {r \in RoleNames \ Reserved : Exists(r) /\ ~role[r].locked}
                 plan == [kind |-> "policy",
                          create |-> {r \in PolicyRoles \ Reserved : ~Exists(r)},
                          describe |-> {r \in reachable \cap PolicyRoles : role[r].description # "policy"},
                          delete |-> reachable \ PolicyRoles]
      <3>1. tx' = [tx EXCEPT ![w] = plan]
        BY <2>2 DEF PolicyRead
      <3>2. plan \in PolicyPlans
        BY RolesAssumption DEF PolicyPlans
      <3> QED
        BY <3>1, <3>2
    <2>3. CASE CleanRead(w)
      <3> DEFINE plan == [kind |-> "clean",
                          expired |-> {x \in Accounts \X RoleNames :
                                         Holds(x[1], x[2]) /\ held[x[1]][x[2]].exp < now}]
      <3>1. tx' = [tx EXCEPT ![w] = plan]
        BY <2>3 DEF CleanRead
      <3>2. plan \in CleanPlans
        BY DEF CleanPlans
      <3> QED
        BY <3>1, <3>2
    <2> QED
      BY <2>1, <2>2, <2>3
  <1>2. TxTyped'
    BY <1>0, <1>1 DEF TxTyped
  <1>3. UNCHANGED <<now, role, held, perms>> /\ Call
    BY DEF IdpRead, PolicyRead, CleanRead
  <1>4. RolesTyped' /\ HeldTyped' /\ now' \in Dates /\ perms' \subseteq RoleNames \X Patterns \X Operations
        /\ ops' \in 0 .. MaxOps
    BY <1>0, <1>3, CallTyped DEF RolesTyped, HeldTyped
  <1> QED
    BY <1>2, <1>4, NextTyped

\* What it commits is checked by the database or only deletes rows.
LEMMA JobCommitsTyped ==
  ASSUME TypeOK, NEW w \in Jobs, IdpCommit(w) \/ PolicyCommit(w) \/ CleanCommit(w)
  PROVE  TypeOK'
  <1>0. /\ now \in Dates /\ RolesTyped /\ HeldTyped /\ TxTyped
        /\ perms \subseteq RoleNames \X Patterns \X Operations /\ ops \in 0 .. MaxOps
    BY TypeOKParts
  <1>1. tx' = [tx EXCEPT ![w] = Idle] /\ now' = now /\ ops' = ops
    BY DEF IdpCommit, PolicyCommit, CleanCommit
  <1>2. TxTyped' /\ now' \in Dates /\ ops' \in 0 .. MaxOps
    BY <1>0, <1>1 DEF TxTyped
  <1>3. CASE IdpCommit(w)
    <2>1. tx[w] \in IdpPlans
      BY <1>3, PlanOfKind DEF IdpCommit
    <2>2. UNCHANGED <<role, perms>>
          /\ held' = IF IdpValid(tx[w])
                     THEN [held EXCEPT ![tx[w].account] = IdpApplied(tx[w])] ELSE held
      BY <1>3 DEF IdpCommit
    <2>3. CASE IdpValid(tx[w])
      <3>1. /\ IdpApplied(tx[w]) \in [RoleNames -> Rows]
            /\ \A r \in RoleNames : InOrder(IdpApplied(tx[w])[r])
        BY <2>1, <2>3, AppliedTyped
      <3>2. tx[w].account \in Accounts
        BY <2>1 DEF IdpPlans
      <3>3. held' = [held EXCEPT ![tx[w].account] = IdpApplied(tx[w])]
        BY <2>2, <2>3
      <3>4. HeldTyped'
        BY <1>0, <3>1, <3>2, <3>3 DEF HeldTyped
      <3> QED
        BY <1>0, <1>2, <2>2, <3>4, NextTyped DEF RolesTyped
    <2>4. CASE ~IdpValid(tx[w])
      <3>1. HeldTyped'
        BY <1>0, <2>2, <2>4 DEF HeldTyped
      <3> QED
        BY <1>0, <1>2, <2>2, <3>1, NextTyped DEF RolesTyped
    <2> QED
      BY <2>3, <2>4
  <1>4. CASE PolicyCommit(w)
    <2>1. CASE \E r \in tx[w].create : Exists(r)
      <3>1. UNCHANGED <<role, held, perms>>
        BY <1>4, <2>1 DEF PolicyCommit
      <3> QED
        BY <1>0, <1>2, <3>1, NextTyped DEF RolesTyped, HeldTyped
    <2>2. CASE ~\E r \in tx[w].create : Exists(r)
      <3>1. role' = [r \in RoleNames |->
                IF r \in tx[w].create
                THEN PolicyRow
                ELSE IF r \in tx[w].delete THEN NoRole
                ELSE IF r \in tx[w].describe /\ Exists(r)
                  THEN [role[r] EXCEPT !.description = "policy"]
                ELSE role[r]]
        BY <1>4, <2>2 DEF PolicyCommit
      <3>2. PolicyRow \in RoleRows
        BY DEF PolicyRow, RoleRows, Descriptions
      <3>3. \A r \in RoleNames : Exists(r) => [role[r] EXCEPT !.description = "policy"] \in RoleRows
        BY <1>0 DEF RolesTyped, Exists, RoleRows, Descriptions
      <3>4. RolesTyped'
        BY <1>0, <3>1, <3>2, <3>3 DEF RolesTyped
      <3>5. HeldTyped' /\ perms' \subseteq RoleNames \X Patterns \X Operations
        <4>1. RemoveRoles(tx[w].delete)
          BY <1>4, <2>2 DEF PolicyCommit
        <4> QED
          BY <4>1, RolesRemoved
      <3> QED
        BY <1>2, <3>4, <3>5, NextTyped
    <2> QED
      BY <2>1, <2>2
  <1>5. CASE CleanCommit(w)
    <2>1. HeldTyped'
      BY <1>0, <1>5, HeldRemoved DEF CleanCommit
    <2>2. UNCHANGED <<role, perms>>
      BY <1>5 DEF CleanCommit
    <2> QED
      BY <1>0, <1>2, <2>1, <2>2, NextTyped DEF RolesTyped
  <1> QED
    BY <1>3, <1>4, <1>5

\* The types and the order of the dates are inductive.
LEMMA TypeStep ==
  ASSUME TypeOK, [Next]_vars
  PROVE  TypeOK'
  <1>0. /\ now \in Dates /\ RolesTyped /\ HeldTyped /\ TxTyped
        /\ perms \subseteq RoleNames \X Patterns \X Operations /\ ops \in 0 .. MaxOps
    BY TypeOKParts
  <1>1. CASE SetupReservedRoles
    <2>1. ReservedRow \in RoleRows
      BY DEF ReservedRow, RoleRows, Descriptions
    <2>2. RolesTyped'
      BY <1>0, <1>1, <2>1 DEF SetupReservedRoles, RolesTyped
    <2>3. HeldTyped' /\ TxTyped' /\ now' \in Dates /\ ops' \in 0 .. MaxOps
          /\ perms' \subseteq RoleNames \X Patterns \X Operations
      BY <1>0, <1>1, CallTyped DEF SetupReservedRoles, HeldTyped, TxTyped
    <2> QED
      BY <2>2, <2>3, NextTyped
  <1>2. CASE Tick
    <2>1. now' \in Dates
      BY <1>0, <1>2, RolesAssumption DEF Tick, Dates
    <2> QED
      BY <1>0, <1>2, <2>1, NextTyped DEF Tick, RolesTyped, HeldTyped, TxTyped
  <1>3. CASE UNCHANGED vars
    BY <1>0, <1>3, NextTyped DEF vars, RolesTyped, HeldTyped, TxTyped
  <1>4. CASE Next
    BY <1>1, <1>2, <1>4, RoleCallsTyped, AssignmentCallsTyped, JobReadsTyped, JobCommitsTyped
       DEF Next, JobSteps
  <1> QED
    BY <1>3, <1>4

\* Whatever the calls and the bulk jobs do, in whichever order they commit, the
\* tables stay typed and no assignment expires before it activates.
THEOREM DatesStayInOrder == Spec => []TypeOK
  <1>1. Init => TypeOK
    <2> SUFFICES ASSUME Init PROVE TypeOK
      OBVIOUS
    <2>1. ReservedRow \in RoleRows /\ PolicyRow \in RoleRows
      BY DEF ReservedRow, PolicyRow, RoleRows, Descriptions
    <2>2. RolesTyped
      BY <2>1 DEF Init, RolesTyped
    <2>3. HeldTyped
      BY DatesTyped DEF Init, HeldTyped
    <2>4. TxTyped
      BY DEF Init, TxTyped
    <2>5. now \in Dates /\ perms \subseteq RoleNames \X Patterns \X Operations /\ ops \in 0 .. MaxOps
      BY DatesTyped, RolesAssumption DEF Init
    <2> QED
      BY <2>2, <2>3, <2>4, <2>5, TypeOKParts
  <1>2. TypeOK /\ [Next]_vars => TypeOK'
    BY TypeStep
  <1> QED
    BY <1>1, <1>2, PTL DEF Spec

(***************************************************************************)
(* The synchronisation with an identity provider.                          *)
(***************************************************************************)
\* What a plan that nobody interferes with makes of one row.
LEMMA AppliedRow ==
  ASSUME TypeOK, NEW a \in Accounts, NEW desired \in Supplies, NEW r \in RoleNames
  PROVE  LET plan == IdpPlan(a, desired)
             row == IdpApplied(plan)[r]
         IN row = IF r \in DOMAIN plan.added THEN [act |-> now, exp |-> desired[r]]
                  ELSE IF r \in plan.removed THEN NotHeld
                  ELSE IF r \in DOMAIN plan.updated THEN [held[a][r] EXCEPT !.exp = desired[r]]
                  ELSE held[a][r]
  <1> DEFINE plan == IdpPlan(a, desired)
  <1>0. plan = IdpPlan(a, desired)
    OBVIOUS
  <1> HIDE DEF plan
  <1>1. plan.account = a /\ plan.at = now
    BY <1>0, PlanRows
  <1>2. /\ r \in DOMAIN plan.added => plan.added[r] = desired[r]
        /\ r \in DOMAIN plan.updated => plan.updated[r] = desired[r]
    BY <1>0, PlanRows
  <1>3. r \in DOMAIN plan.updated => held[a][r] # NotHeld
    BY <1>0, PlanRows DEF Holds
  <1>4. IdpApplied(plan)[r] =
          IF r \in DOMAIN plan.added THEN [act |-> now, exp |-> desired[r]]
          ELSE IF r \in plan.removed THEN NotHeld
          ELSE IF r \in DOMAIN plan.updated THEN [held[a][r] EXCEPT !.exp = desired[r]]
          ELSE held[a][r]
    BY <1>1, <1>2, <1>3 DEF IdpApplied
  <1> QED
    BY <1>4 DEF plan

\* The rows that the plan of a synchronisation leaves satisfy the constraints
\* of account_role_map.
LEMMA PlanIsValid ==
  ASSUME TypeOK, NEW a \in Accounts, NEW desired \in Supplies
  PROVE  IdpValid(IdpPlan(a, desired))
  <1> DEFINE plan == IdpPlan(a, desired)
  <1>0. plan = IdpPlan(a, desired)
    OBVIOUS
  <1> HIDE DEF plan
  <1>1. plan.account = a
    BY <1>0, PlanRows
  <1>2. \A r \in DOMAIN desired : r \in RoleNames /\ desired[r] \in Int
    BY SuppliedDates
  <1>3. now \in Int /\ \A r \in RoleNames : held[a][r] \in Rows /\ held[a][r].exp \in Int /\ held[a][r].act \in Int
    BY HeldDates, DatesTyped DEF TypeOK
  <1>4. \A r \in DOMAIN plan.added : /\ r \in DOMAIN desired /\ Exists(r) /\ desired[r] > now
                                     /\ Holds(a, r) => r \in plan.removed
    BY <1>0, <1>2, <1>3, PlanRows
  <1>5. \A r \in DOMAIN plan.updated : r \in DOMAIN desired /\ desired[r] > held[a][r].act
    BY <1>0, PlanRows
  <1>6. ASSUME NEW r \in RoleNames, IdpApplied(plan)[r] # NotHeld
        PROVE  IdpApplied(plan)[r].act < IdpApplied(plan)[r].exp
    <2> DEFINE row == IdpApplied(plan)[r]
    <2>1. row = IF r \in DOMAIN plan.added THEN [act |-> now, exp |-> desired[r]]
                ELSE IF r \in plan.removed THEN NotHeld
                ELSE IF r \in DOMAIN plan.updated THEN [held[a][r] EXCEPT !.exp = desired[r]]
                ELSE held[a][r]
      BY AppliedRow DEF plan
    <2> HIDE DEF row
    <2>2. CASE r \in DOMAIN plan.added
      BY <1>2, <1>3, <1>4, <2>1, <2>2 DEF row
    <2>3. CASE r \notin DOMAIN plan.added /\ r \in plan.removed
      BY <1>6, <2>1, <2>3 DEF row
    <2>4. CASE r \notin DOMAIN plan.added /\ r \notin plan.removed /\ r \in DOMAIN plan.updated
      <3>1. row.act = held[a][r].act /\ row.exp = desired[r]
        BY <1>3, <2>1, <2>4 DEF Rows
      <3> QED
        BY <1>2, <1>3, <1>5, <2>4, <3>1 DEF row
    <2>5. CASE r \notin DOMAIN plan.added /\ r \notin plan.removed /\ r \notin DOMAIN plan.updated
      BY <1>6, <2>1, <2>5 DEF row, TypeOK, Holds
    <2> QED
      BY <2>2, <2>3, <2>4, <2>5
  <1>7. IdpValid(plan)
    BY <1>1, <1>4, <1>6 DEF IdpValid
  <1> QED
    BY <1>7 DEF plan

\* In every reachable state a synchronisation that nobody interferes with is
\* accepted by the database and leaves the account with what was supplied
\* (sync_account_roles_from_idp).
THEOREM SyncsMeetTheSupply == Spec => []SyncMeetsSupply
  <1>1. ASSUME TypeOK PROVE SyncMeetsSupply
    <2> SUFFICES ASSUME NEW a \in Accounts, NEW desired \in Supplies, NEW r \in RoleNames
                 PROVE  LET rows == IdpApplied(IdpPlan(a, desired))
                        IN IF NotAssignable(r) THEN rows[r] = held[a][r]
                           ELSE /\ r \notin DOMAIN desired => rows[r] = NotHeld
                                /\ r \in DOMAIN desired /\ Exists(r) /\ desired[r] > now =>
                                     rows[r] # NotHeld
                                     /\ (rows[r].exp = desired[r] \/ desired[r] <= rows[r].act)
      BY <1>1, PlanIsValid DEF SyncMeetsSupply
    <2> DEFINE plan == IdpPlan(a, desired)
               row == IdpApplied(plan)[r]
    <2>1. row = IF r \in DOMAIN plan.added THEN [act |-> now, exp |-> desired[r]]
                ELSE IF r \in plan.removed THEN NotHeld
                ELSE IF r \in DOMAIN plan.updated THEN [held[a][r] EXCEPT !.exp = desired[r]]
                ELSE held[a][r]
      BY <1>1, AppliedRow
    <2>0. plan = IdpPlan(a, desired)
      OBVIOUS
    <2> HIDE DEF row, plan
    <2>2. now \in Int /\ held[a][r] \in Rows /\ held[a][r].exp \in Int /\ held[a][r].act \in Int
      BY <1>1, HeldDates
    <2>3. r \in DOMAIN desired => desired[r] \in Int /\ desired[r] > 0
      BY SuppliedDates
    <2>4. /\ r \in plan.removed <=> Holds(a, r) /\ ~NotAssignable(r)
                                    /\ (held[a][r].exp < now \/ r \notin DOMAIN desired)
          /\ r \in DOMAIN plan.added <=>
               /\ r \in DOMAIN desired /\ ~(Holds(a, r) /\ (held[a][r].exp >= now \/ NotAssignable(r)))
               /\ Exists(r) /\ ~NotAssignable(r) /\ desired[r] > now
          /\ r \in DOMAIN plan.updated <=>
               /\ r \in DOMAIN desired /\ Holds(a, r) /\ (held[a][r].exp >= now \/ NotAssignable(r))
               /\ desired[r] # held[a][r].exp /\ ~NotAssignable(r)
               /\ desired[r] > now /\ desired[r] > held[a][r].act
      BY <2>0, PlanRows
    <2>5. CASE NotAssignable(r)
      <3>1. row = held[a][r]
        BY <2>1, <2>4, <2>5
      <3> QED
        BY <2>5, <3>1 DEF row, plan
    <2>6. CASE ~NotAssignable(r)
      <3>1. r \notin DOMAIN desired => row = NotHeld
        BY <2>1, <2>4, <2>6 DEF Holds
      <3>2. ASSUME r \in DOMAIN desired, Exists(r), desired[r] > now
            PROVE  row # NotHeld /\ (row.exp = desired[r] \/ desired[r] <= row.act)
        <4>1. CASE r \in DOMAIN plan.added
          BY <2>1, <2>3, <3>2, <4>1 DEF NotHeld
        <4>2. CASE r \notin DOMAIN plan.added /\ r \in DOMAIN plan.updated
          <5>1. row = [held[a][r] EXCEPT !.exp = desired[r]]
            BY <2>1, <2>2, <2>4, <3>2, <4>2
          <5>2. row.exp = desired[r]
            BY <2>2, <5>1 DEF Rows
          <5> QED
            BY <2>3, <3>2, <5>2 DEF NotHeld
        <4>3. CASE r \notin DOMAIN plan.added /\ r \notin DOMAIN plan.updated
          <5>1. Holds(a, r) /\ held[a][r].exp >= now
            BY <2>4, <2>6, <3>2, <4>3
          <5>2. row = held[a][r]
            BY <2>1, <2>2, <2>4, <3>2, <4>3, <5>1
          <5>3. row.exp = desired[r] \/ desired[r] <= row.act
            BY <2>2, <2>3, <2>4, <2>6, <3>2, <4>3, <5>1, <5>2
          <5> QED
            BY <5>1, <5>2, <5>3 DEF Holds
        <4> QED
          BY <4>1, <4>2, <4>3
      <3> QED
        BY <2>6, <3>1, <3>2 DEF row, plan
    <2> QED
      BY <2>5, <2>6
  <1> QED
    BY <1>1, DatesStayInOrder, PTL

\* The report of a dry run names exactly the rows that the synchronisation then
\* writes (sync_account_roles_from_idp_dry_run).
THEOREM DryRunsPredict == Spec => []DryRunPredicts
  <1>1. ASSUME TypeOK PROVE DryRunPredicts
    <2> SUFFICES ASSUME NEW a \in Accounts, NEW desired \in Supplies
                 PROVE  LET report == DryRun(a, desired)
                            plan == IdpPlan(a, desired)
                        IN /\ plan.removed = report.removed_expired \cup report.removed_unsupplied
                           /\ DOMAIN plan.added = report.added
                           /\ DOMAIN plan.updated = report.updated
                           /\ \A r \in DOMAIN desired : Exists(r) /\ ~NotAssignable(r) =>
                                \/ r \in report.added \cup report.updated \cup report.ignored_expired
                                \/ held[a][r].exp = desired[r]
      BY DEF DryRunPredicts
    <2> DEFINE plan == IdpPlan(a, desired)
               report == DryRun(a, desired)
               Expired(r) == Holds(a, r) /\ held[a][r].exp < now /\ ~NotAssignable(r)
               Remains(r) == Holds(a, r) /\ ~Expired(r)
               New(r) == r \in DOMAIN desired /\ ~Remains(r) /\ Exists(r) /\ ~NotAssignable(r)
               Differs(r) == /\ r \in DOMAIN desired /\ Remains(r)
                             /\ desired[r] # held[a][r].exp /\ ~NotAssignable(r)
               Early(r) == desired[r] <= now \/ desired[r] <= held[a][r].act
    <2>1. now \in Int /\ \A r \in RoleNames : held[a][r].exp \in Int /\ held[a][r].act \in Int
      BY <1>1, HeldDates, DatesTyped DEF TypeOK
    <2>2. \A r \in DOMAIN desired : r \in RoleNames /\ desired[r] \in Int
      BY SuppliedDates
    <2>3. \A r : r \in report.removed_expired <=> r \in RoleNames /\ Expired(r)
      BY DEF DryRun
    <2>4. \A r : r \in report.removed_unsupplied <=>
                   r \in RoleNames /\ Remains(r) /\ r \notin DOMAIN desired /\ ~NotAssignable(r)
      BY DEF DryRun
    <2>5. \A r : r \in report.added <=> New(r) /\ ~(desired[r] <= now)
      BY <2>2 DEF DryRun
    <2>6. \A r : r \in report.updated <=> Differs(r) /\ ~Early(r)
      BY <2>2 DEF DryRun
    <2>7. \A r : r \in report.ignored_expired <=>
                   (New(r) /\ desired[r] <= now) \/ (Differs(r) /\ Early(r))
      BY <2>2 DEF DryRun
    <2>8. \A r : /\ r \in plan.removed <=> r \in RoleNames /\ Holds(a, r) /\ ~NotAssignable(r)
                                           /\ (held[a][r].exp < now \/ r \notin DOMAIN desired)
                 /\ r \in DOMAIN plan.added <=>
                      /\ r \in DOMAIN desired
                      /\ ~(r \in RoleNames /\ Holds(a, r) /\ (held[a][r].exp >= now \/ NotAssignable(r)))
                      /\ Exists(r) /\ ~NotAssignable(r) /\ desired[r] > now
                 /\ r \in DOMAIN plan.updated <=>
                      /\ r \in DOMAIN desired
                      /\ r \in RoleNames /\ Holds(a, r) /\ (held[a][r].exp >= now \/ NotAssignable(r))
                      /\ desired[r] # held[a][r].exp /\ ~NotAssignable(r)
                      /\ desired[r] > now /\ desired[r] > held[a][r].act
      <3>1. plan = IdpPlan(a, desired)
        OBVIOUS
      <3> HIDE DEF plan
      <3> QED
        BY <3>1, PlanRows
    <2> HIDE DEF plan, report
    <2>9. plan.removed = report.removed_expired \cup report.removed_unsupplied
      <3>1. \A r : r \in plan.removed <=> r \in report.removed_expired \/ r \in report.removed_unsupplied
        BY <2>1, <2>3, <2>4, <2>8
      <3> QED
        BY <3>1
    <2>10. DOMAIN plan.added = report.added
      <3>1. \A r : r \in DOMAIN plan.added <=> r \in report.added
        BY <2>1, <2>2, <2>5, <2>8
      <3> QED
        BY <3>1
    <2>11. DOMAIN plan.updated = report.updated
      <3>1. \A r : r \in DOMAIN plan.updated <=> r \in report.updated
        BY <2>1, <2>2, <2>6, <2>8
      <3> QED
        BY <3>1
    <2>12. \A r \in DOMAIN desired : Exists(r) /\ ~NotAssignable(r) =>
             \/ r \in report.added \cup report.updated \cup report.ignored_expired
             \/ held[a][r].exp = desired[r]
      BY <2>1, <2>2, <2>5, <2>6, <2>7
    <2> QED
      BY <2>9, <2>10, <2>11, <2>12 DEF plan, report
  <1> QED
    BY <1>1, DatesStayInOrder, PTL

(***************************************************************************)
(* Permissions.                                                            *)
(***************************************************************************)
\* The filter of a listing and the policy of a single request decide alike, for
\* every account, DID and operation (did_access_checker, _rbac_can_read_did).
THEOREM ListingsAgree == Spec => []ListingAgrees
  <1>1. ListingAgrees
    <2> SUFFICES ASSUME NEW a \in Accounts, NEW s \in Scopes, NEW n \in Names, NEW op \in Operations
                 PROVE  DidAccess(a, s, n, op) = PolicyGrants(a, s, n, op)
      BY DEF ListingAgrees
    <2>1. HasPermission(a, s, n, op) <=>
            \/ \E p \in GrantedTargets(a, op) : PatternMatchesScope(s, p)
            \/ \E p \in GrantedTargets(a, op) : ~p.whole /\ PatternMatches(s, n, p)
      BY Zenon DEF HasPermission, PatternMatches
    <2>2. ScopeAccess(a, s, op, FALSE) <=>
            \/ HasAdminRole(a)
            \/ \E p \in GrantedTargets(a, op) : PatternMatchesScope(s, p)
            \/ ScopeOwner[s] = a
      BY DEF ScopeAccess
    <2>3. ScopeAccess(a, s, "read", TRUE) <=>
            HasAdminRole(a) \/ ScopeOwner[s] = a \/ HasAnyScopePrefixAccess(a, s, "read")
      BY Zenon DEF ScopeAccess, HasAnyScopePrefixAccess, PatternMatchesScope
    <2>4. DidAccess(a, s, n, op) <=> PolicyGrants(a, s, n, op)
      BY <2>1, <2>2, <2>3 DEF DidAccess, PolicyGrants, RbacPermissionAccess, RbacDidOwnershipAccess
    <2> QED
      BY <2>4 DEF DidAccess, PolicyGrants
  <1> QED
    BY <1>1, PTL

=============================================================================
