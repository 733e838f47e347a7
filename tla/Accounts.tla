------------------------------ MODULE Accounts ------------------------------
(***************************************************************************)
(* User accounts and roles: registration, the administrator's handlers on  *)
(* users and on roles, and the role migrations of every start.             *)
(*                                                                         *)
(* Source: auth/service.py, platform/permissions/service.py, their         *)
(* repositories and routers, api/security.py and platform/container.py.    *)
(*                                                                         *)
(* A handler authorises its caller and reads its target first, without the *)
(* lock of the service that writes; between the two any other request may  *)
(* run.  The write itself is atomic: AuthService has a lock for accounts,  *)
(* the platform services share one for roles.                              *)
(***************************************************************************)
CONSTANTS
  Users,         \* names an account may have
  CustomRoles,   \* identifiers of roles an owner may create
  AdminRequests, \* requests of administrators in progress
  Payloads       \* permission sets a request on a role may carry

ASSUME AccountsAssumption ==
  /\ CustomRoles \cap {"superadmin", "admin", "user"} = {}
  /\ Payloads \subseteq SUBSET
       {"users:write", "roles:write", "system:write", "image-generation:use", "llm:write"}

SystemRoles == {"superadmin", "admin", "user"}
Roles       == SystemRoles \cup CustomRoles
\* The two the handlers below ask for, the two the migrations hand out, and one
\* only superadmins have at first.
Permissions ==
  {"users:write", "roles:write", "system:write", "image-generation:use", "llm:write"}
\* What a migration adds, and to which roles.
Addition(m)  == IF m = "admin" THEN {"system:write"} ELSE {"image-generation:use"}
Receivers(m) == IF m = "admin" THEN {"admin"} ELSE Roles
NoRole      == [known |-> FALSE, permissions |-> {}]
Role(P)     == [known |-> TRUE, permissions |-> P]

AccountType == [status : {"absent", "active", "disabled"}, role : Roles]
RoleType    == [known : BOOLEAN, permissions : SUBSET Permissions]
Idle        == [op |-> "none"]
RequestType ==
       {Idle}
  \cup [op : {"set_role"}, user : Users, role : Roles]
  \cup [op : {"set_status"}, user : Users, status : {"active", "disabled"}]
  \cup [op : {"delete_user"}, user : Users]
  \cup [op : {"create_role", "update_role"}, role : Roles,
        permissions : SUBSET Permissions, owner : BOOLEAN]
  \cup [op : {"delete_role"}, role : Roles]

VARIABLES
  account,    \* users rows
  catalogue,  \* roles rows
  request,    \* what each handler has decided to write
  serving,    \* the platform container is built and requests are answered
  migrated,   \* permission_migrations: those that are done
  granted,    \* history: permissions the system roles or an owner ever gave
  edited      \* history: some role was written by a request

accountsVars == <<account, catalogue, request, serving, migrated, granted, edited>>

AccountsTypeOK ==
  /\ account \in [Users -> AccountType]
  /\ catalogue \in [Roles -> RoleType]
  /\ request \in [AdminRequests -> RequestType]
  /\ serving \in BOOLEAN /\ edited \in BOOLEAN
  /\ migrated \subseteq {"admin", "image"}
  /\ granted \subseteq Permissions

-----------------------------------------------------------------------------
Exists(u)     == account[u].status /= "absent"
HasUsers      == \E u \in Users : Exists(u)
ActiveOwner(u) == account[u] = [status |-> "active", role |-> "superadmin"]

\* The rows before this version: the roles lack what its migrations add.
AccountsInit ==
  /\ account = [u \in Users |-> [status |-> "absent", role |-> "user"]]
  /\ catalogue = [r \in Roles |->
       CASE r = "superadmin" -> Role(Permissions)
         [] r = "admin"      -> Role({"users:write"})
         [] r = "user"       -> Role({})
         [] OTHER            -> NoRole]
  /\ request = [q \in AdminRequests |-> Idle]
  /\ serving = FALSE /\ migrated = {} /\ edited = FALSE
  /\ granted = {"users:write", "system:write", "image-generation:use"}

Lacks(m, r) == catalogue[r].known /\ ~(Addition(m) \subseteq catalogue[r].permissions)
\* The administrator's migration runs first.
Due(m) == m \notin migrated /\ (m = "image" => "admin" \in migrated)

\* One role gets what it lacks; a crash may follow before the next one does.
MigrateRole(m, r) ==
  /\ ~serving /\ Due(m) /\ Lacks(m, r)
  /\ catalogue' = [catalogue EXCEPT ![r].permissions = @ \cup Addition(m)]
  /\ UNCHANGED <<account, request, serving, migrated, granted, edited>>

\* The flag is written after the loop over the roles.
FinishMigration(m) ==
  /\ ~serving /\ Due(m)
  /\ \A r \in Receivers(m) : ~Lacks(m, r)
  /\ migrated' = migrated \cup {m}
  /\ UNCHANGED <<account, catalogue, request, serving, granted, edited>>

\* The container is built, the first request can be answered.
Serve ==
  /\ ~serving /\ migrated = {"admin", "image"}
  /\ serving' = TRUE
  /\ UNCHANGED <<account, catalogue, request, migrated, granted, edited>>

\* The process stops: handlers in progress are lost, rows stay.
StopServing ==
  /\ serving
  /\ serving' = FALSE
  /\ request' = [q \in AdminRequests |-> Idle]
  /\ UNCHANGED <<account, catalogue, migrated, granted, edited>>

-----------------------------------------------------------------------------
\* current_user: a role that is gone gives no permission, an owner has all.
PermissionsOf(a) ==
  IF account[a].role = "superadmin" THEN Permissions
  ELSE catalogue[account[a].role].permissions

Owner(a)    == account[a].role = "superadmin"
Acts(a, p)  == account[a].status = "active" /\ p \in PermissionsOf(a)
Manages(a, u) == Owner(a) \/ account[u].role = "user"

Decide(q, r) ==
  /\ serving /\ request[q] = Idle
  /\ request' = [request EXCEPT ![q] = r]
  /\ UNCHANGED <<account, catalogue, serving, migrated, granted, edited>>

\* The role asked for is looked up in a list read before the account's lock.
AskRole(q, a, u, r) ==
  /\ Acts(a, "users:write") /\ Owner(a)
  /\ Exists(u) /\ catalogue[r].known /\ r /= account[u].role
  /\ Decide(q, [op |-> "set_role", user |-> u, role |-> r])

AskStatus(q, a, u, s) ==
  /\ Acts(a, "users:write") /\ Manages(a, u)
  /\ Exists(u) /\ s /= account[u].status
  /\ Decide(q, [op |-> "set_status", user |-> u, status |-> s])

\* Nobody deletes himself, and an owner is not deleted as far as is known now.
AskDelete(q, a, u) ==
  /\ Acts(a, "users:write") /\ Manages(a, u) /\ ~Owner(u)
  /\ Exists(u) /\ a /= u
  /\ Decide(q, [op |-> "delete_user", user |-> u])

AskCreateRole(q, a, r, P) ==
  /\ Acts(a, "roles:write") /\ Owner(a)
  /\ r \in CustomRoles
  /\ Decide(q, [op |-> "create_role", role |-> r, permissions |-> P, owner |-> TRUE])

\* Faulty variant: delegates are checked for roles:write only.
WithinAnything(a, P) == "roles:write" \in PermissionsOf(a)

\* A role's administrator may give away what he has himself.
WithinOwn(a, P) == P \subseteq PermissionsOf(a)

\* A payload without permissions writes those just read back (P is the same).
AskUpdateRole(q, a, r, P) ==
  /\ Acts(a, "roles:write") /\ catalogue[r].known
  /\ Owner(a) \/ (r \in CustomRoles /\ WithinOwn(a, P))
  /\ Decide(q, [op |-> "update_role", role |-> r, permissions |-> P,
                owner |-> Owner(a)])

AskDeleteRole(q, a, r) ==
  /\ Acts(a, "roles:write") /\ Owner(a)
  /\ r \in CustomRoles /\ catalogue[r].known
  /\ Decide(q, [op |-> "delete_role", role |-> r])

-----------------------------------------------------------------------------
\* Faulty variant: any other superadmin is enough, a disabled one too.
OwnerStaysByRole(u, role, status) ==
  \/ ~ActiveOwner(u)
  \/ role = "superadmin" /\ status = "active"
  \/ \E v \in Users \ {u} : account[v].role = "superadmin" /\ Exists(v)

\* A superadmin who would stop being an active one needs another to be left.
OwnerStays(u, role, status) ==
  \/ ~ActiveOwner(u)
  \/ role = "superadmin" /\ status = "active"
  \/ \E v \in Users \ {u} : ActiveOwner(v)

\* The first account owns the system.
Register(u) ==
  /\ serving /\ ~Exists(u)
  /\ account' = [account EXCEPT ![u] =
       [status |-> "active", role |-> IF HasUsers THEN "user" ELSE "superadmin"]]
  /\ UNCHANGED <<catalogue, request, serving, migrated, granted, edited>>

\* set_role, set_status and delete_user under the lock: a name that is gone
\* or the last owner is refused.
RowAfter(r, row) ==
  CASE r.op = "set_role"    -> [row EXCEPT !.role = r.role]
    [] r.op = "set_status"  -> [row EXCEPT !.status = r.status]
    [] r.op = "delete_user" -> [status |-> "absent", role |-> "user"]

WriteAccount(q) ==
  /\ serving /\ request[q].op \in {"set_role", "set_status", "delete_user"}
  /\ LET u == request[q].user
         next == RowAfter(request[q], account[u])
     IN account' =
          IF Exists(u) /\ OwnerStays(u, next.role, next.status)
          THEN [account EXCEPT ![u] = next]
          ELSE account
  /\ request' = [request EXCEPT ![q] = Idle]
  /\ UNCHANGED <<catalogue, serving, migrated, granted, edited>>

\* create_role refuses a role that exists; update_role saves whatever is there.
SaveRole(q) ==
  /\ serving /\ request[q].op \in {"create_role", "update_role"}
  /\ LET r == request[q].role
         saved == ~(request[q].op = "create_role" /\ catalogue[r].known)
     IN /\ catalogue' = IF saved
                        THEN [catalogue EXCEPT ![r] = Role(request[q].permissions)]
                        ELSE catalogue
        /\ granted' = IF saved /\ request[q].owner
                      THEN granted \cup request[q].permissions ELSE granted
        /\ edited' = (edited \/ saved)
  /\ request' = [request EXCEPT ![q] = Idle]
  /\ UNCHANGED <<account, serving, migrated>>

\* count_assigned_users: a role some account still has is kept.
Assigned(r) == \E u \in Users : Exists(u) /\ account[u].role = r

DropRole(q) ==
  /\ serving /\ request[q].op = "delete_role"
  /\ LET r == request[q].role
     IN catalogue' = IF Assigned(r) THEN catalogue
                     ELSE [catalogue EXCEPT ![r] = NoRole]
  /\ request' = [request EXCEPT ![q] = Idle]
  /\ edited' = (edited \/ ~Assigned(request[q].role))
  /\ UNCHANGED <<account, serving, migrated, granted>>

-----------------------------------------------------------------------------
AdminStep(q) ==
  \/ \E a \in Users :
       \/ \E u \in Users :
            \/ \E r \in Roles : AskRole(q, a, u, r)
            \/ \E s \in {"active", "disabled"} : AskStatus(q, a, u, s)
            \/ AskDelete(q, a, u)
       \/ \E r \in Roles :
            \/ \E P \in Payloads : AskCreateRole(q, a, r, P)
            \/ \E P \in Payloads \cup {catalogue[r].permissions} :
                 AskUpdateRole(q, a, r, P)
            \/ AskDeleteRole(q, a, r)
  \/ WriteAccount(q)
  \/ SaveRole(q)
  \/ DropRole(q)

AccountsNext ==
  \/ \E m \in {"admin", "image"} :
       FinishMigration(m) \/ \E r \in Receivers(m) : MigrateRole(m, r)
  \/ Serve \/ StopServing
  \/ \E u \in Users : Register(u)
  \/ \E q \in AdminRequests : AdminStep(q)

AccountsSpec == AccountsInit /\ [][AccountsNext]_accountsVars

-----------------------------------------------------------------------------
\* Once there are accounts, one of them is an active superadmin, whatever
\* demotions, disablings and deletions administrators decided at the same
\* time (assert_system_owner_retained, auth/service.py:294).
OwnerRetained == HasUsers => \E u \in Users : ActiveOwner(u)

\* No chain of delegated role administrators, and no edit decided before its
\* author lost a permission, puts into a role a permission that neither the
\* system roles nor an owner ever gave away (update_role's delegation bound).
PermissionsTraceToOwner ==
  \A r \in Roles \ {"superadmin"} : catalogue[r].permissions \subseteq granted

\* A start never undoes an edit: the one-time migrations finish before the
\* first request, crashes included, and do not run again.
StartsKeepEdits == [][~serving /\ edited => UNCHANGED catalogue]_accountsVars
=============================================================================
