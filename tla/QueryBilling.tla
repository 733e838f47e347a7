---------------------------- MODULE QueryBilling ----------------------------
(***************************************************************************)
(* A query from the door to the bill: who asks is resolved up to four      *)
(* times (route guard, eligibility, admission principal, billing), each    *)
(* time from the rows as they then are, the slow lookup lies in between,   *)
(* and the usage transaction checks key and quota once more.  Meanwhile    *)
(* owners change their API keys and administrators their accounts.         *)
(*                                                                         *)
(* Source: api/query_execution.py, api/security.py,                        *)
(* platform/tokens/service.py, storage/repositories/{tokens,usage}.py.     *)
(*                                                                         *)
(* What the admission controller decides is modelled in QueryAdmission and *)
(* what a query costs in PointsLedger; here both may refuse a request.     *)
(***************************************************************************)
EXTENDS Integers, FiniteSets

CONSTANTS
  Threads, None,
  Users, Keys, Owner,   \* accounts, API keys and whose they are
  Clients,              \* extract_client_fingerprint
  Limits,               \* quota_limit of a key; negative is unlimited
  MaxKeys,              \* setting api_key_max_count, 0 when unlimited
  RequireAuth,          \* app.state.require_auth
  MaxRequests,          \* bound: requests
  MaxChanges            \* bound: changes of keys and accounts

ASSUME QueryBillingAssumption ==
  /\ Owner \in [Keys -> Users] /\ Keys \cap Users = {}
  /\ None \notin Threads \cup Clients
  /\ Limits \subseteq Int /\ MaxKeys \in Nat /\ RequireAuth \in BOOLEAN
  /\ MaxRequests \in Nat /\ MaxChanges \in Nat
  /\ IsFiniteSet(Keys)

VARIABLES
  key,       \* rows of api_tokens
  account,   \* status of the user rows
  online,    \* users with a session
  lock,      \* thread inside the lock of the platform services, or None
  req,       \* request each thread serves or has served last
  holding,   \* threads with an admission lease
  logs,      \* usage logs written for each caller
  epoch,     \* times the client of each key was forgotten, plus one
  requests, changes

keyVars     == <<key, epoch>>
accountVars == <<account, online>>
vars == <<keyVars, accountVars, lock, req, holding, logs, requests, changes>>

Callers   == Keys \cup Users   \* an API key, or a user with a session
Resolving == {"guard", "check", "principal", "record"}
Ended     == {"idle", "answered", "refused", "failed"}
Phases    == Resolving \cup {"acquire", "lookup", "bill"} \cup Ended

NewKey(limit, bind) ==
  [status |-> "active", used |-> 0, limit |-> limit, bind |-> bind, client |-> None]
Blank == NewKey(-1, FALSE)

\* Faulty variant: the shared lock is not taken.
FreeAlways == lock = lock
Free == lock = None

Init ==
  /\ key = [k \in Keys |-> [Blank EXCEPT !.status = "absent"]]
  /\ account = [u \in Users |-> "active"] /\ online = Users
  /\ lock = None /\ holding = {}
  /\ req = [t \in Threads |-> [phase |-> "idle", caller |-> None, client |-> None,
              row |-> Blank, saving |-> FALSE, under |-> 0, lost |-> FALSE, billed |-> FALSE]]
  /\ logs = [c \in Callers |-> 0] /\ epoch = [k \in Keys |-> 1]
  /\ requests = 0 /\ changes = 0

-----------------------------------------------------------------------------
(* Who is asking.                                                          *)

Live(k)      == key[k].status = "active"
Spent(k)     == key[k].limit >= 0 /\ key[k].used >= key[k].limit
Foreign(k,d) == key[k].bind /\ key[k].client \notin {None, d}
Unbound(k)   == key[k].bind /\ key[k].client = None
\* resolve_user_by_id and resolve_session.
Valid(c) == IF c \in Keys THEN Live(c) /\ account[Owner[c]] = "active" ELSE c \in online

ByKey(t)  == req[t].caller \in Keys
\* resolve_token raises AuthError.
Barred(t) == /\ ByKey(t) /\ Live(req[t].caller)
             /\ Spent(req[t].caller) \/ Foreign(req[t].caller, req[t].client)
\* resolve_token is about to bind the key to this client.
Binding(t) == /\ ByKey(t) /\ Live(req[t].caller)
              /\ ~Spent(req[t].caller) /\ Unbound(req[t].caller)

\* Where a request goes on when its caller has or has not been identified;
\* an identified one may be found to have too few points.
Onward(phase, identified) ==
  CASE phase = "guard"     -> {IF identified THEN "check" ELSE "refused"}
    [] phase = "check"     -> IF identified THEN {"principal", "refused"} ELSE {"principal"}
    [] phase = "principal" -> {"acquire"}
    [] phase = "record"    -> {IF identified THEN "bill" ELSE "answered"}
\* Faulty variant: billing treats a refused key like no key.
AfterErrorLenient(phase) == CASE phase = "principal" -> "acquire"
                              [] phase = "record" -> "answered" [] OTHER -> "refused"
\* query_principal_key alone swallows the error.
AfterError(phase) == IF phase = "principal" THEN "acquire" ELSE "refused"

Ask(t, c, d) ==
  /\ req[t].phase \in Ended /\ t \notin holding /\ requests < MaxRequests
  /\ requests' = requests + 1
  /\ req' = [req EXCEPT ![t] =
       [phase |-> IF RequireAuth THEN "guard" ELSE "check", caller |-> c, client |-> d,
        row |-> Blank, saving |-> FALSE, under |-> 0, lost |-> ~Valid(c), billed |-> FALSE]]
  /\ UNCHANGED <<keyVars, accountVars, lock, holding, logs, changes>>

Resolve(t) ==
  /\ req[t].phase \in Resolving /\ ~req[t].saving /\ Free /\ ~Binding(t)
  /\ \E p \in IF Barred(t) THEN {AfterError(req[t].phase)}
              ELSE Onward(req[t].phase, Valid(req[t].caller)) :
       req' = [req EXCEPT ![t].phase = p,
                 ![t].under = IF ByKey(t) /\ ~Barred(t) /\ Live(req[t].caller)
                                 /\ key[req[t].caller].bind
                              THEN epoch[req[t].caller] ELSE 0]
  /\ UNCHANGED <<keyVars, accountVars, lock, holding, logs, requests, changes>>

\* resolve_token binds the key: the row is read and saved as a whole.
BindRead(t) ==
  /\ req[t].phase \in Resolving /\ ~req[t].saving /\ Free /\ Binding(t)
  /\ lock' = t
  /\ req' = [req EXCEPT ![t].saving = TRUE,
                        ![t].row = [key[req[t].caller] EXCEPT !.client = req[t].client]]
  /\ UNCHANGED <<keyVars, accountVars, holding, logs, requests, changes>>
BindSave(t) ==
  /\ req[t].phase \in Resolving /\ req[t].saving
  /\ key' = [key EXCEPT ![req[t].caller] = req[t].row]
  /\ lock' = None
  /\ \E p \in Onward(req[t].phase, account[Owner[req[t].caller]] = "active") :
       req' = [req EXCEPT ![t].phase = p, ![t].saving = FALSE,
                          ![t].row = Blank, ![t].under = epoch[req[t].caller]]
  /\ UNCHANGED <<epoch, accountVars, holding, logs, requests, changes>>

-----------------------------------------------------------------------------
(* run_lookup.                                                             *)

\* try_acquire lets the request in or refuses it.
Acquire(t) ==
  /\ req[t].phase = "acquire"
  /\ \/ req' = [req EXCEPT ![t].phase = "refused"] /\ UNCHANGED holding
     \/ req' = [req EXCEPT ![t].phase = "lookup"] /\ holding' = holding \cup {t}
  /\ UNCHANGED <<keyVars, accountVars, lock, logs, requests, changes>>

\* lookup.query answers or raises.
Lookup(t) ==
  /\ req[t].phase = "lookup"
  /\ \E p \in {"record", "failed"} : req' = [req EXCEPT ![t].phase = p]
  /\ UNCHANGED <<keyVars, accountVars, lock, holding, logs, requests, changes>>

\* Faulty variant: the last answer of the quota is given twice.
OverQuotaLate(k) == key[k].limit > 0 /\ key[k].used > key[k].limit
\* quota_limit "or -1": a limit of 0 is read as unlimited here.
OverQuota(k) == key[k].limit > 0 /\ key[k].used + 1 > key[k].limit

\* commit_usage_transaction reads the key and the user ...
BillRead(t) ==
  LET c == req[t].caller
      refused == IF ByKey(t) THEN ~Live(c) \/ OverQuota(c) \/ account[Owner[c]] = "absent"
                 ELSE account[c] = "absent"
  IN
  /\ req[t].phase = "bill" /\ ~req[t].saving /\ Free
  /\ \/ refused /\ req' = [req EXCEPT ![t].phase = "refused"] /\ UNCHANGED lock
     \/ /\ ~refused /\ lock' = t
        /\ req' = [req EXCEPT ![t].saving = TRUE,
                              ![t].row = IF ByKey(t) THEN key[c] ELSE Blank]
  /\ UNCHANGED <<keyVars, accountVars, holding, logs, requests, changes>>
\* ... and writes the counters and the log in one commit.
BillWrite(t) ==
  /\ req[t].phase = "bill" /\ req[t].saving
  /\ key' = IF ByKey(t) THEN [key EXCEPT ![req[t].caller].used = req[t].row.used + 1] ELSE key
  /\ logs' = [logs EXCEPT ![req[t].caller] = @ + 1]
  /\ lock' = None
  /\ req' = [req EXCEPT ![t].phase = "answered", ![t].saving = FALSE,
                        ![t].row = Blank, ![t].billed = TRUE]
  /\ UNCHANGED <<epoch, accountVars, holding, requests, changes>>
\* On SQLite the user may be gone by then: the commit raises StaleDataError
\* when the points of the row were to change.
BillLost(t) ==
  /\ req[t].phase = "bill" /\ req[t].saving
  /\ account[IF ByKey(t) THEN Owner[req[t].caller] ELSE req[t].caller] = "absent"
  /\ lock' = None
  /\ req' = [req EXCEPT ![t].phase = "failed", ![t].saving = FALSE, ![t].row = Blank]
  /\ UNCHANGED <<keyVars, accountVars, holding, logs, requests, changes>>

\* Faulty variant: the lease is given back only after an answer.
OverAnswered(t) == req[t].phase = "answered"
Over(t) == req[t].phase \in Ended
\* The finally clause.
Leave(t) ==
  /\ t \in holding /\ Over(t) /\ holding' = holding \ {t}
  /\ UNCHANGED <<keyVars, accountVars, lock, req, logs, requests, changes>>

Serve(t) ==
  \/ Resolve(t) \/ BindRead(t) \/ BindSave(t) \/ Acquire(t) \/ Lookup(t)
  \/ BillRead(t) \/ BillWrite(t) \/ BillLost(t) \/ Leave(t)

-----------------------------------------------------------------------------
(* Owners and administrators.                                              *)

\* The request of caller c in thread t has yet to be answered.
Asking(t, c) == req[t].phase \notin Ended /\ req[t].caller = c
\* The callers in C lose their right to ask: their requests are marked.
Withdraw(C) == req' = [t \in Threads |->
  IF \E c \in C : Asking(t, c) THEN [req[t] EXCEPT !.lost = TRUE] ELSE req[t]]
Change == changes < MaxChanges /\ changes' = changes + 1

\* An owner works on a key through a route that requires a session.
Manage(k) == Change /\ Free /\ Owner[k] \in online
             /\ UNCHANGED <<accountVars, lock, holding, logs, requests>>
Exists(k) == key[k].status \notin {"absent", "deleted"}

CreateKey(k, limit, bind) ==
  /\ Manage(k) /\ key[k].status = "absent"
  /\ MaxKeys > 0 =>
       Cardinality({i \in Keys : Owner[i] = Owner[k] /\ Exists(i)}) < MaxKeys
  /\ key' = [key EXCEPT ![k] = NewKey(limit, bind)]
  /\ UNCHANGED <<epoch, req>>

SetTokenEnabled(k, enabled) ==
  /\ Manage(k) /\ Exists(k) /\ key[k].status # "revoked"
  /\ key' = [key EXCEPT ![k].status = IF enabled THEN "active" ELSE "disabled"]
  /\ Withdraw(IF enabled THEN {} ELSE {k}) /\ UNCHANGED epoch

RevokeToken(k) ==
  /\ Manage(k) /\ Exists(k)
  /\ key' = [key EXCEPT ![k].status = "revoked"]
  /\ Withdraw({k}) /\ UNCHANGED epoch

UpdateToken(k, limit, bind, reset) ==
  /\ Manage(k) /\ Exists(k)
  /\ key' = [key EXCEPT ![k].limit = limit, ![k].bind = bind,
                        ![k].client = IF ~bind \/ reset THEN None ELSE @]
  /\ epoch' = [epoch EXCEPT ![k] = IF key'[k].client = key[k].client THEN @ ELSE @ + 1]
  /\ UNCHANGED req

DeleteToken(k) ==
  /\ Manage(k) /\ Exists(k)
  /\ key' = [key EXCEPT ![k].status = "deleted"]
  /\ Withdraw({k}) /\ UNCHANGED epoch

CallersOf(u) == {u} \cup {k \in Keys : Owner[k] = u}

\* AuthService has a lock of its own; all its work on sessions is one step.
Manager == Change /\ UNCHANGED <<keyVars, lock, holding, logs, requests>>
SetStatus(u, status) ==
  /\ Manager /\ account[u] # "absent"
  /\ account' = [account EXCEPT ![u] = status]
  /\ online' = IF status = "active" THEN online ELSE online \ {u}
  /\ Withdraw(IF status = "active" THEN {} ELSE CallersOf(u))
\* Row locks, where there are any, only delay the deletion.
DeleteUser(u) ==
  /\ Manager /\ account[u] # "absent"
  /\ account' = [account EXCEPT ![u] = "absent"] /\ online' = online \ {u}
  /\ Withdraw(CallersOf(u))
LogIn(u) == /\ Manager /\ account[u] = "active" /\ online' = online \cup {u}
            /\ UNCHANGED <<account, req>>
LogOut(u) == /\ Manager /\ online' = online \ {u} /\ Withdraw({u})
             /\ UNCHANGED account

Next ==
  \/ \E t \in Threads : Serve(t) \/ \E c \in Callers, d \in Clients : Ask(t, c, d)
  \/ \E k \in Keys : \/ RevokeToken(k) \/ DeleteToken(k)
                     \/ \E b \in BOOLEAN : SetTokenEnabled(k, b)
                     \/ \E n \in Limits, b \in BOOLEAN : CreateKey(k, n, b)
                     \/ \E n \in Limits, b, r \in BOOLEAN : UpdateToken(k, n, b, r)
  \/ \E u \in Users : \/ DeleteUser(u) \/ LogIn(u) \/ LogOut(u)
                      \/ \E s \in {"active", "disabled"} : SetStatus(u, s)

Spec == Init /\ [][Next]_vars

\* A thread runs on, the provider call times out, and a lock that is released
\* again and again is granted in the end.
FairSpec == Spec /\ \A t \in Threads : SF_vars(Serve(t))

-----------------------------------------------------------------------------
(* Properties.                                                             *)

RowType == [status : {"absent", "active", "disabled", "revoked", "deleted"},
            used : Nat, limit : Int, bind : BOOLEAN, client : Clients \cup {None}]
ReqType == [phase : Phases, caller : Callers \cup {None}, client : Clients \cup {None},
            row : RowType, saving : BOOLEAN, under : Nat, lost : BOOLEAN, billed : BOOLEAN]

\* Every variable has its type, a key without binding has no client, and the
\* lock of the platform services is held by the thread that is about to save.
TypeOK ==
  /\ key \in [Keys -> RowType] /\ epoch \in [Keys -> Nat \ {0}]
  /\ account \in [Users -> {"active", "disabled", "absent"}] /\ online \subseteq Users
  /\ req \in [Threads -> ReqType] /\ holding \subseteq Threads
  /\ lock \in Threads \cup {None} /\ \A t \in Threads : lock = t <=> req[t].saving
  /\ logs \in [Callers -> Nat] /\ requests \in Nat /\ changes \in Nat
  /\ \A k \in Keys : ~key[k].bind => key[k].client = None

\* The counter of an API key is the number of usage logs written with it, in
\* spite of the whole-row saves of binding and of its owner
\* (save_token against commit_usage_transaction).
UsageCounted == \A k \in Keys : key[k].status # "absent" => key[k].used = logs[k]

\* An answer leaves without a usage log only if its caller lost the right to
\* ask (key withdrawn, account disabled, session closed) before or while the
\* request was served (record_usage returning early).
UnbilledOnlyIfWithdrawn ==
  \A t \in Threads : req[t].phase = "answered" /\ ~req[t].billed => req[t].lost

\* No two clients use a bound key unless its owner has released the binding in
\* between (resolve_token, two first requests at once).
BoundToOne ==
  \A s, t \in Threads :
    /\ ByKey(s) /\ req[s].caller = req[t].caller
    /\ req[s].under = req[t].under /\ req[s].under # 0
    => req[s].client = req[t].client

\* No request is billed beyond the quota its key has at that moment, however
\* many passed the check of resolve_token together; a limit of 0 is left out
\* because commit_usage_transaction takes it for none.
QuotaKept ==
  [][\A k \in Keys : logs'[k] > logs[k] /\ key[k].limit > 0 => logs'[k] <= key[k].limit]_vars

\* Every request comes to an end and gives its admission lease back.
EveryRequestEnds ==
  \A t \in Threads : req[t].phase \notin Ended ~> req[t].phase \in Ended /\ t \notin holding
=============================================================================
