-------------------------- MODULE QueryBillingProofs --------------------------
(***************************************************************************)
(* Proofs about QueryBilling, for any number of threads, keys and clients. *)
(* Inv is inductive: besides the properties it says that a row about to be *)
(* saved is still the row in the table, that a request whose caller may no *)
(* longer ask is marked, and that a request resolved since the last reset  *)
(* comes from the client its key is bound to.                              *)
(***************************************************************************)
EXTENDS QueryBilling, TLAPS

Counted == \A k \in Keys : key[k].used = logs[k]

Copied(t) == req[t].saving =>
  /\ req[t].phase \in Resolving \cup {"bill"}
  /\ req[t].phase \in Resolving =>
       Binding(t) /\ req[t].row = [key[req[t].caller] EXCEPT !.client = req[t].client]
  /\ req[t].phase = "bill" /\ ByKey(t) =>
       req[t].row = key[req[t].caller] /\ Live(req[t].caller) /\ ~OverQuota(req[t].caller)

Known(t) == req[t].phase # "idle" => req[t].caller \in Callers /\ req[t].client \in Clients

Marked(t) ==
  /\ req[t].phase \notin Ended /\ ~Valid(req[t].caller) => req[t].lost
  /\ req[t].phase = "answered" /\ ~req[t].billed => req[t].lost

Recent(t) == ByKey(t) =>
  /\ req[t].under <= epoch[req[t].caller]
  /\ req[t].under = epoch[req[t].caller] =>
       key[req[t].caller].client = req[t].client /\ req[t].client # None

Fresh == \A k \in Keys : key[k].status = "absent" => ~key[k].bind /\ key[k].used = 0

Inv == /\ TypeOK /\ Counted /\ Fresh /\ BoundToOne
       /\ \A t \in Threads : Copied(t) /\ Known(t) /\ Marked(t) /\ Recent(t)

USE QueryBillingAssumption

LEMMA InitInv == Init => Inv
<1> SUFFICES ASSUME Init PROVE Inv OBVIOUS
<1>1. Blank \in RowType BY DEF Blank, NewKey, RowType
<1>2. TypeOK
  <2>1. key \in [Keys -> RowType] BY <1>1 DEF Init, RowType
  <2>2. req \in [Threads -> ReqType] BY <1>1 DEF Init, ReqType, Phases, Ended
  <2>3. \A k \in Keys : key[k].client = None BY DEF Init, Blank, NewKey
  <2>4. \A t \in Threads : lock = t <=> req[t].saving BY DEF Init
  <2>5. epoch \in [Keys -> Nat \ {0}] /\ logs \in [Callers -> Nat] BY DEF Init
  <2> QED BY <2>1, <2>2, <2>3, <2>4, <2>5 DEF Init, TypeOK
<1>3. Counted BY DEF Init, Counted, Blank, NewKey, Callers
<1>4. \A t \in Threads : Copied(t) /\ Known(t) /\ Marked(t)
  BY DEF Init, Copied, Known, Marked, Ended
<1>5. \A t \in Threads : Recent(t) BY DEF Init, Recent, ByKey
<1>6. Fresh /\ BoundToOne BY DEF Init, Fresh, Blank, NewKey, BoundToOne
<1> QED BY <1>2, <1>3, <1>4, <1>5, <1>6 DEF Inv

-----------------------------------------------------------------------------
(* Steps of a request that change nothing but the request itself.          *)

Untouched == UNCHANGED <<key, epoch, account, online, logs>>

\* Thread t moves on: nobody else's request changes, and what it has been
\* resolved under is unchanged, forgotten, or the present binding of its key.
Moved(t) ==
  /\ req' = [req EXCEPT ![t] = req'[t]] /\ req'[t] \in ReqType
  /\ \/ req'[t].under = 0
     \/ /\ req'[t].under = req[t].under
        /\ req'[t].caller = req[t].caller /\ req'[t].client = req[t].client
     \/ req'[t].under = epoch'[req'[t].caller]

LEMMA MovedInv ==
  ASSUME Inv, NEW t \in Threads, Moved(t), Untouched, holding' \subseteq Threads,
         requests' \in Nat, changes' \in Nat, lock' \in Threads \cup {None},
         \A s \in Threads : lock' = s <=> req'[s].saving,
         Copied(t)', Known(t)', Marked(t)', Recent(t)'
  PROVE  Inv'
<1>1. req' \in [Threads -> ReqType] /\ \A s \in Threads \ {t} : req'[s] = req[s]
  BY DEF Moved, Inv, TypeOK
<1>2. TypeOK' BY <1>1 DEF Inv, TypeOK, Untouched
<1>3. Counted' /\ Fresh' BY DEF Inv, Counted, Fresh, Untouched
<1>4. ASSUME NEW s \in Threads \ {t} PROVE (Copied(s) /\ Known(s) /\ Marked(s) /\ Recent(s))'
  <2>1. Copied(s) /\ Known(s) /\ Marked(s) /\ Recent(s) BY DEF Inv
  <2>2. req'[s] = req[s] BY <1>1
  <2>3. Copied(s)' BY <2>1, <2>2 DEF Copied, Untouched, Binding, ByKey, Live, Spent, Unbound, OverQuota
  <2>4. Known(s)' BY <2>1, <2>2 DEF Known
  <2>5. Marked(s)' BY <2>1, <2>2 DEF Marked, Untouched, Valid, Live
  <2>6. Recent(s)' BY <2>1, <2>2 DEF Recent, Untouched, ByKey
  <2> QED BY <2>3, <2>4, <2>5, <2>6
<1>5. BoundToOne'
  <2> SUFFICES ASSUME NEW r \in Threads, NEW s \in Threads, ByKey(r)',
                      req'[r].caller = req'[s].caller, req'[r].under = req'[s].under,
                      req'[r].under # 0
               PROVE  req'[r].client = req'[s].client
    BY DEF BoundToOne
  <2>1. ByKey(s)' BY DEF ByKey
  <2>2. (Recent(r) /\ Recent(s))' BY <1>4
  <2>3. CASE req'[t].under = epoch'[req'[t].caller] /\ (r = t \/ s = t)
    BY <2>1, <2>2, <2>3 DEF Recent
  <2>4. CASE \A q \in {r, s} : /\ req'[q].under = req[q].under
                               /\ req'[q].caller = req[q].caller
                               /\ req'[q].client = req[q].client
    BY <2>4 DEF Inv, BoundToOne, ByKey
  <2> QED BY <2>3, <2>4, <1>1 DEF Moved
<1> QED BY <1>2, <1>3, <1>4, <1>5 DEF Inv

-----------------------------------------------------------------------------
(* Steps that leave every request where it is: owners and administrators,  *)
(* who withdraw the right to ask from the callers in C, and leases.        *)

LEMMA WithdrawNobody == ASSUME TypeOK, UNCHANGED req PROVE Withdraw({})
  BY DEF TypeOK, Withdraw

LEMMA WithdrawKeeps ==
  ASSUME TypeOK, NEW C, Withdraw(C), NEW t \in Threads
  PROVE  /\ req'[t] \in ReqType
         /\ req'[t].phase = req[t].phase /\ req'[t].caller = req[t].caller
         /\ req'[t].client = req[t].client /\ req'[t].row = req[t].row
         /\ req'[t].saving = req[t].saving /\ req'[t].under = req[t].under
         /\ req'[t].billed = req[t].billed /\ (req[t].lost => req'[t].lost)
         /\ \A c \in C : Asking(t, c) => req'[t].lost
<1>1. req[t] \in ReqType BY DEF TypeOK
<1>2. CASE \E c \in C : Asking(t, c)
  <2>1. req'[t] = [req[t] EXCEPT !.lost = TRUE] BY <1>2 DEF Withdraw
  <2> QED BY <2>1, <1>1 DEF ReqType
<1>3. CASE ~\E c \in C : Asking(t, c)
  <2>1. req'[t] = req[t] BY <1>3 DEF Withdraw
  <2> QED BY <2>1, <1>1, <1>3
<1> QED BY <1>2, <1>3

\* No caller loses the right to ask except those in C.
Spares(C) == \A c \in Callers \ C : Valid(c) => Valid(c)'

\* The rows keep their counters, and a client is forgotten only in a new epoch.
RowsKept ==
  /\ key' \in [Keys -> RowType] /\ epoch' \in [Keys -> Nat \ {0}]
  /\ \A k \in Keys :
       /\ key'[k].used = key[k].used
       /\ ~key'[k].bind => key'[k].client = None
       /\ \/ epoch'[k] = epoch[k] /\ key'[k].client = key[k].client
          \/ epoch'[k] = epoch[k] + 1
       /\ key'[k].status = "absent" => ~key'[k].bind /\ key'[k].used = 0

LEMMA KeptInv ==
  ASSUME Inv, NEW C, Withdraw(C), Spares(C), RowsKept, Free \/ UNCHANGED key,
         UNCHANGED <<lock, logs>>, holding' \subseteq Threads,
         requests' \in Nat, changes' \in Nat, online' \subseteq Users,
         account' \in [Users -> {"active", "disabled", "absent"}]
  PROVE  Inv'
<1>1. TypeOK BY DEF Inv
<1>2. \A t \in Threads :
        /\ req'[t] \in ReqType
        /\ req'[t].phase = req[t].phase /\ req'[t].caller = req[t].caller
        /\ req'[t].client = req[t].client /\ req'[t].row = req[t].row
        /\ req'[t].saving = req[t].saving /\ req'[t].under = req[t].under
        /\ req'[t].billed = req[t].billed /\ (req[t].lost => req'[t].lost)
        /\ \A c \in C : Asking(t, c) => req'[t].lost
  BY <1>1, WithdrawKeeps
<1>3. TypeOK'
  <2>1. req' \in [Threads -> ReqType] BY <1>2 DEF Withdraw
  <2>2. \A t \in Threads : lock' = t <=> req'[t].saving BY <1>1, <1>2 DEF TypeOK
  <2>3. /\ key' \in [Keys -> RowType] /\ epoch' \in [Keys -> Nat \ {0}]
        /\ \A k \in Keys : ~key'[k].bind => key'[k].client = None
    BY DEF RowsKept
  <2>4. /\ lock' \in Threads \cup {None} /\ logs' \in [Callers -> Nat]
        /\ requests' \in Nat /\ changes' \in Nat
    BY <1>1 DEF TypeOK
  <2> QED BY <2>1, <2>2, <2>3, <2>4 DEF TypeOK
<1>4. Counted' /\ Fresh'
  <2>1. \A k \in Keys : key'[k].used = logs'[k] BY DEF Inv, Counted, RowsKept
  <2>2. \A k \in Keys : key'[k].status = "absent" => ~key'[k].bind /\ key'[k].used = 0
    BY DEF RowsKept
  <2> QED BY <2>1, <2>2 DEF Counted, Fresh
<1>5. BoundToOne' BY <1>2 DEF Inv, BoundToOne, ByKey
<1>6. ASSUME NEW t \in Threads PROVE (Copied(t) /\ Known(t) /\ Marked(t) /\ Recent(t))'
  <2>1. Copied(t) /\ Known(t) /\ Marked(t) /\ Recent(t) BY DEF Inv
  <2>2. Copied(t)'
    <3>1. CASE Free
      <4>1. ~req'[t].saving BY <3>1, <1>1, <1>2 DEF Free, TypeOK
      <4> QED BY <4>1 DEF Copied
    <3>2. CASE UNCHANGED key
      BY <3>2, <2>1, <1>2 DEF Copied, Binding, ByKey, Live, Spent, Unbound, OverQuota
    <3> QED BY <3>1, <3>2
  <2>3. Known(t)' BY <2>1, <1>2 DEF Known
  <2>4. Marked(t)'
    <3>1. req[t].phase \notin Ended => req[t].caller \in Callers
      BY <2>1 DEF Known, Ended
    <3>2. ASSUME req'[t].phase \notin Ended, ~Valid(req[t].caller)' PROVE req'[t].lost
      <4>1. CASE req[t].caller \in C BY <4>1, <3>2, <1>2 DEF Asking
      <4>2. CASE req[t].caller \notin C
        <5>1. ~Valid(req[t].caller) BY <4>2, <3>1, <3>2, <1>2 DEF Spares
        <5> QED BY <5>1, <2>1, <3>2, <1>2 DEF Marked
      <4> QED BY <4>1, <4>2
    <3>5. req'[t].phase = "answered" /\ ~req'[t].billed => req'[t].lost
      BY <2>1, <1>2 DEF Marked
    <3> QED BY <3>2, <3>5, <1>2 DEF Marked
  <2>5. Recent(t)'
    <3> SUFFICES ASSUME ByKey(t)
                 PROVE  /\ req[t].under <= epoch'[req[t].caller]
                        /\ req[t].under = epoch'[req[t].caller] =>
                             key'[req[t].caller].client = req[t].client /\ req[t].client # None
      BY <1>2 DEF Recent, ByKey
    <3>1. req[t].caller \in Keys BY DEF ByKey
    <3>2. epoch[req[t].caller] \in Nat /\ req[t].under \in Nat
      BY <3>1, <1>1 DEF TypeOK, ReqType
    <3>3. /\ req[t].under <= epoch[req[t].caller]
          /\ req[t].under = epoch[req[t].caller] =>
               key[req[t].caller].client = req[t].client /\ req[t].client # None
      BY <2>1 DEF Recent
    <3>4. \/ /\ epoch'[req[t].caller] = epoch[req[t].caller]
             /\ key'[req[t].caller].client = key[req[t].caller].client
          \/ epoch'[req[t].caller] = epoch[req[t].caller] + 1
      BY <3>1 DEF RowsKept
    <3> QED BY <3>2, <3>3, <3>4
  <2> QED BY <2>2, <2>3, <2>4, <2>5
<1> QED BY <1>3, <1>4, <1>5, <1>6 DEF Inv

\* What every step of an owner leaves alone.
LEMMA ManageKeeps ==
  ASSUME Inv, NEW k \in Keys, Manage(k)
  PROVE  /\ Free /\ UNCHANGED <<lock, logs>> /\ holding' \subseteq Threads
         /\ requests' \in Nat /\ changes' \in Nat /\ online' \subseteq Users
         /\ account' \in [Users -> {"active", "disabled", "absent"}]
  BY DEF Inv, TypeOK, Manage, Change, accountVars

LEMMA OwnerInv ==
  ASSUME Inv, NEW k \in Keys,
         \/ RevokeToken(k) \/ DeleteToken(k) \/ \E b \in BOOLEAN : SetTokenEnabled(k, b)
         \/ \E n \in Limits, b \in BOOLEAN : CreateKey(k, n, b)
         \/ \E n \in Limits, b, r \in BOOLEAN : UpdateToken(k, n, b, r)
  PROVE  Inv'
<1>1. /\ TypeOK /\ Counted /\ Fresh
      /\ key \in [Keys -> RowType] /\ epoch \in [Keys -> Nat \ {0}]
      /\ \A i \in Keys : ~key[i].bind => key[i].client = None
  BY DEF Inv, TypeOK
<1>2. Manage(k) => UNCHANGED account /\ UNCHANGED online BY DEF Manage, accountVars
\* A new status for the row of k.
<1>3. ASSUME NEW s \in {"active", "disabled", "revoked", "deleted"}, NEW C, Manage(k),
             key' = [key EXCEPT ![k].status = s], Withdraw(C), UNCHANGED epoch,
             s = "active" \/ k \in C
      PROVE  Inv'
  <2>1. /\ key' \in [Keys -> RowType] /\ key'[k].status = s
        /\ key'[k].used = key[k].used /\ key'[k].bind = key[k].bind
        /\ key'[k].client = key[k].client
        /\ \A i \in Keys : i # k => key'[i] = key[i]
    BY <1>1, <1>3 DEF RowType
  <2>2. RowsKept BY <1>1, <1>3, <2>1 DEF RowsKept, Fresh
  <2>3. Spares(C)
    BY <1>2, <1>3, <2>1 DEF Spares, Valid, Live
  <2> QED BY <1>3, <2>2, <2>3, ManageKeeps, KeptInv
<1>4. CASE RevokeToken(k) BY <1>4, <1>3 DEF RevokeToken
<1>5. CASE DeleteToken(k) BY <1>5, <1>3 DEF DeleteToken
<1>6. ASSUME NEW b \in BOOLEAN, SetTokenEnabled(k, b) PROVE Inv'
  <2>1. CASE b BY <1>6, <1>3, <2>1 DEF SetTokenEnabled
  <2>2. CASE ~b BY <1>6, <1>3, <2>2 DEF SetTokenEnabled
  <2> QED BY <2>1, <2>2
<1>7. ASSUME NEW n \in Limits, NEW b \in BOOLEAN, CreateKey(k, n, b) PROVE Inv'
  <2>1. NewKey(n, b) \in RowType /\ n \in Int BY DEF NewKey, RowType
  <2>2. /\ Manage(k) /\ key[k].status = "absent" /\ UNCHANGED <<epoch, req>>
        /\ key' = [key EXCEPT ![k] = NewKey(n, b)]
    BY <1>7 DEF CreateKey
  <2>3. /\ key' \in [Keys -> RowType] /\ key'[k].status = "active"
        /\ key'[k].used = 0 /\ key'[k].client = None
        /\ \A i \in Keys : i # k => key'[i] = key[i]
    BY <1>1, <2>1, <2>2 DEF NewKey
  <2>4. key[k].used = 0 /\ key[k].client = None BY <1>1, <2>2 DEF Fresh
  <2>5. RowsKept BY <1>1, <2>2, <2>3, <2>4 DEF RowsKept, Fresh
  <2>6. Spares({}) BY <1>2, <2>2, <2>3 DEF Spares, Valid, Live
  <2> QED BY <1>1, <2>2, <2>5, <2>6, ManageKeeps, WithdrawNobody, KeptInv
<1>8. ASSUME NEW n \in Limits, NEW b \in BOOLEAN, NEW r \in BOOLEAN, UpdateToken(k, n, b, r)
      PROVE  Inv'
  <2>1. /\ Manage(k) /\ Exists(k) /\ UNCHANGED req
        /\ key' = [key EXCEPT ![k].limit = n, ![k].bind = b,
                              ![k].client = IF ~b \/ r THEN None ELSE @]
        /\ epoch' = [epoch EXCEPT ![k] = IF key'[k].client = key[k].client THEN @ ELSE @ + 1]
    BY <1>8 DEF UpdateToken
  <2>2. n \in Int /\ key[k] \in RowType BY <1>1
  <2>3. key'[k] = [key[k] EXCEPT !.limit = n, !.bind = b,
                                 !.client = IF ~b \/ r THEN None ELSE key[k].client]
    BY <1>1, <2>1
  <2>4. /\ key'[k] \in RowType /\ key'[k].status = key[k].status
        /\ key'[k].used = key[k].used /\ (~key'[k].bind => key'[k].client = None)
    BY <2>2, <2>3 DEF RowType
  <2>5. \A i \in Keys : i # k => key'[i] = key[i] /\ epoch'[i] = epoch[i]
    BY <1>1, <2>1
  <2>6. key' \in [Keys -> RowType] BY <1>1, <2>1, <2>4, <2>5
  <2>7. \/ epoch'[k] = epoch[k] /\ key'[k].client = key[k].client
        \/ epoch'[k] = epoch[k] + 1
    BY <1>1, <2>1
  <2>8. epoch' \in [Keys -> Nat \ {0}] BY <1>1, <2>1
  <2>9. RowsKept BY <1>1, <2>1, <2>4, <2>5, <2>6, <2>7, <2>8 DEF RowsKept, Fresh, Exists
  <2>10. Spares({}) BY <1>2, <2>1, <2>4, <2>5 DEF Spares, Valid, Live
  <2> QED BY <1>1, <2>1, <2>9, <2>10, ManageKeeps, WithdrawNobody, KeptInv
<1> QED BY <1>4, <1>5, <1>6, <1>7, <1>8

LEMMA RowsUntouched == ASSUME Inv, UNCHANGED keyVars PROVE RowsKept
  BY DEF Inv, TypeOK, Fresh, RowsKept, keyVars

LEMMA AdminInv ==
  ASSUME Inv, NEW u \in Users,
         \/ DeleteUser(u) \/ LogIn(u) \/ LogOut(u)
         \/ \E s \in {"active", "disabled"} : SetStatus(u, s)
  PROVE  Inv'
<1>1. TypeOK /\ account \in [Users -> {"active", "disabled", "absent"}] /\ online \subseteq Users
  BY DEF Inv, TypeOK
<1>2. Manager => /\ UNCHANGED <<key, epoch>> /\ UNCHANGED <<lock, logs>>
                 /\ holding' \subseteq Threads /\ requests' \in Nat /\ changes' \in Nat
  BY <1>1 DEF TypeOK, Manager, Change, keyVars
<1>3. ASSUME NEW s \in {"active", "disabled", "absent"}, NEW C, Manager, Withdraw(C),
             account' = [account EXCEPT ![u] = s],
             \/ online' = online /\ s = "active"
             \/ online' = online \ {u} /\ C = CallersOf(u)
      PROVE  Inv'
  <2>1. account' \in [Users -> {"active", "disabled", "absent"}] /\ online' \subseteq Users
    BY <1>1, <1>3
  <2>2. Spares(C)
    <3> SUFFICES ASSUME NEW c \in Callers \ C, Valid(c) PROVE Valid(c)'
      BY DEF Spares
    <3>1. CASE c \in Keys
      <4>1. Owner[c] \in Users BY <3>1
      <4>2. key'[c].status = "active" /\ account[Owner[c]] = "active"
        BY <3>1, <1>2, <1>3 DEF Valid, Live
      <4>3. account'[Owner[c]] = "active"
        BY <4>1, <4>2, <3>1, <1>1, <1>3 DEF CallersOf
      <4> QED BY <4>2, <4>3, <3>1 DEF Valid, Live
    <3>2. CASE c \notin Keys
      BY <3>2, <1>3 DEF Valid, CallersOf, Callers
    <3> QED BY <3>1, <3>2
  <2>3. RowsKept BY <1>2, <1>3, RowsUntouched DEF keyVars
  <2> QED BY <1>2, <1>3, <2>1, <2>2, <2>3, KeptInv
<1>4. CASE DeleteUser(u) BY <1>4, <1>3 DEF DeleteUser
<1>5. ASSUME NEW s \in {"active", "disabled"}, SetStatus(u, s) PROVE Inv'
  <2>1. CASE s = "active"
    <3>1. /\ Manager /\ account' = [account EXCEPT ![u] = "active"]
          /\ online' = online /\ Withdraw({})
      BY <1>5, <2>1 DEF SetStatus
    <3> QED BY <3>1, <1>3
  <2>2. CASE s # "active" BY <1>5, <2>2, <1>3 DEF SetStatus
  <2> QED BY <2>1, <2>2
<1>6. CASE LogIn(u)
  <2>1. /\ Manager /\ UNCHANGED <<account, req>> /\ online' = online \cup {u}
    BY <1>6 DEF LogIn
  <2>2. Spares({}) BY <1>2, <2>1 DEF Spares, Valid, Live
  <2>3. RowsKept BY <1>2, <2>1, RowsUntouched DEF keyVars
  <2> QED BY <1>1, <1>2, <2>1, <2>2, <2>3, WithdrawNobody, KeptInv
<1>7. CASE LogOut(u)
  <2>1. /\ Manager /\ UNCHANGED account /\ online' = online \ {u} /\ Withdraw({u})
    BY <1>7 DEF LogOut
  <2>2. Spares({u}) BY <1>2, <2>1 DEF Spares, Valid, Live
  <2>3. RowsKept BY <1>2, <2>1, RowsUntouched DEF keyVars
  <2> QED BY <1>1, <1>2, <2>1, <2>2, <2>3, KeptInv
<1> QED BY <1>4, <1>5, <1>6, <1>7

-----------------------------------------------------------------------------
(* Steps of a request.                                                     *)

LEMMA AskInv ==
  ASSUME Inv, NEW t \in Threads, NEW c \in Callers, NEW d \in Clients, Ask(t, c, d)
  PROVE  Inv'
<1>1. TypeOK BY DEF Inv
<1>2. /\ req[t].phase \in Ended /\ Untouched /\ UNCHANGED <<lock, holding, changes>>
      /\ requests' = requests + 1
      /\ req' = [req EXCEPT ![t] =
           [phase |-> IF RequireAuth THEN "guard" ELSE "check", caller |-> c, client |-> d,
            row |-> Blank, saving |-> FALSE, under |-> 0, lost |-> ~Valid(c), billed |-> FALSE]]
  BY DEF Ask, Untouched, keyVars, accountVars
<1>3. Blank \in RowType BY DEF Blank, NewKey, RowType
<1>4. /\ req'[t].phase \in Resolving /\ req'[t].caller = c /\ req'[t].client = d
      /\ req'[t].saving = FALSE /\ req'[t].under = 0 /\ req'[t].lost = ~Valid(c)
  BY <1>1, <1>2 DEF TypeOK, Resolving
<1>5. req'[t] \in ReqType
  BY <1>1, <1>2, <1>3 DEF TypeOK, ReqType, Phases, Resolving, Valid, Live
<1>6. Moved(t) BY <1>1, <1>2, <1>4, <1>5 DEF Moved, TypeOK
<1>7. ~req[t].saving BY <1>2 DEF Inv, Copied, Ended, Resolving
<1>8. \A s \in Threads : lock' = s <=> req'[s].saving
  BY <1>1, <1>2, <1>4, <1>7 DEF TypeOK
<1>9. Copied(t)' BY <1>4 DEF Copied
<1>10. Known(t)' BY <1>4 DEF Known
<1>11. Marked(t)'
  <2>1. Valid(c)' <=> Valid(c) BY <1>2 DEF Valid, Live, Untouched
  <2>2. ~Valid(c)' => req'[t].lost BY <2>1, <1>4
  <2>3. ~Valid(req[t].caller)' => req'[t].lost BY <2>2, <1>4 DEF Valid, Live
  <2>4. req'[t].phase # "answered" BY <1>4 DEF Resolving
  <2> QED BY <2>3, <2>4 DEF Marked
<1>12. Recent(t)' BY <1>1, <1>2, <1>4 DEF Recent, ByKey, TypeOK, Untouched
<1> QED BY <1>1, <1>2, <1>6, <1>8, <1>9, <1>10, <1>11, <1>12, MovedInv DEF TypeOK

\* A step that changes the phase and at most what t was resolved under.
LEMMA PhaseInv ==
  ASSUME Inv, NEW t \in Threads, NEW p \in Phases \ {"idle"}, NEW n \in Nat,
         req' = [req EXCEPT ![t].phase = p, ![t].under = n],
         ~req[t].saving, req[t].phase \notin Ended \/ p = req[t].phase,
         Untouched, UNCHANGED lock, holding' \subseteq Threads,
         requests' \in Nat, changes' \in Nat,
         \/ n = req[t].under \/ n = 0
         \/ /\ ByKey(t) /\ n = epoch[req[t].caller]
            /\ key[req[t].caller].client = req[t].client /\ req[t].client # None,
         p = "answered" => req[t].lost
  PROVE  Inv'
<1>1. TypeOK /\ req[t] \in ReqType BY DEF Inv, TypeOK
<1>2. /\ req'[t] = [req[t] EXCEPT !.phase = p, !.under = n]
      /\ \A s \in Threads : s # t => req'[s] = req[s]
  BY <1>1 DEF TypeOK
<1>3. /\ req'[t].phase = p /\ req'[t].under = n /\ req'[t].caller = req[t].caller
      /\ req'[t].client = req[t].client /\ req'[t].row = req[t].row
      /\ req'[t].saving = req[t].saving /\ req'[t].lost = req[t].lost
      /\ req'[t].billed = req[t].billed /\ req'[t] \in ReqType
  <2> PICK r \in ReqType : r = req[t] BY <1>1
  <2> PICK q : q = [r EXCEPT !.phase = p, !.under = n] OBVIOUS
  <2>1. p \in Phases OBVIOUS
  <2>2. /\ q \in ReqType /\ q.phase = p /\ q.under = n /\ q.caller = r.caller
        /\ q.client = r.client /\ q.row = r.row /\ q.saving = r.saving
        /\ q.lost = r.lost /\ q.billed = r.billed
    BY <2>1 DEF ReqType
  <2>3. req'[t] = q BY <1>2
  <2> QED BY <2>2, <2>3
<1>5. Moved(t)
  <2>1. req' = [req EXCEPT ![t] = req'[t]] BY <1>1, <1>2 DEF TypeOK
  <2> QED BY <2>1, <1>3 DEF Moved, Untouched
<1>6. \A s \in Threads : lock' = s <=> req'[s].saving BY <1>1, <1>2, <1>3 DEF TypeOK
<1>7. Copied(t)' BY <1>3 DEF Copied
<1>8. Known(t)' BY <1>3 DEF Inv, Known, Ended
<1>9. Marked(t)' BY <1>3 DEF Inv, Marked, Valid, Live, Untouched, Ended
<1>10. Recent(t)'
  <2> SUFFICES ASSUME ByKey(t)
               PROVE  /\ n <= epoch[req[t].caller]
                      /\ n = epoch[req[t].caller] =>
                           key[req[t].caller].client = req[t].client /\ req[t].client # None
    BY <1>3 DEF Recent, ByKey, Untouched
  <2>1. epoch[req[t].caller] \in Nat \ {0} BY <1>1 DEF TypeOK, ByKey
  <2>2. CASE n = req[t].under BY <2>2 DEF Inv, Recent
  <2> QED BY <2>1, <2>2
<1>11. lock' \in Threads \cup {None} BY <1>1 DEF TypeOK
<1> QED BY <1>5, <1>6, <1>7, <1>8, <1>9, <1>10, <1>11, MovedInv

LEMMA PhaseOnly ==
  ASSUME TypeOK, NEW t \in Threads, NEW p
  PROVE  [req EXCEPT ![t].phase = p] = [req EXCEPT ![t].phase = p, ![t].under = req[t].under]
<1> PICK r \in ReqType : r = req[t] BY DEF TypeOK
<1>1. [r EXCEPT !.phase = p] = [r EXCEPT !.phase = p, !.under = r.under] BY DEF ReqType
<1> QED BY <1>1

LEMMA ResolveInv == ASSUME Inv, NEW t \in Threads, Resolve(t) PROVE Inv'
<1>1. TypeOK /\ req[t] \in ReqType /\ req[t].caller \in Callers /\ req[t].client \in Clients
  BY DEF Inv, TypeOK, Known, Resolve, Resolving
<1>2. /\ req[t].phase \in Resolving /\ ~req[t].saving /\ ~Binding(t) /\ Untouched
      /\ UNCHANGED <<lock, holding, requests, changes>>
  BY DEF Resolve, Untouched, keyVars, accountVars
<1>3. PICK p \in IF Barred(t) THEN {AfterError(req[t].phase)}
                 ELSE Onward(req[t].phase, Valid(req[t].caller)) :
        req' = [req EXCEPT ![t].phase = p,
                  ![t].under = IF ByKey(t) /\ ~Barred(t) /\ Live(req[t].caller)
                                  /\ key[req[t].caller].bind
                               THEN epoch[req[t].caller] ELSE 0]
  BY DEF Resolve
<1>4. PICK n : n = IF ByKey(t) /\ ~Barred(t) /\ Live(req[t].caller) /\ key[req[t].caller].bind
                   THEN epoch[req[t].caller] ELSE 0
  OBVIOUS
<1>5. p \in Phases \ {"idle"}
  <2>1. CASE Barred(t) BY <2>1, <1>2, <1>3 DEF AfterError, Resolving, Phases, Ended
  <2>2. CASE ~Barred(t) BY <2>2, <1>2, <1>3 DEF Onward, Resolving, Phases, Ended
  <2> QED BY <2>1, <2>2
<1>6. p = "answered" => req[t].lost
  <2> SUFFICES ASSUME p = "answered" PROVE req[t].lost OBVIOUS
  <2>1. ~Barred(t) BY <1>2, <1>3 DEF AfterError, Resolving
  <2>2. ~Valid(req[t].caller) BY <2>1, <1>2, <1>3 DEF Onward, Resolving
  <2> QED BY <2>2, <1>2 DEF Inv, Marked, Resolving, Ended
<1>7. n \in Nat BY <1>1, <1>4 DEF TypeOK, ByKey
<1>8. \/ n = req[t].under \/ n = 0
      \/ /\ ByKey(t) /\ n = epoch[req[t].caller]
         /\ key[req[t].caller].client = req[t].client /\ req[t].client # None
  BY <1>1, <1>2, <1>4 DEF Barred, Binding, Foreign, Unbound
<1>9. req[t].phase \notin Ended BY <1>2 DEF Resolving, Ended
<1> QED BY <1>1, <1>2, <1>3, <1>4, <1>5, <1>6, <1>7, <1>8, <1>9, PhaseInv DEF TypeOK

LEMMA PhaseStepInv ==
  ASSUME Inv, NEW t \in Threads, NEW p \in {"refused", "lookup", "record", "failed"},
         req' = [req EXCEPT ![t].phase = p], ~req[t].saving, req[t].phase \notin Ended,
         Untouched, UNCHANGED <<lock, requests, changes>>, holding' \subseteq Threads
  PROVE  Inv'
<1>1. TypeOK BY DEF Inv
<1>2. PICK n \in Nat : n = req[t].under BY <1>1 DEF TypeOK, ReqType
<1>3. req' = [req EXCEPT ![t].phase = p, ![t].under = n] BY <1>1, <1>2, PhaseOnly
<1>4. p \in Phases \ {"idle"} /\ p # "answered" BY DEF Phases, Ended, Resolving
<1> QED BY <1>1, <1>2, <1>3, <1>4, PhaseInv DEF TypeOK

LEMMA AcquireInv == ASSUME Inv, NEW t \in Threads, Acquire(t) PROVE Inv'
<1>1. /\ req[t].phase = "acquire" /\ Untouched /\ UNCHANGED <<lock, requests, changes>>
      /\ holding' \subseteq Threads
  BY DEF Inv, TypeOK, Acquire, Untouched, keyVars, accountVars
<1>2. req[t].phase \notin Ended /\ ~req[t].saving
  BY <1>1 DEF Inv, Copied, Resolving, Ended
<1> QED BY <1>1, <1>2, PhaseStepInv DEF Acquire

LEMMA LookupInv == ASSUME Inv, NEW t \in Threads, Lookup(t) PROVE Inv'
<1>1. /\ req[t].phase = "lookup" /\ Untouched /\ UNCHANGED <<lock, requests, changes>>
      /\ holding' \subseteq Threads
  BY DEF Inv, TypeOK, Lookup, Untouched, keyVars, accountVars
<1>2. req[t].phase \notin Ended /\ ~req[t].saving
  BY <1>1 DEF Inv, Copied, Resolving, Ended
<1>3. PICK p \in {"record", "failed"} : req' = [req EXCEPT ![t].phase = p] BY DEF Lookup
<1> QED BY <1>1, <1>2, <1>3, PhaseStepInv

\* A step in which t takes the lock with a copy of its key.
LEMMA TakeInv ==
  ASSUME Inv, NEW t \in Threads, NEW w \in RowType, Untouched, lock' = t, Free,
         UNCHANGED <<holding, requests, changes>>,
         req' = [req EXCEPT ![t].saving = TRUE, ![t].row = w],
         \/ /\ req[t].phase \in Resolving /\ Binding(t)
            /\ w = [key[req[t].caller] EXCEPT !.client = req[t].client]
         \/ /\ req[t].phase = "bill"
            /\ ByKey(t) => /\ w = key[req[t].caller] /\ Live(req[t].caller)
                           /\ ~OverQuota(req[t].caller)
  PROVE  Inv'
<1>1. TypeOK /\ req[t] \in ReqType BY DEF Inv, TypeOK
<1>2. /\ req'[t].phase = req[t].phase /\ req'[t].under = req[t].under
      /\ req'[t].caller = req[t].caller /\ req'[t].client = req[t].client
      /\ req'[t].row = w /\ req'[t].saving = TRUE /\ req'[t].lost = req[t].lost
      /\ req'[t].billed = req[t].billed /\ req'[t] \in ReqType
  <2> PICK r \in ReqType : r = req[t] BY <1>1
  <2> PICK q : q = [r EXCEPT !.saving = TRUE, !.row = w] OBVIOUS
  <2>1. /\ q \in ReqType /\ q.phase = r.phase /\ q.under = r.under /\ q.caller = r.caller
        /\ q.client = r.client /\ q.row = w /\ q.saving = TRUE
        /\ q.lost = r.lost /\ q.billed = r.billed
    BY DEF ReqType
  <2>2. req'[t] = q BY <1>1 DEF TypeOK
  <2> QED BY <2>1, <2>2
<1>3. \A s \in Threads : s # t => req'[s] = req[s] BY <1>1 DEF TypeOK
<1>4. Moved(t)
  <2>1. req' = [req EXCEPT ![t] = req'[t]] BY <1>1 DEF TypeOK
  <2> QED BY <2>1, <1>2 DEF Moved
<1>5. \A s \in Threads : lock' = s <=> req'[s].saving
  BY <1>1, <1>2, <1>3 DEF TypeOK, Free
<1>6. Copied(t)'
  <2>1. CASE req[t].phase = "bill"
    BY <2>1, <1>2 DEF Copied, Untouched, ByKey, OverQuota, Resolving, Binding, Live
  <2>2. CASE req[t].phase # "bill"
    BY <2>2, <1>2 DEF Copied, Untouched, ByKey, Binding, Live, Spent, Unbound
  <2> QED BY <2>1, <2>2
<1>7. Known(t)' BY <1>2 DEF Inv, Known
<1>8. Marked(t)' BY <1>2 DEF Inv, Marked, Valid, Live, Untouched
<1>9. Recent(t)' BY <1>2 DEF Inv, Recent, ByKey, Untouched
<1> QED BY <1>1, <1>4, <1>5, <1>6, <1>7, <1>8, <1>9, MovedInv DEF TypeOK

LEMMA BindReadInv == ASSUME Inv, NEW t \in Threads, BindRead(t) PROVE Inv'
<1>1. /\ req[t].phase \in Resolving /\ Binding(t) /\ Free /\ lock' = t /\ Untouched
      /\ UNCHANGED <<holding, requests, changes>>
  BY DEF BindRead, Untouched, keyVars, accountVars
<1>2. PICK w : w = [key[req[t].caller] EXCEPT !.client = req[t].client] OBVIOUS
<1>3. w \in RowType
  <2>1. key[req[t].caller] \in RowType BY <1>1 DEF Binding, ByKey, Inv, TypeOK
  <2>2. req[t].client \in Clients BY <1>1 DEF Inv, Known, Resolving
  <2> QED BY <2>1, <2>2, <1>2 DEF RowType
<1>4. req' = [req EXCEPT ![t].saving = TRUE, ![t].row = w] BY <1>2 DEF BindRead
<1> QED BY <1>1, <1>2, <1>3, <1>4, TakeInv

LEMMA BillReadInv == ASSUME Inv, NEW t \in Threads, BillRead(t) PROVE Inv'
<1>1. /\ req[t].phase = "bill" /\ ~req[t].saving /\ Free /\ Untouched
      /\ UNCHANGED <<holding, requests, changes>>
  BY DEF BillRead, Untouched, keyVars, accountVars
<1>2. TypeOK /\ req[t].phase \notin Ended BY <1>1 DEF Inv, Ended
<1>3. CASE req' = [req EXCEPT ![t].phase = "refused"] /\ UNCHANGED lock
  BY <1>1, <1>2, <1>3, PhaseStepInv DEF TypeOK
<1>4. CASE /\ lock' = t /\ (ByKey(t) => Live(req[t].caller) /\ ~OverQuota(req[t].caller))
           /\ req' = [req EXCEPT ![t].saving = TRUE,
                        ![t].row = IF ByKey(t) THEN key[req[t].caller] ELSE Blank]
  <2>1. PICK w : w = IF ByKey(t) THEN key[req[t].caller] ELSE Blank OBVIOUS
  <2>2. w \in RowType BY <2>1, <1>2 DEF TypeOK, ByKey, Blank, NewKey, RowType
  <2>3. req' = [req EXCEPT ![t].saving = TRUE, ![t].row = w] BY <2>1, <1>4
  <2> QED BY <1>1, <1>4, <2>1, <2>2, <2>3, TakeInv
<1> QED BY <1>3, <1>4 DEF BillRead

\* Nothing but the leases changes.
LEMMA QuietInv ==
  ASSUME Inv, holding' \subseteq Threads,
         UNCHANGED <<key, epoch, account, online, lock, req, logs, requests, changes>>
  PROVE  Inv'
<1>1. UNCHANGED <<key, epoch, account, online, lock, req, logs, requests, changes>>
  OBVIOUS
<1>2. TypeOK BY DEF Inv
<1>3. Spares({}) BY <1>1 DEF Spares, Valid, Live
<1>4. RowsKept BY <1>1, RowsUntouched DEF keyVars
<1> QED BY <1>1, <1>2, <1>3, <1>4, WithdrawNobody, KeptInv DEF TypeOK

LEMMA LeaveInv == ASSUME Inv, NEW t \in Threads, Leave(t) PROVE Inv'
  BY QuietInv DEF Inv, TypeOK, Leave, keyVars, accountVars

\* The lock admits one thread: nobody else is about to save.
LEMMA OneSaves ==
  ASSUME TypeOK, NEW t \in Threads, req[t].saving, NEW s \in Threads, s # t
  PROVE  ~req[s].saving
  BY DEF TypeOK

LEMMA BindSaveInv == ASSUME Inv, NEW t \in Threads, BindSave(t) PROVE Inv'
<1>1. /\ TypeOK /\ req[t] \in ReqType /\ req[t].caller \in Callers
      /\ req[t].client \in Clients
  BY DEF Inv, TypeOK, Known, BindSave, Resolving
<1>2. PICK k \in Keys : k = req[t].caller
  BY DEF Inv, Copied, BindSave, Binding, ByKey
<1>3. /\ req[t].phase \in Resolving /\ req[t].saving /\ lock' = None
      /\ UNCHANGED <<epoch, account, online, holding, logs, requests, changes>>
      /\ key' = [key EXCEPT ![k] = req[t].row]
  BY <1>2 DEF BindSave, accountVars
<1>4. /\ Live(k) /\ Unbound(k) /\ ~Spent(k)
      /\ req[t].row = [key[k] EXCEPT !.client = req[t].client]
  BY <1>2, <1>3 DEF Inv, Copied, Binding
<1>5. /\ key'[k] \in RowType /\ key'[k].status = "active" /\ key'[k].bind
      /\ key'[k].client = req[t].client /\ key'[k].used = key[k].used
      /\ \A i \in Keys : i # k => key'[i] = key[i]
      /\ key[k].client = None /\ key[k].status = "active"
  <2>1. key[k] \in RowType /\ req[t].client \in Clients \cup {None} BY <1>1 DEF TypeOK
  <2>2. key'[k] = [key[k] EXCEPT !.client = req[t].client] BY <1>1, <1>3, <1>4 DEF TypeOK
  <2> QED BY <2>1, <2>2, <1>1, <1>3, <1>4 DEF RowType, Live, Unbound, TypeOK
<1>6. PICK p \in Onward(req[t].phase, account[Owner[k]] = "active") :
        req' = [req EXCEPT ![t].phase = p, ![t].saving = FALSE,
                           ![t].row = Blank, ![t].under = epoch[k]]
  BY <1>2 DEF BindSave
<1>7. p \in Phases \ {"idle"}
  BY <1>3, <1>6 DEF Onward, Resolving, Phases, Ended
<1>8. /\ req'[t].phase = p /\ req'[t].under = epoch[k]
      /\ req'[t].caller = k /\ req'[t].client = req[t].client
      /\ req'[t].saving = FALSE /\ req'[t].lost = req[t].lost
      /\ req'[t].billed = req[t].billed /\ req'[t] \in ReqType
  <2> PICK r \in ReqType : r = req[t] BY <1>1
  <2> PICK n \in Nat : n = epoch[k] BY <1>1 DEF TypeOK
  <2> PICK q : q = [r EXCEPT !.phase = p, !.saving = FALSE, !.row = Blank, !.under = n]
    OBVIOUS
  <2>1. Blank \in RowType BY DEF Blank, NewKey, RowType
  <2>2. /\ q \in ReqType /\ q.phase = p /\ q.under = n /\ q.caller = r.caller
        /\ q.client = r.client /\ q.saving = FALSE
        /\ q.lost = r.lost /\ q.billed = r.billed
    BY <2>1, <1>7 DEF ReqType
  <2>3. req'[t] = q BY <1>1, <1>6 DEF TypeOK
  <2> QED BY <2>2, <2>3, <1>2
<1>9. req' \in [Threads -> ReqType] /\ \A s \in Threads : s # t => req'[s] = req[s]
  BY <1>1, <1>6, <1>8 DEF TypeOK
<1>10. \A s \in Threads : ~req'[s].saving BY <1>1, <1>3, <1>8, <1>9, OneSaves
<1>11. TypeOK'
  <2>1. key' \in [Keys -> RowType] /\ \A i \in Keys : ~key'[i].bind => key'[i].client = None
    BY <1>1, <1>3, <1>5 DEF TypeOK
  <2>2. \A s \in Threads : lock' = s <=> req'[s].saving BY <1>3, <1>10
  <2> QED BY <1>1, <1>3, <1>9, <2>1, <2>2 DEF TypeOK
<1>12. Counted' /\ Fresh' BY <1>3, <1>5 DEF Inv, Counted, Fresh
<1>13. \A s \in Threads : Copied(s)' BY <1>10 DEF Copied
<1>14. \A s \in Threads : Known(s)' BY <1>1, <1>8, <1>9 DEF Inv, Known, Callers
<1>15. \A c \in Callers : Valid(c) => Valid(c)' BY <1>3, <1>5 DEF Valid, Live
<1>16. ASSUME NEW s \in Threads PROVE Marked(s)'
  <2>1. CASE s # t
    <3>1. req'[s] = req[s] BY <2>1, <1>9
    <3>2. req[s].phase \notin Ended => req[s].caller \in Callers BY DEF Inv, Known, Ended
    <3> QED BY <3>1, <3>2, <1>15 DEF Inv, Marked
  <2>2. CASE s = t
    <3>1. req[t].phase \notin Ended BY <1>3 DEF Resolving, Ended
    <3>2. p = "answered" => account[Owner[k]] # "active"
      BY <1>3, <1>6 DEF Onward, Resolving
    <3>3. ~Valid(k) => req[t].lost BY <3>1, <1>2 DEF Inv, Marked
    <3>4. p = "answered" => req[t].lost BY <3>2, <3>3 DEF Valid
    <3>5. ~Valid(k)' => req[t].lost BY <3>3, <1>15 DEF Callers
    <3> QED BY <2>2, <3>4, <3>5, <1>8 DEF Marked
  <2> QED BY <2>1, <2>2
<1>17. ASSUME NEW s \in Threads PROVE Recent(s)'
  <2>1. CASE s = t
    BY <2>1, <1>1, <1>3, <1>5, <1>8 DEF Recent, TypeOK
  <2>2. CASE s # t
    <3>1. req'[s] = req[s] BY <2>2, <1>9
    <3>2. Recent(s) BY DEF Inv
    <3> QED BY <3>1, <3>2, <1>3, <1>5 DEF Recent, ByKey
  <2> QED BY <2>1, <2>2
<1>18. BoundToOne'
  <2> SUFFICES ASSUME NEW r \in Threads, NEW s \in Threads, ByKey(r)',
                      req'[r].caller = req'[s].caller, req'[r].under = req'[s].under,
                      req'[r].under # 0
               PROVE  req'[r].client = req'[s].client
    BY DEF BoundToOne
  <2>1. (Recent(r) /\ Recent(s) /\ ByKey(s))' BY <1>17 DEF ByKey
  <2>2. CASE r = t \/ s = t BY <2>1, <2>2, <1>3, <1>8 DEF Recent
  <2>3. CASE r # t /\ s # t BY <2>3, <1>9 DEF Inv, BoundToOne, ByKey
  <2> QED BY <2>2, <2>3
<1> QED BY <1>11, <1>12, <1>13, <1>14, <1>16, <1>17, <1>18 DEF Inv

\* What billing writes: the counter of the key of t goes up by one.
LEMMA BillWriteKeys ==
  ASSUME Inv, NEW t \in Threads, BillWrite(t), NEW k \in Keys
  PROVE  /\ key'[k] \in RowType /\ key'[k].status = key[k].status
         /\ key'[k].bind = key[k].bind /\ key'[k].client = key[k].client
         /\ key'[k].used = logs'[k]
         /\ logs'[k] = logs[k] + (IF k = req[t].caller THEN 1 ELSE 0)
<1>1. /\ TypeOK /\ key[k] \in RowType /\ req[t].saving /\ req[t].phase = "bill"
      /\ key[k].used = logs[k] /\ logs[k] \in Nat
  BY DEF Inv, TypeOK, Counted, BillWrite, Callers
<1>2. logs' = [logs EXCEPT ![req[t].caller] = @ + 1] /\ logs \in [Callers -> Nat]
  BY <1>1 DEF BillWrite, TypeOK
<1>3. logs'[k] = logs[k] + (IF k = req[t].caller THEN 1 ELSE 0)
  BY <1>1, <1>2 DEF Callers
<1>4. CASE k = req[t].caller
  <2>1. req[t].row = key[k] BY <1>1, <1>4 DEF Inv, Copied, ByKey
  <2>2. key'[k] = [key[k] EXCEPT !.used = key[k].used + 1]
    BY <2>1, <1>1, <1>4 DEF BillWrite, ByKey, TypeOK
  <2> QED BY <2>2, <1>1, <1>3, <1>4 DEF RowType
<1>5. CASE k # req[t].caller
  <2>1. key'[k] = key[k] BY <1>1, <1>5 DEF BillWrite, TypeOK
  <2> QED BY <2>1, <1>1, <1>3, <1>5
<1> QED BY <1>4, <1>5

LEMMA BillWriteInv == ASSUME Inv, NEW t \in Threads, BillWrite(t) PROVE Inv'
<1>1. /\ TypeOK /\ req[t] \in ReqType /\ req[t].caller \in Callers
      /\ req[t].client \in Clients
  BY DEF Inv, TypeOK, Known, BillWrite
<1>2. /\ req[t].phase = "bill" /\ req[t].saving /\ lock' = None
      /\ UNCHANGED <<epoch, account, online, holding, requests, changes>>
      /\ logs' = [logs EXCEPT ![req[t].caller] = @ + 1]
  BY DEF BillWrite, accountVars
<1>3. \A k \in Keys :
        /\ key'[k] \in RowType /\ key'[k].status = key[k].status
        /\ key'[k].bind = key[k].bind /\ key'[k].client = key[k].client
        /\ key'[k].used = logs'[k]
        /\ logs'[k] = logs[k] + (IF k = req[t].caller THEN 1 ELSE 0)
  BY BillWriteKeys
<1>4. key' \in [Keys -> RowType]
  BY <1>1, <1>3 DEF BillWrite, TypeOK
<1>5. /\ req'[t].phase = "answered" /\ req'[t].under = req[t].under
      /\ req'[t].caller = req[t].caller /\ req'[t].client = req[t].client
      /\ req'[t].saving = FALSE /\ req'[t].billed = TRUE /\ req'[t] \in ReqType
  <2> PICK r \in ReqType : r = req[t] BY <1>1
  <2> PICK q : q = [r EXCEPT !.phase = "answered", !.saving = FALSE, !.row = Blank, !.billed = TRUE]
    OBVIOUS
  <2>1. Blank \in RowType BY DEF Blank, NewKey, RowType
  <2>2. /\ q \in ReqType /\ q.phase = "answered" /\ q.under = r.under /\ q.caller = r.caller
        /\ q.client = r.client /\ q.saving = FALSE /\ q.billed = TRUE
    BY <2>1 DEF ReqType, Phases, Ended
  <2>3. req'[t] = q BY <1>1 DEF TypeOK, BillWrite
  <2> QED BY <2>2, <2>3
<1>6. req' \in [Threads -> ReqType] /\ \A s \in Threads : s # t => req'[s] = req[s]
  BY <1>1, <1>5 DEF TypeOK, BillWrite
<1>7. \A s \in Threads : ~req'[s].saving BY <1>1, <1>2, <1>5, <1>6, OneSaves
<1>8. TypeOK'
  <2>1. \A k \in Keys : ~key'[k].bind => key'[k].client = None BY <1>1, <1>3 DEF TypeOK
  <2>2. \A s \in Threads : lock' = s <=> req'[s].saving BY <1>2, <1>7
  <2>3. logs' \in [Callers -> Nat] BY <1>1, <1>2 DEF TypeOK
  <2> QED BY <1>1, <1>2, <1>4, <1>6, <2>1, <2>2, <2>3 DEF TypeOK
<1>9. Counted' BY <1>3 DEF Counted
<1>10. Fresh'
  <2> SUFFICES ASSUME NEW k \in Keys, key'[k].status = "absent"
               PROVE  ~key'[k].bind /\ key'[k].used = 0
    BY DEF Fresh
  <2>1. key[k].status = "absent" /\ ~key[k].bind /\ key[k].used = 0
    BY <1>3 DEF Inv, Fresh
  <2>2. k # req[t].caller BY <1>2, <2>1 DEF Inv, Copied, ByKey, Live
  <2>3. logs[k] = 0 BY <2>1 DEF Inv, Counted
  <2> QED BY <2>1, <2>2, <2>3, <1>3
<1>11. \A c \in Callers : Valid(c)' <=> Valid(c) BY <1>2, <1>3 DEF Valid, Live
<1>12. ASSUME NEW s \in Threads PROVE (Copied(s) /\ Known(s) /\ Marked(s) /\ Recent(s))'
  <2>1. Copied(s)' BY <1>7 DEF Copied
  <2>2. Known(s)' BY <1>1, <1>5, <1>6 DEF Inv, Known
  <2>3. Marked(s)'
    <3>1. CASE s = t BY <3>1, <1>5 DEF Marked, Ended
    <3>2. CASE s # t
      <4>1. req'[s] = req[s] BY <3>2, <1>6
      <4>2. req[s].phase \notin Ended => req[s].caller \in Callers BY DEF Inv, Known, Ended
      <4> QED BY <4>1, <4>2, <1>11 DEF Inv, Marked
    <3> QED BY <3>1, <3>2
  <2>4. Recent(s)' BY <1>2, <1>3, <1>5, <1>6 DEF Inv, Recent, ByKey
  <2> QED BY <2>1, <2>2, <2>3, <2>4
<1>13. BoundToOne'
  <2>1. \A s \in Threads : /\ req'[s].caller = req[s].caller
                           /\ req'[s].client = req[s].client
                           /\ req'[s].under = req[s].under
    BY <1>5, <1>6
  <2> QED BY <2>1 DEF Inv, BoundToOne, ByKey
<1> QED BY <1>8, <1>9, <1>10, <1>12, <1>13 DEF Inv

LEMMA BillLostInv == ASSUME Inv, NEW t \in Threads, BillLost(t) PROVE Inv'
<1>1. /\ TypeOK /\ req[t] \in ReqType /\ req[t].saving /\ lock' = None /\ Untouched
      /\ UNCHANGED <<holding, requests, changes>>
  BY DEF Inv, TypeOK, BillLost, Untouched, keyVars, accountVars
<1>2. /\ req'[t].phase = "failed" /\ req'[t].under = req[t].under
      /\ req'[t].caller = req[t].caller /\ req'[t].client = req[t].client
      /\ req'[t].saving = FALSE /\ req'[t] \in ReqType
  <2> PICK r \in ReqType : r = req[t] BY <1>1
  <2> PICK q : q = [r EXCEPT !.phase = "failed", !.saving = FALSE, !.row = Blank] OBVIOUS
  <2>1. Blank \in RowType BY DEF Blank, NewKey, RowType
  <2>2. /\ q \in ReqType /\ q.phase = "failed" /\ q.under = r.under /\ q.caller = r.caller
        /\ q.client = r.client /\ q.saving = FALSE
    BY <2>1 DEF ReqType, Phases, Ended
  <2>3. req'[t] = q BY <1>1 DEF TypeOK, BillLost
  <2> QED BY <2>2, <2>3
<1>3. \A s \in Threads : s # t => req'[s] = req[s] BY <1>1 DEF TypeOK, BillLost
<1>4. Moved(t)
  <2>1. req' = [req EXCEPT ![t] = req'[t]] BY <1>1 DEF TypeOK, BillLost
  <2> QED BY <2>1, <1>2 DEF Moved
<1>5. \A s \in Threads : lock' = s <=> req'[s].saving BY <1>1, <1>2, <1>3, OneSaves
<1>6. Copied(t)' BY <1>2 DEF Copied
<1>7. Known(t)' BY <1>2 DEF Inv, Known, BillLost
<1>8. Marked(t)' BY <1>2 DEF Marked, Ended
<1>9. Recent(t)' BY <1>1, <1>2 DEF Inv, Recent, ByKey, Untouched
<1> QED BY <1>1, <1>4, <1>5, <1>6, <1>7, <1>8, <1>9, MovedInv DEF TypeOK

-----------------------------------------------------------------------------
(* The theorems.                                                           *)

LEMMA NextInv == Inv /\ [Next]_vars => Inv'
<1> SUFFICES ASSUME Inv, [Next]_vars PROVE Inv' OBVIOUS
<1>1. ASSUME NEW t \in Threads, Serve(t) PROVE Inv'
  BY <1>1, ResolveInv, BindReadInv, BindSaveInv, AcquireInv, LookupInv, BillReadInv,
     BillWriteInv, BillLostInv, LeaveInv DEF Serve
<1>2. ASSUME NEW t \in Threads, NEW c \in Callers, NEW d \in Clients, Ask(t, c, d) PROVE Inv'
  BY <1>2, AskInv
<1>3. ASSUME NEW k \in Keys,
             \/ RevokeToken(k) \/ DeleteToken(k) \/ \E b \in BOOLEAN : SetTokenEnabled(k, b)
             \/ \E n \in Limits, b \in BOOLEAN : CreateKey(k, n, b)
             \/ \E n \in Limits, b, r \in BOOLEAN : UpdateToken(k, n, b, r)
      PROVE  Inv'
  BY <1>3, OwnerInv
<1>4. ASSUME NEW u \in Users,
             \/ DeleteUser(u) \/ LogIn(u) \/ LogOut(u)
             \/ \E s \in {"active", "disabled"} : SetStatus(u, s)
      PROVE  Inv'
  BY <1>4, AdminInv
<1>5. CASE UNCHANGED vars
  <2>1. UNCHANGED <<key, epoch, account, online, lock, req, holding, logs, requests, changes>>
    BY <1>5 DEF vars, keyVars, accountVars
  <2> QED BY <2>1, QuietInv DEF Inv, TypeOK
<1> QED BY <1>1, <1>2, <1>3, <1>4, <1>5 DEF Next

LEMMA Invariance == Spec => []Inv
  BY InitInv, NextInv, PTL DEF Spec

\* Every variable keeps its type; the lock of the platform services is held by
\* the one thread that is about to save a row.
THEOREM TypeCorrect == Spec => []TypeOK
  BY Invariance, PTL DEF Inv

\* Whatever whole-row saves of keys run beside billing, the counter of a key
\* stays the number of usage logs written with it.
THEOREM UsageIsCounted == Spec => []UsageCounted
<1>1. Inv => UsageCounted BY DEF Inv, Counted, UsageCounted
<1> QED BY <1>1, Invariance, PTL

\* An answer without a usage log went to a caller whose right to ask was
\* withdrawn before or while the request was served.
THEOREM AnswersAreBilled == Spec => []UnbilledOnlyIfWithdrawn
<1>1. Inv => UnbilledOnlyIfWithdrawn BY DEF Inv, Marked, UnbilledOnlyIfWithdrawn
<1> QED BY <1>1, Invariance, PTL

\* First requests from different clients, however they interleave, never share
\* one binding of a key.
THEOREM BindingIsExclusive == Spec => []BoundToOne
  BY Invariance, PTL DEF Inv

\* No usage log is written for a key beyond its quota of that moment, by any
\* number of requests that passed the check of resolve_token together.
THEOREM QuotaIsKept == Spec => QuotaKept
<1>1. Inv /\ [Next]_vars =>
        [\A k \in Keys : logs'[k] > logs[k] /\ key[k].limit > 0 => logs'[k] <= key[k].limit]_vars
  <2> SUFFICES ASSUME Inv, [Next]_vars, NEW k \in Keys, logs'[k] > logs[k], key[k].limit > 0
               PROVE  logs'[k] <= key[k].limit
    OBVIOUS
  <2>1. ASSUME UNCHANGED logs PROVE FALSE
    BY <2>1 DEF Inv, TypeOK, Callers
  <2>2. PICK t \in Threads : BillWrite(t)
    BY <2>1 DEF Next, Serve, Ask, Resolve, BindRead, BindSave, Acquire, Lookup, BillRead,
       BillLost, Leave, RevokeToken, DeleteToken, SetTokenEnabled, CreateKey, UpdateToken, Manage,
       DeleteUser, LogIn, LogOut, SetStatus, Manager, vars
  <2>3. logs'[k] = logs[k] + (IF k = req[t].caller THEN 1 ELSE 0) BY <2>2, BillWriteKeys
  <2>4. k = req[t].caller /\ logs'[k] = logs[k] + 1 /\ key[k].used = logs[k]
    BY <2>3 DEF Inv, TypeOK, Callers, Counted
  <2>5. ~OverQuota(k) BY <2>2, <2>4 DEF Inv, Copied, BillWrite, ByKey
  <2>6. key[k].limit \in Int /\ key[k].used \in Nat BY DEF Inv, TypeOK, RowType
  <2> QED BY <2>4, <2>5, <2>6 DEF OverQuota
<1> QED BY <1>1, Invariance, PTL DEF Spec, QuotaKept
=============================================================================
