---------------------------- MODULE PointsLedger ----------------------------
(***************************************************************************)
(* The points and the unlimited days of the user rows, and everything in   *)
(* the program that writes them: query charges, manual grants, redeem      *)
(* codes and feedback rewards (the platform services, one shared RLock),   *)
(* image reservations and refunds (no lock), and the account operations of *)
(* AuthService (a lock of its own, a whole-row save).                      *)
(*                                                                         *)
(* Source: storage/repositories/{wallet,usage,feedback,image_generation,   *)
(* auth}.py, platform/{wallet,usage,feedback}/service.py, auth/service.py  *)
(* and the registration handler of api/v1/auth/router.py.                  *)
(*                                                                         *)
(* A transaction that reads a row and writes it at its flush is two steps. *)
(* RowLocks: SELECT ... FOR UPDATE locks the row (PostgreSQL) or compiles  *)
(* to nothing (SQLite, whose one write lock is taken at the first flush).  *)
(***************************************************************************)
EXTENDS Integers

CONSTANTS
  Users, FirstUsers,   \* accounts; those that exist at the start
  Codes,               \* redeem codes
  Feedbacks, Author,   \* feedback entries and who wrote them
  Jobs,                \* image jobs
  Threads, None,
  Writers,             \* the parts of the program in use
  RowLocks,
  Prices,              \* what a query may cost
  Gifts,               \* benefits of a grant or a code: points and days
  Rewards,             \* rewards an administrator may set on a feedback
  Balances, Expiries,  \* values an administrator may set on a user
  Uses,                \* max_uses of a code
  ImagePrice, Bonus, InitialPoints,
  MaxDay,              \* bound: days the clock may advance
  MaxWrites            \* bound: operations started

Platform == {"charge", "grant", "redeem", "reward"}
Account  == {"profile", "set_points", "set_expiry", "invite"}
Parts    == {"platform", "reserve", "refund", "account"}

ASSUME PointsLedgerAssumption ==
  /\ FirstUsers \subseteq Users /\ None \notin Users
  /\ Author \in [Feedbacks -> Users]
  /\ Writers \subseteq Parts /\ RowLocks \in BOOLEAN
  /\ Prices \subseteq Nat /\ Rewards \subseteq Nat
  /\ Gifts \subseteq [points : Nat, days : Nat]
  /\ Balances \subseteq Nat /\ Expiries \subseteq Nat /\ Uses \subseteq Nat \ {0}
  /\ ImagePrice \in Nat /\ Bonus \in Nat /\ InitialPoints \in Nat
  /\ MaxDay \in Nat /\ MaxWrites \in Nat

VARIABLES
  exists,    \* users whose row is in the table
  points, expiry,   \* users.points and users.unlimited_expires_at, in days
  ledger,    \* sum of the wallet orders and usage logs of each user
  held,      \* the user whose points each image job has reserved, or None
  code,      \* redeem code rows
  redeemed,  \* wallet orders with each code as their source
  reward,    \* feedback.reward_points
  rewarded,  \* sum of the reward orders of each feedback
  tx,        \* operation in progress in each thread
  today,     \* time.time(), in days
  writes     \* operations started

userVars == <<exists, points, expiry, ledger, held>>
codeVars == <<code, redeemed>>
fbVars   == <<reward, rewarded>>
vars == <<userVars, codeVars, fbVars, tx, today, writes>>

Least(a, b) == IF a <= b THEN a ELSE b
Most(a, b)  == IF a <= b THEN b ELSE a

Row(u) == [points |-> points[u], until |-> expiry[u]]
Open(t) == tx[t] # None
InPlatform(t) == Open(t) /\ tx[t].kind \in Platform
\* self.lock of the platform services is one RLock for all of them.
PlatformFree == \A t \in Threads : ~InPlatform(t)
\* AuthService._lock; a registration has released it before its audit.
AccountFree == \A t \in Threads :
  ~(Open(t) /\ tx[t].kind \in Account /\ tx[t].phase # "audit")
\* Faulty variant: FOR UPDATE is forgotten.
RowLockedNever(u) == u \notin Users
\* Only the platform transactions read the user row FOR UPDATE and keep it.  On
\* SQLite a reward has flushed its feedback row by then (autoflush) and holds the
\* write lock of the whole database; the others hold nothing.
RowLocked(u) == \E t \in Threads :
  /\ InPlatform(t) /\ tx[t].phase = "read"
  /\ IF RowLocks THEN tx[t].user = u ELSE tx[t].kind = "reward"

Init ==
  /\ exists = FirstUsers
  /\ points = [u \in Users |-> InitialPoints]
  /\ expiry = [u \in Users |-> 0]
  /\ ledger = [u \in Users |-> InitialPoints]
  /\ held   = [j \in Jobs |-> None]
  /\ code   = [c \in Codes |-> [status |-> "absent", used |-> 0, max |-> 0,
                                until |-> 0, gift |-> [points |-> 0, days |-> 0]]]
  /\ redeemed = [c \in Codes |-> 0]
  /\ reward   = [f \in Feedbacks |-> 0]
  /\ rewarded = [f \in Feedbacks |-> 0]
  /\ tx = [t \in Threads |-> None]
  /\ today = 1 /\ writes = 0

\* Thread t begins an operation; read is what it has read of the user row.
Begin(t, kind, phase, u, item, gift, read) ==
  /\ ~Open(t) /\ writes < MaxWrites
  /\ writes' = writes + 1
  /\ tx' = [tx EXCEPT ![t] = [kind |-> kind, phase |-> phase, user |-> u, item |-> item,
                              gift |-> gift, now |-> today, read |-> read, base |-> read]]
End(t) == tx' = [tx EXCEPT ![t] = None]

\* An ORM flush updates only the columns that differ from what it loaded.
Flush(u, loaded, saved) ==
  /\ points' = IF saved.points = loaded.points THEN points
               ELSE [points EXCEPT ![u] = saved.points]
  /\ expiry' = IF saved.until = loaded.until THEN expiry
               ELSE [expiry EXCEPT ![u] = saved.until]

-----------------------------------------------------------------------------
(* Platform services.  The lock is taken and the code or feedback row read *)
(* first, then the user row, then all is written in one commit.            *)

Enter(t, kind, u, item, gift) ==
  /\ "platform" \in Writers /\ PlatformFree
  /\ Begin(t, kind, "entered", u, item, gift, Row(u))
  /\ UNCHANGED <<userVars, codeVars, fbVars, today>>

\* record_usage: a query that costs p.
Charge(t, u, p) == Enter(t, "charge", u, None, [points |-> p, days |-> 0])
\* grant_wallet.
Grant(t, u, g) == Enter(t, "grant", u, None, g)

Expired(c) == code[c].until # 0 /\ code[c].until < today
\* Faulty variant: the uses are not compared with max_uses.
UsableUnlimited(c) == code[c].status \in {"active", "exhausted"} /\ ~Expired(c)
Usable(c) == code[c].status = "active" /\ ~Expired(c) /\ code[c].used < code[c].max

\* redeem_code_and_grant_benefit, up to its checks of the code row.
Redeem(t, u, c) == Usable(c) /\ Enter(t, "redeem", u, c, code[c].gift)
\* The same call on a code out of date: the new status is committed.
RedeemExpired(c) ==
  /\ "platform" \in Writers /\ PlatformFree
  /\ code[c].status = "active" /\ Expired(c)
  /\ code' = [code EXCEPT ![c].status = "expired"]
  /\ UNCHANGED <<userVars, redeemed, fbVars, tx, today, writes>>

\* Faulty variant: the whole reward is paid again on every save.
OwedWhole(f, r) == r
\* Only what the feedback has not been paid yet.
Owed(f, r) == Most(reward[f], r) - reward[f]

\* resolve_feedback_with_reward with status "resolved" and something to pay.
Reward(t, f, r) ==
  /\ Owed(f, r) > 0
  /\ Enter(t, "reward", Author[f], f, [points |-> Owed(f, r), days |-> 0])

\* The user row is read, and locked where FOR UPDATE does lock.
ReadUser(t) ==
  /\ InPlatform(t) /\ tx[t].phase = "entered"
  /\ tx[t].user \in exists /\ ~RowLocked(tx[t].user)
  /\ tx' = [tx EXCEPT ![t].phase = "read", ![t].read = Row(tx[t].user),
                      ![t].now = IF tx[t].kind = "redeem" THEN @ ELSE today]
  /\ UNCHANGED <<userVars, codeVars, fbVars, today, writes>>

\* USER_NOT_FOUND: everything is rolled back.
UserMissing(t) ==
  /\ InPlatform(t) /\ tx[t].phase = "entered" /\ tx[t].user \notin exists
  /\ End(t)
  /\ UNCHANGED <<userVars, codeVars, fbVars, today, writes>>

\* What a query really takes: nothing in unlimited time, and what is left of
\* the balance when that is less than the price.
Paid(t) == IF tx[t].read.until > tx[t].now THEN 0
           ELSE Least(tx[t].gift.points, tx[t].read.points)
Gain(t) == IF tx[t].kind = "charge" THEN -Paid(t) ELSE tx[t].gift.points
Saved(t) == [points |-> tx[t].read.points + Gain(t),
             until  |-> IF tx[t].gift.days = 0 THEN tx[t].read.until
                        ELSE Most(tx[t].read.until, tx[t].now) + tx[t].gift.days]

UseCode(c) ==
  /\ code' = [code EXCEPT ![c].used = @ + 1,
                ![c].status = IF code[c].used + 1 >= code[c].max THEN "exhausted" ELSE @]
  /\ redeemed' = [redeemed EXCEPT ![c] = @ + 1]
PayReward(f, amount) ==
  /\ reward'   = [reward EXCEPT ![f] = @ + amount]
  /\ rewarded' = [rewarded EXCEPT ![f] = @ + amount]

Commit(t) ==
  /\ InPlatform(t) /\ tx[t].phase = "read"
  /\ tx[t].user \in exists \/ Saved(t) = tx[t].read
  /\ Flush(tx[t].user, tx[t].read, Saved(t))
  /\ ledger' = [ledger EXCEPT ![tx[t].user] = @ + Gain(t)]
  /\ IF tx[t].kind = "redeem" THEN UseCode(tx[t].item) ELSE UNCHANGED codeVars
  /\ IF tx[t].kind = "reward" THEN PayReward(tx[t].item, tx[t].gift.points)
                              ELSE UNCHANGED fbVars
  /\ End(t)
  /\ UNCHANGED <<exists, held, today, writes>>

\* Faulty variant: the error of an UPDATE that finds no row is not handled.
VanishedNever(t) == tx[t].user = None
\* The row was deleted after it was read and the UPDATE matches nothing.
Vanished(t) == tx[t].user \notin exists /\ Saved(t) # tx[t].read

CommitFails(t) ==
  /\ Open(t) /\ tx[t].kind \in Platform \cup {"refund"} /\ tx[t].phase = "read"
  /\ Vanished(t)
  /\ End(t)
  /\ UNCHANGED <<userVars, codeVars, fbVars, today, writes>>

CreateCode(c, g, m, d) ==
  /\ "platform" \in Writers /\ PlatformFree /\ code[c].status = "absent"
  /\ d = 0 \/ d > today
  /\ code' = [code EXCEPT ![c] = [status |-> "active", used |-> 0, max |-> m,
                                  until |-> d, gift |-> g]]
  /\ UNCHANGED <<userVars, redeemed, fbVars, tx, today, writes>>

DeleteCode(c) ==
  /\ PlatformFree /\ code[c].status \notin {"absent", "deleted"}
  /\ code' = [code EXCEPT ![c].status = "deleted"]
  /\ UNCHANGED <<userVars, redeemed, fbVars, tx, today, writes>>

-----------------------------------------------------------------------------
(* Image generation.  create_job updates the user row before it reads it,  *)
(* so a reservation is one step; a refund reads the row without a lock.    *)

Reserve(u, j) ==
  /\ "reserve" \in Writers /\ writes < MaxWrites
  /\ held[j] = None /\ u \in exists /\ ~RowLocked(u) /\ points[u] >= ImagePrice
  /\ points' = [points EXCEPT ![u] = @ - ImagePrice]
  /\ ledger' = [ledger EXCEPT ![u] = @ - ImagePrice]
  /\ held'   = [held EXCEPT ![j] = u]
  /\ writes' = writes + 1
  /\ UNCHANGED <<exists, expiry, codeVars, fbVars, tx, today>>

\* Job j holds points that no refund in progress is about to return.
Returnable(j) == /\ held[j] # None
                 /\ \A t \in Threads : Open(t) => tx[t].kind # "refund" \/ tx[t].item # j
\* complete_job, or a refund to a user who is gone: only the order changes.  A
\* small instance uses the job's id again.
Keep(j) ==
  /\ Returnable(j) /\ (RowLocks \/ ~RowLocked(held[j]))
  /\ held' = [held EXCEPT ![j] = None]
  /\ UNCHANGED <<exists, points, expiry, ledger, codeVars, fbVars, tx, today, writes>>

\* fail_job_and_refund reads the user without FOR UPDATE.
RefundRead(t, j) ==
  /\ "refund" \in Writers /\ Returnable(j) /\ held[j] \in exists
  /\ Begin(t, "refund", "read", held[j], j, [points |-> ImagePrice, days |-> 0],
           Row(held[j]))
  /\ UNCHANGED <<userVars, codeVars, fbVars, today>>

RefundWrite(t) ==
  /\ Open(t) /\ tx[t].kind = "refund"
  /\ tx[t].user \in exists /\ ~RowLocked(tx[t].user)
  /\ Flush(tx[t].user, tx[t].read, Saved(t))
  /\ ledger' = [ledger EXCEPT ![tx[t].user] = @ + ImagePrice]
  /\ held'   = [held EXCEPT ![tx[t].item] = None]
  /\ End(t)
  /\ UNCHANGED <<exists, codeVars, fbVars, today, writes>>

-----------------------------------------------------------------------------
(* AuthService: get_user returns a copy of the row in a transaction of its *)
(* own; save_user loads the row again and assigns every column of the copy.*)

GetUser(t, kind, u, item, record) ==
  /\ "account" \in Writers /\ AccountFree /\ u \in exists
  /\ Begin(t, kind, "got", u, item, [points |-> 0, days |-> 0], record)

\* set_role, set_status, change_password, create_reset_token, confirm_reset.
Profile(t, u) ==
  /\ GetUser(t, "profile", u, None, Row(u))
  /\ UNCHANGED <<userVars, codeVars, fbVars, today>>
SetPoints(t, u, n) ==
  /\ GetUser(t, "set_points", u, None, [Row(u) EXCEPT !.points = n])
  /\ UNCHANGED <<userVars, codeVars, fbVars, today>>
SetExpiry(t, u, d) ==
  /\ GetUser(t, "set_expiry", u, None, [Row(u) EXCEPT !.until = d])
  /\ UNCHANGED <<userVars, codeVars, fbVars, today>>

\* A new user_id.  A small instance uses the id of a deleted account again once
\* no operation remembers it.
Unborn(n) ==
  /\ n \notin exists /\ n \notin FirstUsers /\ ~RowLocked(n) /\ writes < MaxWrites
  /\ \A j \in Jobs : held[j] # n
  /\ \A t \in Threads : Open(t) => tx[t].item # n /\ tx[t].user # n
Insert(n, bonus) ==
  /\ exists' = exists \cup {n}
  /\ points' = [points EXCEPT ![n] = InitialPoints + bonus]
  /\ expiry' = [expiry EXCEPT ![n] = 0]
  /\ ledger' = [ledger EXCEPT ![n] = InitialPoints]
  /\ UNCHANGED held
\* register without an invitation.
Register(n) ==
  /\ "account" \in Writers /\ AccountFree /\ Unborn(n)
  /\ Insert(n, 0) /\ writes' = writes + 1
  /\ UNCHANGED <<codeVars, fbVars, tx, today>>
\* register with the code of u: the inviter is read, the new row is saved.
Invite(t, u, n) ==
  /\ Unborn(n)
  /\ GetUser(t, "invite", u, n, [Row(u) EXCEPT !.points = @ + Bonus])
  /\ Insert(n, Bonus)
  /\ UNCHANGED <<codeVars, fbVars, today>>

SaveLoad(t) ==
  /\ Open(t) /\ tx[t].phase = "got"
  /\ tx' = [tx EXCEPT ![t].phase = "loaded", ![t].base = Row(tx[t].user)]
  /\ UNCHANGED <<userVars, codeVars, fbVars, today, writes>>

\* A balance set by an administrator starts the account anew.
SaveFlush(t) ==
  /\ Open(t) /\ tx[t].phase = "loaded" /\ ~RowLocked(tx[t].user)
  /\ Flush(tx[t].user, tx[t].base, tx[t].read)
  /\ ledger' = IF tx[t].kind = "set_points"
               THEN [ledger EXCEPT ![tx[t].user] = points'[tx[t].user]] ELSE ledger
  /\ IF tx[t].kind = "invite" THEN tx' = [tx EXCEPT ![t].phase = "audit"] ELSE End(t)
  /\ UNCHANGED <<exists, held, codeVars, fbVars, today, writes>>

\* The registration handler then writes the two bonus orders; an error there
\* is logged and swallowed.
Audit(t) ==
  /\ Open(t) /\ tx[t].phase = "audit" /\ PlatformFree
  /\ \/ ledger' = [u \in Users |->
          IF u = tx[t].item \/ (u = tx[t].user /\ u \in exists)
          THEN ledger[u] + Bonus ELSE ledger[u]]
     \/ UNCHANGED ledger
  /\ End(t)
  /\ UNCHANGED <<exists, points, expiry, held, codeVars, fbVars, today, writes>>

DeleteUser(u) ==
  /\ "account" \in Writers /\ AccountFree /\ u \in exists /\ ~RowLocked(u)
  /\ exists' = exists \ {u}
  /\ UNCHANGED <<points, expiry, ledger, held, codeVars, fbVars, tx, today, writes>>

-----------------------------------------------------------------------------
Tick == /\ today < MaxDay /\ today' = today + 1
        /\ UNCHANGED <<userVars, codeVars, fbVars, tx, writes>>

PlatformStarts(t) ==
  \/ \E u \in Users : \/ \E p \in Prices : Charge(t, u, p)
                      \/ \E g \in Gifts : Grant(t, u, g)
                      \/ \E c \in Codes : Redeem(t, u, c)
  \/ \E f \in Feedbacks, r \in Rewards : Reward(t, f, r)
AccountStarts(t) ==
  \E u \in Users : \/ Profile(t, u)
                   \/ \E n \in Balances : SetPoints(t, u, n)
                   \/ \E d \in Expiries : SetExpiry(t, u, d)
                   \/ \E n \in Users : Invite(t, u, n)
PlatformSteps(t) == ReadUser(t) \/ UserMissing(t) \/ Commit(t)
AccountSteps(t)  == SaveLoad(t) \/ SaveFlush(t) \/ Audit(t)
\* The next step of the operation in progress in thread t.
Proceed(t) == PlatformSteps(t) \/ CommitFails(t) \/ RefundWrite(t) \/ AccountSteps(t)

Codebook ==
  \E c \in Codes : \/ RedeemExpired(c) \/ DeleteCode(c)
                   \/ \E g \in Gifts, m \in Uses, d \in 0 .. MaxDay : CreateCode(c, g, m, d)
Alone == \/ \E u \in Users : Register(u) \/ DeleteUser(u) \/ \E j \in Jobs : Reserve(u, j)
         \/ \E j \in Jobs : Keep(j)

Next ==
  \/ \E t \in Threads : \/ PlatformStarts(t) \/ AccountStarts(t) \/ Proceed(t)
                        \/ \E j \in Jobs : RefundRead(t, j)
  \/ Codebook \/ Alone \/ Tick

Spec == Init /\ [][Next]_vars

\* A thread runs on, a lock that is released again and again is granted in the
\* end (threading locks and row locks both queue their waiters).
FairSpec == Spec /\ \A t \in Threads : SF_vars(Proceed(t))

-----------------------------------------------------------------------------
RowType == [points : Nat, until : Nat]
CodeType == [status : {"absent", "active", "expired", "exhausted", "deleted"},
             used : Nat, max : Nat, until : Nat, gift : [points : Nat, days : Nat]]
TxType == [kind : Platform \cup Account \cup {"refund"},
           phase : {"entered", "read", "got", "loaded", "audit"}, user : Users,
           item : Users \cup Codes \cup Feedbacks \cup Jobs \cup {None},
           gift : [points : Nat, days : Nat], now : Nat, read : RowType, base : RowType]

\* No balance and no expiry is ever negative, whatever writes at once.
TypeOK ==
  /\ exists \subseteq Users
  /\ points \in [Users -> Nat] /\ expiry \in [Users -> Nat]
  /\ ledger \in [Users -> Int] /\ held \in [Jobs -> Users \cup {None}]
  /\ code \in [Codes -> CodeType] /\ redeemed \in [Codes -> Nat]
  /\ reward \in [Feedbacks -> Nat] /\ rewarded \in [Feedbacks -> Nat]
  /\ tx \in [Threads -> TxType \cup {None}]
  /\ today \in Nat /\ writes \in Nat

\* A balance is what the wallet orders and the usage logs of its user add up to:
\* no charge and no benefit is lost or counted twice.
BalanceAccounted == \A u \in exists : points[u] = ledger[u]

\* A code is redeemed exactly as often as its row says, and never more often than
\* max_uses allows; it leaves "active" with its last use.
CodeHonoured ==
  \A c \in Codes :
    /\ redeemed[c] = code[c].used /\ code[c].used <= code[c].max
    /\ code[c].status = "active" => code[c].used < code[c].max

\* However often a feedback is handled again, the rewards paid for it add up to
\* the reward shown on it, which is one that somebody asked for and never the sum
\* of several.
RewardPaidOnce ==
  \A f \in Feedbacks : rewarded[f] = reward[f] /\ reward[f] \in Rewards \cup {0}

Drift(u) == points[u] - ledger[u]
\* On PostgreSQL only a refund or a save of a whole user row can separate a balance
\* from its records or shorten a user's unlimited time: no charge, grant, code,
\* reward or reservation ever does.
StaleWrite == \E t \in Threads : Open(t) /\ (RefundWrite(t) \/ SaveFlush(t) \/ Audit(t))
OnlyStaleWritesDrift ==
  [][\/ \A u \in exists \cap exists' : Drift(u)' = Drift(u) /\ expiry'[u] >= expiry[u]
     \/ StaleWrite]_vars

\* Every operation comes to an end, with or without an error: no writer waits for
\* ever on the lock of another.
EveryWriteEnds == \A t \in Threads : Open(t) ~> ~Open(t)
=============================================================================
