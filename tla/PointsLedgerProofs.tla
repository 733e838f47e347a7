------------------------ MODULE PointsLedgerProofs -------------------------
(***************************************************************************)
(* Proofs about PointsLedger, for all users, codes, prices and lock        *)
(* disciplines.  The inductive invariant adds to the types:                *)
(*   Alone      one platform operation at a time (the shared RLock);       *)
(*   TxShape    what an operation in progress has checked is still so;     *)
(*   FromWriter an operation belongs to a part of the program in use;      *)
(*   Fresh      what a platform transaction has read of a user row is what *)
(*              the row holds, given a row lock or nobody else to write it.*)
(***************************************************************************)
EXTENDS PointsLedger, TLAPS

USE DEF Platform, Account

\* The shared RLock: no two platform operations at once.
OneInPlatform == \A s, t \in Threads : InPlatform(s) /\ InPlatform(t) => s = t

Shape(t) ==
  /\ tx[t].kind \in Platform => tx[t].phase \in {"entered", "read"}
  /\ tx[t].kind \in Account  => tx[t].phase \in {"got", "loaded", "audit"}
  /\ tx[t].kind = "refund"   => tx[t].phase = "read" /\ tx[t].item \in Jobs
  /\ tx[t].kind = "invite"   => tx[t].item \in Users
  /\ tx[t].kind = "charge"   => tx[t].gift.days = 0
  /\ tx[t].kind = "redeem"   => /\ tx[t].item \in Codes
                                /\ code[tx[t].item].status = "active"
                                /\ code[tx[t].item].used < code[tx[t].item].max
  /\ tx[t].kind = "reward"   => /\ tx[t].item \in Feedbacks
                                /\ reward[tx[t].item] + tx[t].gift.points \in Rewards
TxShape == \A t \in Threads : Open(t) => Shape(t)

\* A code that has not been created has not been used.
Unused == \A c \in Codes : code[c].status = "absent" => code[c].used = 0

Inv == TypeOK /\ OneInPlatform /\ TxShape /\ CodeHonoured /\ Unused /\ RewardPaidOnce

\* What a platform commit or a refund saves is a row again.
LEMMA SavedType ==
  ASSUME TypeOK, TxShape, NEW t \in Threads, Open(t)
  PROVE  /\ Saved(t) \in RowType /\ Gain(t) \in Int /\ Gain(t) + tx[t].read.points \in Nat
         /\ Saved(t).until >= tx[t].read.until
<1>1. tx[t] \in TxType /\ Shape(t)
  BY DEF TypeOK, TxShape, Open
<1>2. /\ tx[t].read \in RowType /\ tx[t].gift \in [points : Nat, days : Nat] /\ tx[t].now \in Nat
  BY <1>1 DEF TxType
<1>3. Paid(t) \in Nat /\ Paid(t) <= tx[t].read.points
  BY <1>2 DEF Paid, Least, RowType
<1>4. Gain(t) \in Int /\ Gain(t) + tx[t].read.points \in Nat
  BY <1>2, <1>3 DEF Gain, RowType
<1>5. Saved(t).until \in Nat /\ Saved(t).until >= tx[t].read.until
  BY <1>2 DEF Saved, Most, RowType
<1>6. Saved(t).points \in Nat
  BY <1>2, <1>4 DEF Saved, RowType
<1> QED BY <1>4, <1>5, <1>6 DEF Saved, RowType

\* A flush of one row leaves every balance and expiry a natural number.
LEMMA FlushType ==
  ASSUME TypeOK, NEW u \in Users, NEW r, NEW s \in RowType, Flush(u, r, s)
  PROVE  points' \in [Users -> Nat] /\ expiry' \in [Users -> Nat]
BY DEF TypeOK, Flush, RowType

\* A new operation is well typed.
LEMMA BeginType ==
  ASSUME TypeOK, NEW t \in Threads, NEW k \in Platform \cup Account \cup {"refund"},
         NEW p \in {"entered", "read", "got"}, NEW u \in Users,
         NEW i \in Users \cup Codes \cup Feedbacks \cup Jobs \cup {None},
         NEW g \in [points : Nat, days : Nat], NEW r \in RowType,
         Begin(t, k, p, u, i, g, r)
  PROVE  tx' \in [Threads -> TxType \cup {None}] /\ writes' \in Nat
BY PointsLedgerAssumption DEF TypeOK, Begin, TxType

LEMMA RowTyped == ASSUME TypeOK, NEW u \in Users PROVE Row(u) \in RowType
BY DEF TypeOK, Row, RowType

\* Ending an operation keeps the others well typed.
LEMMA EndType ==
  ASSUME TypeOK, NEW t \in Threads, End(t)
  PROVE  tx' \in [Threads -> TxType \cup {None}]
BY DEF TypeOK, End

\* Ending an operation that no other shares its rows with.
LEMMA EndInv ==
  ASSUME OneInPlatform, TxShape, TypeOK, NEW t \in Threads, End(t), UNCHANGED <<code, reward>>
  PROVE  OneInPlatform' /\ TxShape'
<1>1. \A s \in Threads : tx'[s] = tx[s] \/ tx'[s] = None
  BY DEF End, TypeOK
<1>2. OneInPlatform'
  BY <1>1 DEF OneInPlatform, InPlatform, Open
<1>3. TxShape'
  BY <1>1 DEF TxShape, Shape, Open
<1> QED BY <1>2, <1>3

\* An operation that is not a platform one begins.
LEMMA BeginInv ==
  ASSUME OneInPlatform, TxShape, TypeOK, NEW t \in Threads, NEW k \in Account \cup {"refund"},
         NEW p, NEW u, NEW i, NEW g, NEW r, Begin(t, k, p, u, i, g, r),
         k \in Account => p = "got", k = "refund" => p = "read" /\ i \in Jobs,
         k = "invite" => i \in Users, UNCHANGED <<code, reward>>
  PROVE  OneInPlatform' /\ TxShape'
<1>1. /\ \A s \in Threads : s # t => tx'[s] = tx[s]
      /\ tx'[t].kind = k /\ tx'[t].phase = p /\ tx'[t].item = i
  BY DEF Begin, TypeOK
<1>2. OneInPlatform'
  BY <1>1 DEF OneInPlatform, InPlatform, Open
<1>3. TxShape'
  <2> SUFFICES ASSUME NEW s \in Threads, Open(s)' PROVE Shape(s)'
    BY DEF TxShape
  <2>1. CASE s = t BY <2>1, <1>1 DEF Shape
  <2>2. CASE s # t BY <2>2, <1>1 DEF Shape, TxShape, Open
  <2> QED BY <2>1, <2>2
<1> QED BY <1>2, <1>3

LEMMA EnterInv ==
  ASSUME Inv, NEW t \in Threads, NEW k \in Platform, NEW u \in Users,
         NEW i \in Users \cup Codes \cup Feedbacks \cup Jobs \cup {None},
         NEW g \in [points : Nat, days : Nat], Enter(t, k, u, i, g),
         k = "charge" => g.days = 0,
         k = "redeem" => i \in Codes /\ Usable(i),
         k = "reward" => i \in Feedbacks /\ reward[i] + g.points \in Rewards
  PROVE  Inv'
<1>1. Begin(t, k, "entered", u, i, g, Row(u)) /\ PlatformFree
      /\ UNCHANGED <<userVars, codeVars, fbVars, today>>
  BY DEF Enter
<1>2. TypeOK'
  BY <1>1, BeginType, RowTyped DEF Inv, TypeOK, userVars, codeVars, fbVars
<1>3. /\ \A s \in Threads : s # t => tx'[s] = tx[s]
      /\ tx'[t].kind = k /\ tx'[t].phase = "entered" /\ tx'[t].item = i /\ tx'[t].gift = g
  BY <1>1 DEF Begin, TypeOK, Inv
<1>4. OneInPlatform'
  BY <1>1, <1>3 DEF OneInPlatform, InPlatform, Open, PlatformFree
<1>5. TxShape'
  <2> SUFFICES ASSUME NEW s \in Threads, Open(s)' PROVE Shape(s)'
    BY DEF TxShape
  <2>1. CASE s = t BY <2>1, <1>1, <1>3 DEF Shape, codeVars, fbVars, Usable
  <2>2. CASE s # t BY <2>2, <1>1, <1>3 DEF Shape, TxShape, Open, Inv, codeVars, fbVars
  <2> QED BY <2>1, <2>2
<1> QED BY <1>1, <1>2, <1>4, <1>5 DEF Inv, CodeHonoured, Unused, RewardPaidOnce, codeVars, fbVars

LEMMA CommitInv ==
  ASSUME Inv, NEW t \in Threads, Commit(t)
  PROVE  Inv'
<1>1. Open(t) /\ InPlatform(t) /\ Shape(t) /\ tx[t] \in TxType
  BY DEF Commit, Inv, TxShape, InPlatform, Open, TypeOK
<1>2. tx[t].user \in Users /\ Saved(t) \in RowType /\ Gain(t) \in Int
      /\ tx[t].gift \in [points : Nat, days : Nat]
  BY <1>1, SavedType DEF Inv, TxType
<1>3. points' \in [Users -> Nat] /\ expiry' \in [Users -> Nat]
  BY <1>2, FlushType DEF Commit, Inv
<1>4. tx' \in [Threads -> TxType \cup {None}]
  BY EndType DEF Commit, Inv
<1>5. ledger' \in [Users -> Int]
  BY <1>2 DEF Commit, Inv, TypeOK
<1>6. code' \in [Codes -> CodeType] /\ redeemed' \in [Codes -> Nat] /\ CodeHonoured' /\ Unused'
  <2>1. CASE tx[t].kind = "redeem"
    <3> PICK c \in Codes : c = tx[t].item /\ code[c].status = "active" /\ code[c].used < code[c].max
      BY <1>1, <2>1 DEF Shape
    <3>1. UseCode(c) BY <2>1 DEF Commit
    <3>2. code[c] \in CodeType /\ redeemed[c] = code[c].used
      BY DEF Inv, TypeOK, CodeHonoured
    <3>3. code'[c] = [code[c] EXCEPT !.used = @ + 1,
                        !.status = IF code[c].used + 1 >= code[c].max THEN "exhausted" ELSE @]
      BY <3>1 DEF UseCode, Inv, TypeOK
    <3>4. code'[c] \in CodeType
      <4>1. /\ code[c].status \in {"absent", "active", "expired", "exhausted", "deleted"}
            /\ code[c].used + 1 \in Nat
        BY <3>2 DEF CodeType
      <4> PICK n \in Nat : n = code[c].used + 1
        BY <4>1
      <4>2. PICK st \in {"absent", "active", "expired", "exhausted", "deleted"} :
              code'[c] = [code[c] EXCEPT !.used = n, !.status = st]
        BY <3>3, <4>1
      <4>3. \A r \in CodeType : [r EXCEPT !.used = n, !.status = st] \in CodeType
        BY <4>2 DEF CodeType
      <4> QED BY <3>2, <4>2, <4>3, Zenon
    <3>5. /\ code'[c].used = code[c].used + 1 /\ code'[c].max = code[c].max
          /\ code'[c].status = "active" => code[c].used + 1 < code[c].max
          /\ code'[c].status # "absent"
      BY <3>2, <3>3 DEF CodeType
    <3>6. \A d \in Codes : d # c => code'[d] = code[d] /\ redeemed'[d] = redeemed[d]
      BY <3>1 DEF UseCode, Inv, TypeOK
    <3>7. redeemed'[c] = redeemed[c] + 1 /\ redeemed' \in [Codes -> Nat]
      BY <3>1 DEF UseCode, Inv, TypeOK
    <3>8. code' \in [Codes -> CodeType]
      BY <3>1, <3>4, <3>6 DEF UseCode, Inv, TypeOK
    <3>9. CodeHonoured'
      <4> SUFFICES ASSUME NEW d \in Codes
                   PROVE /\ redeemed'[d] = code'[d].used /\ code'[d].used <= code'[d].max
                         /\ code'[d].status = "active" => code'[d].used < code'[d].max
        BY DEF CodeHonoured
      <4>1. CASE d = c BY <4>1, <3>2, <3>5, <3>7 DEF CodeType
      <4>2. CASE d # c BY <4>2, <3>6 DEF Inv, CodeHonoured
      <4> QED BY <4>1, <4>2
    <3>10. Unused'
      BY <3>5, <3>6 DEF Unused, Inv
    <3> QED BY <3>7, <3>8, <3>9, <3>10
  <2>2. CASE tx[t].kind # "redeem"
    BY <2>2 DEF Commit, codeVars, Inv, TypeOK, CodeHonoured, Unused
  <2> QED BY <2>1, <2>2
<1>7. reward' \in [Feedbacks -> Nat] /\ rewarded' \in [Feedbacks -> Nat] /\ RewardPaidOnce'
  <2>1. CASE tx[t].kind = "reward"
    <3> PICK f \in Feedbacks : f = tx[t].item /\ reward[f] + tx[t].gift.points \in Rewards
      BY <1>1, <2>1 DEF Shape
    <3>1. PayReward(f, tx[t].gift.points) BY <2>1 DEF Commit
    <3>2. /\ reward' = [reward EXCEPT ![f] = reward[f] + tx[t].gift.points]
          /\ rewarded' = [rewarded EXCEPT ![f] = rewarded[f] + tx[t].gift.points]
      BY <3>1 DEF PayReward
    <3> QED BY <1>2, <3>2 DEF Inv, TypeOK, RewardPaidOnce
  <2>2. CASE tx[t].kind # "reward"
    BY <2>2 DEF Commit, fbVars, Inv, TypeOK, RewardPaidOnce
  <2> QED BY <2>1, <2>2
<1>8. TypeOK'
  BY <1>3, <1>4, <1>5, <1>6, <1>7 DEF Commit, Inv, TypeOK
<1>9. \A s \in Threads : s # t => tx'[s] = tx[s] /\ ~InPlatform(s)
  BY <1>1 DEF Commit, End, Inv, OneInPlatform, TypeOK
<1>10. tx'[t] = None
  BY DEF Commit, End, Inv, TypeOK
<1>11. OneInPlatform'
  BY <1>9, <1>10 DEF OneInPlatform, InPlatform, Open
<1>12. TxShape'
  <2> SUFFICES ASSUME NEW s \in Threads, Open(s)' PROVE Shape(s)'
    BY DEF TxShape
  <2>1. s # t /\ tx'[s] = tx[s] /\ Open(s) /\ tx[s].kind \notin Platform
    BY <1>9, <1>10 DEF Open, InPlatform
  <2> QED BY <2>1 DEF Shape, TxShape, Inv
<1> QED BY <1>6, <1>7, <1>8, <1>11, <1>12 DEF Inv

\* A step that touches neither the codes nor the feedbacks keeps what is said of them.
LEMMA BooksKept ==
  ASSUME Inv, UNCHANGED <<codeVars, fbVars>>
  PROVE  CodeHonoured' /\ Unused' /\ RewardPaidOnce'
BY DEF Inv, CodeHonoured, Unused, RewardPaidOnce, codeVars, fbVars

THEOREM InvInit == Init => Inv
<1> SUFFICES ASSUME Init PROVE Inv
  OBVIOUS
<1>1. TypeOK
  <2>1. [status |-> "absent", used |-> 0, max |-> 0, until |-> 0,
         gift |-> [points |-> 0, days |-> 0]] \in CodeType
    BY DEF CodeType
  <2> QED BY <2>1, PointsLedgerAssumption DEF Init, TypeOK
<1>2. OneInPlatform /\ TxShape
  BY DEF Init, OneInPlatform, TxShape, InPlatform, Open
<1>3. CodeHonoured /\ Unused /\ RewardPaidOnce
  BY DEF Init, CodeHonoured, Unused, RewardPaidOnce
<1> QED BY <1>1, <1>2, <1>3 DEF Inv

LEMMA PlatformInv ==
  ASSUME Inv, NEW t \in Threads, PlatformStarts(t) \/ PlatformSteps(t) \/ CommitFails(t)
  PROVE  Inv'
<1>1. ASSUME NEW u \in Users, NEW p \in Prices, Charge(t, u, p) PROVE Inv'
  <2>1. [points |-> p, days |-> 0] \in [points : Nat, days : Nat]
    BY PointsLedgerAssumption
  <2> QED BY <1>1, <2>1, EnterInv DEF Charge
<1>2. ASSUME NEW u \in Users, NEW g \in Gifts, Grant(t, u, g) PROVE Inv'
  <2>1. g \in [points : Nat, days : Nat]
    BY PointsLedgerAssumption
  <2> QED BY <1>2, <2>1, EnterInv DEF Grant
<1>3. ASSUME NEW u \in Users, NEW c \in Codes, Redeem(t, u, c) PROVE Inv'
  <2>1. code[c].gift \in [points : Nat, days : Nat]
    BY DEF Inv, TypeOK, CodeType
  <2> QED BY <1>3, <2>1, EnterInv DEF Redeem
<1>4. ASSUME NEW f \in Feedbacks, NEW r \in Rewards, Reward(t, f, r) PROVE Inv'
  <2>1. r \in Nat /\ reward[f] \in Nat /\ Author[f] \in Users
    BY PointsLedgerAssumption DEF Inv, TypeOK
  <2>2. Owed(f, r) \in Nat /\ reward[f] + Owed(f, r) \in Rewards
    BY <1>4, <2>1 DEF Reward, Owed, Most
  <2>3. [points |-> Owed(f, r), days |-> 0] \in [points : Nat, days : Nat]
    BY <2>2
  <2> QED BY <1>4, <2>1, <2>2, <2>3, EnterInv DEF Reward
<1>5. CASE ReadUser(t)
  <2>1. tx[t] \in TxType /\ tx[t].user \in Users /\ tx[t].now \in Nat
    BY <1>5 DEF ReadUser, InPlatform, Open, Inv, TypeOK, TxType
  <2>2. Row(tx[t].user) \in RowType
    BY <2>1, RowTyped DEF Inv
  <2>3. PICK n \in Nat : tx' = [tx EXCEPT ![t].phase = "read",
                                 ![t].read = Row(tx[t].user), ![t].now = n]
    BY <1>5, <2>1 DEF ReadUser, Inv, TypeOK
  <2>4. tx' \in [Threads -> TxType \cup {None}]
    BY <2>1, <2>2, <2>3 DEF Inv, TypeOK, TxType
  <2>5. TypeOK'
    BY <1>5, <2>4 DEF ReadUser, Inv, TypeOK, userVars, codeVars, fbVars
  <2>6. /\ \A s \in Threads : s # t => tx'[s] = tx[s]
        /\ tx'[t].kind = tx[t].kind /\ tx'[t].phase = "read" /\ tx'[t].item = tx[t].item
        /\ tx'[t].gift = tx[t].gift /\ Open(t) /\ InPlatform(t)
    BY <1>5, <2>1, <2>3 DEF Inv, TypeOK, TxType, ReadUser, InPlatform
  <2>7. OneInPlatform'
    BY <2>6 DEF OneInPlatform, InPlatform, Open, Inv
  <2>8. TxShape'
    <3> SUFFICES ASSUME NEW s \in Threads, Open(s)' PROVE Shape(s)'
      BY DEF TxShape
    <3>1. CASE s = t BY <1>5, <2>6, <3>1 DEF Shape, TxShape, Inv, ReadUser, codeVars, fbVars, InPlatform
    <3>2. CASE s # t BY <1>5, <2>6, <3>2 DEF Shape, TxShape, Open, Inv, ReadUser, codeVars, fbVars
    <3> QED BY <3>1, <3>2
  <2> QED BY <1>5, <2>5, <2>7, <2>8, BooksKept DEF Inv, ReadUser
<1>6. CASE UserMissing(t) \/ CommitFails(t)
  <2>1. End(t) /\ UNCHANGED <<userVars, codeVars, fbVars, today, writes>>
    BY <1>6 DEF UserMissing, CommitFails
  <2>2. TypeOK'
    BY <2>1, EndType DEF Inv, TypeOK, userVars, codeVars, fbVars
  <2>3. OneInPlatform' /\ TxShape'
    BY <2>1, EndInv DEF Inv, codeVars, fbVars
  <2> QED BY <2>1, <2>2, <2>3, BooksKept DEF Inv
<1>7. CASE Commit(t) BY <1>7, CommitInv
<1> QED BY <1>1, <1>2, <1>3, <1>4, <1>5, <1>6, <1>7 DEF PlatformStarts, PlatformSteps

\* The row of code c is replaced by one that has as many uses.
Recoded(c) ==
  /\ PlatformFree /\ UNCHANGED redeemed
  /\ \E r \in CodeType : /\ code' = [code EXCEPT ![c] = r]
                         /\ r.used = code[c].used /\ r.used <= r.max
                         /\ r.status = "active" => r.used < r.max
                         /\ r.status # "absent"

\* A step on the codes alone.
LEMMA CodebookInv ==
  ASSUME Inv, Codebook
  PROVE  Inv'
<1>1. PICK c \in Codes : \/ RedeemExpired(c) \/ DeleteCode(c)
                         \/ \E g \in Gifts, m \in Uses, d \in 0 .. MaxDay : CreateCode(c, g, m, d)
  BY DEF Codebook
<1>2. Recoded(c)
  <2>0. code[c] \in CodeType /\ redeemed[c] = code[c].used /\ code[c].used <= code[c].max
    BY DEF Inv, TypeOK, CodeHonoured
  <2>1. CASE RedeemExpired(c)
    <3>1. [code[c] EXCEPT !.status = "expired"] \in CodeType
      BY <2>0 DEF CodeType
    <3> QED BY <2>0, <2>1, <3>1 DEF RedeemExpired, CodeType, Recoded
  <2>2. CASE DeleteCode(c)
    <3>1. [code[c] EXCEPT !.status = "deleted"] \in CodeType
      BY <2>0 DEF CodeType
    <3> QED BY <2>0, <2>2, <3>1 DEF DeleteCode, CodeType, Recoded
  <2>3. ASSUME NEW g \in Gifts, NEW m \in Uses, NEW d \in 0 .. MaxDay, CreateCode(c, g, m, d)
        PROVE  Recoded(c)
    <3>1. m \in Nat \ {0} /\ d \in Nat /\ g \in [points : Nat, days : Nat]
      BY PointsLedgerAssumption
    <3>2. [status |-> "active", used |-> 0, max |-> m, until |-> d, gift |-> g] \in CodeType
      BY <3>1 DEF CodeType
    <3>3. code[c].used = 0
      BY <2>3 DEF CreateCode, Inv, Unused
    <3> DEFINE r == [status |-> "active", used |-> 0, max |-> m, until |-> d, gift |-> g]
    <3>4. /\ r.used = code[c].used /\ r.used <= r.max /\ r.used < r.max
          /\ r.status # "absent"
      BY <3>1, <3>3
    <3>5. code' = [code EXCEPT ![c] = r] /\ PlatformFree /\ UNCHANGED redeemed
      BY <2>3 DEF CreateCode
    <3> HIDE DEF r
    <3>6. r \in CodeType
      BY <3>2 DEF r
    <3> QED BY <3>4, <3>5, <3>6 DEF Recoded
  <2> QED BY <1>1, <2>1, <2>2, <2>3
<1>3. UNCHANGED <<userVars, redeemed, fbVars, tx, today, writes>>
  BY <1>1 DEF RedeemExpired, DeleteCode, CreateCode
<1>4. TypeOK'
  BY <1>2, <1>3 DEF Inv, TypeOK, Recoded, userVars, fbVars
<1>5. CodeHonoured' /\ Unused'
  BY <1>2, <1>3 DEF Inv, CodeHonoured, Unused, TypeOK, Recoded
<1>6. OneInPlatform'
  BY <1>3 DEF Inv, OneInPlatform, InPlatform, Open
<1>7. TxShape'
  BY <1>2, <1>3 DEF Inv, TxShape, Shape, Open, Recoded, PlatformFree, InPlatform, fbVars
<1> QED BY <1>3, <1>4, <1>5, <1>6, <1>7 DEF Inv, RewardPaidOnce, fbVars

\* Image generation.
LEMMA ImageInv ==
  ASSUME Inv,
         \/ \E j \in Jobs : Keep(j) \/ \E u \in Users : Reserve(u, j)
         \/ \E t \in Threads : RefundWrite(t) \/ \E j \in Jobs : RefundRead(t, j)
  PROVE  Inv'
<1>1. ASSUME NEW j \in Jobs, NEW u \in Users, Reserve(u, j) PROVE Inv'
  <2>1. points[u] - ImagePrice \in Nat /\ ledger[u] - ImagePrice \in Int
    BY <1>1, PointsLedgerAssumption DEF Reserve, Inv, TypeOK
  <2>2. TypeOK'
    BY <1>1, <2>1 DEF Reserve, Inv, TypeOK, codeVars, fbVars
  <2>3. OneInPlatform' /\ TxShape'
    BY <1>1 DEF Reserve, Inv, OneInPlatform, TxShape, InPlatform, Open, Shape, codeVars, fbVars
  <2> QED BY <1>1, <2>2, <2>3, BooksKept DEF Inv, Reserve
<1>2. ASSUME NEW j \in Jobs, Keep(j) PROVE Inv'
  <2>1. TypeOK'
    BY <1>2 DEF Keep, Inv, TypeOK, codeVars, fbVars
  <2>2. OneInPlatform' /\ TxShape'
    BY <1>2 DEF Keep, Inv, OneInPlatform, TxShape, InPlatform, Open, Shape, codeVars, fbVars
  <2> QED BY <1>2, <2>1, <2>2, BooksKept DEF Inv, Keep
<1>3. ASSUME NEW t \in Threads, NEW j \in Jobs, RefundRead(t, j) PROVE Inv'
  <2> DEFINE g == [points |-> ImagePrice, days |-> 0]
  <2> PICK u \in Users : u = held[j]
    BY <1>3, PointsLedgerAssumption DEF RefundRead, Returnable, Inv, TypeOK
  <2>1. Row(u) \in RowType /\ g \in [points : Nat, days : Nat]
    BY RowTyped, PointsLedgerAssumption DEF Inv
  <2>2. Begin(t, "refund", "read", u, j, g, Row(u))
    BY <1>3 DEF RefundRead
  <2> HIDE DEF g
  <2>3. TypeOK'
    BY <1>3, <2>1, <2>2, BeginType DEF RefundRead, Inv, TypeOK, userVars, codeVars, fbVars
  <2>4. OneInPlatform' /\ TxShape'
    BY <1>3, <2>2, BeginInv DEF RefundRead, Inv, codeVars, fbVars
  <2> QED BY <1>3, <2>3, <2>4, BooksKept DEF Inv, RefundRead
<1>4. ASSUME NEW t \in Threads, RefundWrite(t) PROVE Inv'
  <2>1. Open(t) /\ tx[t] \in TxType /\ Shape(t)
    BY <1>4 DEF RefundWrite, Inv, TypeOK, TxShape, Open
  <2> PICK u \in Users : u = tx[t].user
    BY <2>1 DEF TxType
  <2>2. Saved(t) \in RowType /\ tx[t].item \in Jobs
    BY <1>4, <2>1, SavedType DEF Inv, Shape, RefundWrite
  <2>3. points' \in [Users -> Nat] /\ expiry' \in [Users -> Nat]
    BY <1>4, <2>2, FlushType DEF RefundWrite, Inv
  <2>4. ledger' \in [Users -> Int]
    BY <1>4, PointsLedgerAssumption DEF RefundWrite, Inv, TypeOK
  <2>5. TypeOK'
    BY <1>4, <2>2, <2>3, <2>4, EndType DEF RefundWrite, Inv, TypeOK, codeVars, fbVars
  <2>6. OneInPlatform' /\ TxShape'
    BY <1>4, EndInv DEF RefundWrite, Inv, codeVars, fbVars
  <2> QED BY <1>4, <2>5, <2>6, BooksKept DEF Inv, RefundWrite
<1> QED BY <1>1, <1>2, <1>3, <1>4

\* A read of a user by AuthService, whatever it is for.
LEMMA GetUserInv ==
  ASSUME Inv, NEW t \in Threads, NEW k \in Account, NEW u \in Users,
         NEW i \in Users \cup {None}, NEW r \in RowType, GetUser(t, k, u, i, r),
         k = "invite" => i \in Users, UNCHANGED <<code, reward>>
  PROVE  /\ tx' \in [Threads -> TxType \cup {None}] /\ writes' \in Nat
         /\ OneInPlatform' /\ TxShape'
<1> DEFINE g == [points |-> 0, days |-> 0]
<1>1. g \in [points : Nat, days : Nat]
  OBVIOUS
<1>2. Begin(t, k, "got", u, i, g, r)
  BY DEF GetUser
<1> HIDE DEF g
<1>3. tx' \in [Threads -> TxType \cup {None}] /\ writes' \in Nat
  BY <1>1, <1>2, BeginType DEF Inv
<1>4. OneInPlatform' /\ TxShape'
  BY <1>2, BeginInv DEF Inv
<1> QED BY <1>3, <1>4

LEMMA InsertType ==
  ASSUME TypeOK, NEW n \in Users, NEW b \in Nat, Insert(n, b)
  PROVE  /\ exists' \subseteq Users /\ points' \in [Users -> Nat]
         /\ expiry' \in [Users -> Nat] /\ ledger' \in [Users -> Int] /\ UNCHANGED held
<1>1. InitialPoints + b \in Nat /\ InitialPoints \in Int
  BY PointsLedgerAssumption
<1> QED BY <1>1 DEF TypeOK, Insert

\* Account operations.
LEMMA AccountInv ==
  ASSUME Inv,
         \/ \E t \in Threads : AccountStarts(t) \/ AccountSteps(t)
         \/ \E u \in Users : Register(u) \/ DeleteUser(u)
  PROVE  Inv'
<1>1. ASSUME NEW t \in Threads, NEW u \in Users,
             \/ Profile(t, u)
             \/ \E n \in Balances : SetPoints(t, u, n)
             \/ \E d \in Expiries : SetExpiry(t, u, d)
      PROVE  Inv'
  <2>1. /\ Row(u) \in RowType
        /\ \A n \in Balances : [Row(u) EXCEPT !.points = n] \in RowType
        /\ \A d \in Expiries : [Row(u) EXCEPT !.until = d] \in RowType
    BY RowTyped, PointsLedgerAssumption DEF Inv, RowType
  <2>2. UNCHANGED <<userVars, codeVars, fbVars, today>>
    BY <1>1 DEF Profile, SetPoints, SetExpiry
  <2>3. PICK k \in {"profile", "set_points", "set_expiry"}, r \in RowType : GetUser(t, k, u, None, r)
    BY <1>1, <2>1 DEF Profile, SetPoints, SetExpiry
  <2>4. /\ tx' \in [Threads -> TxType \cup {None}] /\ writes' \in Nat
        /\ OneInPlatform' /\ TxShape'
    BY <2>2, <2>3, GetUserInv DEF codeVars, fbVars
  <2>5. TypeOK'
    BY <2>2, <2>4 DEF Inv, TypeOK, userVars, codeVars, fbVars
  <2> QED BY <2>2, <2>4, <2>5, BooksKept DEF Inv
<1>2. ASSUME NEW t \in Threads, NEW u \in Users, NEW n \in Users, Invite(t, u, n) PROVE Inv'
  <2>1. [Row(u) EXCEPT !.points = @ + Bonus] \in RowType
    BY RowTyped, PointsLedgerAssumption DEF Inv, RowType
  <2>2. UNCHANGED <<codeVars, fbVars, today>> /\ Insert(n, Bonus)
    BY <1>2 DEF Invite
  <2>3. /\ tx' \in [Threads -> TxType \cup {None}] /\ writes' \in Nat
        /\ OneInPlatform' /\ TxShape'
    BY <1>2, <2>1, <2>2, GetUserInv DEF codeVars, fbVars, Invite
  <2>4. TypeOK'
    BY <2>2, <2>3, InsertType, PointsLedgerAssumption DEF Inv, TypeOK, codeVars, fbVars
  <2> QED BY <2>2, <2>3, <2>4, BooksKept DEF Inv
<1>3. ASSUME NEW t \in Threads, SaveLoad(t) PROVE Inv'
  <2>1. tx[t] \in TxType /\ tx[t].user \in Users /\ Open(t) /\ Shape(t)
    BY <1>3 DEF SaveLoad, Open, Inv, TypeOK, TxType, TxShape
  <2>2. Row(tx[t].user) \in RowType
    BY <2>1, RowTyped DEF Inv
  <2>3. tx' = [tx EXCEPT ![t].phase = "loaded", ![t].base = Row(tx[t].user)]
    BY <1>3 DEF SaveLoad
  <2>4. tx' \in [Threads -> TxType \cup {None}]
    BY <2>1, <2>2, <2>3 DEF Inv, TypeOK, TxType
  <2>5. TypeOK'
    BY <1>3, <2>4 DEF SaveLoad, Inv, TypeOK, userVars, codeVars, fbVars
  <2>6. /\ \A s \in Threads : s # t => tx'[s] = tx[s]
        /\ tx'[t].kind = tx[t].kind /\ tx'[t].phase = "loaded" /\ tx'[t].item = tx[t].item
        /\ tx'[t].gift = tx[t].gift /\ tx[t].kind \in Account
    BY <1>3, <2>1, <2>3 DEF Inv, TypeOK, TxType, SaveLoad, Shape
  <2>7. OneInPlatform'
    BY <2>6 DEF OneInPlatform, InPlatform, Open, Inv
  <2>8. TxShape'
    <3> SUFFICES ASSUME NEW s \in Threads, Open(s)' PROVE Shape(s)'
      BY DEF TxShape
    <3>1. CASE s = t BY <2>1, <2>6, <3>1 DEF Shape
    <3>2. CASE s # t BY <1>3, <2>6, <3>2 DEF Shape, TxShape, Open, Inv, SaveLoad, codeVars, fbVars
    <3> QED BY <3>1, <3>2
  <2> QED BY <1>3, <2>5, <2>7, <2>8, BooksKept DEF Inv, SaveLoad
<1>4. ASSUME NEW t \in Threads, SaveFlush(t) PROVE Inv'
  <2>1. tx[t] \in TxType /\ Open(t) /\ Shape(t)
    BY <1>4 DEF SaveFlush, Open, Inv, TypeOK, TxShape
  <2>2. tx[t].user \in Users /\ tx[t].read \in RowType
    BY <2>1 DEF TxType
  <2>3. points' \in [Users -> Nat] /\ expiry' \in [Users -> Nat]
    BY <1>4, <2>2, FlushType DEF SaveFlush, Inv
  <2>4. ledger' \in [Users -> Int]
    BY <1>4, <2>2, <2>3 DEF SaveFlush, Inv, TypeOK
  <2>5. /\ tx' \in [Threads -> TxType \cup {None}] /\ OneInPlatform' /\ TxShape'
    <3>1. CASE tx[t].kind # "invite"
      <4>1. End(t) BY <1>4, <3>1 DEF SaveFlush
      <4> QED BY <1>4, <4>1, EndType, EndInv DEF Inv, SaveFlush, codeVars, fbVars
    <3>2. CASE tx[t].kind = "invite"
      <4>1. tx' = [tx EXCEPT ![t].phase = "audit"]
        BY <1>4, <3>2 DEF SaveFlush
      <4>2. tx' \in [Threads -> TxType \cup {None}]
        BY <2>1, <4>1 DEF Inv, TypeOK, TxType
      <4>3. /\ \A s \in Threads : s # t => tx'[s] = tx[s]
            /\ tx'[t].kind = tx[t].kind /\ tx'[t].phase = "audit" /\ tx'[t].item = tx[t].item
            /\ tx'[t].gift = tx[t].gift
        BY <2>1, <4>1 DEF Inv, TypeOK, TxType
      <4>4. OneInPlatform'
        BY <3>2, <4>3 DEF OneInPlatform, InPlatform, Open, Inv
      <4>5. TxShape'
        <5> SUFFICES ASSUME NEW s \in Threads, Open(s)' PROVE Shape(s)'
          BY DEF TxShape
        <5>1. CASE s = t BY <2>1, <3>2, <4>3, <5>1 DEF Shape
        <5>2. CASE s # t BY <1>4, <4>3, <5>2 DEF Shape, TxShape, Open, Inv, SaveFlush, codeVars, fbVars
        <5> QED BY <5>1, <5>2
      <4> QED BY <4>2, <4>4, <4>5
    <3> QED BY <3>1, <3>2
  <2>6. TypeOK'
    BY <1>4, <2>3, <2>4, <2>5 DEF SaveFlush, Inv, TypeOK, codeVars, fbVars
  <2> QED BY <1>4, <2>5, <2>6, BooksKept DEF Inv, SaveFlush
<1>5. ASSUME NEW t \in Threads, Audit(t) PROVE Inv'
  <2>1. ledger' \in [Users -> Int]
    BY <1>5, PointsLedgerAssumption DEF Audit, Inv, TypeOK
  <2>2. TypeOK'
    BY <1>5, <2>1, EndType DEF Audit, Inv, TypeOK, codeVars, fbVars
  <2>3. OneInPlatform' /\ TxShape'
    BY <1>5, EndInv DEF Audit, Inv, codeVars, fbVars
  <2> QED BY <1>5, <2>2, <2>3, BooksKept DEF Inv, Audit
<1>6. ASSUME NEW n \in Users, Register(n) PROVE Inv'
  <2>1. writes' \in Nat /\ UNCHANGED <<codeVars, fbVars, tx, today>> /\ Insert(n, 0)
    BY <1>6 DEF Register, Inv, TypeOK
  <2>2. TypeOK'
    BY <2>1, InsertType DEF Inv, TypeOK, codeVars, fbVars
  <2>3. OneInPlatform' /\ TxShape'
    BY <2>1 DEF Inv, OneInPlatform, TxShape, InPlatform, Open, Shape, codeVars, fbVars
  <2> QED BY <2>1, <2>2, <2>3, BooksKept DEF Inv
<1>7. ASSUME NEW u \in Users, DeleteUser(u) PROVE Inv'
  <2>1. TypeOK'
    BY <1>7 DEF DeleteUser, Inv, TypeOK, codeVars, fbVars
  <2>2. OneInPlatform' /\ TxShape'
    BY <1>7 DEF DeleteUser, Inv, OneInPlatform, TxShape, InPlatform, Open, Shape, codeVars, fbVars
  <2> QED BY <1>7, <2>1, <2>2, BooksKept DEF Inv, DeleteUser
<1> QED BY <1>1, <1>2, <1>3, <1>4, <1>5, <1>6, <1>7 DEF AccountStarts, AccountSteps

THEOREM InvStep == Inv /\ [Next]_vars => Inv'
<1> SUFFICES ASSUME Inv, [Next]_vars PROVE Inv'
  OBVIOUS
<1>1. CASE \E t \in Threads : PlatformStarts(t) \/ PlatformSteps(t) \/ CommitFails(t)
  BY <1>1, PlatformInv
<1>2. CASE Codebook
  BY <1>2, CodebookInv
<1>3. CASE \/ \E j \in Jobs : Keep(j) \/ \E u \in Users : Reserve(u, j)
           \/ \E t \in Threads : RefundWrite(t) \/ \E j \in Jobs : RefundRead(t, j)
  BY <1>3, ImageInv
<1>4. CASE \/ \E t \in Threads : AccountStarts(t) \/ AccountSteps(t)
           \/ \E u \in Users : Register(u) \/ DeleteUser(u)
  BY <1>4, AccountInv
<1>5. CASE Tick
  BY <1>5 DEF Tick, Inv, TypeOK, OneInPlatform, TxShape, CodeHonoured, Unused, RewardPaidOnce,
              InPlatform, Open, Shape, userVars, codeVars, fbVars
<1>6. CASE UNCHANGED vars
  BY <1>6 DEF vars, Inv, TypeOK, OneInPlatform, TxShape, CodeHonoured, Unused, RewardPaidOnce,
              InPlatform, Open, Shape, userVars, codeVars, fbVars
<1> QED BY <1>1, <1>2, <1>3, <1>4, <1>5, <1>6 DEF Next, Proceed, Alone

THEOREM InvHolds == Spec => []Inv
BY InvInit, InvStep, PTL DEF Spec

\* Whatever runs at once, on either database: the state has its types, so no
\* balance, expiry or count is ever negative (commit_usage_transaction takes at
\* most what the balance holds).
THEOREM TypeCorrect == Spec => []TypeOK
BY InvHolds, PTL DEF Inv

\* Whatever runs at once, on either database: a code is redeemed as often as its
\* row says and never more than max_uses (redeem_code_and_grant_benefit).
THEOREM CodesHonoured == Spec => []CodeHonoured
BY InvHolds, PTL DEF Inv

\* Whatever runs at once, on either database: the rewards paid for a feedback add
\* up to one requested reward (resolve_feedback_with_reward).
THEOREM RewardsPaidOnce == Spec => []RewardPaidOnce
BY InvHolds, PTL DEF Inv

-----------------------------------------------------------------------------
(* Balances.                                                               *)

\* An operation in progress belongs to a part of the program in use.
FromWriter ==
  \A t \in Threads : Open(t) =>
    /\ tx[t].kind = "refund" => "refund" \in Writers
    /\ tx[t].kind \in Account => "account" \in Writers

\* What a platform transaction has read of its user is what the row holds.
FreshIn(t) == InPlatform(t) /\ tx[t].phase = "read" =>
                tx[t].user \in exists /\ tx[t].read = Row(tx[t].user)
Fresh == \A t \in Threads : FreshIn(t)

\* FOR UPDATE locks the row, or nothing but the platform services writes.
Protected == RowLocks \/ Writers \subseteq {"platform"}

RInv == Inv /\ FromWriter /\ Fresh


\* After a step the operation of thread s is gone, still of its kind, or one of a
\* part in use that has just begun.
Origin(s) ==
  \/ tx'[s] = None
  \/ Open(s) /\ tx'[s].kind = tx[s].kind
  \/ tx'[s].kind \in Platform
  \/ tx'[s].kind = "refund" /\ "refund" \in Writers
  \/ tx'[s].kind \in Account /\ "account" \in Writers

LEMMA OriginStep ==
  ASSUME Inv, [Next]_vars, NEW s \in Threads PROVE Origin(s)
<1>1. ASSUME NEW t \in Threads, PlatformStarts(t) PROVE Origin(s)
  <2>1. PICK k \in Platform : \E u, i, g : Enter(t, k, u, i, g)
    BY <1>1 DEF PlatformStarts, Charge, Grant, Redeem, Reward
  <2>2. PICK u, i, g : Enter(t, k, u, i, g) BY <2>1
  <2> QED BY <2>2 DEF Enter, Begin, Inv, TypeOK, Origin, Open
<1>2. ASSUME NEW t \in Threads, AccountStarts(t) PROVE Origin(s)
  <2>1. PICK k \in Account : \E u, i, r : GetUser(t, k, u, i, r)
    BY <1>2 DEF AccountStarts, Profile, SetPoints, SetExpiry, Invite
  <2>2. PICK u, i, r : GetUser(t, k, u, i, r) BY <2>1
  <2> QED BY <2>2 DEF GetUser, Begin, Inv, TypeOK, Origin, Open
<1>3. ASSUME NEW t \in Threads, NEW j \in Jobs, RefundRead(t, j) PROVE Origin(s)
  BY <1>3 DEF RefundRead, Begin, Inv, TypeOK, Origin, Open
<1>4. ASSUME NEW t \in Threads, Proceed(t) PROVE Origin(s)
  <2>1. CASE End(t)
    BY <2>1 DEF End, Inv, TypeOK, Origin, Open
  <2>2. CASE ReadUser(t)
    <3>1. tx[t] \in TxType BY <2>2 DEF ReadUser, InPlatform, Open, Inv, TypeOK
    <3> QED BY <2>2, <3>1 DEF ReadUser, InPlatform, Inv, TypeOK, TxType, Origin, Open
  <2>3. CASE SaveLoad(t)
    <3>1. tx[t] \in TxType BY <2>3 DEF SaveLoad, Open, Inv, TypeOK
    <3> QED BY <2>3, <3>1 DEF SaveLoad, Inv, TypeOK, TxType, Origin, Open
  <2>4. CASE SaveFlush(t) /\ ~End(t)
    <3>1. tx[t] \in TxType /\ tx' = [tx EXCEPT ![t].phase = "audit"] /\ Open(t)
      BY <2>4 DEF SaveFlush, Open, Inv, TypeOK
    <3> QED BY <3>1 DEF Inv, TypeOK, TxType, Origin, Open
  <2> QED BY <1>4, <2>1, <2>2, <2>3, <2>4
        DEF Proceed, PlatformSteps, AccountSteps, UserMissing, Commit, CommitFails, RefundWrite, Audit
<1>5. CASE Codebook \/ Alone \/ Tick \/ UNCHANGED vars
  <2>1. tx' = tx
    BY <1>5 DEF Codebook, Alone, Tick, vars, RedeemExpired, DeleteCode, CreateCode, Reserve, Keep,
                Register, DeleteUser
  <2> QED BY <2>1 DEF Origin, Open
<1> QED BY <1>1, <1>2, <1>3, <1>4, <1>5 DEF Next

LEMMA FromWriterStep == Inv /\ FromWriter /\ [Next]_vars => FromWriter'
<1> SUFFICES ASSUME Inv, FromWriter, [Next]_vars, NEW t \in Threads, Open(t)'
             PROVE  /\ tx'[t].kind = "refund" => "refund" \in Writers
                    /\ tx'[t].kind \in Account => "account" \in Writers
  BY DEF FromWriter
<1> QED BY OriginStep DEF Origin, FromWriter, Open

\* While a platform transaction has read the row of u, nobody else changes it.
RowKept(u) == u \in exists' /\ points'[u] = points[u] /\ expiry'[u] = expiry[u]

LEMMA RowKeptStep ==
  ASSUME Protected, RInv, [Next]_vars, NEW s \in Threads, InPlatform(s), tx[s].phase = "read",
         ~Commit(s)
  PROVE  RowKept(tx[s].user)
<1> PICK u \in Users : u = tx[s].user
  BY DEF InPlatform, Open, RInv, Inv, TypeOK, TxType
<1>1. u \in exists
  BY DEF RInv, Fresh, FreshIn
<1>2. RowLocks => RowLocked(u)
  BY DEF RowLocked
<1>3. ~RowLocks => Writers \subseteq {"platform"}
  BY DEF Protected
<1>4. ASSUME UNCHANGED <<exists, points, expiry>> PROVE RowKept(u)
  BY <1>1, <1>4 DEF RowKept
<1>5. ASSUME NEW t \in Threads, PlatformStarts(t) \/ PlatformSteps(t) \/ CommitFails(t)
      PROVE  RowKept(u)
  <2>1. ~Commit(t)
    <3>1. CASE t = s BY <3>1
    <3>2. CASE t # s BY <3>2 DEF Commit, RInv, Inv, OneInPlatform
    <3> QED BY <3>1, <3>2
  <2> QED BY <1>4, <1>5, <2>1 DEF PlatformStarts, PlatformSteps, Charge, Grant, Redeem, Reward,
                 Enter, ReadUser, UserMissing, CommitFails, userVars
<1>6. ASSUME NEW t \in Threads, RefundWrite(t) \/ \E j \in Jobs : RefundRead(t, j)
      PROVE  RowKept(u)
  <2>1. CASE \E j \in Jobs : RefundRead(t, j)
    BY <1>4, <2>1 DEF RefundRead, userVars
  <2>2. CASE RefundWrite(t)
    <3>1. RowLocks /\ tx[t].user # u
      BY <1>2, <1>3, <2>2 DEF RefundWrite, RInv, FromWriter
    <3> QED BY <1>1, <2>2, <3>1 DEF RefundWrite, Flush, RowKept, RInv, Inv, TypeOK
  <2> QED BY <1>6, <2>1, <2>2
<1>7. ASSUME NEW t \in Threads, AccountStarts(t) \/ AccountSteps(t) PROVE RowKept(u)
  <2>1. ASSUME NEW v \in Users, NEW n \in Users, Invite(t, v, n) PROVE RowKept(u)
    BY <1>1, <2>1 DEF Invite, Insert, Unborn, RowKept, RInv, Inv, TypeOK
  <2>2. CASE SaveFlush(t)
    <3>1. RowLocks /\ tx[t].user # u
      <4>1. tx[t].kind \in Account
        BY <2>2 DEF SaveFlush, RInv, Inv, TxShape, Shape, Open, TypeOK, TxType
      <4> QED BY <1>2, <1>3, <2>2, <4>1 DEF SaveFlush, RInv, FromWriter
    <3> QED BY <1>1, <2>2, <3>1 DEF SaveFlush, Flush, RowKept, RInv, Inv, TypeOK
  <2> QED BY <1>4, <1>7, <2>1, <2>2 DEF AccountStarts, AccountSteps, Profile, SetPoints, SetExpiry,
                 SaveLoad, Audit, userVars
<1>8. CASE Alone
  <2>1. ASSUME NEW v \in Users, Register(v) PROVE RowKept(u)
    BY <1>1, <2>1 DEF Register, Insert, Unborn, RowKept, RInv, Inv, TypeOK
  <2>2. ASSUME NEW v \in Users, DeleteUser(v) PROVE RowKept(u)
    BY <1>1, <1>2, <1>3, <2>2 DEF DeleteUser, RowKept
  <2>3. ASSUME NEW v \in Users, NEW j \in Jobs, Reserve(v, j) PROVE RowKept(u)
    BY <1>1, <1>2, <1>3, <2>3 DEF Reserve, RowKept, RInv, Inv, TypeOK
  <2>4. ASSUME NEW j \in Jobs, Keep(j) PROVE RowKept(u)
    BY <1>4, <2>4 DEF Keep
  <2> QED BY <1>8, <2>1, <2>2, <2>3, <2>4 DEF Alone
<1>9. CASE Codebook \/ Tick \/ UNCHANGED vars
  BY <1>4, <1>9 DEF Codebook, RedeemExpired, DeleteCode, CreateCode, Tick, vars, userVars
<1> QED BY <1>5, <1>6, <1>7, <1>8, <1>9 DEF Next, Proceed

\* Thread s has not just read a user row as a platform transaction does.
NotReading(s) ==
  \/ tx'[s] \in {None, tx[s]}
  \/ tx'[s].phase \in {"entered", "got", "loaded", "audit"}
  \/ tx'[s].kind = "refund"

LEMMA NotReadingStep ==
  ASSUME Inv, [Next]_vars, NEW s \in Threads, ~ReadUser(s) PROVE NotReading(s)
<1>1. ASSUME NEW t \in Threads, PlatformStarts(t) PROVE NotReading(s)
  <2>1. PICK k \in Platform : \E u, i, g : Enter(t, k, u, i, g)
    BY <1>1 DEF PlatformStarts, Charge, Grant, Redeem, Reward
  <2>2. PICK u, i, g : Enter(t, k, u, i, g) BY <2>1
  <2> QED BY <2>2 DEF Enter, Begin, Inv, TypeOK, NotReading
<1>2. ASSUME NEW t \in Threads, AccountStarts(t) PROVE NotReading(s)
  <2>1. PICK k \in Account : \E u, i, r : GetUser(t, k, u, i, r)
    BY <1>2 DEF AccountStarts, Profile, SetPoints, SetExpiry, Invite
  <2>2. PICK u, i, r : GetUser(t, k, u, i, r) BY <2>1
  <2> QED BY <2>2 DEF GetUser, Begin, Inv, TypeOK, NotReading
<1>3. ASSUME NEW t \in Threads, NEW j \in Jobs, RefundRead(t, j) PROVE NotReading(s)
  BY <1>3 DEF RefundRead, Begin, Inv, TypeOK, NotReading
<1>4. ASSUME NEW t \in Threads, Proceed(t) PROVE NotReading(s)
  <2>1. CASE End(t)
    BY <2>1 DEF End, Inv, TypeOK, NotReading
  <2>2. CASE ReadUser(t)
    BY <2>2 DEF ReadUser, Inv, TypeOK, NotReading
  <2>3. CASE SaveLoad(t)
    <3>1. tx[t] \in TxType BY <2>3 DEF SaveLoad, Open, Inv, TypeOK
    <3> QED BY <2>3, <3>1 DEF SaveLoad, Inv, TypeOK, TxType, NotReading
  <2>4. CASE SaveFlush(t) /\ ~End(t)
    <3>1. tx[t] \in TxType /\ tx' = [tx EXCEPT ![t].phase = "audit"]
      BY <2>4 DEF SaveFlush, Open, Inv, TypeOK
    <3> QED BY <3>1 DEF Inv, TypeOK, TxType, NotReading
  <2> QED BY <1>4, <2>1, <2>2, <2>3, <2>4
        DEF Proceed, PlatformSteps, AccountSteps, UserMissing, Commit, CommitFails, RefundWrite, Audit
<1>5. CASE Codebook \/ Alone \/ Tick \/ UNCHANGED vars
  <2>1. tx' = tx
    BY <1>5 DEF Codebook, Alone, Tick, vars, RedeemExpired, DeleteCode, CreateCode, Reserve, Keep,
                Register, DeleteUser
  <2> QED BY <2>1 DEF NotReading
<1> QED BY <1>1, <1>2, <1>3, <1>4, <1>5 DEF Next

LEMMA FreshStep == Protected /\ RInv /\ [Next]_vars => Fresh'
<1> SUFFICES ASSUME Protected, RInv, [Next]_vars, NEW s \in Threads PROVE FreshIn(s)'
  BY DEF Fresh
<1>1. CASE ReadUser(s)
  <2>1. tx[s] \in TxType
    BY <1>1 DEF ReadUser, InPlatform, Open, RInv, Inv, TypeOK
  <2>2. tx'[s].user = tx[s].user /\ tx'[s].read = Row(tx[s].user) /\ tx[s].user \in exists
    BY <1>1, <2>1 DEF ReadUser, RInv, Inv, TypeOK, TxType
  <2>3. exists' = exists /\ points' = points /\ expiry' = expiry
    BY <1>1 DEF ReadUser, userVars
  <2>4. Row(tx[s].user) = [points |-> points'[tx'[s].user], until |-> expiry'[tx'[s].user]]
    BY <2>2, <2>3 DEF Row
  <2> QED BY <2>2, <2>3, <2>4 DEF FreshIn, Row
<1>2. CASE tx'[s] = tx[s]
  <2> SUFFICES ASSUME InPlatform(s), tx[s].phase = "read"
               PROVE  tx[s].user \in exists' /\ tx[s].read = Row(tx[s].user)'
    BY <1>2 DEF FreshIn, InPlatform, Open
  <2>1. ~Commit(s)
    BY <1>2 DEF Commit, End, InPlatform, Open, RInv, Inv, TypeOK
  <2>2. RowKept(tx[s].user)
    BY <2>1, RowKeptStep
  <2>3. tx[s].read = Row(tx[s].user)
    BY DEF RInv, Fresh, FreshIn
  <2> QED BY <1>2, <2>2, <2>3 DEF RowKept, Row
<1>3. CASE tx'[s] # tx[s] /\ ~ReadUser(s)
  BY <1>3, NotReadingStep DEF NotReading, FreshIn, InPlatform, Open, RInv
<1> QED BY <1>1, <1>2, <1>3

THEOREM RInvHolds == ASSUME Protected PROVE Spec => []RInv
<1>1. Init => RInv
  BY InvInit DEF Init, RInv, FromWriter, Fresh, FreshIn, InPlatform, Open
<1>2. RInv /\ [Next]_vars => RInv'
  BY InvStep, FromWriterStep, FreshStep DEF RInv
<1> QED BY <1>1, <1>2, PTL DEF Spec

\* A step that moves no balance but together with its records, and shortens no
\* unlimited time.
Accounted ==
  \A u \in exists \cap exists' : Drift(u)' = Drift(u) /\ expiry'[u] >= expiry[u]

LEMMA DriftStep ==
  ASSUME Protected, RInv, [Next]_vars, ~StaleWrite PROVE Accounted
<1>1. ASSUME UNCHANGED <<points, expiry, ledger>> PROVE Accounted
  BY <1>1 DEF Accounted, Drift, RInv, Inv, TypeOK
<1>2. ASSUME NEW n \in Users, NEW b \in Nat, n \notin exists, Insert(n, b) PROVE Accounted
  BY <1>2 DEF Insert, Accounted, Drift, RInv, Inv, TypeOK
<1>3. ASSUME NEW t \in Threads, Commit(t) PROVE Accounted
  <2>1. Open(t) /\ tx[t].user \in exists /\ tx[t].read = Row(tx[t].user)
    BY <1>3 DEF Commit, RInv, Fresh, FreshIn, InPlatform
  <2> PICK u \in Users : u = tx[t].user
    BY <2>1 DEF RInv, Inv, TypeOK
  <2>2. Saved(t) \in RowType /\ Gain(t) \in Int /\ Saved(t).until >= tx[t].read.until
    BY <2>1, SavedType DEF RInv, Inv
  <2>3. Saved(t).points = points[u] + Gain(t) /\ Saved(t).until >= expiry[u]
        /\ tx[t].read.points = points[u] /\ tx[t].read.until = expiry[u]
    BY <2>1, <2>2 DEF Saved, Row
  <2>4. points' = [points EXCEPT ![u] = points[u] + Gain(t)]
    BY <1>3, <2>3 DEF Commit, Flush, RInv, Inv, TypeOK
  <2>5. expiry' = [expiry EXCEPT ![u] = Saved(t).until]
    BY <1>3, <2>3 DEF Commit, Flush, RInv, Inv, TypeOK
  <2>6. ledger' = [ledger EXCEPT ![u] = ledger[u] + Gain(t)]
    BY <1>3 DEF Commit
  <2> SUFFICES ASSUME NEW v \in exists \cap exists'
               PROVE  Drift(v)' = Drift(v) /\ expiry'[v] >= expiry[v]
    BY DEF Accounted
  <2>7. v \in Users /\ points[v] \in Nat /\ expiry[v] \in Nat /\ ledger[v] \in Int
    BY DEF RInv, Inv, TypeOK
  <2>8. CASE v = u
    BY <2>2, <2>3, <2>4, <2>5, <2>6, <2>7, <2>8 DEF Drift, RInv, Inv, TypeOK
  <2>9. CASE v # u
    BY <2>4, <2>5, <2>6, <2>7, <2>9 DEF Drift, RInv, Inv, TypeOK
  <2> QED BY <2>8, <2>9
<1>4. ASSUME NEW u \in Users, NEW j \in Jobs, Reserve(u, j) PROVE Accounted
  BY <1>4, PointsLedgerAssumption DEF Reserve, Accounted, Drift, RInv, Inv, TypeOK
<1>5. ASSUME NEW t \in Threads, PlatformStarts(t) \/ AccountStarts(t) \/ Proceed(t)
      PROVE  Accounted
  <2>1. ASSUME NEW u \in Users, NEW n \in Users, Invite(t, u, n) PROVE Accounted
    BY <1>2, <2>1, PointsLedgerAssumption DEF Invite, Unborn
  <2>2. CASE RefundWrite(t) \/ SaveFlush(t) \/ Audit(t)
    BY <2>2 DEF StaleWrite, RefundWrite, SaveFlush, Audit
  <2> QED BY <1>1, <1>3, <1>5, <2>1, <2>2
        DEF PlatformStarts, AccountStarts, Proceed, PlatformSteps, AccountSteps, Charge, Grant,
            Redeem, Reward, Enter, Profile, SetPoints, SetExpiry, ReadUser, UserMissing,
            CommitFails, SaveLoad, userVars
<1>6. CASE Alone
  <2>1. ASSUME NEW n \in Users, Register(n) PROVE Accounted
    BY <1>2, <2>1 DEF Register, Unborn
  <2> QED BY <1>1, <1>4, <1>6, <2>1 DEF Alone, Keep, DeleteUser
<1>7. CASE Codebook \/ Tick \/ UNCHANGED vars \/ \E t \in Threads, j \in Jobs : RefundRead(t, j)
  BY <1>1, <1>7 DEF Codebook, RedeemExpired, DeleteCode, CreateCode, Tick, vars, userVars, RefundRead
<1> QED BY <1>4, <1>5, <1>6, <1>7 DEF Next

\* On PostgreSQL: only a refund (fail_job_and_refund), a save of a whole user row
\* (save_user) or the audit of an invitation can part a balance from its records.
THEOREM OnlyStaleWrites == ASSUME RowLocks PROVE Spec => OnlyStaleWritesDrift
<1>1. Protected
  BY DEF Protected
<1>2. RInv /\ [Next]_vars => [Accounted \/ StaleWrite]_vars
  BY <1>1, DriftStep
<1>3. Accounted \/ StaleWrite <=>
        \/ \A u \in exists \cap exists' : Drift(u)' = Drift(u) /\ expiry'[u] >= expiry[u]
        \/ StaleWrite
  BY DEF Accounted
<1> QED BY <1>1, <1>2, <1>3, RInvHolds, PTL DEF Spec, OnlyStaleWritesDrift

\* Without refunds and account operations every balance is what its records add up
\* to, under the row locks of PostgreSQL with image reservations at the same time,
\* and under the shared RLock alone when only the platform services write.
THEOREM BalancesAccounted ==
  ASSUME Protected, Writers \subseteq {"platform", "reserve"}
  PROVE  Spec => []BalanceAccounted
<1>1. Init => BalanceAccounted
  BY PointsLedgerAssumption DEF Init, BalanceAccounted
<1>2. RInv /\ BalanceAccounted /\ [Next]_vars => BalanceAccounted'
  <2> SUFFICES ASSUME RInv, BalanceAccounted, [Next]_vars PROVE BalanceAccounted'
    OBVIOUS
  <2>1. ~StaleWrite
    BY DEF StaleWrite, RefundWrite, SaveFlush, Audit, Open, RInv, Inv, FromWriter, TxShape, Shape,
           TypeOK, TxType
  <2>2. Accounted
    BY <2>1, DriftStep
  <2>3. exists' \subseteq exists
    BY DEF Next, Proceed, PlatformStarts, AccountStarts, PlatformSteps, AccountSteps, Charge, Grant,
           Redeem, Reward, Enter, Profile, SetPoints, SetExpiry, Invite, GetUser, ReadUser,
           UserMissing, Commit, CommitFails, RefundRead, RefundWrite, SaveLoad, SaveFlush, Audit,
           Codebook, RedeemExpired, DeleteCode, CreateCode, Alone, Reserve, Keep, Register,
           DeleteUser, Tick, userVars, vars
  <2>4. TypeOK /\ TypeOK'
    BY InvStep DEF RInv, Inv
  <2> SUFFICES ASSUME NEW u \in exists' PROVE points'[u] = ledger'[u]
    BY DEF BalanceAccounted
  <2>5. /\ points[u] \in Nat /\ ledger[u] \in Int /\ points'[u] \in Nat /\ ledger'[u] \in Int
        /\ u \in exists /\ points[u] = ledger[u]
    BY <2>3, <2>4 DEF TypeOK, BalanceAccounted
  <2>6. points'[u] - ledger'[u] = points[u] - ledger[u]
    BY <2>2, <2>5 DEF Accounted, Drift
  <2> QED BY <2>5, <2>6
<1> QED BY <1>1, <1>2, RInvHolds, PTL DEF Spec
=============================================================================
