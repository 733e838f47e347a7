--------------------------- MODULE KnowledgeProofs ---------------------------
(***************************************************************************)
(* Proofs about what finds an answer: QuestionBank, MatchIndex,            *)
(* AnswerCache and AnswerPipeline, for every set of answers, questions,    *)
(* records, threads and cache objects, every similarity of titles and      *)
(* every number of models, engines, retries and repetitions.               *)
(***************************************************************************)
EXTENDS QuestionBank, MatchIndex, AnswerCache, AnswerPipeline,
        FiniteSetTheorems, SequenceTheorems, WellFoundedInduction, TLAPS

USE ConfirmationsAssumption, CacheAssumption, PipelineAssumption

-----------------------------------------------------------------------------
(***************************************************************************)
(* QuestionBank: where an answer comes from.                               *)
(***************************************************************************)

\* An entry is contested exactly when it has met a conflict.
EntryOK == entry # NoEntry => (entry.status = "conflict" <=> entry.conflicts # 0)

-----------------------------------------------------------------------------
(* Where answers come from.                                                *)

Sure == learned \cup reviewed

\* What a request in progress may still write.
Vouches(r) ==
  /\ r.at = "save" /\ r.status = "trusted" => r.answer \in learned
  /\ r.at \in {"record", "publish"} => r.answer \in learned
  /\ r.at \in {"write", "apply"} /\ Indexable(r.row) => r.row.answer \in Sure
  /\ r.at = "replace" => r.index \in Sure \cup {NoAnswer}

Vouched ==
  /\ index \in Sure \cup {NoAnswer}
  /\ Indexable(row) => row.answer \in Sure
  /\ entry # NoEntry => entry.answer \in learned
  /\ \A t \in Requests : Vouches(request[t])

-----------------------------------------------------------------------------
(* What a request that is alone knows.                                     *)

\* What it means to write still agrees with the table, whatever the index says.
Current(r) ==
  /\ r.at = "apply" => row = r.row
  /\ r.at = "unindex" => ~Indexable(row)
  /\ r.at = "replace" => r.index = IndexOf(row)

\* The index agrees with the table, or will once the request has gone on.
Agrees(r) ==
  /\ r.at \in {"look1", "write", "replace"} => index = IndexOf(row)
  /\ r.at \in {"look2", "look3", "look4", "model", "save"} => index = NoAnswer /\ IndexOf(row) = NoAnswer
  /\ r.at \in {"record", "publish"} => row = [answer |-> r.answer, status |-> "trusted"]

Alone ==
  /\ crowded => apart
  /\ ~crowded =>
       /\ \A t, u \in Requests : request[t] # Resting /\ request[u] # Resting => t = u
       /\ \A t \in Requests : Current(request[t])
  /\ ~apart =>
       /\ AllResting => index = IndexOf(row)
       /\ \A t \in Requests : Agrees(request[t])

\* The inductive invariant.
BankInvariant == BankTypeOK /\ EntryOK /\ Vouched /\ Alone

-----------------------------------------------------------------------------
(* The shapes of requests and entries.                                     *)

LEMMA RequestShape ==
  ASSUME NEW r \in RequestType
  PROVE  /\ r.at \in {"resting", "look1", "look2", "look3", "look4", "model", "unindex", "save",
                      "record", "publish", "write", "apply", "replace"}
         /\ r.at = "resting" => r = Resting
         /\ r.at \in {"save", "record"} => r.answer \in Answers /\ r.status \in Statuses
         /\ r.at = "save" => r = [at |-> "save", answer |-> r.answer, status |-> r.status]
         /\ r.at = "publish" => r.answer \in Answers
         /\ r.at \in {"write", "apply"} => r.row \in Rows /\ r = [at |-> r.at, row |-> r.row]
         /\ r.at = "replace" => r.index \in Answers \cup {NoAnswer}
BY DEF RequestType, Resting

\* What the operators of AnswerEntries make of an entry.
LEMMA FirstShape ==
  ASSUME NEW a \in Answers
  PROVE  \E f \in Entry : /\ f = FirstEntry(a, TRUE)
                         /\ f.answer = a /\ f.conflicts = 0 /\ f.status = "trusted"
<1>1. PICK f : f = [answer |-> a, confirmations |-> 1, conflicts |-> 0, status |-> "trusted"]
  OBVIOUS
<1>2. f \in Entry /\ f.answer = a /\ f.conflicts = 0 /\ f.status = "trusted"
  BY <1>1 DEF Entry
<1>3. f = FirstEntry(a, TRUE)
  BY <1>1 DEF FirstEntry
<1> QED BY <1>2, <1>3, Zenon

LEMMA ContestedShape ==
  ASSUME NEW e \in Entry, NEW f, f = Contested(e)
  PROVE  /\ f \in Entry /\ f.answer = e.answer
         /\ f.conflicts \in Nat \ {0} /\ f.status = "conflict"
<1>1. f = [e EXCEPT !.conflicts = e.conflicts + 1, !.status = "conflict"]
  BY DEF Contested
<1>2. e.conflicts \in Nat /\ e.conflicts + 1 \in Nat \ {0}
  BY DEF Entry
<1>3. PICK n \in Nat \ {0} : n = e.conflicts + 1
  BY <1>2
<1>4. f = [e EXCEPT !.conflicts = n, !.status = "conflict"]
  BY <1>1, <1>3
<1>5. f \in Entry /\ f.answer = e.answer /\ f.conflicts = n /\ f.status = "conflict"
  BY <1>4 DEF Entry
<1> QED BY <1>5

LEMMA ConfirmedShape ==
  ASSUME NEW e \in Entry, NEW f, f = Confirmed(e, TRUE)
  PROVE  /\ f \in Entry /\ f.answer = e.answer /\ f.conflicts = e.conflicts
         /\ f.status = IF e.conflicts = 0 THEN "trusted" ELSE e.status
<1>1. e.confirmations + 1 \in Nat
  BY DEF Entry
<1>2. PICK n \in Nat : n = e.confirmations + 1
  BY <1>1
<1>3. PICK s \in {"pending", "trusted", "conflict"} : s = IF e.conflicts = 0 THEN "trusted" ELSE e.status
  BY DEF Entry
<1>4. f = [e EXCEPT !.confirmations = n, !.status = s]
  BY <1>2, <1>3 DEF Confirmed
<1>5. f \in Entry /\ f.answer = e.answer /\ f.conflicts = e.conflicts /\ f.status = s
  BY <1>4 DEF Entry
<1> QED BY <1>3, <1>5

\* Recording an answer by force: trusted or contested, and contested for good.
LEMMA RecordedShape ==
  ASSUME NEW e \in Entry \cup {NoEntry}, NEW a \in Answers,
         e # NoEntry => (e.status = "conflict" <=> e.conflicts # 0)
  PROVE  \E f \in Entry :
            /\ f = Recorded(e, a, TRUE)
            /\ f.status = "conflict" <=> f.conflicts # 0
            /\ f.status \in {"trusted", "conflict"}
            /\ f.answer = IF e = NoEntry THEN a ELSE e.answer
            /\ e # NoEntry /\ e.status = "conflict" => f.status = "conflict"
            /\ f.status = "trusted" => f.answer = a
<1>1. CASE e = NoEntry
  <2>1. PICK f \in Entry : /\ f = FirstEntry(a, TRUE)
                          /\ f.answer = a /\ f.conflicts = 0 /\ f.status = "trusted"
    BY FirstShape
  <2>2. f = Recorded(e, a, TRUE)
    BY <1>1, <2>1, Zenon DEF Recorded
  <2>3. f.status # "conflict"
    BY <2>1
  <2> QED BY <1>1, <2>1, <2>2, <2>3, Zenon
<1>2. CASE e # NoEntry /\ e.answer # a
  <2>1. PICK f \in Entry : /\ f = Contested(e) /\ f.answer = e.answer
                          /\ f.conflicts \in Nat \ {0} /\ f.status = "conflict"
    BY <1>2, ContestedShape
  <2>2. f = Recorded(e, a, TRUE)
    BY <1>2, <2>1, Zenon DEF Recorded
  <2>3. f.conflicts # 0 /\ f.status # "trusted"
    BY <2>1
  <2> QED BY <1>2, <2>1, <2>2, <2>3, Zenon
<1>3. CASE e # NoEntry /\ e.answer = a
  <2>1. PICK f \in Entry : /\ f = Confirmed(e, TRUE) /\ f.answer = e.answer /\ f.conflicts = e.conflicts
                          /\ f.status = IF e.conflicts = 0 THEN "trusted" ELSE e.status
    BY <1>3, ConfirmedShape
  <2>2. f = Recorded(e, a, TRUE)
    BY <1>3, <2>1, Zenon DEF Recorded
  <2>3. /\ f.status = "conflict" <=> f.conflicts # 0
        /\ f.status \in {"trusted", "conflict"}
        /\ e.status = "conflict" => f.status = "conflict"
    BY <1>3, <2>1
  <2> QED BY <1>3, <2>1, <2>2, <2>3, Zenon
<1> QED BY <1>1, <1>2, <1>3

-----------------------------------------------------------------------------
(* The steps of a request.                                                 *)

LEMMA KeptInit == BankInit => BankInvariant
<1> SUFFICES ASSUME BankInit PROVE BankInvariant OBVIOUS
<1>1. BankTypeOK
  BY DEF BankInit, BankTypeOK, Rows, RequestType
<1>2. EntryOK /\ Vouched /\ Alone
  BY DEF BankInit, EntryOK, Vouched, Vouches, Indexable, NoRow, Resting, Alone, Agrees, Current, IndexOf, NoEntry
<1> QED BY <1>1, <1>2 DEF BankInvariant

\* A request begins: it is alone exactly when all others rest.
LEMMA KeptBegin ==
  ASSUME BankInvariant, NEW t \in Requests, NEW r \in RequestType, Begin(t, r),
         BankTypeOK', UNCHANGED <<index, entry, learned>>, reviewed \subseteq reviewed',
         r # Resting,
         Indexable(row') => row'.answer \in Sure',
         Vouches(r)',
         ~crowded' => Current(r)',
         ~apart' /\ index = IndexOf(row) => Agrees(r)'
  PROVE  BankInvariant'
<1>1. request' = [request EXCEPT ![t] = r] /\ request[t] = Resting
      /\ crowded' = ~AllResting /\ apart' = (apart \/ ~AllResting)
  BY DEF Begin
<1>2. request \in [Requests -> RequestType]
  BY DEF BankInvariant, BankTypeOK
<1>3. EntryOK'
  BY DEF BankInvariant, EntryOK
<1>4. Sure \subseteq Sure'
  BY DEF Sure
<1>5. Vouched'
  <2>1. \A u \in Requests : Vouches(request[u])'
    <3> SUFFICES ASSUME NEW u \in Requests PROVE Vouches(request[u])' OBVIOUS
    <3>1. CASE u = t BY <1>1, <1>2, <3>1
    <3>2. CASE u # t
      <4>1. request'[u] = request[u] /\ Vouches(request[u])
        BY <1>1, <1>2, <3>2 DEF BankInvariant, Vouched
      <4> QED BY <1>4, <4>1 DEF Vouches
    <3> QED BY <3>1, <3>2
  <2> QED BY <1>4, <2>1 DEF BankInvariant, Vouched
<1>6. Alone'
  <2>1. request'[t] = r /\ ~AllResting'
    BY <1>1, <1>2 DEF AllResting
  <2>2. ASSUME AllResting, NEW u \in Requests, u # t PROVE request'[u] = Resting
    BY <1>1, <1>2, <2>2 DEF AllResting
  <2>3. crowded' => apart'
    BY <1>1
  <2>4. ASSUME ~crowded'
        PROVE  /\ \A v, u \in Requests : request'[v] # Resting /\ request'[u] # Resting => v = u
               /\ \A u \in Requests : Current(request[u])'
    <3>1. AllResting
      BY <1>1, <2>4
    <3>2. \A u \in Requests : u # t => Current(request[u])'
      BY <2>2, <3>1 DEF Current, Resting
    <3> QED BY <2>1, <2>2, <2>4, <3>1, <3>2
  <2>5. ASSUME ~apart' PROVE \A u \in Requests : Agrees(request[u])'
    <3>1. ~apart /\ AllResting
      BY <1>1, <2>5 DEF BankInvariant, BankTypeOK
    <3>2. index = IndexOf(row)
      BY <3>1 DEF BankInvariant, Alone
    <3>3. \A u \in Requests : u # t => Agrees(request[u])'
      BY <2>2, <3>1 DEF Agrees, Resting
    <3> QED BY <2>1, <2>5, <3>2, <3>3
  <2> QED BY <2>1, <2>3, <2>4, <2>5 DEF Alone
<1> QED BY <1>3, <1>5, <1>6 DEF BankInvariant

\* A request goes on: others keep what they had, if it is alone they rest.
LEMMA KeptGoes ==
  ASSUME BankInvariant, NEW t \in Requests, NEW r \in RequestType, request[t] # Resting,
         request' = [request EXCEPT ![t] = r],
         BankTypeOK', EntryOK', learned \subseteq learned', UNCHANGED reviewed,
         index' \in Sure' \cup {NoAnswer},
         Indexable(row') => row'.answer \in Sure',
         entry' # NoEntry => entry'.answer \in learned',
         Vouches(r)',
         crowded' = crowded, crowded => apart',
         Current(request[t]) => Current(r)',
         ~apart' /\ Current(request[t]) /\ (apart \/ Agrees(request[t])) =>
           IF r = Resting THEN index' = IndexOf(row') ELSE Agrees(r)'
  PROVE  BankInvariant'
<1>1. request \in [Requests -> RequestType]
  BY DEF BankInvariant, BankTypeOK
<1>2. Sure \subseteq Sure'
  BY DEF Sure
<1>3. Vouched'
  <2>1. \A u \in Requests : Vouches(request[u])'
    <3> SUFFICES ASSUME NEW u \in Requests PROVE Vouches(request[u])' OBVIOUS
    <3>1. CASE u = t BY <1>1, <3>1
    <3>2. CASE u # t
      <4>1. request'[u] = request[u] /\ Vouches(request[u])
        BY <1>1, <3>2 DEF BankInvariant, Vouched
      <4> QED BY <1>2, <4>1 DEF Vouches
    <3> QED BY <3>1, <3>2
  <2> QED BY <1>2, <2>1 DEF BankInvariant, Vouched
<1>4. Alone'
  <2>1. request'[t] = r /\ \A u \in Requests : u # t => request'[u] = request[u]
    BY <1>1
  <2>2. ASSUME ~crowded
        PROVE  /\ \A u \in Requests : u # t => request[u] = Resting /\ request'[u] = Resting
               /\ Current(request[t])
    BY <2>1, <2>2 DEF BankInvariant, Alone
  <2>3. ASSUME ~crowded'
        PROVE  /\ \A v, u \in Requests : request'[v] # Resting /\ request'[u] # Resting => v = u
               /\ \A u \in Requests : Current(request[u])'
    <3>1. \A u \in Requests : u # t => request'[u] = Resting
      BY <2>2, <2>3
    <3>2. \A u \in Requests : u # t => Current(request[u])'
      BY <3>1 DEF Current, Resting
    <3>3. Current(r)'
      BY <2>2, <2>3
    <3> QED BY <2>1, <3>1, <3>2, <3>3
  <2>4. ASSUME ~apart'
        PROVE  /\ AllResting' => index' = IndexOf(row')
               /\ \A u \in Requests : Agrees(request[u])'
    <3>1. ~crowded
      BY <2>4
    <3>2. apart \/ Agrees(request[t])
      BY DEF BankInvariant, Alone
    <3>3. \A u \in Requests : u # t => Agrees(request[u])'
      BY <2>2, <3>1 DEF Agrees, Resting
    <3>4. IF r = Resting THEN index' = IndexOf(row') ELSE Agrees(r)'
      BY <2>2, <2>4, <3>1, <3>2
    <3>5. CASE r = Resting
      <4>1. Agrees(r)' BY <3>5 DEF Agrees, Resting
      <4> QED BY <2>1, <3>3, <3>4, <3>5, <4>1
    <3>6. CASE r # Resting
      <4>1. ~AllResting' BY <2>1, <3>6 DEF AllResting
      <4> QED BY <2>1, <3>3, <3>4, <3>6, <4>1
    <3> QED BY <3>5, <3>6
  <2> QED BY <2>3, <2>4 DEF Alone
<1> QED BY <1>3, <1>4 DEF BankInvariant

\* Requests that carry nothing.
LEMMA PlainRequests ==
  /\ Resting \in RequestType
  /\ \A p \in {"look1", "look2", "look3", "look4", "model", "unindex"} : [at |-> p] \in RequestType
  BY DEF RequestType

LEMMA CarryingRequests ==
  ASSUME NEW a \in Answers, NEW s \in Statuses, NEW w \in Rows, NEW i \in Answers \cup {NoAnswer}
  PROVE  /\ [at |-> "save", answer |-> a, status |-> s] \in RequestType
         /\ [at |-> "record", answer |-> a, status |-> s] \in RequestType
         /\ [at |-> "publish", answer |-> a] \in RequestType
         /\ [at |-> "write", row |-> w] \in RequestType
         /\ [at |-> "apply", row |-> w] \in RequestType
         /\ [at |-> "replace", index |-> i] \in RequestType
  BY DEF RequestType

\* What the index takes from a vouched row is vouched.
LEMMA IndexVouched ==
  ASSUME NEW w \in Rows, Indexable(w) => w.answer \in Sure
  PROVE  IndexOf(w) \in Sure \cup {NoAnswer} /\ IndexOf(w) \in Answers \cup {NoAnswer}
<1>1. CASE Indexable(w)
  <2>1. w \in [answer : Answers, status : Statuses]
    <3>1. w # NoRow
      BY <1>1 DEF Indexable, NoRow
    <3> QED BY <3>1 DEF Rows
  <2> QED BY <1>1, <2>1 DEF IndexOf
<1>2. CASE ~Indexable(w)
  BY <1>2 DEF IndexOf
<1> QED BY <1>1, <1>2

LEMMA KeptBegins ==
  ASSUME BankInvariant, NEW t \in Requests,
         \/ BeginQuery(t) \/ BeginDelete(t) \/ BeginReindex(t)
         \/ \E a \in Answers, s \in Statuses \ {"deleted"} : BeginEdit(t, a, s)
  PROVE  BankInvariant'
<1>0. request \in [Requests -> RequestType] /\ row \in Rows
  BY DEF BankInvariant, BankTypeOK
<1>1. CASE BeginQuery(t)
  <2> DEFINE r == [at |-> "look1"]
  <2>1. r \in RequestType /\ r # Resting
    BY PlainRequests DEF Resting
  <2>2. Begin(t, r) /\ UNCHANGED <<row, index, entry, file, synced, learned, reviewed>>
    BY <1>1 DEF BeginQuery
  <2>3. BankTypeOK'
    BY <2>1, <2>2 DEF Begin, BankInvariant, BankTypeOK, AllResting
  <2>4. Vouches(r)' /\ Current(r)' /\ (index = IndexOf(row) => Agrees(r)')
    BY <2>2 DEF Vouches, Current, Agrees, IndexOf, Indexable
  <2>5. Indexable(row') => row'.answer \in Sure'
    BY <2>2 DEF BankInvariant, Vouched, Sure
  <2> HIDE DEF r
  <2> QED BY <2>1, <2>2, <2>3, <2>4, <2>5, KeptBegin
<1>2. CASE BeginDelete(t)
  <2> DEFINE r == [at |-> "unindex"]
  <2>1. r \in RequestType /\ r # Resting
    BY PlainRequests DEF Resting
  <2>2. /\ Begin(t, r) /\ row # NoRow /\ row' = [row EXCEPT !.status = "deleted"]
        /\ UNCHANGED <<index, entry, file, synced, learned, reviewed>>
    BY <1>2 DEF BeginDelete
  <2>3. row' \in Rows /\ ~Indexable(row')
    BY <1>0, <2>2 DEF Rows, Statuses, Indexable
  <2>4. BankTypeOK'
    BY <2>1, <2>2, <2>3 DEF Begin, BankInvariant, BankTypeOK, AllResting
  <2>5. Vouches(r)' /\ Current(r)' /\ Agrees(r)'
    BY <2>3 DEF Vouches, Current, Agrees
  <2> HIDE DEF r
  <2> QED BY <2>1, <2>2, <2>3, <2>4, <2>5, KeptBegin
<1>3. CASE BeginReindex(t)
  <2>1. IndexOf(row) \in Sure \cup {NoAnswer} /\ IndexOf(row) \in Answers \cup {NoAnswer}
    BY <1>0, IndexVouched DEF BankInvariant, Vouched
  <2>2. PICK r : r = [at |-> "replace", index |-> IndexOf(row)]
    OBVIOUS
  <2>3. r \in RequestType /\ r # Resting /\ r.at = "replace" /\ r.index = IndexOf(row)
    BY <2>1, <2>2 DEF RequestType, Resting
  <2>4. Begin(t, r) /\ UNCHANGED <<row, index, entry, file, synced, learned, reviewed>>
    BY <1>3, <2>2 DEF BeginReindex
  <2>5. BankTypeOK'
    BY <2>3, <2>4 DEF Begin, BankInvariant, BankTypeOK, AllResting
  <2>6. IndexOf(row') = IndexOf(row) /\ Sure' = Sure
    BY <2>4 DEF IndexOf, Indexable, Sure
  <2>7. Vouches(r)' /\ Current(r)' /\ (index = IndexOf(row) => Agrees(r)')
    BY <2>1, <2>3, <2>4, <2>6 DEF Vouches, Current, Agrees
  <2>8. Indexable(row') => row'.answer \in Sure'
    BY <2>4 DEF BankInvariant, Vouched, Sure
  <2> QED BY <2>3, <2>4, <2>5, <2>7, <2>8, KeptBegin
<1>4. ASSUME NEW a \in Answers, NEW s \in Statuses \ {"deleted"}, BeginEdit(t, a, s) PROVE BankInvariant'
  <2>1. PICK w : w = [answer |-> a, status |-> s]
    OBVIOUS
  <2>2. w \in Rows /\ w.answer = a /\ w.status = s
    BY <2>1 DEF Rows
  <2> DEFINE r == [at |-> "write", row |-> w]
  <2>3. r \in RequestType /\ r # Resting /\ r.at = "write" /\ r.row = w
    BY <2>2 DEF RequestType, Resting
  <2>4. /\ Begin(t, r) /\ UNCHANGED <<row, index, entry, file, synced, learned>>
        /\ reviewed' = IF a # row.answer \/ s # row.status THEN reviewed \cup {a} ELSE reviewed
    BY <1>4, <2>1 DEF BeginEdit
  <2> HIDE DEF r
  <2>5. reviewed' \in SUBSET Answers /\ reviewed \subseteq reviewed'
    BY <2>4 DEF BankInvariant, BankTypeOK
  <2>6. BankTypeOK'
    BY <2>3, <2>4, <2>5 DEF Begin, BankInvariant, BankTypeOK, AllResting
  <2>7. Indexable(row') => row'.answer \in Sure'
    BY <2>4, <2>5 DEF BankInvariant, Vouched, Sure
  <2>8. Indexable(w) => w.answer \in Sure'
    BY <2>2, <2>4, <2>5, <2>7 DEF Sure, Indexable
  <2>9. Vouches(r)' /\ Current(r)' /\ (index = IndexOf(row) => Agrees(r)')
    BY <2>3, <2>4, <2>8 DEF Vouches, Current, Agrees, IndexOf, Indexable
  <2> QED BY <2>3, <2>4, <2>5, <2>6, <2>7, <2>9, KeptBegin
<1> QED BY <1>1, <1>2, <1>3, <1>4

\* A look goes on, or the query ends with what it found.
LEMMA LookSteps ==
  ASSUME NEW t \in Requests, apart \in BOOLEAN, Look(t)
  PROVE  /\ UNCHANGED <<row, index, entry, file, synced, learned, reviewed, crowded, requests>>
         /\ (apart => apart') /\ request[t].at \in {"look1", "look2", "look3", "look4"}
         /\ \/ /\ request' = [request EXCEPT ![t] = Resting] /\ apart' = apart
               /\ request[t].at \in {"look1", "look3"} => index # NoAnswer
            \/ \E p \in {"look2", "look3", "look4", "model"} :
                 /\ request' = [request EXCEPT ![t] = [at |-> p]]
                 /\ request[t].at \in {"look1", "look3"} /\ ~apart' => index = NoAnswer
<1>1. PICK n \in 1..4, skipped \in BOOLEAN :
        /\ request[t].at = <<"look1", "look2", "look3", "look4">>[n]
        /\ Goes(t, IF (IF n \in {1, 3} THEN index # NoAnswer ELSE entry.status = "trusted") /\ ~skipped
                   THEN Resting ELSE [at |-> <<"look2", "look3", "look4", "model">>[n]])
        /\ apart' = (apart \/ ((IF n \in {1, 3} THEN index # NoAnswer ELSE entry.status = "trusted") /\ skipped))
  BY DEF Look
<1>2. PICK hit \in BOOLEAN : hit = IF n \in {1, 3} THEN index # NoAnswer ELSE entry.status = "trusted"
  OBVIOUS
<1>3. PICK p : p = <<"look2", "look3", "look4", "model">>[n]
  OBVIOUS
<1>4. /\ Goes(t, IF hit /\ ~skipped THEN Resting ELSE [at |-> p])
      /\ apart' = (apart \/ (hit /\ skipped))
  BY <1>1, <1>2, <1>3, Zenon
<1>5. n \in {1, 2, 3, 4}
  OBVIOUS
<1>6. /\ request[t].at \in {"look1", "look2", "look3", "look4"}
      /\ request[t].at \in {"look1", "look3"} => n \in {1, 3}
      /\ p \in {"look2", "look3", "look4", "model"}
  BY <1>1, <1>3, <1>5
<1>7. request[t].at \in {"look1", "look3"} => (hit <=> index # NoAnswer)
  BY <1>2, <1>6
<1>8. /\ UNCHANGED <<row, index, entry, file, synced, learned, reviewed, crowded, requests>>
      /\ apart => apart'
  BY <1>4 DEF Look, Goes
<1>9. CASE hit /\ ~skipped
  <2>1. request' = [request EXCEPT ![t] = Resting] /\ apart' = apart
    BY <1>4, <1>9 DEF Goes
  <2> QED BY <1>6, <1>7, <1>8, <1>9, <2>1
<1>10. CASE ~(hit /\ ~skipped)
  <2>1. request' = [request EXCEPT ![t] = [at |-> p]]
    BY <1>4, <1>10 DEF Goes
  <2>2. request[t].at \in {"look1", "look3"} /\ ~apart' => index = NoAnswer
    BY <1>4, <1>7, <1>10
  <2> QED BY <1>6, <1>8, <2>1, <2>2
<1> QED BY <1>9, <1>10

\* The looks of a query.
LEMMA KeptLooks ==
  ASSUME BankInvariant, NEW t \in Requests, Look(t)
  PROVE  BankInvariant'
<1>0. /\ request \in [Requests -> RequestType] /\ request[t] \in RequestType
      /\ apart \in BOOLEAN /\ (crowded => apart)
  BY DEF BankInvariant, BankTypeOK, Alone
<1>1. /\ UNCHANGED <<row, index, entry, file, synced, learned, reviewed, crowded, requests>>
      /\ (apart => apart') /\ request[t].at \in {"look1", "look2", "look3", "look4"}
  BY <1>0, LookSteps
<1>2. apart' \in BOOLEAN
  BY DEF Look
<1>3. PICK r \in RequestType :
        /\ request' = [request EXCEPT ![t] = r]
        /\ r = Resting \/ r.at \in {"look2", "look3", "look4", "model"}
        /\ ~apart' /\ Agrees(request[t]) => IF r = Resting THEN index = IndexOf(row) ELSE Agrees(r)
  <2>1. CASE /\ request' = [request EXCEPT ![t] = Resting] /\ apart' = apart
             /\ request[t].at \in {"look1", "look3"} => index # NoAnswer
    <3>1. Agrees(request[t]) => index = IndexOf(row)
      BY <1>1, <2>1 DEF Agrees
    <3> QED BY <2>1, <3>1, PlainRequests
  <2>2. ASSUME NEW p \in {"look2", "look3", "look4", "model"},
               request' = [request EXCEPT ![t] = [at |-> p]],
               request[t].at \in {"look1", "look3"} /\ ~apart' => index = NoAnswer
        PROVE  \E r \in RequestType :
                 /\ request' = [request EXCEPT ![t] = r]
                 /\ r = Resting \/ r.at \in {"look2", "look3", "look4", "model"}
                 /\ ~apart' /\ Agrees(request[t]) => IF r = Resting THEN index = IndexOf(row) ELSE Agrees(r)
    <3>1. PICK r : r = [at |-> p]
      OBVIOUS
    <3>2. r \in RequestType /\ r.at = p /\ r # Resting
      BY <3>1, PlainRequests DEF Resting
    <3>3. ~apart' /\ Agrees(request[t]) => Agrees(r)
      BY <1>1, <2>2, <3>2 DEF Agrees
    <3>4. request' = [request EXCEPT ![t] = r]
      BY <2>2, <3>1
    <3>5. r.at \in {"look2", "look3", "look4", "model"}
      BY <3>2
    <3> QED BY <3>2, <3>3, <3>4, <3>5, Zenon
  <2> QED BY <1>0, <2>1, <2>2, LookSteps, Zenon
<1>4. BankTypeOK'
  BY <1>0, <1>1, <1>2, <1>3 DEF BankInvariant, BankTypeOK
<1>5. EntryOK' /\ (Indexable(row') => row'.answer \in Sure') /\ index' \in Sure' \cup {NoAnswer}
      /\ (entry' # NoEntry => entry'.answer \in learned')
  BY <1>1 DEF BankInvariant, EntryOK, Vouched, Sure
<1>6. Vouches(r)' /\ Current(r)'
  BY <1>3 DEF Vouches, Current, Resting
<1>7. request[t] # Resting
  BY <1>1 DEF Resting
<1>8. ~apart' /\ (apart \/ Agrees(request[t])) =>
        IF r = Resting THEN index' = IndexOf(row') ELSE Agrees(r)'
  BY <1>1, <1>3 DEF Agrees, IndexOf, Indexable
<1> QED BY <1>0, <1>1, <1>3, <1>4, <1>5, <1>6, <1>7, <1>8, KeptGoes

\* The model answers, or fails.
LEMMA KeptModel ==
  ASSUME BankInvariant, NEW t \in Requests,
         \/ ModelFails(t)
         \/ \E a \in Answers, s \in {"trusted", "low_confidence", "non_reusable"} : ModelAnswers(t, a, s)
  PROVE  BankInvariant'
<1>0. request \in [Requests -> RequestType] /\ request[t] \in RequestType
  BY DEF BankInvariant, BankTypeOK
<1>1. request[t].at = "model" /\ request[t] # Resting
  <2>1. request[t].at = "model"
    BY Zenon DEF ModelFails, ModelAnswers
  <2> QED BY <2>1 DEF Resting
<1>2. CASE ModelFails(t)
  <2>1. /\ request' = [request EXCEPT ![t] = Resting]
        /\ UNCHANGED <<row, index, entry, file, synced, learned, reviewed, crowded, apart>>
    BY <1>2 DEF ModelFails, Goes, historyVars
  <2>2. Resting \in RequestType /\ BankTypeOK'
    BY <2>1, PlainRequests DEF BankInvariant, BankTypeOK
  <2>3. EntryOK' /\ (Indexable(row') => row'.answer \in Sure') /\ index' \in Sure' \cup {NoAnswer}
        /\ (entry' # NoEntry => entry'.answer \in learned')
    BY <2>1 DEF BankInvariant, EntryOK, Vouched, Sure
  <2>4. Vouches(Resting)' /\ Current(Resting)'
    BY DEF Vouches, Current, Resting
  <2>5. Agrees(request[t]) => index' = IndexOf(row')
    BY <1>1, <2>1 DEF Agrees
  <2>6. crowded => apart'
    BY <2>1 DEF BankInvariant, Alone
  <2> QED BY <1>1, <2>1, <2>2, <2>3, <2>4, <2>5, <2>6, KeptGoes
<1>3. ASSUME NEW a \in Answers, NEW s \in {"trusted", "low_confidence", "non_reusable"}, ModelAnswers(t, a, s)
      PROVE  BankInvariant'
  <2>1. PICK r : r = [at |-> "save", answer |-> a, status |-> s]
    OBVIOUS
  <2>2. r \in RequestType /\ r.at = "save" /\ r.answer = a /\ r.status = s /\ r # Resting
    BY <2>1 DEF RequestType, Statuses, Resting
  <2>3. /\ request' = [request EXCEPT ![t] = r]
        /\ learned' = IF s = "trusted" THEN learned \cup {a} ELSE learned
        /\ UNCHANGED <<row, index, entry, file, synced, reviewed, crowded, apart>>
    BY <1>3, <2>1 DEF ModelAnswers, Goes
  <2>4. learned' \in SUBSET Answers /\ learned \subseteq learned' /\ Sure \subseteq Sure'
    BY <2>3 DEF BankInvariant, BankTypeOK, Sure
  <2>5. BankTypeOK'
    BY <2>2, <2>3, <2>4 DEF BankInvariant, BankTypeOK
  <2>6. EntryOK' /\ (Indexable(row') => row'.answer \in Sure') /\ index' \in Sure' \cup {NoAnswer}
        /\ (entry' # NoEntry => entry'.answer \in learned')
    BY <2>3, <2>4 DEF BankInvariant, EntryOK, Vouched
  <2>7. Vouches(r)' /\ Current(r)'
    BY <2>2, <2>3 DEF Vouches, Current
  <2>8. Agrees(request[t]) => Agrees(r)'
    BY <1>1, <2>2, <2>3 DEF Agrees, IndexOf, Indexable
  <2>9. crowded => apart'
    BY <2>3 DEF BankInvariant, Alone
  <2> QED BY <1>1, <2>2, <2>3, <2>4, <2>5, <2>6, <2>7, <2>8, <2>9, KeptGoes
<1> QED BY <1>2, <1>3

\* The answer is saved to the table, or the repository failed.
LEMMA KeptSave ==
  ASSUME BankInvariant, NEW t \in Requests, SaveAnswer(t)
  PROVE  BankInvariant'
<1>0. request \in [Requests -> RequestType] /\ request[t] \in RequestType
  BY DEF BankInvariant, BankTypeOK
<1>1. PICK a \in Answers, s \in Statuses :
        request[t] = [at |-> "save", answer |-> a, status |-> s]
  BY <1>0, RequestShape DEF SaveAnswer
<1>2. request[t].at = "save" /\ request[t].answer = a /\ request[t].status = s /\ request[t] # Resting
  BY <1>1 DEF Resting
<1>3. PICK w : w = [answer |-> a, status |-> s]
  OBVIOUS
<1>4. w \in Rows /\ w.answer = a /\ w.status = s
  BY <1>3 DEF Rows
<1>5. PICK saved \in BOOLEAN, caching \in BOOLEAN :
        /\ row' = IF saved THEN [answer |-> request[t].answer, status |-> request[t].status] ELSE row
        /\ apart' = (apart \/ ~saved)
        /\ Goes(t, IF request[t].status = "trusted" /\ caching
                   THEN [request[t] EXCEPT !.at = "record"]
                   ELSE IF request[t].status = "trusted" /\ saved
                        THEN [at |-> "publish", answer |-> request[t].answer] ELSE Resting)
  BY DEF SaveAnswer
<1>6. PICK r : r = IF s = "trusted" /\ caching THEN [at |-> "record", answer |-> a, status |-> s]
                   ELSE IF s = "trusted" /\ saved THEN [at |-> "publish", answer |-> a] ELSE Resting
  OBVIOUS
<1>7. /\ r \in RequestType /\ (r = Resting \/ r.at \in {"record", "publish"})
      /\ r # Resting => s = "trusted" /\ r.at \in {"record", "publish"} /\ r.answer = a
      /\ r = Resting => s # "trusted" \/ ~saved
  BY <1>6 DEF RequestType, Resting
<1>8. request' = [request EXCEPT ![t] = r]
  <2>1. [request[t] EXCEPT !.at = "record"] = [at |-> "record", answer |-> a, status |-> s]
    BY <1>1
  <2> QED BY <1>2, <1>5, <1>6, <2>1 DEF Goes
<1>9. /\ row' = IF saved THEN w ELSE row
      /\ UNCHANGED <<index, entry, file, synced, learned, reviewed, crowded>>
  BY <1>2, <1>3, <1>5 DEF SaveAnswer
<1>10. BankTypeOK'
  BY <1>4, <1>5, <1>7, <1>8, <1>9 DEF BankInvariant, BankTypeOK
<1>11. s = "trusted" => a \in learned
  BY <1>2 DEF BankInvariant, Vouched, Vouches
<1>12. EntryOK' /\ (Indexable(row') => row'.answer \in Sure') /\ index' \in Sure' \cup {NoAnswer}
       /\ (entry' # NoEntry => entry'.answer \in learned')
  BY <1>4, <1>9, <1>11 DEF BankInvariant, EntryOK, Vouched, Sure, Indexable
<1>13. Vouches(r)' /\ Current(r)'
  BY <1>7, <1>9, <1>11 DEF Vouches, Current, Resting
<1>14. crowded => apart'
  BY <1>5 DEF BankInvariant, Alone
<1>15. ~apart' /\ (apart \/ Agrees(request[t])) => IF r = Resting THEN index' = IndexOf(row') ELSE Agrees(r)'
  <2> SUFFICES ASSUME ~apart', apart \/ Agrees(request[t])
               PROVE  IF r = Resting THEN index' = IndexOf(row') ELSE Agrees(r)'
    OBVIOUS
  <2>1. saved /\ row' = w /\ index' = NoAnswer
    BY <1>2, <1>5, <1>9 DEF Agrees
  <2>2. CASE r # Resting
    BY <1>3, <1>7, <2>1, <2>2 DEF Agrees
  <2>3. CASE r = Resting
    BY <1>4, <1>7, <2>1, <2>3 DEF IndexOf, Indexable
  <2> QED BY <2>2, <2>3
<1> QED BY <1>2, <1>7, <1>8, <1>9, <1>10, <1>12, <1>13, <1>14, <1>15, KeptGoes

\* The answer is recorded in the cache.
LEMMA KeptRecord ==
  ASSUME BankInvariant, NEW t \in Requests, RecordAnswer(t)
  PROVE  BankInvariant'
<1>0. request \in [Requests -> RequestType] /\ request[t] \in RequestType
  BY DEF BankInvariant, BankTypeOK
<1>1. request[t].at = "record" /\ request[t].answer \in Answers /\ request[t].answer \in learned
      /\ request[t] # Resting
  BY <1>0, RequestShape DEF RecordAnswer, BankInvariant, Vouched, Vouches, Resting
<1>2. PICK a \in Answers : a = request[t].answer
  BY <1>1
<1>3. PICK f \in Entry :
        /\ f = Recorded(entry, a, TRUE)
        /\ f.status = "conflict" <=> f.conflicts # 0
        /\ f.status \in {"trusted", "conflict"}
        /\ f.answer = IF entry = NoEntry THEN a ELSE entry.answer
        /\ entry # NoEntry /\ entry.status = "conflict" => f.status = "conflict"
        /\ f.status = "trusted" => f.answer = a
  <2>1. entry \in Entry \cup {NoEntry}
    BY DEF BankInvariant, BankTypeOK
  <2>2. entry # NoEntry => (entry.status = "conflict" <=> entry.conflicts # 0)
    BY DEF BankInvariant, EntryOK
  <2> QED BY <2>1, <2>2, RecordedShape
<1>4. UNCHANGED <<row, index, file, synced, learned, reviewed, crowded>>
  BY DEF RecordAnswer
<1>5. PICK kept \in BOOLEAN :
        /\ entry' = f \/ (entry' = entry /\ ~kept)
        /\ kept => entry' = f /\ f.status = "trusted" /\ apart' = apart
        /\ ~kept => apart' = TRUE
        /\ Goes(t, IF kept THEN [at |-> "publish", answer |-> a] ELSE Resting)
  <2>1. CASE /\ entry' = Recorded(entry, request[t].answer, TRUE)
             /\ Goes(t, IF Published(entry') THEN [at |-> "publish", answer |-> request[t].answer] ELSE Resting)
             /\ apart' = (apart \/ ~Published(entry'))
    <3>1. entry' = f
      BY <1>2, <1>3, <2>1
    <3>2. CASE f.status = "trusted"
      <4>1. Goes(t, [at |-> "publish", answer |-> a]) /\ apart' = apart
        BY <1>2, <2>1, <3>1, <3>2 DEF Published, BankInvariant, BankTypeOK
      <4> QED BY <3>1, <3>2, <4>1
    <3>3. CASE f.status # "trusted"
      <4>1. Goes(t, Resting) /\ apart' = TRUE
        BY <2>1, <3>1, <3>3 DEF Published
      <4> QED BY <3>1, <3>3, <4>1
    <3> QED BY <3>2, <3>3
  <2>2. CASE entry' = entry /\ Goes(t, Resting) /\ apart' = TRUE
    BY <2>2
  <2> QED BY <2>1, <2>2 DEF RecordAnswer
<1>6. PICK r : r = IF kept THEN [at |-> "publish", answer |-> a] ELSE Resting
  OBVIOUS
<1>7. /\ r \in RequestType /\ (kept => r # Resting /\ r.at = "publish" /\ r.answer = a)
      /\ ~kept => r = Resting
  BY <1>6 DEF RequestType, Resting
<1>8. request' = [request EXCEPT ![t] = r]
  BY <1>5, <1>6 DEF Goes
<1>9. BankTypeOK'
  BY <1>3, <1>4, <1>5, <1>7, <1>8 DEF BankInvariant, BankTypeOK
<1>10. entry # NoEntry => entry.answer \in learned
  BY DEF BankInvariant, Vouched
<1>11. EntryOK' /\ (entry' # NoEntry => entry'.answer \in learned')
  <2>1. CASE entry' = f
    <3>1. EntryOK'
      BY <1>3, <2>1 DEF EntryOK
    <3> QED BY <1>1, <1>2, <1>3, <1>4, <1>10, <2>1, <3>1
  <2>2. CASE entry' = entry
    BY <1>4, <1>10, <2>2 DEF BankInvariant, EntryOK
  <2> QED BY <1>5, <2>1, <2>2
<1>12. (Indexable(row') => row'.answer \in Sure') /\ index' \in Sure' \cup {NoAnswer}
  BY <1>4 DEF BankInvariant, Vouched, Sure
<1>13. Vouches(r)' /\ Current(r)'
  BY <1>1, <1>2, <1>4, <1>7 DEF Vouches, Current, Resting
<1>14. crowded => apart'
  <2>1. crowded => apart
    BY DEF BankInvariant, Alone
  <2>2. CASE kept
    BY <1>5, <2>1, <2>2
  <2>3. CASE ~kept
    BY <1>5, <2>3
  <2> QED BY <2>2, <2>3
<1>15. ~apart' /\ (apart \/ Agrees(request[t])) => IF r = Resting THEN index' = IndexOf(row') ELSE Agrees(r)'
  BY <1>1, <1>2, <1>4, <1>5, <1>7 DEF Agrees
<1> QED BY <1>1, <1>4, <1>7, <1>8, <1>9, <1>11, <1>12, <1>13, <1>14, <1>15, KeptGoes

\* The last step of a request that changes the index only.
LEMMA KeptIndexed ==
  ASSUME BankInvariant, NEW t \in Requests, request[t] # Resting,
         request' = [request EXCEPT ![t] = Resting],
         UNCHANGED <<row, entry, file, synced, learned, reviewed, crowded>>,
         apart' \in BOOLEAN, crowded => apart',
         index' \in Answers \cup {NoAnswer}, index' \in Sure \cup {NoAnswer},
         ~apart' /\ Current(request[t]) /\ (apart \/ Agrees(request[t])) => index' = IndexOf(row)
  PROVE  BankInvariant'
<1>1. Resting \in RequestType /\ BankTypeOK'
  BY PlainRequests DEF BankInvariant, BankTypeOK
<1>2. EntryOK' /\ (Indexable(row') => row'.answer \in Sure') /\ index' \in Sure' \cup {NoAnswer}
      /\ (entry' # NoEntry => entry'.answer \in learned')
  BY DEF BankInvariant, EntryOK, Vouched, Sure
<1>3. Vouches(Resting)' /\ Current(Resting)'
  BY DEF Vouches, Current, Resting
<1>4. IndexOf(row') = IndexOf(row)
  BY DEF IndexOf, Indexable
<1> QED BY <1>1, <1>2, <1>3, <1>4, KeptGoes

LEMMA KeptEnds ==
  ASSUME BankInvariant, NEW t \in Requests,
         PublishAnswer(t) \/ ApplyEdit(t) \/ Unindex(t) \/ ReplaceIndex(t)
  PROVE  BankInvariant'
<1>0. /\ request \in [Requests -> RequestType] /\ request[t] \in RequestType /\ Vouches(request[t])
      /\ crowded \in BOOLEAN /\ apart \in BOOLEAN /\ (crowded => apart)
  BY DEF BankInvariant, BankTypeOK, Vouched, Alone
<1>1. CASE PublishAnswer(t)
  <2>1. /\ request[t].at = "publish" /\ index' = request[t].answer
        /\ request' = [request EXCEPT ![t] = Resting]
        /\ UNCHANGED <<row, entry, file, synced, learned, reviewed, crowded, apart>>
    BY <1>1 DEF PublishAnswer, Goes, historyVars
  <2>2. request[t] # Resting /\ index' \in Answers /\ index' \in Sure
    BY <1>0, <2>1, RequestShape DEF Resting, Vouches, Sure
  <2>3. Agrees(request[t]) => index' = IndexOf(row)
    BY <2>1 DEF Agrees, IndexOf, Indexable
  <2> QED BY <1>0, <2>1, <2>2, <2>3, KeptIndexed
<1>2. CASE ApplyEdit(t)
  <2>1. /\ request[t].at = "apply" /\ index' = IndexOf(request[t].row)
        /\ request' = [request EXCEPT ![t] = Resting]
        /\ apart' = (apart /\ crowded)
        /\ UNCHANGED <<row, entry, file, synced, learned, reviewed, crowded>>
    BY <1>2 DEF ApplyEdit, Goes, Resynchronises
  <2>2. request[t] # Resting /\ request[t].row \in Rows
    BY <1>0, <2>1, RequestShape DEF Resting
  <2>3. Indexable(request[t].row) => request[t].row.answer \in Sure
    BY <1>0, <2>1 DEF Vouches
  <2>4. index' \in Sure \cup {NoAnswer} /\ index' \in Answers \cup {NoAnswer}
    BY <2>1, <2>2, <2>3, IndexVouched
  <2>5. Current(request[t]) => index' = IndexOf(row)
    BY <2>1 DEF Current
  <2>6. apart' \in BOOLEAN /\ (crowded => apart')
    BY <1>0, <2>1
  <2> QED BY <2>1, <2>2, <2>4, <2>5, <2>6, KeptIndexed
<1>3. CASE Unindex(t)
  <2>1. /\ request[t].at = "unindex" /\ index' = NoAnswer
        /\ request' = [request EXCEPT ![t] = Resting]
        /\ apart' = (apart /\ crowded)
        /\ UNCHANGED <<row, entry, file, synced, learned, reviewed, crowded>>
    BY <1>3 DEF Unindex, Goes, IndexAfterDeletion, Resynchronises
  <2>2. request[t] # Resting
    BY <2>1 DEF Resting
  <2>3. Current(request[t]) => index' = IndexOf(row)
    BY <2>1 DEF Current, IndexOf
  <2>4. apart' \in BOOLEAN /\ (crowded => apart')
    BY <1>0, <2>1
  <2> QED BY <2>1, <2>2, <2>3, <2>4, KeptIndexed
<1>4. CASE ReplaceIndex(t)
  <2>1. /\ request[t].at = "replace" /\ index' = request[t].index
        /\ request' = [request EXCEPT ![t] = Resting]
        /\ apart' = (apart /\ crowded)
        /\ UNCHANGED <<row, entry, file, synced, learned, reviewed, crowded>>
    BY <1>4 DEF ReplaceIndex, Goes, Resynchronises
  <2>2. request[t] # Resting /\ index' \in Answers \cup {NoAnswer} /\ index' \in Sure \cup {NoAnswer}
    BY <1>0, <2>1, RequestShape DEF Resting, Vouches
  <2>3. Current(request[t]) => index' = IndexOf(row)
    BY <2>1 DEF Current
  <2>4. apart' \in BOOLEAN /\ (crowded => apart')
    BY <1>0, <2>1
  <2> QED BY <2>1, <2>2, <2>3, <2>4, KeptIndexed
<1> QED BY <1>1, <1>2, <1>3, <1>4

\* The record of an edit is saved, or the request fails.
LEMMA KeptWrite ==
  ASSUME BankInvariant, NEW t \in Requests, WriteEdit(t)
  PROVE  BankInvariant'
<1>0. /\ request \in [Requests -> RequestType] /\ request[t] \in RequestType
      /\ apart \in BOOLEAN /\ (crowded => apart)
  BY DEF BankInvariant, BankTypeOK, Alone
<1>1. PICK w \in Rows : request[t] = [at |-> "write", row |-> w]
  BY <1>0, RequestShape DEF WriteEdit
<1>2. request[t].at = "write" /\ request[t].row = w /\ request[t] # Resting
  BY <1>1 DEF Resting
<1>3. UNCHANGED <<index, entry, file, synced, learned, reviewed, crowded, apart>>
  BY DEF WriteEdit, historyVars
<1>4. Indexable(w) => w.answer \in Sure
  BY <1>2 DEF BankInvariant, Vouched, Vouches
<1>5. CASE row' = row /\ Goes(t, Resting)
  <2>1. request' = [request EXCEPT ![t] = Resting] /\ index' = index
    BY <1>3, <1>5 DEF Goes
  <2>2. index' \in Answers \cup {NoAnswer} /\ index' \in Sure \cup {NoAnswer}
    BY <2>1 DEF BankInvariant, BankTypeOK, Vouched
  <2>3. Agrees(request[t]) => index' = IndexOf(row)
    BY <1>2, <2>1 DEF Agrees
  <2> QED BY <1>0, <1>2, <1>3, <1>5, <2>1, <2>2, <2>3, KeptIndexed
<1>6. CASE row' = w /\ Goes(t, [request[t] EXCEPT !.at = "apply"])
  <2>1. PICK r : r = [at |-> "apply", row |-> w]
    OBVIOUS
  <2>2. r \in RequestType /\ r.at = "apply" /\ r.row = w /\ r # Resting
    BY <2>1 DEF RequestType, Resting
  <2>3. request' = [request EXCEPT ![t] = r]
    <3>1. [request[t] EXCEPT !.at = "apply"] = r
      BY <1>1, <2>1
    <3> QED BY <1>6, <3>1 DEF Goes
  <2>4. BankTypeOK'
    BY <1>3, <1>6, <2>2, <2>3 DEF BankInvariant, BankTypeOK
  <2>5. EntryOK' /\ (Indexable(row') => row'.answer \in Sure') /\ index' \in Sure' \cup {NoAnswer}
        /\ (entry' # NoEntry => entry'.answer \in learned')
    BY <1>3, <1>4, <1>6 DEF BankInvariant, EntryOK, Vouched, Sure
  <2>6. Vouches(r)' /\ Current(r)' /\ Agrees(r)'
    BY <1>3, <1>4, <1>6, <2>2 DEF Vouches, Current, Agrees, Sure
  <2> QED BY <1>0, <1>2, <1>3, <2>2, <2>3, <2>4, <2>5, <2>6, KeptGoes
<1>7. (row' = w /\ Goes(t, [request[t] EXCEPT !.at = "apply"])) \/ (row' = row /\ Goes(t, Resting))
  <2>1. (row' = request[t].row /\ Goes(t, [request[t] EXCEPT !.at = "apply"])) \/ (row' = row /\ Goes(t, Resting))
    BY DEF WriteEdit
  <2> QED BY <1>2, <2>1
<1> QED BY <1>5, <1>6, <1>7

-----------------------------------------------------------------------------
(* The start of the process, and the theorems.                             *)

\* The table is synchronised and the index loaded from it.
LEMMA KeptRestart ==
  ASSUME BankInvariant, NEW f \in Answers \cup {NoAnswer}, RestartBank(f)
  PROVE  BankInvariant'
<1>1. /\ row' = SyncedRow(f) /\ index' = IndexOf(row') /\ file' = f /\ synced' = f
      /\ request' = [t \in Requests |-> Resting]
      /\ reviewed' = IF f = NoAnswer THEN reviewed ELSE reviewed \cup {f}
      /\ crowded' = FALSE /\ apart' = FALSE
      /\ UNCHANGED <<entry, learned>>
  BY DEF RestartBank
<1>2. reviewed' \in SUBSET Answers /\ Sure \subseteq Sure' /\ (f # NoAnswer => f \in Sure')
  BY <1>1 DEF BankInvariant, BankTypeOK, Sure
<1>3. row' \in Rows /\ (Indexable(row') => row'.answer \in Sure')
  <2>1. CASE f = synced \/ f = NoAnswer \/ row.status = "deleted"
    BY <1>1, <1>2, <2>1 DEF BankInvariant, BankTypeOK, Vouched, SyncedRow
  <2>2. CASE ~(f = synced \/ f = NoAnswer \/ row.status = "deleted")
    <3>1. row' = [answer |-> f, status |-> "trusted"]
      BY <1>1, <2>2 DEF SyncedRow
    <3> QED BY <1>2, <2>2, <3>1 DEF Rows, Statuses
  <2> QED BY <2>1, <2>2
<1>4. PICK w \in Rows : w = row'
  BY <1>3
<1>5. PICK S : S = Sure'
  OBVIOUS
<1>6. index' \in Sure' \cup {NoAnswer} /\ index' \in Answers \cup {NoAnswer}
  <2>1. CASE Indexable(row')
    <3>1. row' # NoRow
      BY <2>1 DEF Indexable, NoRow
    <3>2. row'.answer \in Answers
      BY <1>3, <3>1 DEF Rows
    <3> QED BY <1>1, <1>3, <2>1, <3>2 DEF IndexOf
  <2>2. CASE ~Indexable(row')
    BY <1>1, <2>2 DEF IndexOf
  <2> QED BY <2>1, <2>2
<1>7. BankTypeOK'
  BY <1>1, <1>2, <1>3, <1>6, PlainRequests DEF BankInvariant, BankTypeOK
<1>8. EntryOK' /\ (entry' # NoEntry => entry'.answer \in learned')
  BY <1>1 DEF BankInvariant, EntryOK, Vouched
<1>9. \A t \in Requests : request'[t] = Resting
  BY <1>1
<1>10. Vouched'
  <2>1. \A t \in Requests : Vouches(request[t])'
    BY <1>9 DEF Vouches, Resting
  <2> QED BY <1>3, <1>6, <1>8, <2>1 DEF Vouched
<1>11. Alone'
  BY <1>1, <1>9 DEF Alone, Current, Agrees, Resting
<1> QED BY <1>7, <1>8, <1>10, <1>11 DEF BankInvariant

LEMMA KeptNext ==
  ASSUME BankInvariant, BankNext PROVE BankInvariant'
<1>1. ASSUME NEW t \in Requests,
        \/ BeginQuery(t) \/ BeginDelete(t) \/ BeginReindex(t)
        \/ \E a \in Answers, s \in Statuses \ {"deleted"} : BeginEdit(t, a, s)
      PROVE BankInvariant'
  BY <1>1, KeptBegins, Zenon
<1>2. ASSUME NEW t \in Requests, Look(t) PROVE BankInvariant'
  BY <1>2, KeptLooks, Zenon
<1>3. ASSUME NEW t \in Requests,
        \/ ModelFails(t)
        \/ \E a \in Answers, s \in {"trusted", "low_confidence", "non_reusable"} : ModelAnswers(t, a, s)
      PROVE BankInvariant'
  BY <1>3, KeptModel, Zenon
<1>4. ASSUME NEW t \in Requests, SaveAnswer(t) PROVE BankInvariant'
  BY <1>4, KeptSave, Zenon
<1>5. ASSUME NEW t \in Requests, RecordAnswer(t) PROVE BankInvariant'
  BY <1>5, KeptRecord, Zenon
<1>6. ASSUME NEW t \in Requests, WriteEdit(t) PROVE BankInvariant'
  BY <1>6, KeptWrite, Zenon
<1>7. ASSUME NEW t \in Requests, PublishAnswer(t) \/ ApplyEdit(t) \/ Unindex(t) \/ ReplaceIndex(t) PROVE BankInvariant'
  BY <1>7, KeptEnds, Zenon
<1>8. ASSUME NEW f \in Answers \cup {NoAnswer}, RestartBank(f) PROVE BankInvariant'
  BY <1>8, KeptRestart, Zenon
<1> QED BY <1>1, <1>2, <1>3, <1>4, <1>5, <1>6, <1>7, <1>8, Zenon DEF BankNext

LEMMA KeptStutter ==
  ASSUME BankInvariant, UNCHANGED bankVars PROVE BankInvariant'
BY DEF bankVars, historyVars, BankInvariant, BankTypeOK, EntryOK, Vouched, Vouches, Sure, Alone, AllResting,
       Current, Agrees, IndexOf, Indexable

THEOREM BankKept == BankSpec => []BankInvariant
<1>1. BankInvariant /\ [BankNext]_bankVars => BankInvariant'
  BY KeptNext, KeptStutter
<1> QED BY <1>1, KeptInit, PTL DEF BankSpec

\* Whatever the index or the cache serves came from a model that was confident,
\* from an edit or from the files, however requests and restarts interleave.
THEOREM BankServesVouched == BankSpec => []ServedIsVouched
<1>1. BankInvariant => ServedIsVouched
  BY DEF BankInvariant, Vouched, Sure, ServedIsVouched, NoEntry
<1> QED BY <1>1, BankKept, PTL

\* Once a start, or a change of an administrator that nothing overlapped, has put
\* them together, the index is what a reload from the table would give, as long as
\* requests do not overlap, saves succeed, and no query passes over an answer it
\* could have found or learns one that is kept from the index.
THEOREM BankIndexAgrees == BankSpec => []IndexAgreesAlone
<1>1. BankInvariant => IndexAgreesAlone
  BY DEF BankInvariant, Alone, IndexAgreesAlone
<1> QED BY <1>1, BankKept, PTL

-----------------------------------------------------------------------------
(***************************************************************************)
(* MatchIndex: what a lookup finds.                                        *)
(***************************************************************************)

\* A slot is of one record or empty.
Filled == [id : Ids, content : Contents]
Slots == Seq(Filled \cup {Gone})

\* But for the slot i and the record id, the matcher has a slot for each matchable
\* record of r and no other, and its indexes name exactly the slots of what they
\* are asked for.
SlotsBut(s, w, r, id, i) ==
    /\ \A n \in DOMAIN s : n # i /\ s[n] # Gone => s[n].id # id /\ w[s[n].id] = n
    /\ \A x \in Ids : x # id =>
         /\ w[x] # 0 => w[x] \in DOMAIN s /\ w[x] # i /\ s[w[x]] = [id |-> x, content |-> r[x]]
         /\ (w[x] # 0 <=> r[x] # Gone /\ r[x].matchable)
IndexesBut(m, i) ==
    /\ \A k \in MatchKeys : \A n \in Nat :
         n \in m.exact[k] <=> n # i /\ n \in DOMAIN m.slots /\ m.slots[n] # Gone /\ KeyOf(m.slots[n].content) = k
    /\ \A t \in SUBSET Grams : \A n \in Nat :
         n \in m.title[t] <=> n # i /\ n \in DOMAIN m.slots /\ m.slots[n] # Gone /\ m.slots[n].content.title = t
    /\ \A g \in Grams : \A n \in Nat :
         n \in m.gram[g] <=> n # i /\ n \in DOMAIN m.slots /\ m.slots[n] # Gone /\ g \in m.slots[n].content.title
MatcherType ==
    [ slots : Slots, slotOf : [Ids -> Nat], exact : [MatchKeys -> SUBSET Nat],
      title : [SUBSET Grams -> SUBSET Nat], gram : [Grams -> SUBSET Nat] ]

\* The same of every slot and record; 0 is no slot.
SlotsRight(s, w, r) ==
    /\ \A n \in DOMAIN s : s[n] # Gone => w[s[n].id] = n
    /\ \A x \in Ids :
         /\ w[x] # 0 => w[x] \in DOMAIN s /\ s[w[x]] = [id |-> x, content |-> r[x]]
         /\ (w[x] # 0 <=> r[x] # Gone /\ r[x].matchable)
MatcherOf(m, r) == m \in MatcherType /\ SlotsRight(m.slots, m.slotOf, r) /\ IndexesBut(m, 0)

\* The dictionary and the order list the known records, each at its place.
Ordering(r, ks, o, pos) ==
    /\ ks \in Seq(Ids) /\ o \in Seq(Ids) /\ pos \in [Ids -> Nat]
    /\ \A i \in DOMAIN ks : r[ks[i]] # Gone
    /\ \A id \in Ids : r[id] # Gone => \E i \in DOMAIN ks : ks[i] = id
    /\ \A id \in Ids : pos[id] # 0 => pos[id] \in DOMAIN o /\ o[pos[id]] = id
    /\ \A id \in Ids : (pos[id] # 0 <=> r[id] # Gone)
    /\ \A i, j \in DOMAIN ks : i < j => pos[ks[i]] < pos[ks[j]]

\* The inductive invariant.
MatchInv ==
    /\ records \in [Ids -> Contents \cup {Gone}]
    /\ MatcherOf(matcher, records)
    /\ Ordering(records, keys, order, position)

-----------------------------------------------------------------------------
(* The contents.                                                           *)

LEMMA ContentShape ==
    ASSUME NEW c \in Contents
    PROVE  /\ c # Gone /\ c.matchable \in BOOLEAN
           /\ KeyOf(c) \in MatchKeys /\ c.title \in SUBSET Grams
<1>1. c \in ContentType
  BY MatchAssumption
<1>2. Gone \notin ContentType
  <2>1. SUFFICES ASSUME Gone \in ContentType PROVE FALSE
    OBVIOUS
  <2>2. DOMAIN Gone = {"id"}
    BY DEF Gone
  <2>3. "title" \in DOMAIN Gone
    BY <2>1 DEF ContentType
  <2> QED BY <2>2, <2>3
<1> QED BY <1>1, <1>2 DEF ContentType, KeyOf, MatchKeys

LEMMA SlotShape ==
    ASSUME NEW x \in Filled
    PROVE  x # Gone /\ x.id \in Ids /\ x.content \in Contents /\ x = [id |-> x.id, content |-> x.content]
<1>1. "content" \in DOMAIN x
  BY DEF Filled
<1>2. DOMAIN Gone = {"id"}
  BY DEF Gone
<1>3. x # Gone
  BY <1>1, <1>2
<1> QED BY <1>3 DEF Filled

-----------------------------------------------------------------------------
(* The matcher.                                                            *)

\* A slot i that the indexes do not name is filled with what id says now.
LEMMA FilledSlot ==
    ASSUME NEW r \in [Ids -> Contents \cup {Gone}], NEW m \in MatcherType,
           NEW id \in Ids, NEW c \in Contents, c.matchable, NEW i \in DOMAIN m.slots,
           m.slots[i] = [id |-> id, content |-> c],
           SlotsBut(m.slots, m.slotOf, r, id, i), IndexesBut(m, i)
    PROVE  MatcherOf(Indexed(m, i, id, c), [r EXCEPT ![id] = c])
<1>1. PICK M : M = Indexed(m, i, id, c)
  OBVIOUS
<1>2. PICK R : R = [r EXCEPT ![id] = c]
  OBVIOUS
<1>3. /\ M.slots = m.slots
      /\ M.slotOf = [m.slotOf EXCEPT ![id] = i]
      /\ M.exact = [m.exact EXCEPT ![KeyOf(c)] = @ \cup {i}]
      /\ M.title = [m.title EXCEPT ![c.title] = @ \cup {i}]
      /\ M.gram = [g \in Grams |-> IF g \in c.title THEN m.gram[g] \cup {i} ELSE m.gram[g]]
  BY <1>1 DEF Indexed
<1>4. /\ m.slots \in Slots /\ m.slotOf \in [Ids -> Nat] /\ m.exact \in [MatchKeys -> SUBSET Nat]
      /\ m.title \in [SUBSET Grams -> SUBSET Nat] /\ m.gram \in [Grams -> SUBSET Nat]
      /\ i \in Nat /\ i # 0 /\ 0 \notin DOMAIN m.slots
  BY DEF MatcherType, Slots
<1>5. /\ KeyOf(c) \in MatchKeys /\ c.title \in SUBSET Grams /\ c # Gone
      /\ m.slots[i] # Gone /\ m.slots[i].content = c /\ m.slots[i].id = id
  BY ContentShape, SlotShape DEF Filled
<1>6. M \in MatcherType
  <2>1. M.slotOf \in [Ids -> Nat]
    BY <1>3, <1>4
  <2>2. M.exact \in [MatchKeys -> SUBSET Nat] /\ M.title \in [SUBSET Grams -> SUBSET Nat]
    BY <1>3, <1>4, <1>5
  <2>3. M.gram \in [Grams -> SUBSET Nat]
    BY <1>3, <1>4
  <2>4. M = [slots |-> M.slots, slotOf |-> M.slotOf, exact |-> M.exact, title |-> M.title, gram |-> M.gram]
    BY <1>1 DEF Indexed
  <2> QED BY <1>3, <1>4, <2>1, <2>2, <2>3, <2>4 DEF MatcherType
<1>7. SlotsRight(M.slots, M.slotOf, R)
  <2>1. R[id] = c /\ M.slotOf[id] = i /\ \A x \in Ids : x # id => R[x] = r[x] /\ M.slotOf[x] = m.slotOf[x]
    BY <1>2, <1>3, <1>4
  <2>2. ASSUME NEW n \in DOMAIN M.slots, M.slots[n] # Gone PROVE M.slotOf[M.slots[n].id] = n
    <3>1. CASE n = i
      BY <1>3, <1>5, <2>1, <3>1
    <3>2. CASE n # i
      <4>1. m.slots[n] \in Filled
        BY <1>3, <1>4, <2>2 DEF Slots
      <4>2. m.slots[n].id \in Ids
        BY <4>1, SlotShape
      <4> QED BY <1>3, <2>1, <2>2, <3>2, <4>2 DEF SlotsBut
    <3> QED BY <3>1, <3>2
  <2>3. ASSUME NEW x \in Ids
        PROVE  /\ M.slotOf[x] # 0 => M.slotOf[x] \in DOMAIN M.slots /\ M.slots[M.slotOf[x]] = [id |-> x, content |-> R[x]]
               /\ (M.slotOf[x] # 0 <=> R[x] # Gone /\ R[x].matchable)
    <3>1. CASE x = id
      BY <1>3, <1>4, <1>5, <2>1, <3>1
    <3>2. CASE x # id
      BY <1>3, <2>1, <3>2 DEF SlotsBut
    <3> QED BY <3>1, <3>2
  <2> QED BY <2>2, <2>3 DEF SlotsRight
<1>8. IndexesBut(M, 0)
  <2>1. ASSUME NEW k \in MatchKeys, NEW n \in Nat
        PROVE  n \in M.exact[k] <=> n \in DOMAIN m.slots /\ m.slots[n] # Gone /\ KeyOf(m.slots[n].content) = k
    <3>1. n \in M.exact[k] <=> n \in m.exact[k] \/ (k = KeyOf(c) /\ n = i)
      BY <1>3, <1>4, <1>5
    <3>2. n \in m.exact[k] <=> n # i /\ n \in DOMAIN m.slots /\ m.slots[n] # Gone /\ KeyOf(m.slots[n].content) = k
      BY DEF IndexesBut
    <3> QED BY <1>5, <3>1, <3>2
  <2>2. ASSUME NEW t \in SUBSET Grams, NEW n \in Nat
        PROVE  n \in M.title[t] <=> n \in DOMAIN m.slots /\ m.slots[n] # Gone /\ m.slots[n].content.title = t
    <3>1. n \in M.title[t] <=> n \in m.title[t] \/ (t = c.title /\ n = i)
      BY <1>3, <1>4, <1>5
    <3>2. n \in m.title[t] <=> n # i /\ n \in DOMAIN m.slots /\ m.slots[n] # Gone /\ m.slots[n].content.title = t
      BY DEF IndexesBut
    <3> QED BY <1>5, <3>1, <3>2
  <2>3. ASSUME NEW g \in Grams, NEW n \in Nat
        PROVE  n \in M.gram[g] <=> n \in DOMAIN m.slots /\ m.slots[n] # Gone /\ g \in m.slots[n].content.title
    <3>1. n \in M.gram[g] <=> n \in m.gram[g] \/ (g \in c.title /\ n = i)
      BY <1>3, <1>4, <1>5
    <3>2. n \in m.gram[g] <=> n # i /\ n \in DOMAIN m.slots /\ m.slots[n] # Gone /\ g \in m.slots[n].content.title
      BY DEF IndexesBut
    <3> QED BY <1>5, <3>1, <3>2
  <2> QED BY <1>3, <1>4, <2>1, <2>2, <2>3 DEF IndexesBut
<1> QED BY <1>1, <1>2, <1>6, <1>7, <1>8 DEF MatcherOf

\* Outside the slot i, what that slot holds tells nothing.
LEMMA OtherSlots ==
    ASSUME NEW r, NEW m \in MatcherType, NEW id \in Ids, NEW i \in DOMAIN m.slots,
           NEW rw \in Filled \cup {Gone},
           SlotsBut(m.slots, m.slotOf, r, id, i), IndexesBut(m, i),
           NEW M, M = [slots |-> [m.slots EXCEPT ![i] = rw], slotOf |-> m.slotOf,
                       exact |-> m.exact, title |-> m.title, gram |-> m.gram]
    PROVE  /\ M \in MatcherType /\ M.slots[i] = rw /\ M.slotOf = m.slotOf /\ i \in DOMAIN M.slots
           /\ SlotsBut(M.slots, M.slotOf, r, id, i) /\ IndexesBut(M, i)
<1>1. m.slots \in Slots
  BY DEF MatcherType
<1>2. M = [slots |-> [m.slots EXCEPT ![i] = rw], slotOf |-> m.slotOf, exact |-> m.exact,
           title |-> m.title, gram |-> m.gram]
  OBVIOUS
<1>3. [m.slots EXCEPT ![i] = rw] \in Slots
  BY <1>1 DEF Slots
<1>4. M \in MatcherType
  BY <1>2, <1>3 DEF MatcherType
<1>5. DOMAIN M.slots = DOMAIN m.slots /\ M.slots[i] = rw /\ \A n \in DOMAIN m.slots : n # i => M.slots[n] = m.slots[n]
  BY <1>1, <1>2 DEF Slots
<1>6. SlotsBut(M.slots, M.slotOf, r, id, i)
  BY <1>2, <1>5 DEF SlotsBut
<1>7. IndexesBut(M, i)
  BY <1>2, <1>5 DEF IndexesBut
<1> QED BY <1>2, <1>4, <1>5, <1>6, <1>7

\* The indexes without the slot of id.
LEMMA EmptiedSlot ==
    ASSUME NEW r \in [Ids -> Contents \cup {Gone}], NEW m, MatcherOf(m, r),
           NEW id \in Ids, m.slotOf[id] # 0
    PROVE  LET i == m.slotOf[id]
               M == Unindexed(m, i, id, m.slots[i].content)
           IN /\ i \in DOMAIN m.slots /\ m.slots[i].content \in Contents
              /\ M \in MatcherType /\ M.slots = m.slots /\ M.slotOf[id] = 0
              /\ SlotsBut(M.slots, M.slotOf, r, id, i) /\ IndexesBut(M, i)
<1>1. PICK i : i = m.slotOf[id]
  OBVIOUS
<1>2. PICK c : c = m.slots[i].content
  OBVIOUS
<1>3. PICK M : M = Unindexed(m, i, id, c)
  OBVIOUS
<1>4. /\ M.slots = m.slots
      /\ M.slotOf = [m.slotOf EXCEPT ![id] = 0]
      /\ M.exact = [m.exact EXCEPT ![KeyOf(c)] = @ \ {i}]
      /\ M.title = [m.title EXCEPT ![c.title] = @ \ {i}]
      /\ M.gram = [g \in Grams |-> IF g \in c.title THEN m.gram[g] \ {i} ELSE m.gram[g]]
  BY <1>3 DEF Unindexed
<1>5. /\ m.slots \in Slots /\ m.slotOf \in [Ids -> Nat] /\ m.exact \in [MatchKeys -> SUBSET Nat]
      /\ m.title \in [SUBSET Grams -> SUBSET Nat] /\ m.gram \in [Grams -> SUBSET Nat]
      /\ SlotsRight(m.slots, m.slotOf, r) /\ IndexesBut(m, 0)
      /\ 0 \notin DOMAIN m.slots
  BY DEF MatcherOf, MatcherType, Slots
<1>6. i \in DOMAIN m.slots /\ m.slots[i] = [id |-> id, content |-> r[id]] /\ r[id] # Gone /\ i \in Nat
  BY <1>1, <1>5 DEF SlotsRight
<1>7. c = r[id] /\ c \in Contents /\ m.slots[i] # Gone
  <2>1. r[id] \in Contents
    BY <1>6
  <2> QED BY <1>2, <1>6, <2>1, SlotShape DEF Filled
<1>8. KeyOf(c) \in MatchKeys /\ c.title \in SUBSET Grams
  BY <1>7, ContentShape
<1>9. M \in MatcherType
  <2>1. M.slotOf \in [Ids -> Nat]
    BY <1>4, <1>5
  <2>2. M.exact \in [MatchKeys -> SUBSET Nat] /\ M.title \in [SUBSET Grams -> SUBSET Nat]
    BY <1>4, <1>5, <1>8
  <2>3. M.gram \in [Grams -> SUBSET Nat]
    BY <1>4, <1>5
  <2>4. M = [slots |-> M.slots, slotOf |-> M.slotOf, exact |-> M.exact, title |-> M.title, gram |-> M.gram]
    BY <1>3 DEF Unindexed
  <2> QED BY <1>4, <1>5, <2>1, <2>2, <2>3, <2>4 DEF MatcherType
<1>10. SlotsBut(M.slots, M.slotOf, r, id, i)
  <2>1. \A x \in Ids : x # id => M.slotOf[x] = m.slotOf[x]
    BY <1>4, <1>5
  <2>2. ASSUME NEW n \in DOMAIN m.slots, n # i, m.slots[n] # Gone
        PROVE  m.slots[n].id # id /\ M.slotOf[m.slots[n].id] = n
    <3>1. m.slots[n] \in Filled
      BY <1>5, <2>2 DEF Slots
    <3>2. m.slots[n].id \in Ids /\ m.slotOf[m.slots[n].id] = n
      BY <1>5, <2>2, <3>1, SlotShape DEF SlotsRight
    <3> QED BY <1>1, <2>1, <2>2, <3>2
  <2>3. ASSUME NEW x \in Ids, x # id
        PROVE  /\ M.slotOf[x] # 0 => M.slotOf[x] \in DOMAIN m.slots /\ M.slotOf[x] # i
                                     /\ m.slots[M.slotOf[x]] = [id |-> x, content |-> r[x]]
               /\ (M.slotOf[x] # 0 <=> r[x] # Gone /\ r[x].matchable)
    <3>1. /\ m.slotOf[x] # 0 => m.slotOf[x] \in DOMAIN m.slots /\ m.slots[m.slotOf[x]] = [id |-> x, content |-> r[x]]
          /\ (m.slotOf[x] # 0 <=> r[x] # Gone /\ r[x].matchable)
      BY <1>5 DEF SlotsRight
    <3>2. m.slotOf[x] = i /\ m.slotOf[x] # 0 => m.slots[i].id = x
      BY <3>1
    <3>3. m.slots[i].id = id
      BY <1>6
    <3> QED BY <2>1, <2>3, <3>1, <3>2, <3>3
  <2> QED BY <1>4, <2>2, <2>3 DEF SlotsBut
<1>11. IndexesBut(M, i)
  <2>1. ASSUME NEW k \in MatchKeys, NEW n \in Nat
        PROVE  n \in M.exact[k] <=> n # i /\ n \in DOMAIN m.slots /\ m.slots[n] # Gone /\ KeyOf(m.slots[n].content) = k
    <3>1. n \in M.exact[k] <=> n \in m.exact[k] /\ ~ (k = KeyOf(c) /\ n = i)
      BY <1>4, <1>5, <1>8
    <3>2. n \in m.exact[k] <=> n # 0 /\ n \in DOMAIN m.slots /\ m.slots[n] # Gone /\ KeyOf(m.slots[n].content) = k
      BY <1>5 DEF IndexesBut
    <3> QED BY <1>2, <1>5, <3>1, <3>2
  <2>2. ASSUME NEW t \in SUBSET Grams, NEW n \in Nat
        PROVE  n \in M.title[t] <=> n # i /\ n \in DOMAIN m.slots /\ m.slots[n] # Gone /\ m.slots[n].content.title = t
    <3>1. n \in M.title[t] <=> n \in m.title[t] /\ ~ (t = c.title /\ n = i)
      BY <1>4, <1>5, <1>8
    <3>2. n \in m.title[t] <=> n # 0 /\ n \in DOMAIN m.slots /\ m.slots[n] # Gone /\ m.slots[n].content.title = t
      BY <1>5 DEF IndexesBut
    <3> QED BY <1>2, <1>5, <3>1, <3>2
  <2>3. ASSUME NEW g \in Grams, NEW n \in Nat
        PROVE  n \in M.gram[g] <=> n # i /\ n \in DOMAIN m.slots /\ m.slots[n] # Gone /\ g \in m.slots[n].content.title
    <3>1. n \in M.gram[g] <=> n \in m.gram[g] /\ ~ (g \in c.title /\ n = i)
      BY <1>4, <1>5, <1>8
    <3>2. n \in m.gram[g] <=> n # 0 /\ n \in DOMAIN m.slots /\ m.slots[n] # Gone /\ g \in m.slots[n].content.title
      BY <1>5 DEF IndexesBut
    <3> QED BY <1>2, <1>5, <3>1, <3>2
  <2> QED BY <1>4, <2>1, <2>2, <2>3 DEF IndexesBut
<1>12. M.slotOf[id] = 0
  BY <1>4, <1>5
<1> QED BY <1>1, <1>2, <1>3, <1>4, <1>6, <1>7, <1>9, <1>10, <1>11, <1>12

\* A record that may not be matched, or is gone, leaves the matcher.
LEMMA RemovedIsRight ==
    ASSUME NEW r \in [Ids -> Contents \cup {Gone}], NEW m, MatcherOf(m, r), NEW id \in Ids,
           NEW v \in Contents \cup {Gone}, ~ (v # Gone /\ v.matchable)
    PROVE  MatcherOf(Removed(m, id), [r EXCEPT ![id] = v])
<1>1. PICK R : R = [r EXCEPT ![id] = v]
  OBVIOUS
<1>2. R[id] = v /\ \A x \in Ids : x # id => R[x] = r[x]
  BY <1>1
<1>3. PICK i : i = m.slotOf[id]
  OBVIOUS
<1>4. CASE i = 0
  <2>1. Removed(m, id) = m
    BY <1>3, <1>4 DEF Removed
  <2>2. SlotsRight(m.slots, m.slotOf, r)
    BY DEF MatcherOf
  <2>3. ASSUME NEW x \in Ids
        PROVE  /\ m.slotOf[x] # 0 => m.slotOf[x] \in DOMAIN m.slots /\ m.slots[m.slotOf[x]] = [id |-> x, content |-> R[x]]
               /\ (m.slotOf[x] # 0 <=> R[x] # Gone /\ R[x].matchable)
    <3>1. CASE x = id
      BY <1>2, <1>3, <1>4, <3>1
    <3>2. CASE x # id
      BY <1>2, <2>2, <3>2 DEF SlotsRight
    <3> QED BY <3>1, <3>2
  <2>4. SlotsRight(m.slots, m.slotOf, R)
    BY <2>2, <2>3 DEF SlotsRight
  <2> QED BY <1>1, <2>1, <2>4 DEF MatcherOf
<1>5. CASE i # 0
  <2>1. PICK u : u = Unindexed(m, i, id, m.slots[i].content)
    OBVIOUS
  <2>2. /\ i \in DOMAIN m.slots /\ u \in MatcherType /\ u.slots = m.slots /\ u.slotOf[id] = 0
        /\ SlotsBut(u.slots, u.slotOf, r, id, i) /\ IndexesBut(u, i)
    BY <1>3, <1>5, <2>1, EmptiedSlot
  <2>3. PICK M : M = [u EXCEPT !.slots[i] = Gone]
    OBVIOUS
  <2>4. /\ M \in MatcherType /\ M.slots[i] = Gone /\ M.slotOf[id] = 0
        /\ SlotsBut(M.slots, M.slotOf, r, id, i) /\ IndexesBut(M, i)
    <3>1. Gone \in Filled \cup {Gone} /\ i \in DOMAIN u.slots
      BY <2>2
    <3>2. M = [slots |-> [u.slots EXCEPT ![i] = Gone], slotOf |-> u.slotOf,
               exact |-> u.exact, title |-> u.title, gram |-> u.gram]
      BY <2>2, <2>3 DEF MatcherType
    <3>3. /\ M \in MatcherType /\ M.slots[i] = Gone /\ M.slotOf = u.slotOf
          /\ SlotsBut(M.slots, M.slotOf, r, id, i) /\ IndexesBut(M, i)
      BY <2>2, <3>2, <3>1, OtherSlots
    <3> QED BY <2>2, <3>3
  <2>5. Removed(m, id) = M
    BY <1>3, <1>5, <2>1, <2>3 DEF Removed
  <2>6. SlotsRight(M.slots, M.slotOf, R)
    <3>1. ASSUME NEW n \in DOMAIN M.slots, M.slots[n] # Gone PROVE M.slotOf[M.slots[n].id] = n
      BY <2>4, <3>1 DEF SlotsBut
    <3>2. ASSUME NEW x \in Ids
          PROVE  /\ M.slotOf[x] # 0 => M.slotOf[x] \in DOMAIN M.slots /\ M.slots[M.slotOf[x]] = [id |-> x, content |-> R[x]]
                 /\ (M.slotOf[x] # 0 <=> R[x] # Gone /\ R[x].matchable)
      <4>1. CASE x = id
        BY <1>2, <2>4, <4>1
      <4>2. CASE x # id
        BY <1>2, <2>4, <4>2 DEF SlotsBut
      <4> QED BY <4>1, <4>2
    <3> QED BY <3>1, <3>2 DEF SlotsRight
  <2>7. IndexesBut(M, 0)
    <3>1. 0 \notin DOMAIN M.slots
      BY <2>4 DEF MatcherType, Slots
    <3> QED BY <2>4, <3>1 DEF IndexesBut
  <2> QED BY <1>1, <2>4, <2>5, <2>6, <2>7 DEF MatcherOf
<1> QED BY <1>4, <1>5

\* A matchable record keeps its slot or gets a new one.
LEMMA UpsertedIsRight ==
    ASSUME NEW r \in [Ids -> Contents \cup {Gone}], NEW m, MatcherOf(m, r), NEW id \in Ids,
           NEW c \in Contents, c.matchable
    PROVE  MatcherOf(Upserted(m, id, c), [r EXCEPT ![id] = c])
<1>1. PICK i : i = m.slotOf[id]
  OBVIOUS
<1>2. PICK rw : rw = [id |-> id, content |-> c]
  OBVIOUS
<1>3. rw \in Filled
  BY <1>2 DEF Filled
<1>4. CASE i # 0
  <2>1. PICK u : u = Unindexed(m, i, id, m.slots[i].content)
    OBVIOUS
  <2>2. /\ i \in DOMAIN m.slots /\ u \in MatcherType /\ u.slots = m.slots
        /\ SlotsBut(u.slots, u.slotOf, r, id, i) /\ IndexesBut(u, i)
    BY <1>1, <1>4, <2>1, EmptiedSlot
  <2>3. PICK M : M = [u EXCEPT !.slots[i] = rw]
    OBVIOUS
  <2>4. /\ M \in MatcherType /\ M.slots[i] = rw /\ i \in DOMAIN M.slots
        /\ SlotsBut(M.slots, M.slotOf, r, id, i) /\ IndexesBut(M, i)
    <3>1. rw \in Filled \cup {Gone}
      BY <1>3
    <3>2. i \in DOMAIN u.slots
      BY <2>2
    <3>3. M = [slots |-> [u.slots EXCEPT ![i] = rw], slotOf |-> u.slotOf,
               exact |-> u.exact, title |-> u.title, gram |-> u.gram]
      BY <2>2, <2>3 DEF MatcherType
    <3>4. u \in MatcherType /\ SlotsBut(u.slots, u.slotOf, r, id, i) /\ IndexesBut(u, i)
      BY <2>2
    <3>5. /\ M \in MatcherType /\ M.slots[i] = rw /\ M.slotOf = u.slotOf /\ i \in DOMAIN M.slots
          /\ SlotsBut(M.slots, M.slotOf, r, id, i) /\ IndexesBut(M, i)
      BY <3>3, <3>1, <3>2, <3>4, OtherSlots
    <3> QED BY <3>5
  <2>5. Upserted(m, id, c) = Indexed(M, i, id, c)
    BY <1>1, <1>2, <1>4, <2>1, <2>3 DEF Upserted
  <2>6. MatcherOf(Indexed(M, i, id, c), [r EXCEPT ![id] = c])
    <3>1. M.slots[i] = [id |-> id, content |-> c]
      BY <1>2, <2>4
    <3> QED BY <2>4, <3>1, FilledSlot
  <2> QED BY <2>5, <2>6
<1>5. CASE i = 0
  <2>1. PICK n : n = Len(m.slots) + 1
    OBVIOUS
  <2>2. PICK M : M = [m EXCEPT !.slots = Append(@, rw)]
    OBVIOUS
  <2>3. /\ m \in MatcherType /\ m.slots \in Slots /\ SlotsRight(m.slots, m.slotOf, r) /\ IndexesBut(m, 0)
        /\ m = [slots |-> m.slots, slotOf |-> m.slotOf, exact |-> m.exact, title |-> m.title, gram |-> m.gram]
    BY DEF MatcherOf, MatcherType
  <2>4. M = [slots |-> Append(m.slots, rw), slotOf |-> m.slotOf, exact |-> m.exact,
             title |-> m.title, gram |-> m.gram]
    BY <2>2, <2>3
  <2>5. Append(m.slots, rw) \in Slots /\ DOMAIN Append(m.slots, rw) = DOMAIN m.slots \cup {n}
    BY <1>3, <2>1, <2>3 DEF Slots
  <2>6. M \in MatcherType
    BY <2>3, <2>4, <2>5 DEF MatcherType
  <2>7. n \notin DOMAIN m.slots /\ n \in Nat /\ n # 0 /\ M.slots[n] = rw /\ n \in DOMAIN M.slots
    BY <2>1, <2>3, <2>4, <2>5 DEF Slots
  <2>8. \A j \in DOMAIN m.slots : M.slots[j] = m.slots[j]
    BY <2>1, <2>3, <2>4 DEF Slots
  <2>9. SlotsBut(M.slots, M.slotOf, r, id, n)
    <3>1. ASSUME NEW j \in DOMAIN m.slots, m.slots[j] # Gone
          PROVE  m.slots[j].id # id /\ m.slotOf[m.slots[j].id] = j
      <4>1. m.slotOf[m.slots[j].id] = j /\ j # 0
        BY <2>3, <3>1 DEF SlotsRight, Slots
      <4> QED BY <1>1, <1>5, <4>1
    <3>2. ASSUME NEW x \in Ids
          PROVE  /\ m.slotOf[x] # 0 => /\ m.slotOf[x] \in DOMAIN m.slots /\ m.slotOf[x] # n
                                       /\ m.slots[m.slotOf[x]] = [id |-> x, content |-> r[x]]
                 /\ (m.slotOf[x] # 0 <=> r[x] # Gone /\ r[x].matchable)
      BY <2>3, <2>7 DEF SlotsRight
    <3> QED BY <2>4, <2>5, <2>8, <3>1, <3>2 DEF SlotsBut
  <2>10. IndexesBut(M, n)
    <3>1. \A j \in Nat : j # n => (j \in DOMAIN M.slots <=> j \in DOMAIN m.slots)
      BY <2>4, <2>5
    <3>2. 0 \notin DOMAIN m.slots
      BY <2>3 DEF Slots
    <3> QED BY <2>3, <2>4, <2>7, <2>8, <3>1, <3>2 DEF IndexesBut
  <2>11. Upserted(m, id, c) = Indexed(M, n, id, c)
    BY <1>1, <1>2, <1>5, <2>1, <2>2 DEF Upserted
  <2>12. MatcherOf(Indexed(M, n, id, c), [r EXCEPT ![id] = c])
    <3>1. M.slots[n] = [id |-> id, content |-> c]
      BY <1>2, <2>7
    <3> QED BY <2>6, <2>7, <2>9, <2>10, <3>1, FilledSlot
  <2> QED BY <2>11, <2>12
<1> QED BY <1>4, <1>5

LEMMA KeptIsRight ==
    ASSUME NEW r \in [Ids -> Contents \cup {Gone}], NEW m, MatcherOf(m, r), NEW id \in Ids,
           NEW c \in Contents
    PROVE  MatcherOf(Kept(m, id, c), [r EXCEPT ![id] = c])
<1>1. CASE c.matchable
  BY <1>1, UpsertedIsRight DEF Kept
<1>2. CASE ~ c.matchable
  BY <1>2, RemovedIsRight DEF Kept
<1> QED BY <1>1, <1>2

-----------------------------------------------------------------------------
(* Sequences of identifiers in which none is twice.                        *)

Distinct(s) == s \in Seq(Ids) /\ \A i, j \in DOMAIN s : s[i] = s[j] => i = j

LEMMA PlaceInIs ==
    ASSUME NEW s, Distinct(s), NEW id \in Ids
    PROVE  /\ PlaceIn(s, id) \in Nat
           /\ PlaceIn(s, id) # 0 => PlaceIn(s, id) \in DOMAIN s /\ s[PlaceIn(s, id)] = id
           /\ \A i \in DOMAIN s : s[i] = id => PlaceIn(s, id) = i
           /\ (PlaceIn(s, id) # 0 <=> \E i \in DOMAIN s : s[i] = id)
<1>1. DOMAIN s \subseteq Nat \ {0}
  BY DEF Distinct
<1>2. CASE \E i \in DOMAIN s : s[i] = id
  <2>1. PICK p : p = PlaceIn(s, id)
    OBVIOUS
  <2>2. p \in DOMAIN s /\ s[p] = id
    BY <1>2, <2>1 DEF PlaceIn
  <2>3. p \in Nat /\ p # 0
    BY <1>1, <2>2
  <2>4. \A i \in DOMAIN s : s[i] = id => p = i
    BY <2>2 DEF Distinct
  <2> QED BY <1>2, <2>1, <2>2, <2>3, <2>4
<1>3. CASE ~ \E i \in DOMAIN s : s[i] = id
  BY <1>3 DEF PlaceIn
<1> QED BY <1>2, <1>3

\* Two entries that stay keep their order.
LEMMA WithoutIs ==
    ASSUME NEW s, Distinct(s), NEW id \in Ids
    PROVE  /\ Without(s, id) \in Seq(Ids)
           /\ \A j \in DOMAIN Without(s, id) : Without(s, id)[j] # id
           /\ \A i \in DOMAIN s : s[i] # id => \E j \in DOMAIN Without(s, id) : Without(s, id)[j] = s[i]
           /\ \A i, j \in DOMAIN Without(s, id) : i < j =>
                \E a, b \in DOMAIN s : a < b /\ s[a] = Without(s, id)[i] /\ s[b] = Without(s, id)[j]
           /\ \A j \in DOMAIN Without(s, id) : \E a \in DOMAIN s : s[a] = Without(s, id)[j]
<1>1. PICK p : p = PlaceIn(s, id)
  OBVIOUS
<1>2. PICK w : w = Without(s, id)
  OBVIOUS
<1>3. s \in Seq(Ids) /\ \A i, j \in DOMAIN s : s[i] = s[j] => i = j
  BY DEF Distinct
<1>4. CASE p = 0
  <2>1. w = s
    BY <1>1, <1>2, <1>4 DEF Without
  <2>2. \A j \in DOMAIN s : s[j] # id
    BY <1>1, <1>4, PlaceInIs
  <2> QED BY <1>2, <1>3, <2>1, <2>2
<1>5. CASE p # 0
  <2>1. p \in DOMAIN s /\ s[p] = id /\ p \in 1..Len(s) /\ Len(s) \in Nat
    BY <1>1, <1>3, <1>5, PlaceInIs
  <2>2. w = SubSeq(s, 1, p - 1) \o SubSeq(s, p + 1, Len(s))
    BY <1>1, <1>2, <1>5 DEF Without
  <2>3. /\ w \in Seq(Ids) /\ Len(w) = Len(s) - 1
        /\ \A j \in 1..(Len(s) - 1) : w[j] = s[IF j < p THEN j ELSE j + 1]
    <3>1. PICK u : u = SubSeq(s, 1, p - 1)
      OBVIOUS
    <3>2. PICK v : v = SubSeq(s, p + 1, Len(s))
      OBVIOUS
    <3>3. u \in Seq(Ids) /\ Len(u) = p - 1 /\ \A j \in 1..(p - 1) : u[j] = s[j]
      <4>1. \A j \in 1..(p - 1) : s[j] \in Ids
        BY <1>3, <2>1
      <4> QED BY <1>3, <2>1, <3>1, <4>1
    <3>4. v \in Seq(Ids) /\ Len(v) = Len(s) - p /\ \A j \in 1..(Len(s) - p) : v[j] = s[p + j]
      <4>1. \A j \in (p + 1)..Len(s) : s[j] \in Ids
        BY <1>3, <2>1
      <4> QED BY <1>3, <2>1, <3>2, <4>1
    <3>5. w = u \o v
      BY <2>2, <3>1, <3>2
    <3>6. w \in Seq(Ids) /\ Len(w) = Len(s) - 1
      BY <2>1, <3>3, <3>4, <3>5
    <3>7. ASSUME NEW j \in 1..(Len(s) - 1) PROVE w[j] = s[IF j < p THEN j ELSE j + 1]
      <4>1. CASE j < p
        BY <2>1, <3>3, <3>4, <3>5, <4>1
      <4>2. CASE ~ j < p
        <5>1. j - (p - 1) \in 1..(Len(s) - p) /\ w[j] = v[j - (p - 1)]
          <6>1. j \in Nat /\ j > Len(u) /\ j <= Len(u) + Len(v) /\ Len(u) \in Nat /\ Len(v) \in Nat
            BY <2>1, <3>3, <3>4, <4>2
          <6>2. (u \o v)[j] = v[j - Len(u)]
            BY <3>3, <3>4, <6>1
          <6> QED BY <2>1, <3>3, <3>4, <3>5, <4>2, <6>2
        <5>2. p + (j - (p - 1)) = j + 1
          BY <2>1
        <5> QED BY <3>4, <4>2, <5>1, <5>2
      <4> QED BY <4>1, <4>2
    <3> QED BY <3>6, <3>7
  <2>4. DOMAIN w = 1..(Len(s) - 1) /\ DOMAIN s = 1..Len(s)
    BY <1>3, <2>3
  <2>5. ASSUME NEW j \in DOMAIN w PROVE w[j] # id
    <3>1. w[j] = s[IF j < p THEN j ELSE j + 1] /\ j \in 1..(Len(s) - 1)
      BY <2>3, <2>4
    <3>2. (IF j < p THEN j ELSE j + 1) \in DOMAIN s /\ (IF j < p THEN j ELSE j + 1) # p
      BY <2>1, <2>4, <3>1
    <3> QED BY <1>3, <2>1, <3>1, <3>2
  <2>6. ASSUME NEW i \in DOMAIN s, s[i] # id PROVE \E j \in DOMAIN w : w[j] = s[i]
    <3>1. i \in 1..Len(s) /\ i # p
      BY <2>1, <2>4, <2>6
    <3>2. CASE i < p
      BY <2>1, <2>3, <2>4, <3>1, <3>2
    <3>3. CASE i > p
      <4>1. i - 1 \in DOMAIN w /\ w[i - 1] = s[i]
        BY <2>1, <2>3, <2>4, <3>1, <3>3
      <4> QED BY <4>1
    <3> QED BY <2>1, <3>1, <3>2, <3>3
  <2>7. ASSUME NEW i \in DOMAIN w, NEW j \in DOMAIN w, i < j
        PROVE  \E a, b \in DOMAIN s : a < b /\ s[a] = w[i] /\ s[b] = w[j]
    <3>1. PICK a : a = IF i < p THEN i ELSE i + 1
      OBVIOUS
    <3>2. PICK b : b = IF j < p THEN j ELSE j + 1
      OBVIOUS
    <3>3. a \in DOMAIN s /\ b \in DOMAIN s /\ a < b
      BY <2>1, <2>4, <2>7, <3>1, <3>2
    <3>4. s[a] = w[i] /\ s[b] = w[j]
      BY <2>3, <2>4, <3>1, <3>2
    <3> QED BY <3>3, <3>4
  <2>8. ASSUME NEW j \in DOMAIN w PROVE \E a \in DOMAIN s : s[a] = w[j]
    <3>1. (IF j < p THEN j ELSE j + 1) \in DOMAIN s /\ w[j] = s[IF j < p THEN j ELSE j + 1]
      BY <2>1, <2>3, <2>4
    <3> QED BY <3>1
  <2> QED BY <1>2, <2>3, <2>5, <2>6, <2>7, <2>8
<1> QED BY <1>4, <1>5

\* A matcher built anew is right.
LEMMA BuiltIsRight ==
    ASSUME NEW s, Distinct(s), NEW r \in [Ids -> Contents \cup {Gone}],
           NEW R \in [Ids -> Contents \cup {Gone}],
           \A i \in DOMAIN s : r[s[i]] \in Contents,
           \A x \in Ids : R[x] = IF PlaceIn(s, x) # 0 THEN r[x] ELSE Gone
    PROVE  MatcherOf(Built(s, r), R)
<1>1. PICK M : M = Built(s, r)
  OBVIOUS
<1>2. s \in Seq(Ids) /\ DOMAIN s = 1..Len(s) /\ Len(s) \in Nat
  BY DEF Distinct
<1>3. ASSUME NEW i \in DOMAIN s
      PROVE  /\ r[s[i]] # Gone /\ r[s[i]].matchable \in BOOLEAN /\ s[i] \in Ids
             /\ [id |-> s[i], content |-> r[s[i]]] \in Filled /\ [id |-> s[i], content |-> r[s[i]]] # Gone
  <2>1. r[s[i]] \in Contents /\ s[i] \in Ids
    BY <1>2
  <2>2. [id |-> s[i], content |-> r[s[i]]] \in Filled
    BY <2>1 DEF Filled
  <2> QED BY <2>1, <2>2, ContentShape, SlotShape
<1>4. /\ M.slots = [i \in 1..Len(s) |-> IF r[s[i]].matchable THEN [id |-> s[i], content |-> r[s[i]]] ELSE Gone]
      /\ M.slotOf = [id \in Ids |-> IF PlaceIn(s, id) # 0 /\ r[id].matchable THEN PlaceIn(s, id) ELSE 0]
      /\ M.exact = [k \in MatchKeys |-> {i \in DOMAIN s : r[s[i]].matchable /\ KeyOf(r[s[i]]) = k}]
      /\ M.title = [t \in SUBSET Grams |-> {i \in DOMAIN s : r[s[i]].matchable /\ r[s[i]].title = t}]
      /\ M.gram = [g \in Grams |-> {i \in DOMAIN s : r[s[i]].matchable /\ g \in r[s[i]].title}]
  BY <1>1 DEF Built
<1>5. DOMAIN M.slots = DOMAIN s
  BY <1>2, <1>4
<1>6. \A i \in DOMAIN s : M.slots[i] = IF r[s[i]].matchable THEN [id |-> s[i], content |-> r[s[i]]] ELSE Gone
  BY <1>2, <1>4
<1>7. ASSUME NEW i \in DOMAIN s
      PROVE  /\ (M.slots[i] # Gone <=> r[s[i]].matchable)
             /\ M.slots[i] # Gone => M.slots[i].id = s[i] /\ M.slots[i].content = r[s[i]]
  <2>1. CASE r[s[i]].matchable
    <3>1. M.slots[i] = [id |-> s[i], content |-> r[s[i]]]
      BY <1>6, <2>1
    <3> QED BY <1>3, <2>1, <3>1
  <2>2. CASE ~ r[s[i]].matchable
    BY <1>6, <2>2
  <2> QED BY <2>1, <2>2
<1>8. M \in MatcherType
  <2>1. M.slots \in Slots
    <3>1. \A i \in 1..Len(s) : M.slots[i] \in Filled \cup {Gone}
      BY <1>2, <1>3, <1>6
    <3>2. M.slots \in [1..Len(s) -> Filled \cup {Gone}]
      BY <1>4, <3>1
    <3> QED BY <1>2, <3>2 DEF Slots
  <2>2. M.slotOf \in [Ids -> Nat]
    BY <1>4, PlaceInIs
  <2>3. /\ M.exact \in [MatchKeys -> SUBSET Nat] /\ M.title \in [SUBSET Grams -> SUBSET Nat]
        /\ M.gram \in [Grams -> SUBSET Nat]
    <3>1. DOMAIN s \subseteq Nat
      BY <1>2
    <3> QED BY <1>4, <3>1
  <2>4. M = [slots |-> M.slots, slotOf |-> M.slotOf, exact |-> M.exact, title |-> M.title, gram |-> M.gram]
    BY <1>1 DEF Built
  <2> QED BY <2>1, <2>2, <2>3, <2>4 DEF MatcherType
<1>9. SlotsRight(M.slots, M.slotOf, R)
  <2>1. ASSUME NEW n \in DOMAIN s, M.slots[n] # Gone PROVE M.slotOf[M.slots[n].id] = n
    <3>1. M.slots[n].id = s[n] /\ r[s[n]].matchable /\ s[n] \in Ids
      BY <1>3, <1>7, <2>1
    <3>2. PlaceIn(s, s[n]) = n /\ n # 0
      BY <1>2, <3>1, PlaceInIs
    <3> QED BY <1>4, <3>1, <3>2
  <2>2. ASSUME NEW x \in Ids
        PROVE  /\ M.slotOf[x] # 0 => M.slotOf[x] \in DOMAIN M.slots /\ M.slots[M.slotOf[x]] = [id |-> x, content |-> R[x]]
               /\ (M.slotOf[x] # 0 <=> R[x] # Gone /\ R[x].matchable)
    <3>1. PICK p : p = PlaceIn(s, x)
      OBVIOUS
    <3>2. CASE p = 0
      BY <1>4, <3>1, <3>2
    <3>3. CASE p # 0
      <4>1. p \in DOMAIN s /\ s[p] = x /\ R[x] = r[x]
        BY <3>1, <3>3, PlaceInIs
      <4>2. R[x] # Gone
        BY <1>3, <4>1
      <4>3. M.slotOf[x] = IF r[x].matchable THEN p ELSE 0
        BY <1>4, <3>1, <3>3
      <4> QED BY <1>5, <1>6, <3>3, <4>1, <4>2, <4>3
    <3> QED BY <3>2, <3>3
  <2> QED BY <1>5, <2>1, <2>2 DEF SlotsRight
<1>10. IndexesBut(M, 0)
  <2>1. 0 \notin DOMAIN s
    BY <1>2
  <2>2. ASSUME NEW k \in MatchKeys, NEW n \in Nat
        PROVE  n \in M.exact[k] <=> n \in DOMAIN s /\ M.slots[n] # Gone /\ KeyOf(M.slots[n].content) = k
    <3>1. n \in M.exact[k] <=> n \in DOMAIN s /\ r[s[n]].matchable /\ KeyOf(r[s[n]]) = k
      BY <1>4
    <3> QED BY <1>7, <3>1
  <2>3. ASSUME NEW t \in SUBSET Grams, NEW n \in Nat
        PROVE  n \in M.title[t] <=> n \in DOMAIN s /\ M.slots[n] # Gone /\ M.slots[n].content.title = t
    <3>1. n \in M.title[t] <=> n \in DOMAIN s /\ r[s[n]].matchable /\ r[s[n]].title = t
      BY <1>4
    <3> QED BY <1>7, <3>1
  <2>4. ASSUME NEW g \in Grams, NEW n \in Nat
        PROVE  n \in M.gram[g] <=> n \in DOMAIN s /\ M.slots[n] # Gone /\ g \in M.slots[n].content.title
    <3>1. n \in M.gram[g] <=> n \in DOMAIN s /\ r[s[n]].matchable /\ g \in r[s[n]].title
      BY <1>4
    <3> QED BY <1>7, <3>1
  <2> QED BY <1>5, <2>1, <2>2, <2>3, <2>4 DEF IndexesBut
<1> QED BY <1>1, <1>8, <1>9, <1>10 DEF MatcherOf

-----------------------------------------------------------------------------
(* The invariant.                                                          *)

LEMMA DictionaryDistinct ==
    ASSUME NEW r, NEW ks, NEW o, NEW pos, Ordering(r, ks, o, pos)
    PROVE  Distinct(ks)
<1>1. ks \in Seq(Ids) /\ pos \in [Ids -> Nat] /\ \A i, j \in DOMAIN ks : i < j => pos[ks[i]] < pos[ks[j]]
  BY DEF Ordering
<1>2. ASSUME NEW i \in DOMAIN ks, NEW j \in DOMAIN ks, ks[i] = ks[j] PROVE i = j
  <2>1. ks[i] \in Ids /\ i \in Nat /\ j \in Nat /\ pos[ks[i]] \in Nat
    BY <1>1
  <2>2. ~ i < j /\ ~ j < i
    BY <1>1, <1>2, <2>1
  <2> QED BY <2>1, <2>2
<1> QED BY <1>1, <1>2 DEF Distinct

\* The dictionary is a right order of itself.
LEMMA OwnOrder ==
    ASSUME NEW r, NEW ks, Distinct(ks), \A i \in DOMAIN ks : r[ks[i]] # Gone,
           \A id \in Ids : r[id] # Gone => \E i \in DOMAIN ks : ks[i] = id
    PROVE  Ordering(r, ks, ks, [id \in Ids |-> PlaceIn(ks, id)])
<1>1. PICK pos : pos = [id \in Ids |-> PlaceIn(ks, id)]
  OBVIOUS
<1>2. /\ pos \in [Ids -> Nat]
      /\ \A id \in Ids : pos[id] # 0 => pos[id] \in DOMAIN ks /\ ks[pos[id]] = id
      /\ \A id \in Ids : \A i \in DOMAIN ks : ks[i] = id => pos[id] = i
      /\ \A id \in Ids : (pos[id] # 0 <=> \E i \in DOMAIN ks : ks[i] = id)
  BY <1>1, PlaceInIs
<1>3. ks \in Seq(Ids)
  BY DEF Distinct
<1>4. \A i \in DOMAIN ks : ks[i] \in Ids /\ pos[ks[i]] = i
  BY <1>2, <1>3
<1>5. \A id \in Ids : (pos[id] # 0 <=> r[id] # Gone)
  BY <1>2
<1> QED BY <1>1, <1>2, <1>3, <1>4, <1>5 DEF Ordering

\* Compacting the order or not, it stays right.
LEMMA OrderedIsRight ==
    ASSUME NEW o, NEW pos, NEW ks, Ordering(records', ks, o, pos), Ordered(o, pos, ks), keys' = ks
    PROVE  Ordering(records', keys', order', position')
<1>1. CASE order' = o /\ position' = pos
  BY <1>1
<1>2. CASE order' = ks /\ position' = [id \in Ids |-> PlaceIn(ks, id)]
  <2>1. Distinct(ks)
    BY DictionaryDistinct
  <2>2. /\ \A i \in DOMAIN ks : records'[ks[i]] # Gone
        /\ \A id \in Ids : records'[id] # Gone => \E i \in DOMAIN ks : ks[i] = id
    BY DEF Ordering
  <2> QED BY <1>2, <2>1, <2>2, OwnOrder
<1> QED BY <1>1, <1>2 DEF Ordered

LEMMA MatchInitInv == MatchInit => MatchInv
<1> SUFFICES ASSUME MatchInit PROVE MatchInv
  OBVIOUS
<1>1. /\ records = [id \in Ids |-> Gone] /\ keys = <<>> /\ order = <<>>
      /\ position = [id \in Ids |-> 0] /\ matcher = Built(<<>>, records)
  BY DEF MatchInit
<1>2. records \in [Ids -> Contents \cup {Gone}]
  BY <1>1
<1>3. Distinct(<<>>) /\ \A i \in DOMAIN <<>> : FALSE
  BY DEF Distinct
<1>4. \A x \in Ids : PlaceIn(<<>>, x) = 0
  BY <1>3 DEF PlaceIn
<1>5. \A x \in Ids : records[x] = IF PlaceIn(<<>>, x) # 0 THEN records[x] ELSE Gone
  BY <1>1, <1>4
<1>6. \A i \in DOMAIN <<>> : records[<<>>[i]] \in Contents
  BY <1>3
<1>7. MatcherOf(matcher, records)
  BY <1>1, <1>2, <1>3, <1>5, <1>6, BuiltIsRight
<1>8. Ordering(records, keys, order, position)
  BY <1>1, <1>3 DEF Ordering
<1> QED BY <1>2, <1>7, <1>8 DEF MatchInv

LEMMA AddOrReplaceKeeps ==
    ASSUME MatchInv, NEW id \in Ids, NEW c \in Contents, AddOrReplace(id, c)
    PROVE  MatchInv'
<1>1. /\ records \in [Ids -> Contents \cup {Gone}] /\ MatcherOf(matcher, records)
      /\ Ordering(records, keys, order, position)
  BY DEF MatchInv
<1>2. /\ records' = [records EXCEPT ![id] = c] /\ matcher' = Kept(matcher, id, c)
      /\ keys' = IF Known(id) THEN keys ELSE Append(keys, id)
  BY DEF AddOrReplace
<1>3. c # Gone
  BY ContentShape
<1>4. records' \in [Ids -> Contents \cup {Gone}] /\ MatcherOf(matcher', records')
  BY <1>1, <1>2, KeptIsRight
<1>5. records'[id] = c /\ \A x \in Ids : x # id => records'[x] = records[x]
  BY <1>1, <1>2
<1>6. /\ keys \in Seq(Ids) /\ order \in Seq(Ids) /\ position \in [Ids -> Nat]
      /\ \A i \in DOMAIN keys : records[keys[i]] # Gone
      /\ \A x \in Ids : records[x] # Gone => \E i \in DOMAIN keys : keys[i] = x
      /\ \A x \in Ids : position[x] # 0 => position[x] \in DOMAIN order /\ order[position[x]] = x
      /\ \A x \in Ids : (position[x] # 0 <=> records[x] # Gone)
      /\ \A i, j \in DOMAIN keys : i < j => position[keys[i]] < position[keys[j]]
  BY <1>1 DEF Ordering
<1>7. \A i \in DOMAIN keys : keys[i] \in Ids
  BY <1>6
<1>8. CASE Known(id)
  <2>1. keys' = keys /\ position[id] # 0
    BY <1>2, <1>6, <1>8 DEF Known
  <2>2. Ordered(order, position, keys)
    BY <2>1 DEF AddOrReplace
  <2>3. \A i \in DOMAIN keys : records'[keys[i]] # Gone
    BY <1>3, <1>5, <1>6, <1>7
  <2>4. \A x \in Ids : (records'[x] # Gone <=> records[x] # Gone)
    BY <1>3, <1>5, <1>8 DEF Known
  <2>5. Ordering(records', keys, order, position)
    BY <1>6, <2>3, <2>4 DEF Ordering
  <2>6. Ordering(records', keys', order', position')
    BY <2>1, <2>2, <2>5, OrderedIsRight
  <2> QED BY <1>4, <2>6 DEF MatchInv
<1>9. CASE ~ Known(id)
  <2>1. PICK n : n = Len(order) + 1
    OBVIOUS
  <2>2. PICK ks : ks = Append(keys, id)
    OBVIOUS
  <2>3. PICK o : o = Append(order, id)
    OBVIOUS
  <2>4. PICK pos : pos = [position EXCEPT ![id] = n]
    OBVIOUS
  <2>5. records[id] = Gone /\ position[id] = 0 /\ keys' = ks
    BY <1>2, <1>6, <1>9, <2>2 DEF Known
  <2>6. Ordered(o, pos, ks)
    BY <2>1, <2>3, <2>4, <2>5 DEF AddOrReplace
  <2>7. /\ ks \in Seq(Ids) /\ o \in Seq(Ids) /\ pos \in [Ids -> Nat] /\ n \in Nat /\ n # 0
        /\ DOMAIN ks = DOMAIN keys \cup {Len(keys) + 1} /\ DOMAIN o = DOMAIN order \cup {n}
        /\ Len(keys) \in Nat /\ o[n] = id
    BY <1>6, <2>1, <2>2, <2>3, <2>4
  <2>8. \A i \in DOMAIN keys : ks[i] = keys[i] /\ i < Len(keys) + 1 /\ keys[i] # id
    BY <1>6, <2>2, <2>5
  <2>9. ks[Len(keys) + 1] = id
    BY <1>6, <2>2
  <2>10. \A x \in Ids : x # id => pos[x] = position[x]
    BY <1>6, <2>4
  <2>11. pos[id] = n
    BY <1>6, <2>4
  <2>12. \A i \in DOMAIN keys : position[keys[i]] < n
    <3>1. \A p \in DOMAIN order : p < n
      BY <1>6, <2>1
    <3> QED BY <1>6, <1>7, <3>1
  <2>13. Ordering(records', ks, o, pos)
    <3>1. ASSUME NEW i \in DOMAIN ks PROVE records'[ks[i]] # Gone
      BY <1>3, <1>5, <1>6, <1>7, <2>7, <2>8, <2>9
    <3>2. ASSUME NEW x \in Ids, records'[x] # Gone PROVE \E i \in DOMAIN ks : ks[i] = x
      <4>1. CASE x = id
        BY <2>7, <2>9, <4>1
      <4>2. CASE x # id
        <5>1. PICK i \in DOMAIN keys : keys[i] = x
          BY <1>5, <1>6, <3>2, <4>2
        <5> QED BY <2>7, <2>8, <5>1
      <4> QED BY <4>1, <4>2
    <3>3. ASSUME NEW x \in Ids
          PROVE  /\ pos[x] # 0 => pos[x] \in DOMAIN o /\ o[pos[x]] = x
                 /\ (pos[x] # 0 <=> records'[x] # Gone)
      <4>1. CASE x = id
        BY <1>3, <1>5, <2>7, <2>11, <4>1
      <4>2. CASE x # id
        <5>1. \A p \in DOMAIN order : o[p] = order[p]
          BY <1>6, <2>3
        <5> QED BY <1>5, <1>6, <2>7, <2>10, <4>2, <5>1
      <4> QED BY <4>1, <4>2
    <3>4. ASSUME NEW i \in DOMAIN ks, NEW j \in DOMAIN ks, i < j PROVE pos[ks[i]] < pos[ks[j]]
      <4>1. i \in DOMAIN keys
        BY <1>6, <2>7, <2>8, <3>4
      <4>2. ks[i] = keys[i] /\ pos[ks[i]] = position[keys[i]]
        BY <1>7, <2>8, <2>10, <4>1
      <4>3. CASE j \in DOMAIN keys
        BY <1>6, <1>7, <2>8, <2>10, <3>4, <4>1, <4>2, <4>3
      <4>4. CASE j = Len(keys) + 1
        BY <2>9, <2>11, <2>12, <4>1, <4>2, <4>4
      <4> QED BY <2>7, <4>3, <4>4
    <3> QED BY <2>7, <3>1, <3>2, <3>3, <3>4 DEF Ordering
  <2>14. Ordering(records', keys', order', position')
    BY <2>5, <2>6, <2>13, OrderedIsRight
  <2> QED BY <1>4, <2>14 DEF MatchInv
<1> QED BY <1>8, <1>9

LEMMA RemoveRecordKeeps ==
    ASSUME MatchInv, NEW id \in Ids, RemoveRecord(id)
    PROVE  MatchInv'
<1>1. /\ records \in [Ids -> Contents \cup {Gone}] /\ MatcherOf(matcher, records)
      /\ Ordering(records, keys, order, position)
  BY DEF MatchInv
<1>2. /\ records' = [records EXCEPT ![id] = Gone] /\ matcher' = Removed(matcher, id)
      /\ keys' = Without(keys, id) /\ Ordered(order, [position EXCEPT ![id] = 0], keys')
  BY DEF RemoveRecord
<1>3. records' \in [Ids -> Contents \cup {Gone}] /\ MatcherOf(matcher', records')
  BY <1>1, <1>2, RemovedIsRight
<1>4. records'[id] = Gone /\ \A x \in Ids : x # id => records'[x] = records[x]
  BY <1>1, <1>2
<1>5. PICK pos : pos = [position EXCEPT ![id] = 0]
  OBVIOUS
<1>6. PICK ks : ks = Without(keys, id)
  OBVIOUS
<1>7. /\ keys \in Seq(Ids) /\ order \in Seq(Ids) /\ position \in [Ids -> Nat]
      /\ \A i \in DOMAIN keys : records[keys[i]] # Gone
      /\ \A x \in Ids : records[x] # Gone => \E i \in DOMAIN keys : keys[i] = x
      /\ \A x \in Ids : position[x] # 0 => position[x] \in DOMAIN order /\ order[position[x]] = x
      /\ \A x \in Ids : (position[x] # 0 <=> records[x] # Gone)
      /\ \A i, j \in DOMAIN keys : i < j => position[keys[i]] < position[keys[j]]
  BY <1>1 DEF Ordering
<1>8. /\ ks \in Seq(Ids)
      /\ \A j \in DOMAIN ks : ks[j] # id
      /\ \A i \in DOMAIN keys : keys[i] # id => \E j \in DOMAIN ks : ks[j] = keys[i]
      /\ \A i, j \in DOMAIN ks : i < j => \E a, b \in DOMAIN keys : a < b /\ keys[a] = ks[i] /\ keys[b] = ks[j]
      /\ \A j \in DOMAIN ks : \E a \in DOMAIN keys : keys[a] = ks[j]
  BY <1>1, <1>6, DictionaryDistinct, WithoutIs
<1>9. \A j \in DOMAIN ks : ks[j] \in Ids
  BY <1>8
<1>10. pos \in [Ids -> Nat] /\ pos[id] = 0 /\ \A x \in Ids : x # id => pos[x] = position[x]
  BY <1>5, <1>7
<1>11. Ordering(records', ks, order, pos)
  <2>1. ASSUME NEW i \in DOMAIN ks PROVE records'[ks[i]] # Gone
    <3>1. PICK a \in DOMAIN keys : keys[a] = ks[i]
      BY <1>8
    <3>2. records[ks[i]] # Gone
      BY <1>7, <3>1
    <3> QED BY <1>4, <1>8, <1>9, <3>2
  <2>2. ASSUME NEW x \in Ids, records'[x] # Gone PROVE \E i \in DOMAIN ks : ks[i] = x
    <3>1. x # id
      BY <1>4, <2>2
    <3>2. PICK i \in DOMAIN keys : keys[i] = x
      BY <1>4, <1>7, <2>2, <3>1
    <3> QED BY <1>8, <3>1, <3>2
  <2>3. ASSUME NEW x \in Ids
        PROVE  /\ pos[x] # 0 => pos[x] \in DOMAIN order /\ order[pos[x]] = x
               /\ (pos[x] # 0 <=> records'[x] # Gone)
    BY <1>4, <1>7, <1>10
  <2>4. ASSUME NEW i \in DOMAIN ks, NEW j \in DOMAIN ks, i < j PROVE pos[ks[i]] < pos[ks[j]]
    <3>1. PICK a \in DOMAIN keys, b \in DOMAIN keys : a < b /\ keys[a] = ks[i] /\ keys[b] = ks[j]
      BY <1>8, <2>4
    <3>2. position[ks[i]] < position[ks[j]]
      BY <1>7, <3>1
    <3> QED BY <1>8, <1>9, <1>10, <3>2
  <2> QED BY <1>7, <1>8, <1>10, <2>1, <2>2, <2>3, <2>4 DEF Ordering
<1>12. Ordering(records', keys', order', position')
  BY <1>2, <1>5, <1>6, <1>11, OrderedIsRight
<1> QED BY <1>3, <1>12 DEF MatchInv

LEMMA UpdateRecordKeeps ==
    ASSUME MatchInv, NEW id \in Ids, NEW c \in Contents, UpdateRecord(id, c)
    PROVE  MatchInv'
<1>1. /\ records \in [Ids -> Contents \cup {Gone}] /\ MatcherOf(matcher, records)
      /\ Ordering(records, keys, order, position)
  BY DEF MatchInv
<1>2. /\ records' = [records EXCEPT ![id] = c] /\ matcher' = Kept(matcher, id, c)
      /\ keys' = keys /\ order' = order /\ position' = position /\ records[id] # Gone
  BY DEF UpdateRecord, Known
<1>3. records' \in [Ids -> Contents \cup {Gone}] /\ MatcherOf(matcher', records')
  BY <1>1, <1>2, KeptIsRight
<1>4. c # Gone
  BY ContentShape
<1>5. \A x \in Ids : (records'[x] # Gone <=> records[x] # Gone)
  BY <1>1, <1>2, <1>4
<1>6. \A i \in DOMAIN keys : keys[i] \in Ids
  BY <1>1 DEF Ordering
<1>7. Ordering(records', keys', order', position')
  BY <1>1, <1>2, <1>5, <1>6 DEF Ordering
<1> QED BY <1>3, <1>7 DEF MatchInv

LEMMA ReplaceRecordsKeeps ==
    ASSUME MatchInv, NEW s \in Orders, NEW r \in [Ids -> Contents], ReplaceRecords(s, r)
    PROVE  MatchInv'
<1>1. /\ records' = [id \in Ids |-> IF PlaceIn(s, id) # 0 THEN r[id] ELSE Gone]
      /\ keys' = s /\ order' = s /\ position' = [id \in Ids |-> PlaceIn(s, id)]
      /\ matcher' = Built(s, r)
  BY DEF ReplaceRecords
<1>2. Distinct(s)
  <2>1. PICK n \in 0..Cardinality(Ids) : s \in [1..n -> Ids]
    BY DEF Orders
  <2>2. n \in Nat
    BY <2>1, FS_CardinalityType, MatchAssumption
  <2> QED BY <2>1, <2>2 DEF Orders, Distinct
<1>3. records' \in [Ids -> Contents \cup {Gone}]
  BY <1>1
<1>4. s \in Seq(Ids)
  BY <1>2 DEF Distinct
<1>5. \A i \in DOMAIN s : s[i] \in Ids /\ r[s[i]] \in Contents
  BY <1>4
<1>6. \A x \in Ids : records'[x] = IF PlaceIn(s, x) # 0 THEN r[x] ELSE Gone
  BY <1>1
<1>7. r \in [Ids -> Contents \cup {Gone}]
  OBVIOUS
<1>8. MatcherOf(matcher', records')
  BY <1>1, <1>2, <1>3, <1>5, <1>6, <1>7, BuiltIsRight
<1>9. \A x \in Ids : (PlaceIn(s, x) # 0 <=> \E i \in DOMAIN s : s[i] = x)
  BY <1>2, PlaceInIs
<1>10. \A x \in Ids : (records'[x] # Gone <=> PlaceIn(s, x) # 0)
  <2>1. \A x \in Ids : r[x] # Gone
    BY ContentShape
  <2> QED BY <1>6, <2>1
<1>11. Ordering(records', s, s, [id \in Ids |-> PlaceIn(s, id)])
  <2>1. \A i \in DOMAIN s : records'[s[i]] # Gone
    BY <1>5, <1>9, <1>10
  <2>2. \A x \in Ids : records'[x] # Gone => \E i \in DOMAIN s : s[i] = x
    BY <1>9, <1>10
  <2> QED BY <1>2, <2>1, <2>2, OwnOrder
<1> QED BY <1>1, <1>3, <1>8, <1>11 DEF MatchInv

LEMMA MatchInvInductive == MatchSpec => []MatchInv
<1>1. ASSUME MatchInv, [MatchNext]_matchVars PROVE MatchInv'
  <2>1. CASE \E id \in Ids : RemoveRecord(id)
    BY <1>1, <2>1, RemoveRecordKeeps
  <2>2. CASE \E id \in Ids, c \in Contents : AddOrReplace(id, c)
    BY <1>1, <2>2, AddOrReplaceKeeps
  <2>3. CASE \E id \in Ids, c \in Contents : UpdateRecord(id, c)
    BY <1>1, <2>3, UpdateRecordKeeps
  <2>4. CASE \E s \in Orders, r \in [Ids -> Contents] : ReplaceRecords(s, r)
    BY <1>1, <2>4, ReplaceRecordsKeeps
  <2>5. CASE UNCHANGED matchVars
    BY <1>1, <2>5 DEF MatchInv, matchVars
  <2> QED BY <1>1, <2>1, <2>2, <2>3, <2>4, <2>5 DEF MatchNext
<1> QED BY <1>1, MatchInitInv, PTL DEF MatchSpec

-----------------------------------------------------------------------------
(* What the invariant says of a lookup.                                    *)

\* A filled slot holds what its record says.
LEMMA SlotOfRecord ==
    ASSUME MatchInv, NEW n \in DOMAIN matcher.slots, matcher.slots[n] # Gone
    PROVE  /\ matcher.slots[n].id \in Ids /\ Known(matcher.slots[n].id)
           /\ records[matcher.slots[n].id] \in Contents
           /\ records[matcher.slots[n].id].matchable
           /\ matcher.slots[n].content = records[matcher.slots[n].id]
           /\ matcher.slots[n] = [id |-> matcher.slots[n].id, content |-> records[matcher.slots[n].id]]
<1>1. /\ records \in [Ids -> Contents \cup {Gone}] /\ matcher.slots \in Slots
      /\ SlotsRight(matcher.slots, matcher.slotOf, records)
  BY DEF MatchInv, MatcherOf, MatcherType
<1>2. matcher.slots[n] \in Filled /\ n # 0
  BY <1>1 DEF Slots
<1>3. PICK x : x = matcher.slots[n].id
  OBVIOUS
<1>4. x \in Ids /\ matcher.slotOf[x] = n
  BY <1>1, <1>2, <1>3, SlotShape DEF SlotsRight
<1>5. matcher.slots[n] = [id |-> x, content |-> records[x]] /\ records[x] # Gone /\ records[x].matchable
  BY <1>1, <1>2, <1>4 DEF SlotsRight
<1>6. records[x] \in Contents
  BY <1>1, <1>4, <1>5
<1>7. matcher.slots[n].content = records[x]
  BY <1>5
<1> QED BY <1>3, <1>4, <1>5, <1>6, <1>7 DEF Known

\* And a matchable record has a slot.
LEMMA RecordOfSlot ==
    ASSUME MatchInv, NEW x \in Ids, Known(x), records[x].matchable
    PROVE  /\ matcher.slotOf[x] \in DOMAIN matcher.slots /\ matcher.slots[matcher.slotOf[x]] # Gone
           /\ matcher.slots[matcher.slotOf[x]] = [id |-> x, content |-> records[x]]
           /\ matcher.slots[matcher.slotOf[x]].content = records[x]
<1>1. /\ records \in [Ids -> Contents \cup {Gone}]
      /\ SlotsRight(matcher.slots, matcher.slotOf, records)
  BY DEF MatchInv, MatcherOf
<1>2. PICK n : n = matcher.slotOf[x]
  OBVIOUS
<1>3. n \in DOMAIN matcher.slots /\ matcher.slots[n] = [id |-> x, content |-> records[x]]
  BY <1>1, <1>2 DEF SlotsRight, Known
<1>4. records[x] \in Contents
  BY <1>1 DEF Known
<1>5. matcher.slots[n] \in Filled
  BY <1>3, <1>4 DEF Filled
<1> QED BY <1>2, <1>3, <1>5, SlotShape

\* Slots that are those of the records X hold what these say.
LEMMA NamedRows ==
    ASSUME MatchInv, NEW S, NEW X \in SUBSET Ids,
           \A n \in S : n \in DOMAIN matcher.slots /\ matcher.slots[n] # Gone /\ matcher.slots[n].id \in X,
           \A x \in X : Known(x) /\ records[x].matchable /\ matcher.slotOf[x] \in S
    PROVE  Stored(S) = RowsWith(X)
<1>1. PICK T : T = {[id |-> x, content |-> records[x]] : x \in X}
  OBVIOUS
<1>2. ASSUME NEW n \in S PROVE matcher.slots[n] \in T
  <2>1. matcher.slots[n] = [id |-> matcher.slots[n].id, content |-> records[matcher.slots[n].id]]
    BY SlotOfRecord
  <2> QED BY <1>1, <2>1
<1>3. ASSUME NEW y \in T PROVE \E n \in S : matcher.slots[n] = y
  <2>1. PICK x \in X : y = [id |-> x, content |-> records[x]]
    BY <1>1
  <2>2. matcher.slots[matcher.slotOf[x]] = y
    BY <2>1, RecordOfSlot
  <2> QED BY <2>2
<1>4. Stored(S) = T
  BY <1>2, <1>3 DEF Stored
<1> QED BY <1>1, <1>4 DEF RowsWith

\* What one function counts is carried over to another by f and back by b.
LEMMA MostCommonCarried ==
    ASSUME NEW h, NEW k, NEW f, NEW b, IsFiniteSet(DOMAIN h),
           \A i \in DOMAIN h : f[i] \in DOMAIN k /\ b[f[i]] = i /\ k[f[i]] = h[i],
           \A j \in DOMAIN k : b[j] \in DOMAIN h /\ f[b[j]] = j,
           NEW R \in MostCommon(h), NEW X \in SUBSET DOMAIN k,
           \A j \in DOMAIN k : j \in X <=> b[j] \in R
    PROVE  X \in MostCommon(k)
<1>2. PICK S : S = DOMAIN h
  OBVIOUS
<1>3. PICK T : T = DOMAIN k
  OBVIOUS
<1>4. /\ R \subseteq S /\ Cardinality(R) <= CandidateLimit
      /\ R = S \/ Cardinality(R) = CandidateLimit
      /\ \A i \in R, j \in S \ R : h[i] >= h[j]
  BY <1>2 DEF MostCommon
<1>5. /\ \A i \in S : f[i] \in T /\ b[f[i]] = i /\ k[f[i]] = h[i]
      /\ \A j \in T : b[j] \in S /\ f[b[j]] = j
  BY <1>2, <1>3
<1>6. \A j \in T : j \in X <=> b[j] \in R
  BY <1>3
<1>7. X \subseteq T /\ (R = S => X = T)
  BY <1>3, <1>5, <1>6
<1>8. Cardinality(X) = Cardinality(R)
  <2>1. IsFiniteSet(R)
    BY <1>2, <1>4, FS_Subset
  <2>2. PICK g : g = [i \in R |-> f[i]]
    OBVIOUS
  <2>3. g \in [R -> X] /\ \A i \in R : g[i] = f[i]
    BY <1>4, <1>5, <1>6, <2>2
  <2>4. \A i, j \in R : g[i] = g[j] => i = j
    BY <1>4, <1>5, <2>3
  <2>5. \A x \in X : \E i \in R : g[i] = x
    BY <1>5, <1>6, <1>7, <2>3
  <2>6. g \in Bijection(R, X)
    BY <2>3, <2>4, <2>5 DEF Bijection, Injection, Surjection, IsInjective
  <2> QED BY <2>1, <2>6, FS_Bijection DEF ExistsBijection
<1>9. ASSUME NEW x \in X, NEW y \in T \ X PROVE k[x] >= k[y]
  <2>1. b[x] \in R /\ b[y] \in S \ R
    BY <1>5, <1>6, <1>7
  <2>2. k[x] = h[b[x]] /\ k[y] = h[b[y]]
    BY <1>4, <1>5, <1>7, <2>1
  <2> QED BY <1>4, <2>1, <2>2
<1>10. X = T \/ Cardinality(X) = CandidateLimit
  BY <1>4, <1>7, <1>8
<1> QED BY <1>3, <1>4, <1>7, <1>8, <1>9, <1>10 DEF MostCommon

\* The slots the n-grams name are those of the records that share one, and
\* are named as often as the record shares one.
LEMMA HitsAreShared ==
    ASSUME MatchInv, NEW q \in Contents
    PROVE  /\ \A n \in DOMAIN Hits(q.title) :
                /\ n \in DOMAIN matcher.slots /\ matcher.slots[n] # Gone
                /\ matcher.slots[n].id \in DOMAIN Shared(q.title)
                /\ matcher.slotOf[matcher.slots[n].id] = n
                /\ Shared(q.title)[matcher.slots[n].id] = Hits(q.title)[n]
           /\ \A x \in DOMAIN Shared(q.title) :
                /\ x \in Ids /\ Known(x) /\ records[x].matchable
                /\ matcher.slotOf[x] \in DOMAIN Hits(q.title)
                /\ matcher.slots[matcher.slotOf[x]].id = x
<1>1. /\ matcher \in MatcherType /\ IndexesBut(matcher, 0)
      /\ SlotsRight(matcher.slots, matcher.slotOf, records)
  BY DEF MatchInv, MatcherOf
<1>2. /\ matcher.slots \in Slots /\ matcher.gram \in [Grams -> SUBSET Nat]
      /\ DOMAIN matcher.slots \subseteq Nat \ {0}
  BY <1>1 DEF MatcherType, Slots
<1>3. PICK t : t = q.title
  OBVIOUS
<1>4. t \in SUBSET Grams
  BY <1>3, ContentShape
<1>5. ASSUME NEW n \in Nat, NEW g \in t
      PROVE  n \in matcher.gram[g] <=> /\ n \in DOMAIN matcher.slots /\ matcher.slots[n] # Gone
                                       /\ g \in matcher.slots[n].content.title
  BY <1>1, <1>2, <1>4 DEF IndexesBut
<1>6. \A g \in t : matcher.gram[g] \subseteq Nat
  BY <1>2, <1>4
<1>7. PICK S : S = UNION {matcher.gram[g] : g \in t}
  OBVIOUS
<1>8. PICK X : X = {x \in Ids : Known(x) /\ records[x].matchable /\ records[x].title \cap t # {}}
  OBVIOUS
<1>9. /\ DOMAIN Hits(t) = S
      /\ \A n \in S : Hits(t)[n] = Cardinality({g \in t : n \in matcher.gram[g]})
  BY <1>7 DEF Hits
<1>10. /\ DOMAIN Shared(t) = X
       /\ \A x \in X : Shared(t)[x] = Cardinality(records[x].title \cap t)
  BY <1>8 DEF Shared, Scanned
<1>11. ASSUME NEW n \in S
       PROVE  /\ n \in DOMAIN matcher.slots /\ matcher.slots[n] # Gone
              /\ matcher.slots[n].id \in X /\ matcher.slotOf[matcher.slots[n].id] = n
              /\ Shared(t)[matcher.slots[n].id] = Hits(t)[n]
  <2>1. PICK g \in t : n \in matcher.gram[g]
    BY <1>7
  <2>2. n \in Nat
    BY <1>6, <2>1
  <2>3. n \in DOMAIN matcher.slots /\ matcher.slots[n] # Gone /\ g \in matcher.slots[n].content.title
    BY <1>5, <2>1, <2>2
  <2>4. PICK x : x = matcher.slots[n].id
    OBVIOUS
  <2>5. /\ x \in Ids /\ Known(x) /\ records[x].matchable
        /\ matcher.slots[n].content = records[x]
    BY <2>3, <2>4, SlotOfRecord
  <2>6. x \in X
    BY <1>8, <2>3, <2>5
  <2>7. matcher.slotOf[x] = n
    BY <1>1, <2>3, <2>4 DEF SlotsRight
  <2>8. \A a \in t : n \in matcher.gram[a] <=> a \in records[x].title
    BY <1>5, <2>2, <2>3, <2>5
  <2>9. {a \in t : n \in matcher.gram[a]} = records[x].title \cap t
    BY <2>8
  <2>10. Shared(t)[x] = Hits(t)[n]
    BY <1>9, <1>10, <2>6, <2>9
  <2> QED BY <2>3, <2>4, <2>6, <2>7, <2>10
<1>12. ASSUME NEW x \in X
       PROVE  /\ x \in Ids /\ Known(x) /\ records[x].matchable
              /\ matcher.slotOf[x] \in S /\ matcher.slots[matcher.slotOf[x]].id = x
  <2>1. x \in Ids /\ Known(x) /\ records[x].matchable /\ records[x].title \cap t # {}
    BY <1>8
  <2>2. PICK n : n = matcher.slotOf[x]
    OBVIOUS
  <2>3. /\ n \in DOMAIN matcher.slots /\ matcher.slots[n] # Gone
        /\ matcher.slots[n] = [id |-> x, content |-> records[x]] /\ matcher.slots[n].content = records[x]
    BY <2>1, <2>2, RecordOfSlot
  <2>4. matcher.slots[n].id = x /\ n \in Nat
    BY <1>2, <2>3
  <2>5. PICK g \in t : g \in records[x].title
    BY <2>1
  <2>6. n \in matcher.gram[g]
    BY <1>5, <2>3, <2>4, <2>5
  <2>7. n \in S
    BY <1>7, <2>5, <2>6
  <2> QED BY <2>1, <2>2, <2>4, <2>7
<1> QED BY <1>3, <1>9, <1>10, <1>11, <1>12

\* The rows an n-gram recall may name are those a limited scan may name.
LEMMA RecallIsScan ==
    ASSUME MatchInv, NEW q \in Contents
    PROVE  /\ \A R \in Recalled(q.title) : \E X \in MostCommon(Shared(q.title)) : Stored(R) = RowsWith(X)
           /\ \A X \in MostCommon(Shared(q.title)) : \E R \in Recalled(q.title) : Stored(R) = RowsWith(X)
<1>1. PICK h : h = Hits(q.title)
  OBVIOUS
<1>2. PICK k : k = Shared(q.title)
  OBVIOUS
<1>3. PICK S : S = DOMAIN h
  OBVIOUS
<1>4. PICK Y : Y = DOMAIN k
  OBVIOUS
<1>5. PICK f : f = [n \in S |-> matcher.slots[n].id]
  OBVIOUS
<1>6. PICK b : b = [x \in Y |-> matcher.slotOf[x]]
  OBVIOUS
<1>7. /\ \A n \in S : /\ n \in DOMAIN matcher.slots /\ matcher.slots[n] # Gone
                      /\ f[n] = matcher.slots[n].id /\ f[n] \in Y /\ b[f[n]] = n /\ k[f[n]] = h[n]
      /\ \A x \in Y : /\ x \in Ids /\ Known(x) /\ records[x].matchable
                      /\ b[x] = matcher.slotOf[x] /\ b[x] \in S /\ f[b[x]] = x
  BY <1>1, <1>2, <1>3, <1>4, <1>5, <1>6, HitsAreShared
<1>8. IsFiniteSet(Y) /\ IsFiniteSet(S)
  <2>1. Y \subseteq Ids
    BY <1>7
  <2>2. IsFiniteSet(Y)
    BY <2>1, MatchAssumption, FS_Subset
  <2>3. b \in [Y -> S]
    BY <1>6, <1>7
  <2>4. \A n \in S : \E x \in Y : b[x] = n
    BY <1>7
  <2>5. b \in Surjection(Y, S)
    BY <2>3, <2>4 DEF Surjection
  <2> QED BY <2>2, <2>5, FS_Surjection
<1>9. ASSUME NEW R \in MostCommon(h)
      PROVE  \E X \in MostCommon(k) : Stored(R) = RowsWith(X)
  <2>1. PICK X : X = {f[n] : n \in R}
    OBVIOUS
  <2>2. R \subseteq S
    BY <1>3 DEF MostCommon
  <2>3. X \in MostCommon(k)
    <3>1. X \in SUBSET Y /\ \A x \in Y : x \in X <=> b[x] \in R
      BY <1>7, <2>1, <2>2
    <3>2. /\ \A n \in S : f[n] \in Y /\ b[f[n]] = n /\ k[f[n]] = h[n]
          /\ \A x \in Y : b[x] \in S /\ f[b[x]] = x
      BY <1>7
    <3> QED BY <1>3, <1>4, <1>8, <3>1, <3>2, MostCommonCarried
  <2>4. X \in SUBSET Ids
    BY <1>7, <2>1, <2>2
  <2>5. ASSUME NEW n \in R
        PROVE  n \in DOMAIN matcher.slots /\ matcher.slots[n] # Gone /\ matcher.slots[n].id \in X
    BY <1>7, <2>1, <2>2
  <2>6. ASSUME NEW x \in X PROVE Known(x) /\ records[x].matchable /\ matcher.slotOf[x] \in R
    <3>1. PICK n \in R : x = f[n]
      BY <2>1
    <3> QED BY <1>7, <2>2, <3>1
  <2>7. Stored(R) = RowsWith(X)
    BY <2>4, <2>5, <2>6, NamedRows
  <2> QED BY <2>3, <2>7
<1>10. ASSUME NEW X \in MostCommon(k)
       PROVE  \E R \in MostCommon(h) : Stored(R) = RowsWith(X)
  <2>1. PICK R : R = {b[x] : x \in X}
    OBVIOUS
  <2>2. X \subseteq Y
    BY <1>4 DEF MostCommon
  <2>3. R \in MostCommon(h)
    <3>1. R \in SUBSET S /\ \A n \in S : n \in R <=> f[n] \in X
      BY <1>7, <2>1, <2>2
    <3>2. /\ \A x \in Y : b[x] \in S /\ f[b[x]] = x /\ h[b[x]] = k[x]
          /\ \A n \in S : f[n] \in Y /\ b[f[n]] = n
      BY <1>7
    <3> QED BY <1>3, <1>4, <1>8, <3>1, <3>2, MostCommonCarried
  <2>4. X \in SUBSET Ids
    BY <1>7, <2>2
  <2>5. ASSUME NEW n \in R
        PROVE  n \in DOMAIN matcher.slots /\ matcher.slots[n] # Gone /\ matcher.slots[n].id \in X
    <3>1. PICK x \in X : n = b[x]
      BY <2>1
    <3> QED BY <1>7, <2>2, <3>1
  <2>6. ASSUME NEW x \in X PROVE Known(x) /\ records[x].matchable /\ matcher.slotOf[x] \in R
    BY <1>7, <2>1, <2>2
  <2>7. Stored(R) = RowsWith(X)
    BY <2>4, <2>5, <2>6, NamedRows
  <2> QED BY <2>3, <2>7
<1> QED BY <1>1, <1>2, <1>9, <1>10 DEF Recalled

LEMMA LookupIsScan ==
    ASSUME MatchInv, NEW q \in Contents
    PROVE  LookUp(q) = ScanFor(q)
<1>1. /\ records \in [Ids -> Contents \cup {Gone}] /\ matcher \in MatcherType /\ IndexesBut(matcher, 0)
  BY DEF MatchInv, MatcherOf
<1>2. /\ matcher.slots \in Slots /\ matcher.exact \in [MatchKeys -> SUBSET Nat]
      /\ matcher.title \in [SUBSET Grams -> SUBSET Nat] /\ matcher.gram \in [Grams -> SUBSET Nat]
      /\ DOMAIN matcher.slots \subseteq Nat \ {0}
  BY <1>1 DEF MatcherType, Slots
<1>3. KeyOf(q) \in MatchKeys /\ q.title \in SUBSET Grams
  BY ContentShape
<1>4. Stored(matcher.exact[KeyOf(q)]) =
        RowsWith({y \in Ids : Known(y) /\ records[y].matchable /\ KeyOf(records[y]) = KeyOf(q)})
  <2>1. PICK X : X = {y \in Ids : Known(y) /\ records[y].matchable /\ KeyOf(records[y]) = KeyOf(q)}
    OBVIOUS
  <2>2. PICK S : S = matcher.exact[KeyOf(q)]
    OBVIOUS
  <2>3. S \subseteq Nat /\ \A n \in Nat : n \in S <=> n # 0 /\ n \in DOMAIN matcher.slots /\ matcher.slots[n] # Gone
                                                    /\ KeyOf(matcher.slots[n].content) = KeyOf(q)
    BY <1>1, <1>2, <1>3, <2>2 DEF IndexesBut
  <2>4. ASSUME NEW n \in S
        PROVE  n \in DOMAIN matcher.slots /\ matcher.slots[n] # Gone /\ matcher.slots[n].id \in X
    <3>1. n \in DOMAIN matcher.slots /\ matcher.slots[n] # Gone /\ KeyOf(matcher.slots[n].content) = KeyOf(q)
      BY <2>3
    <3> QED BY <2>1, <3>1, SlotOfRecord
  <2>5. ASSUME NEW x \in X
        PROVE  Known(x) /\ records[x].matchable /\ matcher.slotOf[x] \in S
    <3>1. x \in Ids /\ Known(x) /\ records[x].matchable /\ KeyOf(records[x]) = KeyOf(q)
      BY <2>1
    <3>2. /\ matcher.slotOf[x] \in DOMAIN matcher.slots /\ matcher.slots[matcher.slotOf[x]] # Gone
          /\ matcher.slots[matcher.slotOf[x]].content = records[x]
      BY <3>1, RecordOfSlot
    <3> QED BY <1>2, <2>3, <3>1, <3>2
  <2>6. Stored(S) = RowsWith(X)
    BY <2>1, <2>4, <2>5, NamedRows
  <2> QED BY <2>1, <2>2, <2>6
<1>5. Stored(matcher.title[q.title]) =
        RowsWith({y \in Ids : Known(y) /\ records[y].matchable /\ records[y].title = q.title})
  <2>1. PICK X : X = {y \in Ids : Known(y) /\ records[y].matchable /\ records[y].title = q.title}
    OBVIOUS
  <2>2. PICK S : S = matcher.title[q.title]
    OBVIOUS
  <2>3. S \subseteq Nat /\ \A n \in Nat : n \in S <=> n # 0 /\ n \in DOMAIN matcher.slots /\ matcher.slots[n] # Gone
                                                    /\ matcher.slots[n].content.title = q.title
    BY <1>1, <1>2, <1>3, <2>2 DEF IndexesBut
  <2>4. ASSUME NEW n \in S
        PROVE  n \in DOMAIN matcher.slots /\ matcher.slots[n] # Gone /\ matcher.slots[n].id \in X
    <3>1. n \in DOMAIN matcher.slots /\ matcher.slots[n] # Gone /\ matcher.slots[n].content.title = q.title
      BY <2>3
    <3> QED BY <2>1, <3>1, SlotOfRecord
  <2>5. ASSUME NEW x \in X
        PROVE  Known(x) /\ records[x].matchable /\ matcher.slotOf[x] \in S
    <3>1. x \in Ids /\ Known(x) /\ records[x].matchable /\ records[x].title = q.title
      BY <2>1
    <3>2. /\ matcher.slotOf[x] \in DOMAIN matcher.slots /\ matcher.slots[matcher.slotOf[x]] # Gone
          /\ matcher.slots[matcher.slotOf[x]].content = records[x]
      BY <3>1, RecordOfSlot
    <3> QED BY <1>2, <2>3, <3>1, <3>2
  <2>6. Stored(S) = RowsWith(X)
    BY <2>1, <2>4, <2>5, NamedRows
  <2> QED BY <2>1, <2>2, <2>6
<1>6. /\ \A R \in Recalled(q.title) : \E X \in MostCommon(Shared(q.title)) : Stored(R) = RowsWith(X)
      /\ \A X \in MostCommon(Shared(q.title)) : \E R \in Recalled(q.title) : Stored(R) = RowsWith(X)
  BY RecallIsScan
<1>7. PICK E : E = Stored(matcher.exact[KeyOf(q)])
  OBVIOUS
<1>8. PICK T : T = Stored(matcher.title[q.title])
  OBVIOUS
<1>9. LookUp(q) = {Answer(E, T, Stored(R), q) : R \in Recalled(q.title)}
  BY <1>7, <1>8 DEF LookUp
<1>10. ScanFor(q) = {Answer(E, T, RowsWith(X), q) : X \in MostCommon(Shared(q.title))}
  BY <1>4, <1>5, <1>7, <1>8 DEF ScanFor, Scanned
<1>11. ASSUME NEW y \in LookUp(q) PROVE y \in ScanFor(q)
  <2>1. PICK R \in Recalled(q.title) : y = Answer(E, T, Stored(R), q)
    BY <1>9
  <2>2. PICK X \in MostCommon(Shared(q.title)) : Stored(R) = RowsWith(X)
    BY <1>6
  <2> QED BY <1>10, <2>1, <2>2
<1>12. ASSUME NEW y \in ScanFor(q) PROVE y \in LookUp(q)
  <2>1. PICK X \in MostCommon(Shared(q.title)) : y = Answer(E, T, RowsWith(X), q)
    BY <1>10
  <2>2. PICK R \in Recalled(q.title) : Stored(R) = RowsWith(X)
    BY <1>6
  <2> QED BY <1>9, <2>1, <2>2
<1> QED BY <1>11, <1>12

LEMMA ListedInOrder ==
    ASSUME MatchInv
    PROVE  InOrder
<1>1. /\ keys \in Seq(Ids) /\ order \in Seq(Ids) /\ position \in [Ids -> Nat]
      /\ \A i \in DOMAIN keys : records[keys[i]] # Gone
      /\ \A x \in Ids : records[x] # Gone => \E i \in DOMAIN keys : keys[i] = x
      /\ \A x \in Ids : position[x] # 0 => position[x] \in DOMAIN order /\ order[position[x]] = x
      /\ \A x \in Ids : (position[x] # 0 <=> records[x] # Gone)
      /\ \A i, j \in DOMAIN keys : i < j => position[keys[i]] < position[keys[j]]
  BY DEF MatchInv, Ordering
<1>2. (\A i \in DOMAIN keys : keys[i] \in Ids) /\ (\A p \in DOMAIN order : order[p] \in Ids)
  BY <1>1
<1>3. ASSUME NEW i \in DOMAIN keys
      PROVE  position[keys[i]] \in DOMAIN order /\ order[position[keys[i]]] = keys[i]
  BY <1>1, <1>2
<1>4. ASSUME NEW i \in DOMAIN keys PROVE position[keys[i]] \in Shown
  BY <1>1, <1>3 DEF Shown, Known
<1>5. ASSUME NEW p \in Shown PROVE \E i \in DOMAIN keys : position[keys[i]] = p
  <2>1. p \in DOMAIN order /\ position[order[p]] = p /\ records[order[p]] # Gone
    BY DEF Shown, Known
  <2>2. PICK i \in DOMAIN keys : keys[i] = order[p]
    BY <1>1, <1>2, <2>1
  <2> QED BY <2>1, <2>2
<1>6. Shown = {position[keys[i]] : i \in DOMAIN keys}
  BY <1>4, <1>5
<1> QED BY <1>1, <1>3, <1>6 DEF InOrder

\* Whatever additions, edits, removals and rebuilds came before, the indexes of the
\* question bank in memory may answer a question just as a scan of the current records
\* may that looks at the CandidateLimit records sharing most n-grams with it, and a
\* snapshot lists the records in the order of the dictionary, for every similarity of
\* titles, every limit and every length at which the order is compacted.
THEOREM LookupsMatchScan == MatchSpec => []LooksUpLikeScan
<1>1. MatchInv => LooksUpLikeScan
  BY LookupIsScan, ListedInOrder DEF LooksUpLikeScan
<1> QED BY <1>1, MatchInvInductive, PTL

-----------------------------------------------------------------------------
(***************************************************************************)
(* AnswerCache: what the journal keeps.                                    *)
(***************************************************************************)

\* An entry is contested exactly when it has met a conflict.
CachedEntry == {e \in Entry : e.status = "conflict" <=> e.conflicts # 0}

\* The lines of a journal: whole ones carry an entry, torn ones none.
Whole == [key : Keys, entry : CachedEntry, ended : BOOLEAN]
Scrap == [key : {Torn}, entry : {NoEntry}, ended : BOOLEAN]
Journals == Seq(Whole \cup Scrap)

\* Only the last line of a file may lack its line feed.
EndedBefore(j) == \A i \in DOMAIN j : i # Len(j) => j[i].ended

Tasks ==
  [at : {"none", "queued"}, todo : {{}}, count : {0}, temp : {<<>>}]
  \cup [at : {"writing"}, todo : SUBSET Keys, count : Nat, temp : Seq(Whole)]

CacheTypes ==
  /\ entries \in [Objects -> [Keys -> CachedEntry \cup {NoEntry}]]
  /\ recorded \in [Objects -> Nat]
  /\ compaction \in [Objects -> Tasks]
  /\ journal \in Journals /\ EndedBefore(journal)
  /\ serving \in Objects
  /\ damaged \in BOOLEAN
  /\ said \in [Keys -> SUBSET Answers]

\* A temporary file has whole lines only, what it lacks is live, and the count
\* never falls back to the one of the snapshot.
Compacting ==
  \A o \in Objects : compaction[o].at = "writing" =>
    /\ \A k \in compaction[o].todo : entries[o][k] # NoEntry
    /\ \A i \in DOMAIN compaction[o].temp : compaction[o].temp[i].ended
    /\ compaction[o].count <= recorded[o]

\* What the file, the temporary file and the history tell of the entries es.
Reproduced(j, es) == ~OpenTail(j) /\ LoadedEntries(j) = es
Copying(c, n, es) ==
  c.at = "writing" /\ c.count = n =>
    \A k \in Keys : LoadedEntries(c.temp)[k] = IF k \in c.todo THEN NoEntry ELSE es[k]
Heard(s, es) ==
  \A k \in Keys :
    /\ es[k] = NoEntry => s[k] = {}
    /\ es[k] # NoEntry /\ es[k].conflicts = 0 => s[k] = {es[k].answer}

\* The inductive invariant.
CacheInv ==
  /\ CacheTypes
  /\ Compacting
  /\ ~damaged =>
       /\ Reproduced(journal, entries[serving])
       /\ Copying(compaction[serving], recorded[serving], entries[serving])
       /\ Heard(said, entries[serving])

-----------------------------------------------------------------------------
(* The last line of a key.                                                 *)

LEMMA LeastNatural ==
  ASSUME NEW S \in SUBSET Nat, S # {}
  PROVE  \E x \in S : \A y \in S : x <= y
<1>1. PICK R : R = OpToRel(<, Nat)
  OBVIOUS
<1>2. ASSUME NEW x \in Nat, NEW y \in Nat, x < y PROVE <<x, y>> \in R
  BY <1>1, <1>2 DEF OpToRel
<1>3. IsWellFoundedOn(R, Nat)
  BY <1>1, NatLessThanWellFounded
<1>4. PICK x \in S : \A y \in S : ~(<<y, x>> \in R)
  BY <1>3, WFMin
<1>5. ASSUME NEW y \in S PROVE x <= y
  <2>1. x \in Nat /\ y \in Nat /\ ~(<<y, x>> \in R)
    BY <1>4
  <2>2. ~(y < x)
    BY <1>2, <2>1
  <2> QED BY <2>1, <2>2
<1> QED BY <1>5

\* A set of indices of a sequence has a greatest one.
LEMMA GreatestIndex ==
  ASSUME NEW n \in Nat, NEW S \in SUBSET (1..n), S # {}
  PROVE  \E x \in S : \A y \in S : y <= x
<1> DEFINE T == {n - y : y \in S}
<1>1. T \in SUBSET Nat /\ T # {}
  <2>1. ASSUME NEW y \in S PROVE n - y \in Nat
    OBVIOUS
  <2>2. PICK y \in S : TRUE
    OBVIOUS
  <2>3. n - y \in T
    BY <2>2
  <2>4. T \in SUBSET Nat
    BY <2>1
  <2> QED BY <2>3, <2>4
<1>2. PICK z \in T : \A y \in T : z <= y
  BY <1>1, LeastNatural
<1>3. PICK x \in S : z = n - x
  BY <1>2
<1>4. ASSUME NEW y \in S PROVE y <= x
  <2>1. n - y \in T
    OBVIOUS
  <2>2. n - x <= n - y
    BY <1>2, <1>3, <2>1
  <2> QED BY <2>2
<1> QED BY <1>4

LEMMA JournalShape ==
  ASSUME NEW j \in Journals
  PROVE  /\ Len(j) \in Nat /\ DOMAIN j = 1..Len(j)
         /\ \A i \in DOMAIN j : j[i] \in Whole \cup Scrap
         /\ \A k \in Keys : LinesOf(j, k) \in SUBSET (1..Len(j))
         /\ \A k \in Keys : \A i \in LinesOf(j, k) : j[i] \in Whole /\ j[i].key = k
<1>1. Len(j) \in Nat /\ DOMAIN j = 1..Len(j) /\ \A i \in DOMAIN j : j[i] \in Whole \cup Scrap
  BY DEF Journals
<1>2. ASSUME NEW k \in Keys PROVE LinesOf(j, k) \in SUBSET (1..Len(j))
  BY <1>1 DEF LinesOf
<1>3. ASSUME NEW k \in Keys, NEW i \in LinesOf(j, k) PROVE j[i] \in Whole /\ j[i].key = k
  BY <1>1 DEF LinesOf, Scrap
<1> QED BY <1>1, <1>2, <1>3

LEMMA LastLineIs ==
  ASSUME NEW j \in Journals, NEW k \in Keys,
         NEW i \in LinesOf(j, k), \A n \in LinesOf(j, k) : n <= i
  PROVE  LastLine(j, k) = i
<1>1. ASSUME NEW m \in LinesOf(j, k), \A n \in LinesOf(j, k) : n <= m PROVE m = i
  <2>1. m \in Nat /\ i \in Nat /\ m <= i /\ i <= m
    BY <1>1, JournalShape
  <2> QED BY <2>1
<1> QED BY <1>1, Zenon DEF LastLine

LEMMA LastLineLast ==
  ASSUME NEW j \in Journals, NEW k \in Keys, LinesOf(j, k) # {}
  PROVE  LastLine(j, k) \in LinesOf(j, k) /\ \A n \in LinesOf(j, k) : n <= LastLine(j, k)
<1>1. PICK i \in LinesOf(j, k) : \A n \in LinesOf(j, k) : n <= i
  BY JournalShape, GreatestIndex
<1> QED BY <1>1, LastLineIs, Zenon

LEMMA LoadedTyped ==
  ASSUME NEW j \in Journals
  PROVE  LoadedEntries(j) \in [Keys -> CachedEntry \cup {NoEntry}]
<1>1. ASSUME NEW k \in Keys, LinesOf(j, k) # {} PROVE j[LastLine(j, k)].entry \in CachedEntry
  <2>1. j[LastLine(j, k)] \in Whole
    BY <1>1, LastLineLast, JournalShape
  <2> QED BY <2>1 DEF Whole
<1> QED BY <1>1 DEF LoadedEntries

\* What a file tells of one key is told by its last line of that key.
LEMMA LoadedOf ==
  ASSUME NEW j, NEW k \in Keys
  PROVE  LoadedEntries(j)[k] =
           IF LinesOf(j, k) = {} THEN NoEntry ELSE j[LastLine(j, k)].entry
BY DEF LoadedEntries

-----------------------------------------------------------------------------
(* A line appended.                                                        *)

LEMMA AppendTyped ==
  ASSUME NEW j \in Journals, NEW l \in Whole \cup Scrap
  PROVE  /\ Append(j, l) \in Journals
         /\ Len(Append(j, l)) = Len(j) + 1
         /\ DOMAIN Append(j, l) = 1..(Len(j) + 1)
         /\ \A i \in DOMAIN j : Append(j, l)[i] = j[i]
         /\ Append(j, l)[Len(j) + 1] = l
BY DEF Journals

LEMMA LoadedAppend ==
  ASSUME NEW j \in Journals, NEW l \in Whole, NEW k \in Keys
  PROVE  LoadedEntries(Append(j, l))[k] = IF k = l.key THEN l.entry ELSE LoadedEntries(j)[k]
<1>1. PICK J : J = Append(j, l)
  OBVIOUS
<1>2. /\ J \in Journals /\ DOMAIN J = 1..(Len(j) + 1) /\ J[Len(j) + 1] = l
      /\ Len(j) \in Nat /\ DOMAIN j = 1..Len(j)
      /\ \A i \in DOMAIN j : J[i] = j[i]
  BY <1>1, AppendTyped, JournalShape
<1>3. CASE k = l.key
  <2>1. Len(j) + 1 \in LinesOf(J, k)
    BY <1>2, <1>3 DEF LinesOf
  <2>2. ASSUME NEW n \in LinesOf(J, k) PROVE n <= Len(j) + 1
    BY <1>2 DEF LinesOf
  <2>3. LastLine(J, k) = Len(j) + 1
    BY <1>2, <2>1, <2>2, LastLineIs
  <2>4. LoadedEntries(J)[k] = J[Len(j) + 1].entry
    BY <2>1, <2>3, LoadedOf
  <2> QED BY <1>1, <1>2, <1>3, <2>4
<1>4. CASE k # l.key
  <2>1. LinesOf(J, k) = LinesOf(j, k)
    BY <1>2, <1>4 DEF LinesOf
  <2>2. LastLine(J, k) = LastLine(j, k)
    BY <2>1, Zenon DEF LastLine
  <2>3. ASSUME LinesOf(j, k) # {} PROVE J[LastLine(j, k)] = j[LastLine(j, k)]
    <3>1. LastLine(j, k) \in DOMAIN j
      BY <2>3, LastLineLast, JournalShape
    <3> QED BY <1>2, <3>1
  <2>4. LoadedEntries(J)[k] = LoadedEntries(j)[k]
    <3>1. CASE LinesOf(j, k) = {}
      BY <2>1, <3>1, LoadedOf
    <3>2. CASE LinesOf(j, k) # {}
      BY <2>1, <2>2, <2>3, <3>2, LoadedOf
    <3> QED BY <3>1, <3>2
  <2> QED BY <1>1, <1>4, <2>4
<1> QED BY <1>3, <1>4

LEMMA EmptyLoaded ==
  ASSUME NEW k \in Keys
  PROVE  LoadedEntries(<<>>)[k] = NoEntry
<1>1. LinesOf(<<>>, k) = {}
  BY DEF LinesOf
<1> QED BY <1>1, LoadedOf

-----------------------------------------------------------------------------
(* The end of the file.                                                    *)

LEMMA WrittenTyped ==
  ASSUME NEW j \in Journals, EndedBefore(j), NEW l \in Whole \cup Scrap
  PROVE  Written(j, l) \in Journals /\ EndedBefore(Written(j, l))
<1>1. Len(j) \in Nat /\ DOMAIN j = 1..Len(j)
  BY JournalShape
<1>2. CASE OpenTail(j)
  <2>1. l.ended \in BOOLEAN
    BY DEF Whole, Scrap
  <2>2. TornLine(l.ended) \in Scrap
    BY <2>1 DEF TornLine, Scrap
  <2>3. PICK J : J = [j EXCEPT ![Len(j)] = TornLine(l.ended)]
    OBVIOUS
  <2>4. J \in Journals /\ Len(J) = Len(j) /\ DOMAIN J = DOMAIN j
        /\ \A i \in DOMAIN j : i # Len(j) => J[i] = j[i]
    <3>1. PICK s \in Scrap : s = TornLine(l.ended)
      BY <2>2
    <3>2. J = [j EXCEPT ![Len(j)] = s]
      BY <2>3, <3>1
    <3>3. Len(j) # 0
      BY <1>2 DEF OpenTail, Journals
    <3> QED BY <1>1, <3>2, <3>3 DEF Journals
  <2>5. EndedBefore(J)
    BY <2>4 DEF EndedBefore
  <2> QED BY <1>2, <2>3, <2>4, <2>5, Zenon DEF Written
<1>3. CASE ~OpenTail(j)
  <2>1. PICK J : J = Append(j, l)
    OBVIOUS
  <2>2. /\ J \in Journals /\ Len(J) = Len(j) + 1 /\ DOMAIN J = 1..(Len(j) + 1)
        /\ \A i \in DOMAIN j : J[i] = j[i]
    BY <2>1, AppendTyped
  <2>3. ASSUME NEW i \in DOMAIN J, i # Len(J) PROVE J[i].ended
    <3>1. i \in DOMAIN j /\ J[i] = j[i] /\ (i = Len(j) => j # <<>>)
      BY <1>1, <2>2, <2>3
    <3> QED BY <1>3, <3>1 DEF EndedBefore, OpenTail
  <2> QED BY <1>3, <2>1, <2>2, <2>3, Zenon DEF Written, EndedBefore
<1> QED BY <1>2, <1>3

LEMMA FailedTyped ==
  ASSUME NEW j \in Journals, EndedBefore(j), NEW l \in Whole, NEW f \in FailedAppends(j, l)
  PROVE  f \in Journals /\ EndedBefore(f)
<1>1. TornLine(FALSE) \in Scrap
  BY DEF TornLine, Scrap
<1>2. [l EXCEPT !.ended = FALSE] \in Whole
  BY DEF Whole
<1>3. f = j \/ f = Written(j, TornLine(FALSE)) \/ f = Written(j, [l EXCEPT !.ended = FALSE])
  BY DEF FailedAppends
<1> QED BY <1>1, <1>2, <1>3, WrittenTyped, Zenon

\* What a start mends tells the same, and its last line is ended.
LEMMA MendedTells ==
  ASSUME NEW j \in Journals, EndedBefore(j)
  PROVE  /\ MendedJournal(j) \in Journals /\ EndedBefore(MendedJournal(j))
         /\ Reproduced(MendedJournal(j), LoadedEntries(j))
<1>1. Len(j) \in Nat /\ DOMAIN j = 1..Len(j)
  BY JournalShape
<1>2. CASE ~OpenTail(j)
  BY <1>2, Zenon DEF MendedJournal, Reproduced
<1>3. CASE OpenTail(j) /\ j[Len(j)].key = Torn
  <2>1. PICK J : J = SubSeq(j, 1, Len(j) - 1)
    OBVIOUS
  <2>2. Len(j) # 0
    BY <1>3 DEF OpenTail, Journals
  <2>3. /\ J \in Journals /\ Len(J) = Len(j) - 1 /\ DOMAIN J = 1..(Len(j) - 1)
        /\ \A i \in 1..(Len(j) - 1) : J[i] = j[i]
    BY <2>1, <2>2, <1>1, SubSeqProperties DEF Journals
  <2>4. ASSUME NEW i \in DOMAIN J PROVE J[i].ended
    BY <1>1, <2>3 DEF EndedBefore
  <2>5. ASSUME NEW k \in Keys PROVE LoadedEntries(J)[k] = LoadedEntries(j)[k]
    <3>1. LinesOf(J, k) = LinesOf(j, k)
      BY <1>1, <1>3, <2>2, <2>3 DEF LinesOf
    <3>2. LastLine(J, k) = LastLine(j, k)
      BY <3>1, Zenon DEF LastLine
    <3>3. CASE LinesOf(j, k) = {}
      BY <3>1, <3>3, LoadedOf
    <3>4. CASE LinesOf(j, k) # {}
      <4>1. LastLine(j, k) \in DOMAIN J
        BY <3>1, <3>2, <3>4, <2>3, LastLineLast, JournalShape
      <4>2. J[LastLine(j, k)] = j[LastLine(j, k)]
        BY <2>3, <4>1
      <4> QED BY <3>1, <3>2, <3>4, <4>2, LoadedOf
    <3> QED BY <3>3, <3>4
  <2>6. LoadedEntries(J) = LoadedEntries(j)
    BY <2>5 DEF LoadedEntries
  <2>7. EndedBefore(J) /\ ~OpenTail(J)
    <3>1. J # <<>> => Len(J) \in DOMAIN J
      BY <2>3 DEF Journals
    <3> QED BY <2>4, <3>1 DEF EndedBefore, OpenTail
  <2>8. MendedJournal(j) = J
    BY <1>3, <2>1, Zenon DEF MendedJournal
  <2> QED BY <2>3, <2>6, <2>7, <2>8, Zenon DEF Reproduced
<1>4. CASE OpenTail(j) /\ j[Len(j)].key # Torn
  <2>1. PICK J : J = [j EXCEPT ![Len(j)].ended = TRUE]
    OBVIOUS
  <2>2. Len(j) # 0
    BY <1>4 DEF OpenTail, Journals
  <2>3. j[Len(j)] \in Whole
    BY <1>1, <1>4, <2>2, JournalShape DEF Scrap
  <2>4. PICK l : l = [j[Len(j)] EXCEPT !.ended = TRUE]
    OBVIOUS
  <2>5. l \in Whole /\ l.key = j[Len(j)].key /\ l.entry = j[Len(j)].entry /\ l.ended
    BY <2>3, <2>4 DEF Whole
  <2>6. J = [j EXCEPT ![Len(j)] = l]
    BY <2>1, <2>4
  <2>7. J \in Journals /\ Len(J) = Len(j) /\ DOMAIN J = DOMAIN j /\ J[Len(j)] = l
        /\ \A i \in DOMAIN j : i # Len(j) => J[i] = j[i]
    BY <1>1, <2>2, <2>5, <2>6 DEF Journals
  <2>8. \A i \in DOMAIN j : J[i].key = j[i].key /\ J[i].entry = j[i].entry /\ J[i].ended
    BY <2>5, <2>7 DEF EndedBefore
  <2>9. ASSUME NEW k \in Keys PROVE LoadedEntries(J)[k] = LoadedEntries(j)[k]
    <3>1. LinesOf(J, k) = LinesOf(j, k)
      BY <2>7, <2>8 DEF LinesOf
    <3>2. LastLine(J, k) = LastLine(j, k)
      BY <3>1, Zenon DEF LastLine
    <3>3. CASE LinesOf(j, k) = {}
      BY <3>1, <3>3, LoadedOf
    <3>4. CASE LinesOf(j, k) # {}
      <4>1. LastLine(j, k) \in DOMAIN j
        BY <3>4, <1>1, LastLineLast, JournalShape
      <4> QED BY <2>8, <3>1, <3>2, <3>4, <4>1, LoadedOf
    <3> QED BY <3>3, <3>4
  <2>10. LoadedEntries(J) = LoadedEntries(j)
    BY <2>9 DEF LoadedEntries
  <2>11. EndedBefore(J) /\ ~OpenTail(J)
    BY <1>1, <2>2, <2>7, <2>8 DEF EndedBefore, OpenTail
  <2>12. MendedJournal(j) = J
    BY <1>4, <2>1, Zenon DEF MendedJournal
  <2> QED BY <2>7, <2>10, <2>11, <2>12, Zenon DEF Reproduced
<1> QED BY <1>2, <1>3, <1>4

-----------------------------------------------------------------------------
(* The entries.                                                            *)

LEMMA NoEntryIsNone == NoEntry \notin CachedEntry
BY DEF NoEntry, CachedEntry, Entry

\* An entry recorded without a conflict repeats the answers before it.
LEMMA RecordedCached ==
  ASSUME NEW e \in CachedEntry \cup {NoEntry}, NEW a \in Answers, NEW force \in BOOLEAN
  PROVE  \E f \in CachedEntry :
            /\ f = Recorded(e, a, force)
            /\ f.conflicts = 0 => /\ f.answer = a
                                  /\ e # NoEntry => e.conflicts = 0 /\ e.answer = a
<1>1. CASE e = NoEntry
  <2>1. PICK s \in {"pending", "trusted"} :
            s = IF force \/ MinConfirmations <= 1 THEN "trusted" ELSE "pending"
    OBVIOUS
  <2>2. PICK f : f = [answer |-> a, confirmations |-> 1, conflicts |-> 0, status |-> s]
    OBVIOUS
  <2>3. f \in CachedEntry /\ f.answer = a
    BY <2>2 DEF CachedEntry, Entry
  <2>4. f = Recorded(e, a, force)
    BY <1>1, <2>1, <2>2, Zenon DEF Recorded, FirstEntry
  <2> QED BY <1>1, <2>3, <2>4, Zenon
<1>2. CASE e # NoEntry /\ e.answer # a
  <2>1. PICK n \in Nat \ {0} : n = e.conflicts + 1
    BY <1>2 DEF CachedEntry, Entry
  <2>2. PICK g : g = [e EXCEPT !.conflicts = n]
    OBVIOUS
  <2>3. PICK f : f = [g EXCEPT !.status = "conflict"]
    OBVIOUS
  <2>4. g \in Entry /\ g.conflicts = n
    BY <1>2, <2>2 DEF CachedEntry, Entry
  <2>5. f \in Entry /\ f.conflicts = n /\ f.status = "conflict"
    BY <2>3, <2>4 DEF Entry
  <2>6. f \in CachedEntry /\ f.conflicts # 0
    BY <2>1, <2>5 DEF CachedEntry
  <2>7. f = Recorded(e, a, force)
    BY <1>2, <2>1, <2>2, <2>3, Zenon DEF Recorded, Contested
  <2> QED BY <2>6, <2>7, Zenon
<1>3. CASE e # NoEntry /\ e.answer = a
  <2>1. PICK n \in Nat : n = e.confirmations + 1
    BY <1>3 DEF CachedEntry, Entry
  <2>2. PICK s : s = IF e.conflicts = 0 /\ (force \/ e.confirmations + 1 >= MinConfirmations)
                     THEN "trusted" ELSE e.status
    OBVIOUS
  <2>3. PICK g : g = [e EXCEPT !.confirmations = n]
    OBVIOUS
  <2>4. PICK f : f = [g EXCEPT !.status = s]
    OBVIOUS
  <2>5. /\ g \in Entry /\ g.conflicts = e.conflicts /\ g.answer = e.answer /\ g.status = e.status
        /\ e.status = "conflict" <=> e.conflicts # 0
    BY <1>3, <2>3 DEF CachedEntry, Entry
  <2>6. s \in {"pending", "trusted", "conflict"} /\ (s = "conflict" <=> e.conflicts # 0)
    <3>1. CASE e.conflicts = 0
      <4>1. e.status \in {"pending", "trusted", "conflict"} /\ e.status # "conflict"
        BY <1>3, <2>5, <3>1 DEF CachedEntry, Entry
      <4> QED BY <2>2, <3>1, <4>1
    <3>2. CASE e.conflicts # 0
      BY <2>2, <2>5, <3>2
    <3> QED BY <3>1, <3>2
  <2>7. f \in Entry /\ f.conflicts = e.conflicts /\ f.answer = e.answer /\ f.status = s
    BY <2>4, <2>5, <2>6 DEF Entry
  <2>8. f \in CachedEntry
    BY <2>6, <2>7 DEF CachedEntry
  <2>9. f = Recorded(e, a, force)
    BY <1>3, <2>1, <2>2, <2>3, <2>4, Zenon DEF Recorded, Confirmed
  <2> QED BY <1>3, <2>7, <2>8, <2>9, Zenon
<1> QED BY <1>1, <1>2, <1>3

LEMMA NoTaskTyped ==
  /\ NoTask \in Tasks /\ NoTask.at = "none"
  /\ [NoTask EXCEPT !.at = "queued"] \in Tasks /\ [NoTask EXCEPT !.at = "queued"].at = "queued"
BY DEF NoTask, Tasks

-----------------------------------------------------------------------------
(* An answer is recorded.                                                  *)

LEMMA RecordStep ==
  ASSUME CacheInv, NEW o \in Objects, NEW k \in Keys, NEW a \in Answers, NEW force \in BOOLEAN,
         Record(o, k, a, force)
  PROVE  CacheInv'
<1> USE DEF CacheInv, CacheTypes
<1>1. entries[o][k] \in CachedEntry \cup {NoEntry}
  OBVIOUS
<1>2. PICK e \in CachedEntry :
        /\ e = Recorded(entries[o][k], a, force)
        /\ e.conflicts = 0 => e.answer = a
        /\ e.conflicts = 0 /\ entries[o][k] # NoEntry =>
             entries[o][k].conflicts = 0 /\ entries[o][k].answer = a
  BY <1>1, RecordedCached
<1>3. PICK n : n = recorded[o] + 1
  OBVIOUS
<1>4. n \in Nat /\ n > recorded[o]
  BY <1>3
<1>5. PICK l : l = Line(k, e)
  OBVIOUS
<1>6. l \in Whole /\ l.key = k /\ l.entry = e
  BY <1>5 DEF Line, Whole
<1>7. /\ entries' = [entries EXCEPT ![o][k] = e]
      /\ said' = [said EXCEPT ![k] = @ \cup {a}]
      /\ serving' = serving
  BY <1>2, Zenon DEF Record
<1>8. \/ /\ journal' = Written(journal, l)
         /\ recorded' = [recorded EXCEPT ![o] = n]
         /\ compaction' = [compaction EXCEPT ![o] = TaskAfter(o, n, Used(o) \cup {k}, journal')]
         /\ damaged' = (damaged \/ o # serving)
      \/ /\ journal' \in FailedAppends(journal, l)
         /\ damaged' = TRUE
         /\ recorded' = recorded /\ compaction' = compaction
  BY <1>2, <1>3, <1>5, Zenon DEF Record
<1>9. journal' \in Journals /\ EndedBefore(journal')
  <2>1. CASE journal' = Written(journal, l)
    BY <1>6, <2>1, WrittenTyped
  <2>2. CASE journal' \in FailedAppends(journal, l)
    BY <1>6, <2>2, FailedTyped
  <2> QED BY <1>8, <2>1, <2>2
<1>10. recorded' \in [Objects -> Nat] /\ \A p \in Objects : recorded[p] <= recorded'[p]
  <2>1. recorded \in [Objects -> Nat]
    OBVIOUS
  <2>2. CASE recorded' = [recorded EXCEPT ![o] = n]
    BY <1>4, <2>1, <2>2
  <2>3. CASE recorded' = recorded
    BY <2>1, <2>3
  <2> QED BY <1>8, <2>2, <2>3
<1>11. /\ compaction' \in [Objects -> Tasks]
       /\ \A p \in Objects : compaction'[p].at = "writing" => compaction'[p] = compaction[p]
  <2>1. PICK c : c = TaskAfter(o, n, Used(o) \cup {k}, journal')
    OBVIOUS
  <2>2. c \in Tasks /\ (c.at = "writing" => c = compaction[o])
    <3>1. c = [NoTask EXCEPT !.at = "queued"] \/ c = compaction[o]
      BY <2>1, Zenon DEF TaskAfter
    <3>2. compaction[o] \in Tasks
      OBVIOUS
    <3>3. CASE c = [NoTask EXCEPT !.at = "queued"]
      <4>1. c.at = "queued"
        BY <3>3, NoTaskTyped, Zenon
      <4> QED BY <3>3, <4>1, NoTaskTyped
    <3> QED BY <3>1, <3>2, <3>3
  <2>3. compaction \in [Objects -> Tasks]
    OBVIOUS
  <2>4. CASE compaction' = [compaction EXCEPT ![o] = c]
    BY <2>2, <2>3, <2>4
  <2>5. CASE compaction' = compaction
    BY <2>3, <2>5
  <2> QED BY <1>8, <2>1, <2>4, <2>5
<1>12. CacheTypes'
  <2>1. entries' \in [Objects -> [Keys -> CachedEntry \cup {NoEntry}]]
    BY <1>7
  <2>2. said' \in [Keys -> SUBSET Answers]
    BY <1>7
  <2>3. damaged' \in BOOLEAN
    BY <1>8, Zenon
  <2> QED BY <1>7, <1>9, <1>10, <1>11, <2>1, <2>2, <2>3
<1>13. Compacting'
  <2>1. ASSUME NEW p \in Objects, compaction'[p].at = "writing"
        PROVE  /\ \A i \in compaction'[p].todo : entries'[p][i] # NoEntry
               /\ \A i \in DOMAIN compaction'[p].temp : compaction'[p].temp[i].ended
               /\ compaction'[p].count <= recorded'[p]
    <3>1. compaction'[p] = compaction[p] /\ compaction[p].at = "writing"
      BY <1>11, <2>1
    <3>2. compaction[p].count \in Nat
      BY <3>1 DEF Tasks
    <3>3. compaction[p].count <= recorded[p] /\ recorded[p] <= recorded'[p]
          /\ recorded[p] \in Nat /\ recorded'[p] \in Nat
      BY <1>10, <3>1 DEF Compacting
    <3>4. \A i \in DOMAIN compaction[p].temp : compaction[p].temp[i].ended
      BY <3>1 DEF Compacting
    <3>5. compaction[p].count <= recorded'[p]
      BY <3>2, <3>3
    <3>6. ASSUME NEW i \in compaction[p].todo PROVE entries'[p][i] # NoEntry
      <4>1. i \in Keys
        BY <3>1 DEF Tasks
      <4>2. entries[p][i] # NoEntry
        BY <3>1 DEF Compacting
      <4>3. entries'[p][i] \in {entries[p][i], e}
        BY <1>7, <4>1
      <4> QED BY <4>2, <4>3, NoEntryIsNone
    <3> QED BY <3>1, <3>4, <3>5, <3>6
  <2> QED BY <2>1 DEF Compacting
<1>14. ASSUME ~damaged'
       PROVE  /\ Reproduced(journal', entries'[serving'])
              /\ Copying(compaction'[serving'], recorded'[serving'], entries'[serving'])
              /\ Heard(said', entries'[serving'])
  <2>1. /\ o = serving /\ ~damaged
        /\ journal' = Written(journal, l)
        /\ recorded' = [recorded EXCEPT ![o] = n]
    BY <1>8, <1>14, Zenon
  <2>2. /\ Reproduced(journal, entries[o])
        /\ Heard(said, entries[o])
    BY <2>1
  <2>3. PICK es : es = entries[o]
    OBVIOUS
  <2>4. PICK fs : fs = [es EXCEPT ![k] = e]
    OBVIOUS
  <2>5. entries'[serving'] = fs /\ es \in [Keys -> CachedEntry \cup {NoEntry}]
        /\ fs \in [Keys -> CachedEntry \cup {NoEntry}]
    BY <1>7, <2>1, <2>3, <2>4
  <2>6. Reproduced(journal', fs)
    <3>1. journal' = Append(journal, l)
      BY <2>1, <2>2, Zenon DEF Written, Reproduced
    <3>2. \A i \in Keys : LoadedEntries(journal')[i] = IF i = k THEN e ELSE es[i]
      BY <1>6, <2>2, <2>3, <3>1, LoadedAppend DEF Reproduced
    <3>3. \A i \in Keys : LoadedEntries(journal')[i] = fs[i]
      BY <2>4, <2>5, <3>2
    <3>4. LoadedEntries(journal') \in [Keys -> CachedEntry \cup {NoEntry}]
      BY <1>9, LoadedTyped
    <3>5. LoadedEntries(journal') = fs
      BY <2>5, <3>3, <3>4
    <3>6. ~OpenTail(journal')
      <4>1. Len(journal') = Len(journal) + 1 /\ journal'[Len(journal) + 1] = l
        BY <1>6, <3>1, AppendTyped
      <4>2. l.ended
        BY <1>5 DEF Line
      <4> QED BY <4>1, <4>2 DEF OpenTail
    <3> QED BY <3>5, <3>6 DEF Reproduced
  <2>7. Copying(compaction'[serving'], recorded'[serving'], fs)
    <3>1. ASSUME compaction'[o].at = "writing" PROVE compaction'[o].count # recorded'[o]
      <4>1. compaction'[o] = compaction[o] /\ compaction[o].at = "writing"
        BY <1>11, <3>1
      <4>2. compaction[o].count \in Nat /\ compaction[o].count <= recorded[o]
            /\ recorded[o] \in Nat /\ recorded'[o] = n
        BY <2>1, <4>1 DEF Compacting, Tasks
      <4> QED BY <1>4, <4>1, <4>2
    <3> QED BY <1>7, <2>1, <3>1 DEF Copying
  <2>8. Heard(said', fs)
    <3>1. ASSUME NEW i \in Keys
          PROVE  /\ fs[i] = NoEntry => said'[i] = {}
                 /\ fs[i] # NoEntry /\ fs[i].conflicts = 0 => said'[i] = {fs[i].answer}
      <4>1. CASE i = k
        <5>1. fs[i] = e /\ e # NoEntry
          BY <2>4, <2>5, <4>1, NoEntryIsNone
        <5>2. ASSUME e.conflicts = 0 PROVE said'[i] = {e.answer}
          <6>1. said'[i] = said[k] \cup {a} /\ e.answer = a
            BY <1>2, <1>7, <4>1, <5>2
          <6>2. CASE entries[o][k] = NoEntry
            BY <2>2, <6>1, <6>2 DEF Heard
          <6>3. CASE entries[o][k] # NoEntry
            <7>1. entries[o][k].conflicts = 0 /\ entries[o][k].answer = a
              BY <1>2, <5>2, <6>3
            <7>2. said[k] = {a}
              BY <2>2, <6>3, <7>1 DEF Heard
            <7> QED BY <6>1, <7>2
          <6> QED BY <6>2, <6>3
        <5> QED BY <5>1, <5>2
      <4>2. CASE i # k
        <5>1. fs[i] = es[i] /\ said'[i] = said[i]
          BY <1>7, <2>4, <2>5, <4>2
        <5> QED BY <2>2, <2>3, <5>1 DEF Heard
      <4> QED BY <4>1, <4>2
    <3> QED BY <3>1 DEF Heard
  <2> QED BY <2>5, <2>6, <2>7, <2>8
<1> QED BY <1>12, <1>13, <1>14

-----------------------------------------------------------------------------
(* A compaction.                                                           *)

LEMMA SnapshotStep ==
  ASSUME CacheInv, NEW o \in Objects, TakeSnapshot(o)
  PROVE  CacheInv'
<1> USE DEF CacheInv, CacheTypes
<1>1. PICK c : c = [at |-> "writing", todo |-> Used(o), count |-> recorded[o], temp |-> <<>>]
  OBVIOUS
<1>2. /\ compaction' = [compaction EXCEPT ![o] = c]
      /\ damaged' = (damaged \/ \E p \in Objects : compaction[p].at = "writing")
      /\ entries' = entries /\ recorded' = recorded /\ journal' = journal
      /\ serving' = serving /\ said' = said
  BY <1>1, Zenon DEF TakeSnapshot
<1>3. /\ c \in Tasks /\ c.todo = Used(o) /\ c.count = recorded[o] /\ c.temp = <<>>
  BY <1>1 DEF Tasks, Used
<1>4. compaction' \in [Objects -> Tasks] /\ compaction'[o] = c
      /\ \A p \in Objects : p # o => compaction'[p] = compaction[p]
  BY <1>2, <1>3
<1>5. CacheTypes'
  <2>1. damaged' \in BOOLEAN
    BY <1>2, Zenon
  <2> QED BY <1>2, <1>4, <2>1
<1>6. Compacting'
  <2>1. ASSUME NEW p \in Objects, compaction'[p].at = "writing"
        PROVE  /\ \A i \in compaction'[p].todo : entries'[p][i] # NoEntry
               /\ \A i \in DOMAIN compaction'[p].temp : compaction'[p].temp[i].ended
               /\ compaction'[p].count <= recorded'[p]
    <3>1. CASE p = o
      BY <1>2, <1>3, <1>4, <3>1 DEF Used
    <3>2. CASE p # o
      BY <1>2, <1>4, <2>1, <3>2 DEF Compacting
    <3> QED BY <3>1, <3>2
  <2> QED BY <2>1 DEF Compacting
<1>7. ASSUME ~damaged'
      PROVE  /\ Reproduced(journal', entries'[serving'])
             /\ Copying(compaction'[serving'], recorded'[serving'], entries'[serving'])
             /\ Heard(said', entries'[serving'])
  <2>1. ~damaged
    BY <1>2, <1>7, Zenon
  <2>2. Copying(c, recorded[o], entries[o])
    BY <1>3, EmptyLoaded DEF Copying, Used
  <2>3. Copying(compaction'[serving], recorded[serving], entries[serving])
    BY <1>4, <2>1, <2>2
  <2> QED BY <1>2, <2>1, <2>3
<1> QED BY <1>5, <1>6, <1>7

LEMMA TempStep ==
  ASSUME CacheInv, NEW o \in Objects, NEW k \in Keys, WriteTemp(o, k)
  PROVE  CacheInv'
<1> USE DEF CacheInv, CacheTypes
<1>1. PICK l : l = Line(k, entries[o][k])
  OBVIOUS
<1>2. /\ compaction[o].at = "writing" /\ k \in compaction[o].todo
      /\ compaction' = [compaction EXCEPT ![o].todo = @ \ {k}, ![o].temp = Append(@, l)]
      /\ entries' = entries /\ recorded' = recorded /\ journal' = journal
      /\ serving' = serving /\ damaged' = damaged /\ said' = said
  BY <1>1, Zenon DEF WriteTemp
<1>3. /\ compaction[o] \in Tasks
      /\ compaction[o].todo \in SUBSET Keys /\ compaction[o].count \in Nat
      /\ compaction[o].temp \in Seq(Whole)
  <2>1. compaction[o] \in Tasks
    OBVIOUS
  <2> QED BY <1>2, <2>1 DEF Tasks
<1>4. l \in Whole /\ l.key = k /\ l.entry = entries[o][k] /\ l.ended
  <2>1. entries[o][k] \in CachedEntry
    BY <1>2 DEF Compacting
  <2> QED BY <1>1, <2>1 DEF Line, Whole
<1>5. PICK t : t = compaction[o].temp
  OBVIOUS
<1>6. PICK u : u = Append(t, l)
  OBVIOUS
<1>7. PICK d : d = compaction[o].todo \ {k}
  OBVIOUS
<1>8. PICK b : b = [compaction[o] EXCEPT !.todo = d]
  OBVIOUS
<1>9. PICK c : c = [b EXCEPT !.temp = u]
  OBVIOUS
<1>10. /\ t \in Journals /\ u \in Seq(Whole) /\ DOMAIN u = 1..(Len(t) + 1) /\ u[Len(t) + 1] = l
       /\ Len(t) \in Nat /\ DOMAIN t = 1..Len(t)
       /\ \A i \in DOMAIN t : u[i] = t[i]
  <2>1. t \in Seq(Whole)
    BY <1>3, <1>5
  <2>2. t \in Journals /\ u \in Seq(Whole)
    BY <1>4, <1>6, <2>1 DEF Journals
  <2>3. l \in Whole \cup Scrap
    BY <1>4
  <2>4. /\ DOMAIN u = 1..(Len(t) + 1) /\ u[Len(t) + 1] = l
        /\ \A i \in DOMAIN t : u[i] = t[i]
    BY <1>6, <2>2, <2>3, AppendTyped
  <2>5. Len(t) \in Nat /\ DOMAIN t = 1..Len(t)
    BY <2>2, JournalShape
  <2> QED BY <2>2, <2>4, <2>5
<1>11. /\ b \in Tasks /\ b.todo = d /\ b.at = "writing"
       /\ b.count = compaction[o].count /\ b.temp = t
  BY <1>2, <1>3, <1>5, <1>7, <1>8 DEF Tasks
<1>12. /\ c \in Tasks /\ c.todo = d /\ c.at = "writing"
       /\ c.count = compaction[o].count /\ c.temp = u
  BY <1>9, <1>10, <1>11 DEF Tasks
<1>13. compaction' = [compaction EXCEPT ![o] = c]
  <2>1. c = [compaction[o] EXCEPT !.todo = compaction[o].todo \ {k}, !.temp = Append(compaction[o].temp, l)]
    BY <1>5, <1>6, <1>7, <1>8, <1>9, Zenon
  <2> QED BY <1>2, <2>1, Zenon
<1>14. compaction' \in [Objects -> Tasks] /\ compaction'[o] = c
       /\ \A p \in Objects : p # o => compaction'[p] = compaction[p]
  BY <1>12, <1>13
<1>15. CacheTypes'
  BY <1>2, <1>14
<1>16. Compacting'
  <2>1. ASSUME NEW p \in Objects, compaction'[p].at = "writing"
        PROVE  /\ \A i \in compaction'[p].todo : entries'[p][i] # NoEntry
               /\ \A i \in DOMAIN compaction'[p].temp : compaction'[p].temp[i].ended
               /\ compaction'[p].count <= recorded'[p]
    <3>1. CASE p = o
      <4>1. \A i \in d : entries[o][i] # NoEntry
        BY <1>2, <1>7 DEF Compacting
      <4>2. compaction[o].count <= recorded[o]
        BY <1>2 DEF Compacting
      <4>3. \A i \in DOMAIN t : t[i].ended
        BY <1>2, <1>5 DEF Compacting
      <4>4. \A i \in DOMAIN u : u[i].ended
        BY <1>4, <1>10, <4>3
      <4> QED BY <1>2, <1>12, <1>14, <3>1, <4>1, <4>2, <4>4
    <3>2. CASE p # o
      BY <1>2, <1>14, <2>1, <3>2 DEF Compacting
    <3> QED BY <3>1, <3>2
  <2> QED BY <2>1 DEF Compacting
<1>17. ASSUME ~damaged'
       PROVE  /\ Reproduced(journal', entries'[serving'])
              /\ Copying(compaction'[serving'], recorded'[serving'], entries'[serving'])
              /\ Heard(said', entries'[serving'])
  <2>1. ~damaged
    BY <1>2, <1>17
  <2>2. ASSUME Copying(compaction[o], recorded[o], entries[o])
        PROVE  Copying(c, recorded[o], entries[o])
    <3>1. ASSUME c.count = recorded[o], NEW i \in Keys
          PROVE  LoadedEntries(u)[i] = IF i \in d THEN NoEntry ELSE entries[o][i]
      <4>1. LoadedEntries(t)[i] = IF i \in compaction[o].todo THEN NoEntry ELSE entries[o][i]
        BY <1>2, <1>5, <1>12, <2>2, <3>1 DEF Copying
      <4>2. LoadedEntries(u)[i] = IF i = k THEN entries[o][k] ELSE LoadedEntries(t)[i]
        BY <1>4, <1>6, <1>10, LoadedAppend
      <4> QED BY <1>2, <1>7, <4>1, <4>2
    <3> QED BY <1>12, <3>1 DEF Copying
  <2>3. Copying(compaction'[serving], recorded[serving], entries[serving])
    <3>1. CASE serving = o
      BY <1>14, <2>1, <2>2, <3>1
    <3>2. CASE serving # o
      BY <1>14, <2>1, <3>2
    <3> QED BY <3>1, <3>2
  <2> QED BY <1>2, <2>1, <2>3
<1> QED BY <1>15, <1>16, <1>17

LEMMA AbandonStep ==
  ASSUME CacheInv, NEW o \in Objects, AbandonCompaction(o)
  PROVE  CacheInv'
<1> USE DEF CacheInv, CacheTypes
<1>1. /\ compaction' = [compaction EXCEPT ![o] = NoTask]
      /\ entries' = entries /\ recorded' = recorded /\ journal' = journal
      /\ serving' = serving /\ damaged' = damaged /\ said' = said
  BY Zenon DEF AbandonCompaction
<1>2. compaction' \in [Objects -> Tasks] /\ compaction'[o].at = "none"
      /\ \A p \in Objects : p # o => compaction'[p] = compaction[p]
  BY <1>1, NoTaskTyped
<1>3. CacheTypes'
  BY <1>1, <1>2
<1>4. Compacting'
  BY <1>1, <1>2 DEF Compacting
<1>5. Copying(compaction[serving], recorded[serving], entries[serving])
      => Copying(compaction'[serving], recorded[serving], entries[serving])
  <2>1. CASE serving = o
    BY <1>2, <2>1 DEF Copying
  <2>2. CASE serving # o
    BY <1>2, <2>2
  <2> QED BY <2>1, <2>2
<1> QED BY <1>1, <1>3, <1>4, <1>5

LEMMA ReplaceStep ==
  ASSUME CacheInv, NEW o \in Objects, ReplaceJournal(o)
  PROVE  CacheInv'
<1> USE DEF CacheInv, CacheTypes
<1>1. /\ compaction[o].at = "writing" /\ compaction[o].todo = {}
      /\ compaction' = [compaction EXCEPT ![o] = NoTask]
      /\ entries' = entries /\ serving' = serving /\ said' = said
  BY Zenon DEF ReplaceJournal
<1>2. compaction' \in [Objects -> Tasks] /\ compaction'[o].at = "none"
      /\ \A p \in Objects : p # o => compaction'[p] = compaction[p]
  BY <1>1, NoTaskTyped
<1>3. CASE ~Unappended(o)
  <2>1. journal' = journal /\ recorded' = recorded /\ damaged' = damaged
    BY <1>3, Zenon DEF ReplaceJournal
  <2>2. CacheTypes'
    BY <1>1, <1>2, <2>1
  <2>3. Compacting'
    BY <1>1, <1>2, <2>1 DEF Compacting
  <2>4. Copying(compaction[serving], recorded[serving], entries[serving])
        => Copying(compaction'[serving], recorded[serving], entries[serving])
    <3>1. CASE serving = o
      BY <1>2, <3>1 DEF Copying
    <3>2. CASE serving # o
      BY <1>2, <3>2
    <3> QED BY <3>1, <3>2
  <2> QED BY <1>1, <2>1, <2>2, <2>3, <2>4
<1>4. CASE Unappended(o)
  <2>1. PICK t : t = compaction[o].temp
    OBVIOUS
  <2>2. PICK n : n = Len(t)
    OBVIOUS
  <2>3. /\ journal' = t /\ recorded' = [recorded EXCEPT ![o] = n]
        /\ damaged' = (damaged \/ o # serving)
    BY <1>4, <2>1, <2>2, Zenon DEF ReplaceJournal
  <2>4. t \in Journals /\ n \in Nat /\ DOMAIN t = 1..n /\ \A i \in DOMAIN t : t[i].ended
    <3>1. compaction[o] \in Tasks
      OBVIOUS
    <3>2. t \in Seq(Whole)
      BY <1>1, <2>1, <3>1 DEF Tasks
    <3>3. t \in Journals
      BY <3>2 DEF Journals
    <3>4. \A i \in DOMAIN t : t[i].ended
      BY <1>1, <2>1 DEF Compacting
    <3> QED BY <2>2, <3>3, <3>4, JournalShape
  <2>5. EndedBefore(t) /\ ~OpenTail(t)
    <3>1. t # <<>> => Len(t) \in DOMAIN t
      BY <2>2, <2>4 DEF Journals
    <3> QED BY <2>4, <3>1 DEF EndedBefore, OpenTail
  <2>6. recorded' \in [Objects -> Nat] /\ \A p \in Objects : p # o => recorded'[p] = recorded[p]
    BY <2>3, <2>4
  <2>7. CacheTypes'
    <3>1. damaged' \in BOOLEAN
      BY <2>3, Zenon
    <3> QED BY <1>1, <1>2, <2>3, <2>4, <2>5, <2>6, <3>1
  <2>8. Compacting'
    BY <1>1, <1>2, <2>6 DEF Compacting
  <2>9. ASSUME ~damaged'
        PROVE  /\ Reproduced(journal', entries'[serving'])
               /\ Copying(compaction'[serving'], recorded'[serving'], entries'[serving'])
               /\ Heard(said', entries'[serving'])
    <3>1. ~damaged /\ o = serving
      BY <2>3, <2>9, Zenon
    <3>2. \A k \in Keys : LoadedEntries(t)[k] = entries[o][k]
      <4>1. compaction[o].count = recorded[o]
        BY <1>4 DEF Unappended
      <4> QED BY <1>1, <2>1, <3>1, <4>1 DEF Copying
    <3>3. LoadedEntries(t) = entries[o]
      <4>1. LoadedEntries(t) \in [Keys -> CachedEntry \cup {NoEntry}]
        BY <2>4, LoadedTyped
      <4>2. entries[o] \in [Keys -> CachedEntry \cup {NoEntry}]
        OBVIOUS
      <4> QED BY <3>2, <4>1, <4>2
    <3>4. Reproduced(t, entries[serving])
      BY <2>5, <3>1, <3>3 DEF Reproduced
    <3>5. Copying(compaction'[serving], recorded'[serving], entries[serving])
      BY <1>2, <3>1 DEF Copying
    <3> QED BY <1>1, <2>3, <3>1, <3>4, <3>5
  <2> QED BY <2>7, <2>8, <2>9
<1> QED BY <1>3, <1>4

-----------------------------------------------------------------------------
(* A start, and a change of the settings.                                  *)

\* The object that opens the file has no task on it.
LEMMA OpenedStep ==
  ASSUME CacheInv, NEW o \in Objects, Opened(o),
         compaction'[o].at = "none", compaction' \in [Objects -> Tasks],
         \A p \in Objects : compaction'[p].at = "writing" => compaction'[p] = compaction[p]
  PROVE  CacheInv'
<1> USE DEF CacheInv, CacheTypes
<1>1. PICK es : es = LoadedEntries(journal)
  OBVIOUS
<1>2. PICK n : n = LoadedCount(journal)
  OBVIOUS
<1>3. /\ journal' = MendedJournal(journal)
      /\ entries' = [entries EXCEPT ![o] = es]
      /\ recorded' = [recorded EXCEPT ![o] = n]
      /\ serving' = o
      /\ said' = [k \in Keys |-> IF ~damaged THEN said[k]
                                ELSE IF es[k] = NoEntry THEN {} ELSE {es[k].answer}]
      /\ damaged' = FALSE
  BY <1>1, <1>2, Zenon DEF Opened
<1>4. n \in Nat
  <2>1. Len(journal) \in Nat /\ DOMAIN journal = 1..Len(journal)
    BY JournalShape
  <2>2. IsFiniteSet({i \in DOMAIN journal : journal[i].key # Torn})
    <3>1. IsFiniteSet(1..Len(journal))
      BY <2>1, FS_Interval
    <3>2. {i \in DOMAIN journal : journal[i].key # Torn} \in SUBSET (1..Len(journal))
      BY <2>1
    <3> QED BY <3>1, <3>2, FS_Subset
  <2> QED BY <1>2, <2>2, FS_CardinalityType DEF LoadedCount
<1>5. es \in [Keys -> CachedEntry \cup {NoEntry}]
  BY <1>1, LoadedTyped
<1>6. /\ entries' \in [Objects -> [Keys -> CachedEntry \cup {NoEntry}]] /\ entries'[o] = es
      /\ \A p \in Objects : p # o => entries'[p] = entries[p]
  BY <1>3, <1>5
<1>7. recorded' \in [Objects -> Nat] /\ \A p \in Objects : p # o => recorded'[p] = recorded[p]
  BY <1>3, <1>4
<1>8. /\ journal' \in Journals /\ EndedBefore(journal')
      /\ Reproduced(journal', es)
  BY <1>1, <1>3, MendedTells
<1>9. \A k \in Keys : es[k] # NoEntry => es[k].answer \in Answers
  BY <1>5 DEF CachedEntry, Entry
<1>10. said' \in [Keys -> SUBSET Answers]
  <2>1. ASSUME NEW k \in Keys
        PROVE  (IF ~damaged THEN said[k] ELSE IF es[k] = NoEntry THEN {} ELSE {es[k].answer})
               \in SUBSET Answers
    BY <1>9
  <2> QED BY <1>3, <2>1
<1>11. CacheTypes'
  BY <1>3, <1>6, <1>7, <1>8, <1>10
<1>12. Compacting'
  BY <1>6, <1>7 DEF Compacting
<1>13. Copying(compaction'[serving'], recorded'[serving'], entries'[serving'])
  BY <1>3 DEF Copying
<1>14. Heard(said', es)
  <2>1. CASE ~damaged
    <3>1. es = entries[serving] /\ Heard(said, entries[serving])
      BY <1>1, <2>1 DEF Reproduced
    <3>2. \A k \in Keys : said'[k] = said[k]
      BY <1>3, <2>1
    <3> QED BY <3>1, <3>2 DEF Heard
  <2>2. CASE damaged
    <3>1. \A k \in Keys : said'[k] = IF es[k] = NoEntry THEN {} ELSE {es[k].answer}
      BY <1>3, <2>2
    <3> QED BY <3>1 DEF Heard
  <2> QED BY <2>1, <2>2
<1> QED BY <1>3, <1>6, <1>8, <1>11, <1>12, <1>13, <1>14

-----------------------------------------------------------------------------
(* The invariant, and what it says.                                        *)

LEMMA CacheFirst ==
  ASSUME CacheInit
  PROVE  CacheInv
<1> USE DEF CacheInit
<1>1. CacheTypes
  <2>1. entries \in [Objects -> [Keys -> CachedEntry \cup {NoEntry}]]
    OBVIOUS
  <2>2. recorded \in [Objects -> Nat] /\ said \in [Keys -> SUBSET Answers]
    OBVIOUS
  <2>3. compaction \in [Objects -> Tasks]
    BY NoTaskTyped
  <2>4. journal \in Journals /\ EndedBefore(journal)
    BY DEF Journals, EndedBefore
  <2> QED BY <2>1, <2>2, <2>3, <2>4 DEF CacheTypes
<1>2. Compacting
  BY NoTaskTyped DEF Compacting
<1>3. \A k \in Keys : LoadedEntries(<<>>)[k] = NoEntry
  BY EmptyLoaded
<1>4. LoadedEntries(<<>>) = [k \in Keys |-> NoEntry]
  BY <1>3 DEF LoadedEntries
<1>5. Reproduced(journal, entries[serving])
  BY <1>4 DEF Reproduced, OpenTail
<1>6. Copying(compaction[serving], recorded[serving], entries[serving])
  BY NoTaskTyped DEF Copying
<1>7. Heard(said, entries[serving])
  BY DEF Heard
<1> QED BY <1>1, <1>2, <1>5, <1>6, <1>7 DEF CacheInv

LEMMA CacheStep ==
  ASSUME CacheInv, [CacheNext]_cacheVars
  PROVE  CacheInv'
<1>1. ASSUME NEW o \in Objects, NEW k \in Keys, NEW a \in Answers, NEW force \in BOOLEAN,
             Record(o, k, a, force)
      PROVE  CacheInv'
  BY <1>1, RecordStep
<1>2. ASSUME NEW o \in Objects, NEW k \in Keys, WriteTemp(o, k) PROVE CacheInv'
  BY <1>2, TempStep
<1>3. ASSUME NEW o \in Objects, TakeSnapshot(o) PROVE CacheInv'
  BY <1>3, SnapshotStep
<1>4. ASSUME NEW o \in Objects, ReplaceJournal(o) PROVE CacheInv'
  BY <1>4, ReplaceStep
<1>5. ASSUME NEW o \in Objects, AbandonCompaction(o) PROVE CacheInv'
  BY <1>5, AbandonStep
<1>6. ASSUME NEW o \in Objects, Refresh(o) PROVE CacheInv'
  <2>1. Opened(o) /\ compaction' = compaction /\ compaction[o].at = "none"
    BY <1>6, Zenon DEF Refresh
  <2>2. compaction \in [Objects -> Tasks]
    BY DEF CacheInv, CacheTypes
  <2> QED BY <2>1, <2>2, OpenedStep
<1>7. ASSUME NEW o \in Objects, RestartCache(o) PROVE CacheInv'
  <2>1. Opened(o) /\ compaction' = [p \in Objects |-> NoTask]
    BY <1>7, Zenon DEF RestartCache
  <2>2. compaction' \in [Objects -> Tasks] /\ \A p \in Objects : compaction'[p].at = "none"
    BY <2>1, NoTaskTyped
  <2> QED BY <2>1, <2>2, OpenedStep
<1>8. CASE UNCHANGED cacheVars
  BY <1>8 DEF cacheVars, CacheInv, CacheTypes, Compacting
<1> QED BY <1>1, <1>2, <1>3, <1>4, <1>5, <1>6, <1>7, <1>8, Zenon DEF CacheNext

LEMMA CacheInvariant == CacheSpec => []CacheInv
<1>1. CacheInit => CacheInv
  BY CacheFirst
<1>2. CacheInv /\ [CacheNext]_cacheVars => CacheInv'
  BY CacheStep
<1> QED BY <1>1, <1>2, PTL DEF CacheSpec

\* A start at any moment, in the middle of a compaction too, rebuilds the entries the
\* serving cache answers from, unless an append failed or a replaced object wrote:
\* the count check of _compact_state_journal loses no line, in files of any length.
THEOREM RestartsReproduce == CacheSpec => []RestartReproduces
<1>1. CacheInv => RestartReproduces
  BY DEF CacheInv, RestartReproduces, Reproduced
<1> QED BY <1>1, CacheInvariant, PTL

\* get_trusted returns no answer the model disagreed about, whatever compactions and
\* restarts came in between.
THEOREM TrustedAnswersUnanimous == CacheSpec => []TrustedUnanimous
<1>1. ASSUME CacheInv PROVE TrustedUnanimous
  <2>1. ASSUME ~damaged, NEW k \in Keys, entries[serving][k].status = "trusted"
        PROVE  said[k] = {entries[serving][k].answer}
    <3>1. entries[serving][k] \in CachedEntry \cup {NoEntry}
      BY <1>1 DEF CacheInv, CacheTypes
    <3>2. entries[serving][k] # NoEntry
      BY <2>1 DEF NoEntry
    <3>3. entries[serving][k].conflicts = 0
      BY <2>1, <3>1, <3>2 DEF CachedEntry, Entry
    <3>4. Heard(said, entries[serving])
      BY <1>1, <2>1 DEF CacheInv
    <3> QED BY <3>2, <3>3, <3>4 DEF Heard
  <2> QED BY <2>1 DEF TrustedUnanimous
<1> QED BY <1>1, CacheInvariant, PTL

THEOREM CacheTypesKept == CacheSpec => []CacheTypeOK
<1>1. ASSUME CacheInv PROVE CacheTypeOK
  <2>1. ASSUME NEW o \in Objects PROVE compaction[o].at \in {"none", "queued", "writing"}
    <3>1. compaction[o] \in Tasks
      BY <1>1 DEF CacheInv, CacheTypes
    <3> QED BY <3>1 DEF Tasks
  <2>2. ASSUME NEW i \in DOMAIN journal PROVE journal[i] \in Lines
    <3>1. journal[i] \in Whole \cup Scrap
      BY <1>1, <2>2, JournalShape DEF CacheInv, CacheTypes
    <3> QED BY <3>1 DEF Whole, Scrap, Lines, CachedEntry
  <2>3. /\ entries \in [Objects -> [Keys -> Entry \cup {NoEntry}]]
        /\ recorded \in [Objects -> Nat] /\ serving \in Objects
    BY <1>1 DEF CacheInv, CacheTypes, CachedEntry
  <2> QED BY <2>1, <2>2, <2>3 DEF CacheTypeOK
<1> QED BY <1>1, CacheInvariant, PTL

-----------------------------------------------------------------------------
(***************************************************************************)
(* AnswerPipeline: when a question is given up.                            *)
(***************************************************************************)

Running == Answering \cup Checking \cup {"search"}
\* The searches and the first answers come before any repetition.
FirstRound == {"answer", "check", "second", "check_second", "search"}

\* The models before the one under way are those that failed.
ModelsInOrder == stage \in Answering \cup Checking => raised = 1..(call.member - 1)
\* Every attempt that is over had no model left; the one under way is not over.
AttemptsExhausted ==
    /\ stage \in Running => exhausted = attempt - 1
    /\ stage = "attempt_failed" => exhausted = attempt
    /\ stage = "failed" => exhausted = RetryTimes + 1
    /\ stage \in Running \cup {"attempt_failed"} => attempt \in 1..(RetryTimes + 1)
RoundsCounted == stage \in FirstRound => round = 0

PipelineInv == PipelineTypeOK /\ ModelsInOrder /\ AttemptsExhausted /\ RoundsCounted

-----------------------------------------------------------------------------
\* An operation that begins has no model behind it.
LEMMA EnterInv ==
    ASSUME NEW s \in Answering \cup Checking \cup {"idle", "search", "attempt_failed", "answered", "failed", "unreadable"},
           Enter(s)
    PROVE  /\ ModelsInOrder'
           /\ call' \in [member : 1..Members, tier : {"plain", "ocr", "ocr_again"}, form : 1..Forms]
           /\ engine' \in 1..(Engines + 1) /\ raised' \subseteq 1..Members /\ stage' = s
  BY DEF Enter, ModelsInOrder, FirstCall, Forms

\* Where an operation leads: not to a failure, unless it was an answer.
LEMMA FollowersRunOn ==
    ASSUME NEW s \in Answering \cup Checking, NEW t \in Followers(s)
    PROVE  /\ t \in Answering \cup Checking \cup {"search", "answered"}
           /\ t = "evidence" => round < Repeats
           /\ t \in FirstRound => s \in FirstRound
  BY DEF Followers, Answering, Checking, FirstRound

LEMMA AfterFailureRunsOn ==
    ASSUME NEW s \in Answering \cup Checking, NEW t \in AfterFailure(s)
    PROVE  \/ s \in Answering /\ t = "attempt_failed"
           \/ /\ s \in Checking /\ t \in Answering \cup Checking \cup {"search", "answered"}
              /\ t = "evidence" => round < Repeats
              /\ t \in FirstRound => s \in FirstRound
<1>1. CASE s \in Answering
  BY <1>1 DEF AfterFailure, Answering, Checking
<1>2. CASE s \in {"check_evidence", "last_check"}
  BY <1>2 DEF AfterFailure, Answering, Checking, FirstRound
<1>3. CASE s \in Checking \ {"check_evidence", "last_check"}
  <2>1. t \in Followers(s)
    BY <1>3 DEF AfterFailure, Answering, Checking
  <2> QED BY <1>3, <2>1, FollowersRunOn
<1> QED BY <1>1, <1>2, <1>3

\* The run goes on with the attempt under way.
LEMMA ProceedInv ==
    ASSUME PipelineInv, stage \in Running, NEW s \in Running \cup {"answered"}, Proceed(s),
           s = "evidence" => round < Repeats, s \in FirstRound => round = 0,
           exhausted' = exhausted, question' = question, cached' \in {"unknown", "found", "empty"}
    PROVE  PipelineInv'
<1>0. /\ round \in 0..Repeats /\ attempt \in 0..(RetryTimes + 1) /\ question \in Questions
  BY DEF PipelineInv, PipelineTypeOK
<1>1. s \in Answering \cup Checking \cup {"idle", "search", "attempt_failed", "answered", "failed", "unreadable"}
  BY DEF Running
<1>2. /\ ModelsInOrder'
      /\ call' \in [member : 1..Members, tier : {"plain", "ocr", "ocr_again"}, form : 1..Forms]
      /\ engine' \in 1..(Engines + 1) /\ raised' \subseteq 1..Members /\ stage' = s
  BY <1>1, EnterInv DEF Proceed
<1>3. round' \in 0..Repeats /\ attempt' = attempt
  BY <1>0 DEF Proceed
<1>4. PipelineTypeOK'
  BY <1>0, <1>1, <1>2, <1>3 DEF PipelineTypeOK
<1>5. AttemptsExhausted'
  BY <1>2, <1>3 DEF PipelineInv, AttemptsExhausted, Running, Answering, Checking
<1>6. RoundsCounted'
  BY <1>2 DEF RoundsCounted, Proceed, FirstRound
<1> QED BY <1>2, <1>4, <1>5, <1>6 DEF PipelineInv

\* The same model, in another form.
LEMMA SameModel ==
    ASSUME call \in [member : 1..Members, tier : {"plain", "ocr", "ocr_again"}, form : 1..Forms],
           NEW t \in {"plain", "ocr", "ocr_again"}
    PROVE  /\ [call EXCEPT !.tier = t, !.form = 1]
                  \in [member : 1..Members, tier : {"plain", "ocr", "ocr_again"}, form : 1..Forms]
           /\ [call EXCEPT !.tier = t, !.form = 1].member = call.member
<1>1. PICK m \in 1..Members, u \in {"plain", "ocr", "ocr_again"}, f \in 1..Forms :
          call = [member |-> m, tier |-> u, form |-> f]
  OBVIOUS
<1>2. [call EXCEPT !.tier = t, !.form = 1] = [member |-> m, tier |-> t, form |-> 1]
  <2>2. PICK d : d = [call EXCEPT !.tier = t]
    OBVIOUS
  <2>3. d = [member |-> m, tier |-> t, form |-> f]
    BY <1>1, <2>2
  <2>4. [d EXCEPT !.form = 1] = [member |-> m, tier |-> t, form |-> 1]
    BY <2>3
  <2> QED BY Zenon, <2>2, <2>4
<1> QED BY <1>1, <1>2 DEF Forms

\* The model under way is asked again, in another form.
LEMMA SendsInv ==
    ASSUME PipelineInv, NEW c, Sends(c), c.member = call.member,
           c \in [member : 1..Members, tier : {"plain", "ocr", "ocr_again"}, form : 1..Forms],
           question' = question, cached' = cached
    PROVE  PipelineInv'
<1>1. /\ call' = c /\ stage' = stage /\ attempt' = attempt /\ round' = round /\ engine' = engine
      /\ raised' = raised /\ exhausted' = exhausted
  BY DEF Sends
<1>2. PipelineTypeOK'
  BY <1>1 DEF PipelineInv, PipelineTypeOK
<1> QED BY <1>1, <1>2 DEF PipelineInv, ModelsInOrder, AttemptsExhausted, RoundsCounted

\* The model under way failed: the next one, or the end of the operation, and
\* of the attempt if it was an answer.
LEMMA MemberFailsInv ==
    ASSUME PipelineInv, Calling, MemberFails, question' = question, cached' = cached
    PROVE  PipelineInv'
<1>0. /\ call \in [member : 1..Members, tier : {"plain", "ocr", "ocr_again"}, form : 1..Forms]
      /\ raised = 1..(call.member - 1) /\ stage \in Answering \cup Checking
      /\ question \in Questions /\ cached \in {"unknown", "found", "empty"}
      /\ attempt \in 1..(RetryTimes + 1) /\ exhausted = attempt - 1 /\ round \in 0..Repeats
  BY DEF PipelineInv, PipelineTypeOK, ModelsInOrder, AttemptsExhausted, Calling, Running
<1>1. CASE HasNext(call.member)
  <2>1. /\ call' = [FirstCall EXCEPT !.member = call.member + 1]
        /\ raised' = raised \cup {call.member}
        /\ stage' = stage /\ attempt' = attempt /\ round' = round /\ engine' = engine
        /\ exhausted' = exhausted
    BY <1>1 DEF MemberFails
  <2>2. call.member + 1 \in 1..Members
    BY <1>0, <1>1 DEF HasNext
  <2>3. /\ call' \in [member : 1..Members, tier : {"plain", "ocr", "ocr_again"}, form : 1..Forms]
        /\ call'.member = call.member + 1
    BY <2>1, <2>2 DEF FirstCall, Forms
  <2>4. raised' = 1..(call'.member - 1) /\ raised' \subseteq 1..Members
    BY <1>0, <2>1, <2>2, <2>3
  <2>5. PipelineTypeOK'
    BY <2>1, <2>3, <2>4 DEF PipelineInv, PipelineTypeOK
  <2> QED BY <2>1, <2>4, <2>5 DEF PipelineInv, ModelsInOrder, AttemptsExhausted, RoundsCounted
<1>2. CASE ~HasNext(call.member)
  <2>1. PICK s \in AfterFailure(stage) : Proceed(s)
    BY <1>2 DEF MemberFails
  <2>2. raised \cup {call.member} = 1..Members
    BY <1>0, <1>2 DEF HasNext
  <2>3. exhausted' = IF stage \in Answering THEN exhausted + 1 ELSE exhausted
    BY <1>2, <2>2 DEF MemberFails
  <2>4. CASE stage \in Answering
    <3>1. s = "attempt_failed"
      BY <1>0, <2>1, <2>4, AfterFailureRunsOn DEF Answering, Checking
    <3>2. /\ ModelsInOrder'
          /\ call' \in [member : 1..Members, tier : {"plain", "ocr", "ocr_again"}, form : 1..Forms]
          /\ engine' \in 1..(Engines + 1) /\ raised' \subseteq 1..Members /\ stage' = "attempt_failed"
      BY <2>1, <3>1, EnterInv DEF Proceed
    <3>3. round' = round /\ attempt' = attempt /\ exhausted' = attempt
      BY <1>0, <2>1, <2>3, <2>4, <3>1 DEF Proceed
    <3>4. PipelineTypeOK'
      BY <1>0, <3>2, <3>3 DEF PipelineTypeOK
    <3>5. AttemptsExhausted' /\ RoundsCounted'
      BY <1>0, <3>2, <3>3 DEF AttemptsExhausted, RoundsCounted, Running, Answering, Checking, FirstRound
    <3> QED BY <3>2, <3>4, <3>5 DEF PipelineInv
  <2>5. CASE stage \notin Answering
    <3>1. /\ s \in Running \cup {"answered"} /\ (s = "evidence" => round < Repeats)
          /\ (s \in FirstRound => stage \in FirstRound)
      BY <1>0, <2>1, <2>5, AfterFailureRunsOn DEF Running
    <3>2. s \in FirstRound => round = 0
      BY <3>1 DEF PipelineInv, RoundsCounted
    <3> QED BY <1>0, <2>1, <2>3, <2>5, <3>1, <3>2, ProceedInv DEF Running
  <2> QED BY <2>4, <2>5
<1> QED BY <1>1, <1>2

LEMMA SearchEndsInv ==
    ASSUME PipelineInv, stage = "search", NEW hit \in BOOLEAN, SearchEnds(hit)
    PROVE  PipelineInv'
<1>1. PICK s \in AfterSearch(hit) : Proceed(s)
  BY DEF SearchEnds
<1>2. /\ s \in {"evidence", "answer", "answered"} /\ exhausted' = exhausted /\ question' = question
      /\ cached' \in {"unknown", "found", "empty"}
  BY <1>1 DEF SearchEnds, AfterSearch
<1>3. round = 0 /\ 0 < Repeats
  BY DEF PipelineInv, RoundsCounted, FirstRound
<1> QED BY <1>1, <1>2, <1>3, ProceedInv DEF Running, Answering

LEMMA PipelineInvStep ==
    ASSUME PipelineInv, PipelineNext
    PROVE  PipelineInv'
<1>0. /\ question \in Questions /\ round \in 0..Repeats /\ attempt \in 0..(RetryTimes + 1)
      /\ call \in [member : 1..Members, tier : {"plain", "ocr", "ocr_again"}, form : 1..Forms]
      /\ cached \in {"unknown", "found", "empty"} /\ engine \in 1..(Engines + 1)
  BY DEF PipelineInv, PipelineTypeOK
<1>1. CASE AskModel
  <2>1. PICK s \in {"search", "answer", "unreadable"} : Enter(s)
    BY <1>1 DEF AskModel, FirstStage
  <2>2. attempt' = 1 /\ round' = 0 /\ exhausted' = 0 /\ question' = question /\ cached' = cached
    BY <1>1 DEF AskModel, SearchKept
  <2>3. /\ ModelsInOrder'
        /\ call' \in [member : 1..Members, tier : {"plain", "ocr", "ocr_again"}, form : 1..Forms]
        /\ engine' \in 1..(Engines + 1) /\ raised' \subseteq 1..Members /\ stage' = s
    BY <2>1, EnterInv DEF Answering
  <2>4. PipelineTypeOK'
    BY <1>0, <2>1, <2>2, <2>3 DEF PipelineTypeOK, Answering
  <2>5. AttemptsExhausted' /\ RoundsCounted'
    BY <2>1, <2>2, <2>3 DEF AttemptsExhausted, RoundsCounted, Running, Answering, Checking
  <2> QED BY <2>3, <2>4, <2>5 DEF PipelineInv
<1>2. CASE ModelReturns
  <2>1. PICK s \in Followers(stage) : Proceed(s)
    BY <1>2 DEF ModelReturns
  <2>2. /\ exhausted' = exhausted /\ question' = question /\ cached' = cached
        /\ stage \in Answering \cup Checking
    BY <1>2 DEF ModelReturns, SearchKept, Calling
  <2>3. /\ s \in Running \cup {"answered"} /\ (s = "evidence" => round < Repeats)
        /\ (s \in FirstRound => stage \in FirstRound)
    BY <2>1, <2>2, FollowersRunOn DEF Running
  <2>4. s \in FirstRound => round = 0
    BY <2>3 DEF PipelineInv, RoundsCounted
  <2> QED BY <1>0, <2>1, <2>2, <2>3, <2>4, ProceedInv DEF Running
<1>3. CASE ImagesUnreadable
  <2>1. PICK c : c = [call EXCEPT !.tier = "ocr", !.form = 1]
    OBVIOUS
  <2>2. /\ c \in [member : 1..Members, tier : {"plain", "ocr", "ocr_again"}, form : 1..Forms]
        /\ c.member = call.member
    BY <1>0, <2>1, SameModel
  <2>3. Sends(c) /\ question' = question /\ cached' = cached
    BY <1>3, <2>1 DEF ImagesUnreadable, SearchKept
  <2> QED BY <2>2, <2>3, SendsInv
<1>4. CASE FormRefused
  <2>1. PICK c : c = [call EXCEPT !.form = call.form + 1]
    OBVIOUS
  <2>2. /\ c \in [member : 1..Members, tier : {"plain", "ocr", "ocr_again"}, form : 1..Forms]
        /\ c.member = call.member
    BY <1>0, <1>4, <2>1 DEF Forms, FormRefused
  <2>3. Sends(c) /\ question' = question /\ cached' = cached
    BY <1>4, <2>1 DEF FormRefused, SearchKept
  <2> QED BY <2>2, <2>3, SendsInv
<1>5. CASE ModelRaises
  <2>1. question' = question /\ cached' = cached /\ Calling
    BY <1>5 DEF ModelRaises, SearchKept
  <2>2. CASE Sends([call EXCEPT !.tier = "ocr_again", !.form = 1])
    <3>1. PICK c : c = [call EXCEPT !.tier = "ocr_again", !.form = 1]
      OBVIOUS
    <3>2. /\ c \in [member : 1..Members, tier : {"plain", "ocr", "ocr_again"}, form : 1..Forms]
          /\ c.member = call.member
      BY <1>0, <3>1, SameModel
    <3> QED BY <2>1, <2>2, <3>1, <3>2, SendsInv
  <2>3. CASE MemberFails
    BY <2>1, <2>3, MemberFailsInv
  <2> QED BY <1>5, <2>2, <2>3 DEF ModelRaises
<1>6. CASE SearchCached
  <2>1. stage = "search" /\ SearchEnds(cached = "found") /\ (cached = "found") \in BOOLEAN
    BY <1>6 DEF SearchCached
  <2> QED BY Zenon, <2>1, SearchEndsInv
<1>7. CASE AskEngine
  <2>1. /\ engine' \in 1..(Engines + 1) /\ question' = question /\ stage' = stage /\ attempt' = attempt
        /\ round' = round /\ call' = call /\ cached' = cached /\ raised' = raised
        /\ exhausted' = exhausted
    BY <1>0, <1>7 DEF AskEngine
  <2>2. PipelineTypeOK'
    BY <2>1 DEF PipelineInv, PipelineTypeOK
  <2> QED BY <2>1, <2>2 DEF PipelineInv, ModelsInOrder, AttemptsExhausted, RoundsCounted
<1>8. CASE EnginesAsked
  <2>1. CASE SearchEnds(TRUE)
    BY <1>8, <2>1, SearchEndsInv DEF EnginesAsked
  <2>2. CASE SearchEnds(FALSE)
    BY <1>8, <2>2, SearchEndsInv DEF EnginesAsked
  <2>3. SearchEnds(found) => SearchEnds(TRUE) \/ SearchEnds(FALSE)
    BY DEF SearchEnds, AfterSearch
  <2> QED BY Zenon, <1>8, <2>1, <2>2, <2>3 DEF EnginesAsked
<1>9. CASE RetryAttempt
  <2>0. /\ stage = "attempt_failed" /\ exhausted = attempt /\ exhausted' = exhausted
        /\ question' = question /\ cached' = cached /\ attempt \in 1..(RetryTimes + 1)
    BY <1>9 DEF RetryAttempt, SearchKept, PipelineInv, AttemptsExhausted
  <2>1. CASE AttemptLeft
    <3>1. PICK s \in {"search", "answer"} : Enter(s)
      BY <1>9, <2>1 DEF RetryAttempt, FirstStage
    <3>2. attempt' = attempt + 1 /\ round' = 0 /\ attempt' \in 1..(RetryTimes + 1)
      BY <1>9, <2>0, <2>1 DEF RetryAttempt, AttemptLeft
    <3>3. /\ ModelsInOrder'
          /\ call' \in [member : 1..Members, tier : {"plain", "ocr", "ocr_again"}, form : 1..Forms]
          /\ engine' \in 1..(Engines + 1) /\ raised' \subseteq 1..Members /\ stage' = s
      BY <3>1, EnterInv DEF Answering
    <3>4. PipelineTypeOK'
      BY <1>0, <2>0, <3>1, <3>2, <3>3 DEF PipelineTypeOK, Answering
    <3>5. AttemptsExhausted' /\ RoundsCounted'
      BY <2>0, <3>1, <3>2, <3>3 DEF AttemptsExhausted, RoundsCounted, Running, Answering, Checking
    <3> QED BY <3>3, <3>4, <3>5 DEF PipelineInv
  <2>2. CASE ~AttemptLeft
    <3>1. Enter("failed") /\ attempt' = attempt /\ round' = round
      BY <1>9, <2>2 DEF RetryAttempt
    <3>2. attempt = RetryTimes + 1
      BY <2>0, <2>2 DEF AttemptLeft
    <3>3. /\ ModelsInOrder'
          /\ call' \in [member : 1..Members, tier : {"plain", "ocr", "ocr_again"}, form : 1..Forms]
          /\ engine' \in 1..(Engines + 1) /\ raised' \subseteq 1..Members /\ stage' = "failed"
      BY <3>1, EnterInv
    <3>4. PipelineTypeOK'
      BY <1>0, <2>0, <3>1, <3>3 DEF PipelineTypeOK
    <3>5. AttemptsExhausted' /\ RoundsCounted'
      BY <2>0, <3>1, <3>2, <3>3 DEF AttemptsExhausted, RoundsCounted, Running, Answering, Checking, FirstRound
    <3> QED BY <3>3, <3>4, <3>5 DEF PipelineInv
  <2> QED BY <2>1, <2>2
<1>10. CASE FinishQuery
  <2>1. /\ Enter("idle") /\ attempt' = attempt /\ round' = round /\ exhausted' = exhausted
        /\ question' = question /\ cached' = cached
    BY <1>10 DEF FinishQuery, SearchKept
  <2>2. /\ ModelsInOrder'
        /\ call' \in [member : 1..Members, tier : {"plain", "ocr", "ocr_again"}, form : 1..Forms]
        /\ engine' \in 1..(Engines + 1) /\ raised' \subseteq 1..Members /\ stage' = "idle"
    BY <2>1, EnterInv
  <2>3. PipelineTypeOK'
    BY <1>0, <2>1, <2>2 DEF PipelineTypeOK
  <2>4. AttemptsExhausted' /\ RoundsCounted'
    BY <2>2 DEF AttemptsExhausted, RoundsCounted, Running, Answering, Checking, FirstRound
  <2> QED BY <2>2, <2>3, <2>4 DEF PipelineInv
<1>11. CASE TickPipeline
  BY <1>11 DEF TickPipeline, PipelineInv, PipelineTypeOK, ModelsInOrder, AttemptsExhausted, RoundsCounted
<1> QED BY <1>1, <1>2, <1>3, <1>4, <1>5, <1>6, <1>7, <1>8, <1>9, <1>10, <1>11 DEF PipelineNext

LEMMA PipelineInvariant == PipelineSpec => []PipelineInv
<1>1. PipelineInit => PipelineInv
  <2> SUFFICES ASSUME PipelineInit PROVE PipelineInv
    OBVIOUS
  <2>1. FirstCall \in [member : 1..Members, tier : {"plain", "ocr", "ocr_again"}, form : 1..Forms]
    BY DEF FirstCall, Forms
  <2>2. PipelineTypeOK
    BY <2>1 DEF PipelineInit, PipelineTypeOK
  <2>3. ModelsInOrder /\ AttemptsExhausted /\ RoundsCounted
    BY DEF PipelineInit, ModelsInOrder, AttemptsExhausted, RoundsCounted, Running, Answering, Checking, FirstRound
  <2> QED BY <2>2, <2>3 DEF PipelineInv
<1>2. PipelineInv /\ [PipelineNext]_pipelineVars => PipelineInv'
  <2>1. ASSUME PipelineInv, UNCHANGED pipelineVars PROVE PipelineInv'
    BY <2>1 DEF pipelineVars, PipelineInv, PipelineTypeOK, ModelsInOrder, AttemptsExhausted, RoundsCounted
  <2> QED BY <2>1, PipelineInvStep
<1> QED BY <1>1, <1>2, PTL DEF PipelineSpec

(* A query ends with MODEL_ERROR only after RetryTimes + 1 attempts in each of  *)
(* which every active model was asked for an answer and failed                  *)
(* (answering/retry.py and llm/providers/multi_model.py).                       *)
THEOREM FailureExhaustsModels == PipelineSpec => []FailsWhenExhausted
<1>1. PipelineInv => FailsWhenExhausted
  BY DEF PipelineInv, AttemptsExhausted, FailsWhenExhausted
<1> QED BY <1>1, PipelineInvariant, PTL

(* The types of the operation under way and of the caches hold throughout: the  *)
(* repetitions stay within their number, the attempts within theirs.            *)
THEOREM PipelineTypes == PipelineSpec => []PipelineTypeOK
<1>1. PipelineInv => PipelineTypeOK
  BY DEF PipelineInv
<1> QED BY <1>1, PipelineInvariant, PTL
==============================================================================
