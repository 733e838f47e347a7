------------------------ MODULE QueryAdmissionProofs ------------------------
(***************************************************************************)
(* Proofs about QueryAdmission and AdmissionRate, for every number of      *)
(* threads, principals and policies.                                       *)
(***************************************************************************)
EXTENDS AdmissionRate, FiniteSetTheorems, SequenceTheorems, TLAPS

\* A thread in a call has a principal and the policy it read.
Calling ==
  \A t \in Threads :
    /\ pc[t] # "idle" => who[t] \in Principals
    /\ IF pc[t] \in {"asked", "stamped"} THEN plan[t] \in Policies ELSE plan[t] = Nobody

\* The inductive invariant.
Exact == TypeOK /\ Calling /\ CountsExact /\ WorkersKnown /\ TableBounded

USE AdmissionAssumption

-----------------------------------------------------------------------------
(* The table of principals.                                                *)

\* However the table is touched and thinned out, its order stays an order.
LEMMA TableOrder ==
  ASSUME TypeOK, NEW K \in SUBSET Principals, NEW p \in Principals, NEW n \in Nat,
         Table(K, p, n)
  PROVE  /\ known' = K /\ known' \subseteq Principals
         /\ before' \in [Principals -> SUBSET known']
         /\ \A q \in Principals : q \notin before'[q] /\ \A r \in before'[q] : before'[r] \subseteq before'[q]
         /\ seen' \in [Principals -> Nat]
<1>1. known' = K /\ before' \in [Principals -> SUBSET K] /\ seen' \in [Principals -> Nat]
  BY DEF Table, TypeOK
<1>2. ASSUME NEW q \in Principals PROVE q \notin before'[q]
  BY <1>2 DEF Table, TypeOK
<1>3. ASSUME NEW q \in Principals, NEW r \in before'[q] PROVE before'[r] \subseteq before'[q]
  <2>1. r \in K /\ r # q
    BY <1>1, <1>2, <1>3
  <2>2. CASE q = p
    BY <2>1, <2>2, <1>1 DEF Table, TypeOK
  <2>3. CASE q # p
    <3>1. before'[q] = (before[q] \cap K) \ {p}
      BY <2>3, <1>3 DEF Table, TypeOK
    <3>2. r # p /\ before'[r] = (before[r] \cap K) \ {p}
      BY <3>1, <2>1, <1>3 DEF Table, TypeOK
    <3> QED BY <3>1, <3>2, <1>3 DEF TypeOK
  <2> QED BY <2>2, <2>3
<1> QED BY <1>1, <1>2, <1>3

\* The idle sweep only removes principals without a request in progress.
LEMMA SweepKeepsWorkers ==
  ASSUME TypeOK, NEW n \in Nat
  PROVE  /\ Swept(n) \subseteq known
         /\ \A p \in known : active[p] > 0 => p \in Swept(n)
  BY DEF Swept, Stale, TypeOK

\* In every set of known principals with an idle one there is an oldest idle.
LEMMA OldestIdleExists ==
  ASSUME TypeOK, NEW K \in SUBSET Principals, NEW p \in K, active[p] = 0
  PROVE  OldestIdle(K) # {}
<1> DEFINE Idle == {q \in K : active[q] = 0}
           T == {before[q] : q \in Idle}
<1>1. T \subseteq FiniteSubsetsOf(Principals) /\ T # {}
  <2>1. \A q \in Idle : before[q] \subseteq Principals /\ IsFiniteSet(before[q])
    BY FS_Subset DEF TypeOK
  <2> QED BY <2>1 DEF FiniteSubsetsOf
<1>2. PICK B \in T : \A C \in T : ~(<<C, B>> \in StrictSubsetOrdering(Principals))
  <2>1. IsWellFoundedOn(StrictSubsetOrdering(Principals), FiniteSubsetsOf(Principals))
    BY FS_StrictSubsetOrderingWellFounded
  <2> HIDE DEF T
  <2> QED BY <1>1, <2>1, WFMin
<1>3. PICK q \in Idle : B = before[q]
  BY DEF T
<1>4. ASSUME NEW r \in before[q] \cap K, active[r] = 0 PROVE FALSE
  <2>1. r \in Principals /\ r \in Idle /\ r \notin before[r] /\ before[r] \subseteq before[q]
    BY <1>4 DEF TypeOK
  <2>2. <<before[r], B>> \in StrictSubsetOrdering(Principals)
    BY <2>1, <1>3, <1>4 DEF StrictSubsetOrdering, TypeOK
  <2> QED BY <2>1, <2>2, <1>2
<1>5. \A r \in before[q] \cap K : active[r] > 0
  BY <1>4 DEF TypeOK
<1> QED BY <1>3, <1>5 DEF OldestIdle

\* The window that is left holds times.
LEMMA WindowTimes ==
  ASSUME TypeOK, NEW t \in Threads, who[t] \in Principals
  PROVE  Window(t) \in Seq(Nat)
<1> DEFINE s == accepted[who[t]]
           gone == {i \in 1..Len(s) : \A k \in 1..i : s[k] <= now[t] - plan[t].window}
<1>1. s \in Seq(Nat) /\ Len(s) \in Nat
  BY DEF TypeOK
<1>2. IsFiniteSet(gone) /\ Cardinality(gone) \in Nat
  <2>1. IsFiniteSet(1..Len(s))
    BY <1>1, FS_Interval
  <2> QED BY <2>1, FS_Subset, FS_CardinalityType
<1>3. \A i \in (Cardinality(gone) + 1)..Len(s) : s[i] \in Nat
  BY <1>1, <1>2, ElementOfSeq
<1>4. SubSeq(s, Cardinality(gone) + 1, Len(s)) \in Seq(Nat)
  <2> HIDE DEF gone, s
  <2> QED BY <1>1, <1>2, <1>3, SubSeqProperties
<1> QED BY <1>4 DEF Window, Pruned

-----------------------------------------------------------------------------
(* Counting.                                                               *)

LEMMA RunningFinite ==
  ASSUME NEW p
  PROVE  /\ IsFiniteSet(Running) /\ IsFiniteSet(RunningOf(p))
         /\ Cardinality(Running) \in Nat /\ Cardinality(RunningOf(p)) \in Nat
<1>1. Running \in SUBSET Threads /\ RunningOf(p) \in SUBSET Threads
  BY DEF Running, RunningOf
<1> QED BY <1>1, FS_Subset, FS_CardinalityType

\* No more principals are at work than requests are in progress.
LEMMA WorkersCounted ==
  ASSUME TypeOK, CountsExact
  PROVE  LET W == {p \in Principals : active[p] > 0} IN
           IsFiniteSet(W) /\ Cardinality(W) <= total
<1> DEFINE W == {p \in Principals : active[p] > 0}
           f == [t \in {r \in Running : who[r] \in W} |-> who[t]]
<1>1. IsFiniteSet({r \in Running : who[r] \in W}) /\
      Cardinality({r \in Running : who[r] \in W}) <= Cardinality(Running)
  BY RunningFinite, FS_Subset
<1>2. \A p \in W : \E t \in Running : who[t] = p
  <2> SUFFICES ASSUME NEW p \in W, ~ \E t \in Running : who[t] = p PROVE FALSE
    OBVIOUS
  <2>1. RunningOf(p) = {}
    BY DEF RunningOf
  <2>2. active[p] = 0
    BY <2>1, FS_EmptySet DEF CountsExact
  <2> QED BY <2>2
<1>3. f \in Surjection({r \in Running : who[r] \in W}, W)
  BY <1>2 DEF Surjection
<1>4. IsFiniteSet(W) /\ Cardinality(W) <= Cardinality({r \in Running : who[r] \in W})
  <2> HIDE DEF f, W
  <2> QED BY <1>1, <1>3, FS_Surjection
<1>5. Cardinality(W) \in Nat /\ Cardinality({r \in Running : who[r] \in W}) \in Nat
      /\ Cardinality(Running) \in Nat
  BY <1>1, <1>4, FS_CardinalityType, RunningFinite
<1> QED BY <1>1, <1>4, <1>5 DEF CountsExact

\* The table after an admission: the principal is in it, nobody at work has
\* left it, and it is within its capacity.
LEMMA AdmittingFits ==
  ASSUME Exact, NEW t \in Threads, pc[t] = "stamped", total < plan[t].global
  PROVE  /\ Admitting(t) \in SUBSET Principals /\ who[t] \in Admitting(t)
         /\ \A p \in known : active[p] > 0 => p \in Admitting(t)
         /\ Cardinality(Admitting(t)) <= MaxPrincipals
<1> DEFINE kept == Swept(now[t])
           p == who[t]
<1>1. p \in Principals /\ plan[t] \in Policies /\ now[t] \in Nat
  BY DEF Exact, TypeOK, Calling
<1>2. kept \subseteq known /\ \A q \in known : active[q] > 0 => q \in kept
  BY <1>1, SweepKeepsWorkers DEF Exact
<1>3. known \in SUBSET Principals /\ IsFiniteSet(known) /\ IsFiniteSet(kept)
      /\ kept \in SUBSET Principals
  BY <1>2, FS_Subset DEF Exact, TypeOK
<1>4. Cardinality(kept) \in Nat /\ Cardinality(known) \in Nat
      /\ Cardinality(kept) <= Cardinality(known) /\ Cardinality(known) <= MaxPrincipals
  BY <1>2, <1>3, FS_Subset, FS_CardinalityType DEF Exact, TableBounded
<1>5. total \in Nat /\ plan[t].global \in Nat /\ plan[t].global <= MaxPrincipals
  BY <1>1 DEF Exact, TypeOK, PolicyType
<1>6. CASE p \in kept
  BY <1>2, <1>3, <1>4, <1>6 DEF Admitting
<1>7. CASE p \notin kept /\ Cardinality(kept) < MaxPrincipals
  <2>1. Admitting(t) = kept \cup {p}
    BY <1>7, <1>4 DEF Admitting
  <2>2. Cardinality(kept \cup {p}) = Cardinality(kept) + 1
    BY <1>3, <1>7, FS_AddElement
  <2> QED BY <1>1, <1>2, <1>3, <1>4, <1>7, <2>1, <2>2
<1>8. CASE p \notin kept /\ Cardinality(kept) >= MaxPrincipals
  <2> DEFINE rest == kept \ OldestIdle(kept)
  <2>1. Admitting(t) = {p} \cup rest
    BY <1>8 DEF Admitting
  <2>2. PICK q \in kept : active[q] = 0
    <3> SUFFICES ASSUME \A q \in kept : active[q] # 0 PROVE FALSE
      OBVIOUS
    <3> DEFINE W == {q \in Principals : active[q] > 0}
    <3>1. kept \in SUBSET W
      BY <1>3 DEF Exact, TypeOK
    <3>2. IsFiniteSet(W) /\ Cardinality(W) <= total /\ Cardinality(W) \in Nat
      BY WorkersCounted, FS_CardinalityType DEF Exact
    <3>3. Cardinality(kept) <= Cardinality(W)
      <4> HIDE DEF W, kept
      <4> QED BY <3>1, <3>2, FS_Subset
    <3> QED BY <1>4, <1>5, <1>8, <3>2, <3>3
  <2>3. PICK o \in OldestIdle(kept) : TRUE
    BY <1>3, <2>2, OldestIdleExists DEF Exact
  <2>4. o \in kept
    BY <2>3 DEF OldestIdle
  <2>5. rest \in SUBSET (kept \ {o}) /\ IsFiniteSet(kept \ {o})
        /\ Cardinality(kept \ {o}) = Cardinality(kept) - 1
    BY <1>3, <2>3, <2>4, FS_RemoveElement
  <2>6. IsFiniteSet(rest) /\ Cardinality(rest) <= Cardinality(kept) - 1
        /\ Cardinality(rest) \in Nat
    <3> HIDE DEF rest, kept
    <3> QED BY <2>5, FS_Subset, FS_CardinalityType
  <2>7. Cardinality({p} \cup rest) = Cardinality(rest) + 1
    <3>1. p \notin rest /\ {p} \cup rest = rest \cup {p}
      BY <1>8
    <3> HIDE DEF rest, p
    <3> QED BY <2>6, <3>1, FS_AddElement
  <2>8. \A r \in known : active[r] > 0 => r \in rest
    BY <1>2 DEF OldestIdle
  <2> QED BY <1>1, <1>3, <1>4, <2>1, <2>6, <2>7, <2>8
<1> QED BY <1>4, <1>6, <1>7, <1>8

-----------------------------------------------------------------------------
(* The inductive invariant.                                                *)

LEMMA ExactInit == Init => Exact
<1> SUFFICES ASSUME Init PROVE Exact
  OBVIOUS
<1>1. TypeOK
  BY EmptySeq DEF Init, TypeOK
<1>2. Running = {} /\ \A p \in Principals : RunningOf(p) = {}
  BY DEF Init, Running, RunningOf
<1>3. CountsExact
  BY <1>2, FS_EmptySet DEF Init, CountsExact
<1>4. WorkersKnown /\ TableBounded
  <2>1. Cardinality(known) = 0
    BY FS_EmptySet DEF Init
  <2> QED BY <1>2, <2>1 DEF WorkersKnown, TableBounded
<1> QED BY <1>1, <1>3, <1>4 DEF Exact, Calling, Init

\* A step that leaves the table and the set of running threads alone.
LEMMA ExactQuiet ==
  ASSUME Exact, TypeOK', Calling', UNCHANGED <<known, active, total>>,
         Running' = Running, \A t \in Running : who'[t] = who[t]
  PROVE  Exact'
<1>1. \A p \in Principals : RunningOf(p)' = RunningOf(p)
  BY DEF RunningOf
<1>2. CountsExact'
  BY <1>1 DEF Exact, CountsExact
<1> QED BY <1>2 DEF Exact, WorkersKnown, TableBounded

LEMMA ExactAsk ==
  ASSUME Exact, NEW t \in Threads, NEW p \in Principals, Ask(t, p)
  PROVE  Exact'
<1>1. TypeOK' /\ Calling'
  BY DEF Ask, tableVars, Exact, TypeOK, Calling
<1>2. Running' = Running /\ \A s \in Running : who'[s] = who[s]
  BY DEF Ask, Running, Exact, TypeOK
<1> QED BY <1>1, <1>2, ExactQuiet DEF Ask, tableVars

LEMMA ExactStamp ==
  ASSUME Exact, NEW t \in Threads, Stamp(t)
  PROVE  Exact'
<1>1. TypeOK' /\ Calling'
  BY DEF Stamp, tableVars, Exact, TypeOK, Calling
<1>2. Running' = Running
  BY DEF Stamp, Running, Exact, TypeOK
<1> QED BY <1>1, <1>2, ExactQuiet DEF Stamp, tableVars

LEMMA ExactEnvironment ==
  ASSUME Exact, SetPolicy \/ Tick
  PROVE  Exact'
<1>1. TypeOK' /\ Calling'
  BY DEF SetPolicy, Tick, tableVars, threadVars, Exact, TypeOK, Calling
<1>2. Running' = Running
  BY DEF SetPolicy, Tick, threadVars, Running
<1> QED BY <1>1, <1>2, ExactQuiet DEF SetPolicy, Tick, tableVars, threadVars

\* A rejected call moves its principal to the end of the table and may sweep
\* idle ones out of it, but nobody who is at work.
LEMMA ExactReject ==
  ASSUME Exact, NEW t \in Threads, RejectGlobal(t) \/ RejectUser(t)
  PROVE  Exact'
<1> DEFINE kept == Swept(now[t])
<1>1. who[t] \in Principals /\ now[t] \in Nat /\ pc[t] = "stamped"
  BY DEF RejectGlobal, RejectUser, Exact, TypeOK, Calling
<1>2. kept \subseteq known /\ (\A q \in known : active[q] > 0 => q \in kept)
      /\ kept \in SUBSET Principals
  BY <1>1, SweepKeepsWorkers DEF Exact, TypeOK
<1>3. Table(kept, who[t], now[t])
  BY DEF RejectGlobal, RejectUser
<1>4. /\ known' = kept /\ known' \subseteq Principals
      /\ before' \in [Principals -> SUBSET known']
      /\ \A q \in Principals : q \notin before'[q] /\ \A r \in before'[q] : before'[r] \subseteq before'[q]
      /\ seen' \in [Principals -> Nat]
  BY <1>1, <1>2, <1>3, TableOrder DEF Exact
<1>5. PICK w \in Seq(Nat) : Windows(kept, who[t], w)
  <2>1. accepted[who[t]] \in Seq(Nat) /\ Window(t) \in Seq(Nat)
    BY <1>1, WindowTimes DEF Exact, TypeOK
  <2> QED BY <2>1 DEF RejectGlobal, RejectUser
<1>6. accepted' \in [Principals -> Seq(Nat)]
  BY <1>5, EmptySeq DEF Windows, Exact, TypeOK
<1>7. sweep' \in Nat
  BY <1>1 DEF RejectGlobal, RejectUser, Sweeping, Exact, TypeOK
<1>8. Reject(t)
  BY DEF RejectGlobal, RejectUser
<1>9. TypeOK' /\ Calling'
  BY <1>1, <1>4, <1>6, <1>7, <1>8 DEF Reject, Return, Exact, TypeOK, Calling
<1>10. Running' = Running /\ (\A s \in Running : who'[s] = who[s])
       /\ \A p \in Principals : RunningOf(p)' = RunningOf(p)
  BY <1>1, <1>8 DEF Reject, Running, RunningOf, Exact, TypeOK
<1>11. CountsExact'
  BY <1>8, <1>10 DEF Reject, Exact, CountsExact
<1>12. WorkersKnown'
  <2> SUFFICES ASSUME NEW s \in Running PROVE who[s] \in kept
    BY <1>4, <1>10 DEF WorkersKnown
  <2>1. who[s] \in Principals /\ s \in RunningOf(who[s]) /\ who[s] \in known
    BY DEF Running, RunningOf, Exact, WorkersKnown, TypeOK
  <2>2. active[who[s]] > 0
    BY <2>1, RunningFinite, FS_EmptySet DEF Exact, CountsExact, TypeOK
  <2> QED BY <1>2, <2>1, <2>2
<1>13. TableBounded'
  <2>1. IsFiniteSet(known) /\ Cardinality(known) \in Nat
    BY FS_Subset, FS_CardinalityType DEF Exact, TypeOK
  <2>2. Cardinality(kept) <= Cardinality(known) /\ Cardinality(kept) \in Nat
    <3> HIDE DEF kept
    <3> QED BY <1>2, <2>1, FS_Subset, FS_CardinalityType
  <2> QED BY <1>4, <2>1, <2>2 DEF Exact, TableBounded
<1> QED BY <1>9, <1>11, <1>12, <1>13 DEF Exact

LEMMA ExactGrant ==
  ASSUME Exact, NEW t \in Threads, Grant(t)
  PROVE  Exact'
<1>p. PICK p \in Principals : p = who[t]
  BY DEF Grant, Release, Exact, Calling
<1>1. p \in Principals /\ now[t] \in Nat /\ pc[t] = "stamped" /\ t \notin Running
  BY <1>p DEF Grant, Exact, TypeOK, Calling, Running
<1>2. /\ Admitting(t) \in SUBSET Principals /\ p \in Admitting(t)
      /\ \A q \in known : active[q] > 0 => q \in Admitting(t)
      /\ Cardinality(Admitting(t)) <= MaxPrincipals
  BY <1>p, AdmittingFits DEF Grant
<1>3. Table(Admitting(t), p, now[t])
  BY <1>p DEF Grant
<1>4. /\ known' = Admitting(t) /\ known' \subseteq Principals
      /\ before' \in [Principals -> SUBSET known']
      /\ \A q \in Principals : q \notin before'[q] /\ \A r \in before'[q] : before'[r] \subseteq before'[q]
      /\ seen' \in [Principals -> Nat]
  BY <1>p, <1>1, <1>2, <1>3, TableOrder DEF Exact
<1>5. PICK w \in Seq(Nat) : Windows(Admitting(t), p, w)
  <2>1. \A v \in Seq(Nat) : Append(v, now[t]) \in Seq(Nat)
    BY <1>p, <1>1, AppendProperties
  <2>2. Window(t) \in Seq(Nat) /\ <<>> \in Seq(Nat)
    BY <1>p, <1>1, WindowTimes, EmptySeq DEF Exact
  <2> QED BY <1>p, <2>1, <2>2 DEF Grant
<1>6. accepted' \in [Principals -> Seq(Nat)]
  BY <1>5, EmptySeq DEF Windows, Exact, TypeOK
<1>7. sweep' \in Nat
  BY <1>p, <1>1 DEF Grant, Sweeping, Exact, TypeOK
<1>8. active' = [active EXCEPT ![p] = @ + 1] /\ total' = total + 1
  BY <1>p DEF Grant
<1>9. TypeOK' /\ Calling'
  <2>1. /\ pc' = [pc EXCEPT ![t] = "running"] /\ plan' = [plan EXCEPT ![t] = Nobody]
        /\ now' = [now EXCEPT ![t] = 0] /\ UNCHANGED <<policy, clock, who>>
    BY DEF Grant, Return
  <2>2. active' \in [Principals -> Nat] /\ total' \in Nat
    BY <1>p, <1>1, <1>8 DEF Exact, TypeOK
  <2>3. Calling'
    BY <1>p, <1>1, <2>1 DEF Exact, TypeOK, Calling
  <2>4. TypeOK'
    BY <1>4, <1>6, <1>7, <2>1, <2>2 DEF Exact, TypeOK
  <2> QED BY <2>3, <2>4
<1>10. Running' = Running \cup {t} /\ RunningOf(p)' = RunningOf(p) \cup {t}
       /\ \A q \in Principals \ {p} : RunningOf(q)' = RunningOf(q)
  BY <1>p, <1>1 DEF Grant, Running, RunningOf, Exact, TypeOK
<1>11. CountsExact'
  <2>1. Cardinality(Running \cup {t}) = Cardinality(Running) + 1
    BY <1>p, <1>1, RunningFinite, FS_AddElement
  <2>2. Cardinality(RunningOf(p) \cup {t}) = Cardinality(RunningOf(p)) + 1
    <3>1. t \notin RunningOf(p) /\ IsFiniteSet(RunningOf(p))
      BY <1>p, <1>1, RunningFinite DEF RunningOf
    <3> QED BY <3>1, FS_AddElement
  <2>3. ASSUME NEW q \in Principals PROVE active'[q] = Cardinality(RunningOf(q)')
    <3>1. CASE q = p
      BY <1>p, <1>1, <1>8, <1>10, <2>2, <3>1 DEF Exact, CountsExact, TypeOK
    <3>2. CASE q # p
      BY <1>p, <1>1, <1>8, <1>10, <3>2 DEF Exact, CountsExact, TypeOK
    <3> QED BY <3>1, <3>2
  <2> QED BY <1>8, <1>10, <2>1, <2>3 DEF Exact, CountsExact
<1>12. WorkersKnown'
  <2> SUFFICES ASSUME NEW s \in Running' PROVE who'[s] \in Admitting(t)
    BY <1>4 DEF WorkersKnown
  <2>1. CASE s = t
    BY <1>p, <1>2, <2>1 DEF Grant
  <2>2. CASE s \in Running
    <3>1. who[s] \in Principals /\ s \in RunningOf(who[s]) /\ who[s] \in known
      BY <2>2 DEF Running, RunningOf, Exact, WorkersKnown, TypeOK
    <3>2. active[who[s]] > 0
      BY <3>1, RunningFinite, FS_EmptySet DEF Exact, CountsExact, TypeOK
    <3> QED BY <1>2, <3>1, <3>2 DEF Grant
  <2> QED BY <1>10, <2>1, <2>2
<1> QED BY <1>2, <1>4, <1>9, <1>11, <1>12 DEF Exact, TableBounded

LEMMA ExactRelease ==
  ASSUME Exact, NEW t \in Threads, Release(t)
  PROVE  Exact'
<1>p. PICK p \in Principals : p = who[t]
  BY DEF Grant, Release, Exact, Calling
<1>1. p \in Principals /\ p \in known /\ t \in Running /\ t \in RunningOf(p)
      /\ clock \in Nat /\ known \in SUBSET Principals
  BY <1>p DEF Release, Exact, TypeOK, Calling, Running, RunningOf, WorkersKnown
<1>2. Table(known, p, clock)
  BY <1>p, <1>1 DEF Release
<1>3. /\ known' = known
      /\ before' \in [Principals -> SUBSET known']
      /\ \A q \in Principals : q \notin before'[q] /\ \A r \in before'[q] : before'[r] \subseteq before'[q]
      /\ seen' \in [Principals -> Nat]
  BY <1>p, <1>1, <1>2, TableOrder DEF Exact
<1>4. total' = Less(total) /\ active' = [active EXCEPT ![p] = Less(@)]
  BY <1>p, <1>1 DEF Release
<1>5. total > 0 /\ active[p] > 0
  BY <1>p, <1>1, RunningFinite, FS_EmptySet DEF Exact, CountsExact, TypeOK
<1>6. total' = total - 1 /\ active' = [active EXCEPT ![p] = @ - 1]
  BY <1>p, <1>1, <1>4, <1>5 DEF Less, Exact, TypeOK
<1>7. TypeOK' /\ Calling'
  BY <1>p, <1>1, <1>3, <1>5, <1>6 DEF Release, Exact, TypeOK, Calling
<1>8. Running' = Running \ {t} /\ RunningOf(p)' = RunningOf(p) \ {t}
      /\ \A q \in Principals \ {p} : RunningOf(q)' = RunningOf(q)
  <2>1. pc' = [pc EXCEPT ![t] = "idle"] /\ who' = [who EXCEPT ![t] = Nobody]
    BY DEF Release
  <2>2. Running' = Running \ {t}
    BY <1>p, <1>1, <2>1 DEF Running, Exact, TypeOK
  <2>3. \A s \in Running' : who'[s] = who[s]
    BY <2>1, <2>2 DEF Running, Exact, TypeOK
  <2>4. \A q : RunningOf(q)' = RunningOf(q) \ {t}
    BY <2>2, <2>3 DEF RunningOf
  <2>5. \A q \in Principals \ {p} : t \notin RunningOf(q)
    BY <1>p DEF RunningOf
  <2> QED BY <2>2, <2>4, <2>5
<1>9. CountsExact'
  <2>1. Cardinality(Running \ {t}) = Cardinality(Running) - 1
    BY <1>1, RunningFinite, FS_RemoveElement
  <2>2. Cardinality(RunningOf(p) \ {t}) = Cardinality(RunningOf(p)) - 1
    <3>1. t \in RunningOf(p) /\ IsFiniteSet(RunningOf(p))
      BY <1>p, <1>1, RunningFinite
    <3> QED BY <3>1, FS_RemoveElement
  <2>3. ASSUME NEW q \in Principals PROVE active'[q] = Cardinality(RunningOf(q)')
    <3>1. CASE q = p
      BY <1>p, <1>1, <1>6, <1>8, <2>2, <3>1 DEF Exact, CountsExact, TypeOK
    <3>2. CASE q # p
      BY <1>p, <1>1, <1>6, <1>8, <3>2 DEF Exact, CountsExact, TypeOK
    <3> QED BY <3>1, <3>2
  <2> QED BY <1>6, <1>8, <2>1, <2>3 DEF Exact, CountsExact
<1>10. WorkersKnown'
  BY <1>3, <1>8 DEF Release, Exact, WorkersKnown, Running, TypeOK
<1> QED BY <1>3, <1>7, <1>9, <1>10 DEF Exact, TableBounded

LEMMA ExactNext == Exact /\ [Next]_vars => Exact'
<1> SUFFICES ASSUME Exact, [Next]_vars PROVE Exact'
  OBVIOUS
<1>1. CASE UNCHANGED vars
  <2>1. TypeOK' /\ Calling'
    BY <1>1 DEF vars, tableVars, threadVars, Exact, TypeOK, Calling
  <2>2. Running' = Running
    BY <1>1 DEF vars, threadVars, Running
  <2> QED BY <1>1, <2>1, <2>2, ExactQuiet DEF vars, tableVars, threadVars
<1>2. CASE Next
  BY <1>2, ExactAsk, ExactStamp, ExactEnvironment, ExactReject, ExactGrant,
     ExactRelease DEF Next
<1> QED BY <1>1, <1>2

LEMMA ExactAlways == Spec => []Exact
  BY ExactInit, ExactNext, PTL DEF Spec

-----------------------------------------------------------------------------
(* Theorems.                                                               *)

\* Every reachable state is well typed, and the order of the dictionary is a
\* strict order of the principals it holds.
THEOREM TypeCorrect == Spec => []TypeOK
  BY ExactAlways, PTL DEF Exact

\* The counters of the controller always equal the numbers of requests really
\* in progress, in all and per principal, for every number of threads.
THEOREM CountsHold == Spec => []CountsExact
  BY ExactAlways, PTL DEF Exact

\* The table of principals never outgrows its capacity.
THEOREM TableHolds == Spec => []TableBounded
  BY ExactAlways, PTL DEF Exact

-----------------------------------------------------------------------------
(* Refinement.                                                             *)

LEMMA HoldersAreRunning ==
  ASSUME TypeOK, Calling
  PROVE  /\ Contract!Holders = Running
         /\ \A p \in Principals :
              {s \in Contract!Holders :
                 (IF pc[s] = "running" THEN who[s] ELSE Nobody) = p} = RunningOf(p)
  BY DEF Contract!Holders, Running, RunningOf, Calling

\* The instance counts as this module does.
LEMMA SameCount == \A S : Contract!Cardinality(S) = Cardinality(S)
  BY DEF Contract!Cardinality, Cardinality

LEMMA ContractStep ==
  ASSUME Exact, [Next]_vars
  PROVE  [Contract!Next]_(Contract!contractVars)
<1> DEFINE holder == [t \in Threads |-> IF pc[t] = "running" THEN who[t] ELSE Nobody]
<1>0. \A t \in Threads : pc[t] \in {"asked", "stamped"} => plan[t] # Nobody
  BY DEF Exact, Calling
<1>1. ASSUME NEW t \in Threads, Grant(t) PROVE Contract!Next
  <2>1. pc[t] = "stamped"
    BY <1>1 DEF Grant
  <2>p. PICK p \in Principals, limits \in Policies : p = who[t] /\ limits = plan[t]
    BY <2>1 DEF Exact, Calling
  <2>2. total < limits.global
    BY <1>1, <2>p DEF Grant
  <2>3. active[p] < limits.perUser
    <3>1. CASE p \in Swept(now[t])
      BY <1>1, <2>p, <3>1 DEF Grant
    <3>2. CASE p \notin Swept(now[t])
      <4>1. active[p] = 0
        <5>1. CASE p \in known
          BY <5>1, <3>2, <2>p, SweepKeepsWorkers DEF Exact, TypeOK
        <5>2. CASE p \notin known
          <6>1. RunningOf(p) = {}
            BY <5>2, <2>p DEF RunningOf, Exact, WorkersKnown
          <6> QED BY <2>1, <6>1, FS_EmptySet DEF Exact, CountsExact
        <5> QED BY <5>1, <5>2
      <4> QED BY <4>1, <2>p DEF PolicyType
    <3> QED BY <3>1, <3>2
  <2>4. Cardinality(Contract!Holders) < plan[t].global
    BY <2>2, <2>p, HoldersAreRunning DEF Exact, CountsExact
  <2>5. Cardinality({s \in Contract!Holders : holder[s] = p}) < plan[t].perUser
    <3>1. {s \in Contract!Holders : holder[s] = p} = RunningOf(p)
      BY <2>1, HoldersAreRunning DEF Exact, Contract!Holders
    <3> QED BY <2>1, <2>3, <2>p, <3>1 DEF Exact, CountsExact
  <2>6. holder[t] = Nobody /\ holder' = [holder EXCEPT ![t] = p]
    BY <1>1, <2>1, <2>p DEF Grant, Exact, TypeOK
  <2>7. plan[t] # Nobody /\ plan' = [plan EXCEPT ![t] = Nobody] /\ UNCHANGED policy
    BY <1>0, <1>1, <2>1 DEF Grant, Return
  <2>8. Contract!Admit(t, p)
    BY <2>4, <2>5, <2>6, <2>7, SameCount DEF Contract!Admit
  <2> QED BY <2>8 DEF Contract!Next
<1>2. ASSUME NEW t \in Threads, Release(t) PROVE Contract!Next
  <2>1. holder[t] # Nobody /\ holder' = [holder EXCEPT ![t] = Nobody]
    BY <1>2 DEF Release, Exact, TypeOK, Calling
  <2>2. Contract!Leave(t)
    BY <1>2, <2>1 DEF Contract!Leave, Release
  <2> QED BY <2>2 DEF Contract!Next
<1>3. ASSUME NEW t \in Threads, RejectGlobal(t) \/ RejectUser(t) PROVE Contract!Next
  <2>1. pc[t] = "stamped" /\ Reject(t)
    BY <1>3 DEF RejectGlobal, RejectUser
  <2>2. holder' = holder
    BY <2>1 DEF Reject, Exact, TypeOK
  <2>3. Contract!Decline(t)
    BY <1>0, <2>1, <2>2 DEF Contract!Decline, Reject, Return
  <2> QED BY <2>3 DEF Contract!Next
<1>4. ASSUME NEW t \in Threads, NEW p \in Principals, Ask(t, p) PROVE Contract!Next
  <2>1. holder[t] = Nobody /\ holder' = holder
    BY <1>4 DEF Ask, Exact, TypeOK
  <2>2. plan[t] = Nobody
    BY <1>4 DEF Ask, Exact, Calling
  <2>3. Contract!Come(t)
    BY <1>4, <2>1, <2>2 DEF Contract!Come, Ask
  <2> QED BY <2>3 DEF Contract!Next
<1>5. ASSUME NEW t \in Threads, Stamp(t) PROVE UNCHANGED Contract!contractVars
  <2>1. holder' = holder
    BY <1>5 DEF Stamp, Exact, TypeOK
  <2> QED BY <1>5, <2>1 DEF Stamp, Contract!contractVars
<1>6. CASE SetPolicy
  <2>1. Contract!Change
    BY <1>6 DEF SetPolicy, threadVars, Contract!Change
  <2> QED BY <2>1 DEF Contract!Next
<1>7. CASE Tick \/ UNCHANGED vars
  BY <1>7 DEF Tick, vars, threadVars, Contract!contractVars
<1> QED BY <1>1, <1>2, <1>3, <1>4, <1>5, <1>6, <1>7 DEF Next

\* The controller implements AdmissionContract: whatever clocks, changes of the
\* settings and evictions do, a request is let in only below the limits of the
\* policy that was in force when it came.
THEOREM ContractKept == Spec => KeepsContract
<1>1. Init => Contract!Init
  BY DEF Init, Contract!Init
<1>2. Exact /\ [Next]_vars => [Contract!Next]_(Contract!contractVars)
  BY ContractStep
<1> QED BY <1>1, <1>2, ExactAlways, PTL DEF Spec, KeepsContract, Contract!Spec
-----------------------------------------------------------------------------
(* The rate limit: what the window still holds of the real admissions.     *)

\* An admission so recent that one more than the limit must not follow it.
Young(p, i) ==
  /\ i \in 1..Len(entered[p])
  /\ clock - entered[p][i] < ShortestWindow - MaxDelay

\* The admissions of a principal and its window end together; the window has
\* kept the one at i, and the principal has been seen no longer ago than that.
Remembered(p, i) ==
  LET j == Len(accepted[p]) - Len(entered[p]) + i IN
  /\ p \in known /\ seen[p] >= entered[p][i] - MaxDelay
  /\ j >= 1 /\ accepted[p][j] >= entered[p][i] - MaxDelay

Remembers == \A p \in Principals : \A i \in Nat : Young(p, i) => Remembered(p, i)

\* Only askers are known; the policy and the clock a thread has read are
\* those of the limit, and not older than the wait for the lock.
Readings ==
  /\ policy \in RatePolicies /\ known \subseteq Askers /\ Asking \subseteq Askers
  /\ \A t \in Threads :
       /\ pc[t] \in {"asked", "stamped"} => plan[t] \in RatePolicies
       /\ pc[t] = "stamped" => now[t] <= clock /\ clock <= now[t] + MaxDelay

History ==
  /\ entered \in [Principals -> Seq(Nat)]
  /\ \A p \in Principals :
       /\ Len(entered[p]) <= MostRequests + 1
       /\ \A i \in 1..Len(entered[p]) : entered[p][i] <= clock

\* The inductive invariant of the rate limit.
Rated == Exact /\ Readings /\ History /\ Remembers /\ RateKept

LEMMA UpTo == \A m \in Nat : IsFiniteSet(1..m) /\ Cardinality(1..m) = m
<1> TAKE m \in Nat
<1>1. IsFiniteSet(1..m) /\ Cardinality(1..m) = IF 1 > m THEN 0 ELSE m - 1 + 1
  BY FS_Interval
<1> QED BY <1>1

\* Pruning drops entries from the front only, and none younger than the cutoff.
LEMMA PrunedKeeps ==
  ASSUME NEW s \in Seq(Nat), NEW cutoff \in Int
  PROVE  \E c \in Nat :
           /\ Pruned(s, cutoff) \in Seq(Nat) /\ Len(Pruned(s, cutoff)) = Len(s) - c
           /\ \A j \in 1..Len(s) : s[j] > cutoff => c < j /\ Pruned(s, cutoff)[j - c] = s[j]
<1> DEFINE gone == {i \in 1..Len(s) : \A k \in 1..i : s[k] <= cutoff}
           c == Cardinality(gone)
<1>1. Len(s) \in Nat /\ IsFiniteSet(1..Len(s)) /\ Cardinality(1..Len(s)) = Len(s)
  <2>1. Len(s) \in Nat
    BY LenProperties
  <2> QED BY <2>1, UpTo
<1>2. IsFiniteSet(gone) /\ c \in Nat /\ c <= Len(s)
  <2>1. gone \subseteq 1..Len(s)
    OBVIOUS
  <2> HIDE DEF gone
  <2> QED BY <1>1, <2>1, FS_Subset, FS_CardinalityType
<1>3. ASSUME NEW j \in 1..Len(s), s[j] > cutoff PROVE c < j
  <2>1. gone \subseteq 1..(j - 1)
    <3> SUFFICES ASSUME NEW i \in gone, i >= j PROVE FALSE
      BY <1>1
    <3>1. s[j] <= cutoff
      BY <1>1
    <3> QED BY <1>1, <1>3, <3>1, ElementOfSeq
  <2>2. IsFiniteSet(1..(j - 1)) /\ Cardinality(1..(j - 1)) = j - 1
    <3>1. j - 1 \in Nat
      BY <1>1
    <3> QED BY <3>1, UpTo
  <2> HIDE DEF gone
  <2>3. c <= j - 1
    BY <2>1, <2>2, FS_Subset
  <2> QED BY <1>1, <1>2, <2>3
<1>4. /\ SubSeq(s, c + 1, Len(s)) \in Seq(Nat)
      /\ Len(SubSeq(s, c + 1, Len(s))) = Len(s) - c
      /\ \A k \in 1..(Len(s) - c) : SubSeq(s, c + 1, Len(s))[k] = s[c + k]
  <2>1. \A i \in (c + 1)..Len(s) : s[i] \in Nat
    <3> HIDE DEF c
    <3> SUFFICES ASSUME NEW i \in (c + 1)..Len(s) PROVE s[i] \in Nat
      OBVIOUS
    <3>1. i \in 1..Len(s)
      BY <1>1, <1>2
    <3> QED BY <3>1, ElementOfSeq
  <2> HIDE DEF c
  <2> QED BY <1>1, <1>2, <2>1, SubSeqProperties
<1>5. Pruned(s, cutoff) = SubSeq(s, c + 1, Len(s))
  BY DEF Pruned
<1> HIDE DEF c
<1>6. ASSUME NEW j \in 1..Len(s), s[j] > cutoff
      PROVE  c < j /\ SubSeq(s, c + 1, Len(s))[j - c] = s[j]
  <2>1. c < j
    BY <1>3, <1>6
  <2>2. j - c \in 1..(Len(s) - c) /\ c + (j - c) = j
    BY <1>1, <1>2, <2>1
  <2> QED BY <1>4, <2>1, <2>2
<1> QED BY <1>2, <1>4, <1>5, <1>6

\* The history keeps its latest entries, the new one last.
LEMMA LatestAppend ==
  ASSUME NEW s \in Seq(Nat), Len(s) <= MostRequests + 1, NEW x \in Nat
  PROVE  LET r == Latest(Append(s, x))
             d == Len(s) + 1 - Len(r)
         IN /\ r \in Seq(Nat) /\ Len(r) \in 1..(MostRequests + 1) /\ d \in Nat
            /\ r[Len(r)] = x
            /\ \A i \in 1..(Len(r) - 1) : r[i] = s[i + d]
<1> USE RateAssumption
<1>1. PICK a \in Seq(Nat), size \in Nat :
        /\ a = Append(s, x) /\ size = Len(s) /\ Len(a) = size + 1
        /\ a[size + 1] = x /\ \A i \in 1..size : a[i] = s[i]
  <2>1. Append(s, x) \in Seq(Nat) /\ Len(Append(s, x)) = Len(s) + 1
        /\ Append(s, x)[Len(s) + 1] = x /\ \A i \in 1..Len(s) : Append(s, x)[i] = s[i]
    BY AppendProperties
  <2>2. Len(s) \in Nat
    BY LenProperties
  <2> QED BY <2>1, <2>2, Zenon
<1>2. PICK first \in 1..Len(a) :
        /\ Latest(a) = SubSeq(a, first, Len(a))
        /\ Len(a) - first <= MostRequests
  <2> DEFINE f == IF Len(a) > MostRequests THEN Len(a) - MostRequests ELSE 1
  <2>1. f \in 1..Len(a) /\ Len(a) - f <= MostRequests
    BY <1>1
  <2>2. Latest(a) = SubSeq(a, f, Len(a))
    BY DEF Latest
  <2> HIDE DEF f
  <2> QED BY <2>1, <2>2
<1>3. \A i \in first..Len(a) : a[i] \in Nat
  <2> SUFFICES ASSUME NEW i \in first..Len(a) PROVE a[i] \in Nat
    OBVIOUS
  <2>1. i \in 1..Len(a)
    BY <1>1, <1>2
  <2> QED BY <2>1, ElementOfSeq
<1>4. PICK r : r = Latest(a)
  OBVIOUS
<1>5. /\ r \in Seq(Nat) /\ Len(r) = Len(a) - first + 1
      /\ \A i \in 1..(Len(a) - first + 1) : r[i] = a[first + i - 1]
  <2>1. first \in Int /\ Len(a) \in Int /\ first <= Len(a)
    BY <1>1, <1>2
  <2>2. /\ SubSeq(a, first, Len(a)) \in Seq(Nat)
        /\ Len(SubSeq(a, first, Len(a))) = IF first <= Len(a) THEN Len(a) - first + 1 ELSE 0
        /\ \A i \in 1..(Len(a) - first + 1) : SubSeq(a, first, Len(a))[i] = a[first + i - 1]
    BY <1>3, <2>1, SubSeqProperties
  <2> QED BY <1>2, <1>4, <2>1, <2>2
<1>6. Len(r) \in 1..(MostRequests + 1) /\ size + 1 - Len(r) = first - 1 /\ first - 1 \in Nat
  BY <1>1, <1>2, <1>5
<1>7. r[Len(r)] = x
  <2>1. Len(r) \in 1..(Len(a) - first + 1) /\ first + Len(r) - 1 = size + 1
    BY <1>1, <1>2, <1>5
  <2> QED BY <1>1, <1>5, <2>1
<1>8. ASSUME NEW i \in 1..(Len(r) - 1) PROVE r[i] = s[i + (first - 1)]
  <2>1. i \in 1..(Len(a) - first + 1) /\ i + (first - 1) \in 1..size
        /\ first + i - 1 = i + (first - 1)
    BY <1>1, <1>2, <1>5
  <2> QED BY <1>1, <1>5, <2>1
<1> QED BY <1>1, <1>4, <1>5, <1>6, <1>7, <1>8

-----------------------------------------------------------------------------
(* A young admission survives everything that happens to the table.        *)

\* The sweep does not reach a principal with a young admission.
LEMMA YoungNotSwept ==
  ASSUME Rated, NEW p \in Principals, NEW i \in Nat, Young(p, i),
         NEW n \in Nat, n <= clock
  PROVE  p \in Swept(n)
<1> USE RateAssumption
<1>1. p \in known /\ seen[p] >= entered[p][i] - MaxDelay
  BY DEF Rated, Remembers, Remembered
<1>2. ShortestWindow <= IdleSeconds
  BY DEF Rated, Readings, PolicyType
<1>3. entered[p][i] \in Nat /\ seen[p] \in Nat /\ clock \in Nat
  BY ElementOfSeq DEF Rated, History, Young, Exact, TypeOK
<1>4. ~ Stale(p, n)
  BY <1>1, <1>2, <1>3 DEF Stale, Young
<1> QED BY <1>1, <1>4 DEF Swept

\* The window that is left still holds the young admissions.
LEMMA WindowRemembers ==
  ASSUME Rated, NEW t \in Threads, pc[t] = "stamped", NEW p \in Principals, p = who[t],
         NEW i \in Nat, Young(p, i)
  PROVE  LET j == Len(Window(t)) - Len(entered[p]) + i IN
           j >= 1 /\ j <= Len(Window(t)) /\ Window(t)[j] >= entered[p][i] - MaxDelay
<1> USE RateAssumption
<1>1. accepted[p] \in Seq(Nat) /\ entered[p] \in Seq(Nat)
  BY DEF Rated, Exact, TypeOK, History
<1>2. PICK s \in Seq(Nat), size \in Nat, width \in Nat, stamp \in Nat, instant \in Nat :
        /\ s = accepted[p] /\ size = Len(entered[p])
        /\ width = plan[t].window /\ stamp = now[t] /\ instant = clock
        /\ width >= ShortestWindow /\ stamp <= instant
  <2>1. plan[t] \in RatePolicies /\ now[t] <= clock
    BY DEF Rated, Readings
  <2>2. plan[t].window \in Nat /\ plan[t].window >= ShortestWindow
    BY <2>1 DEF PolicyType
  <2>3. now[t] \in Nat /\ clock \in Nat
    BY DEF Rated, Exact, TypeOK
  <2> QED BY <1>1, <2>1, <2>2, <2>3, LenProperties
<1>3. PICK time \in Nat : time = entered[p][i]
  BY <1>1, ElementOfSeq DEF Young
<1>4. i <= size /\ instant - time < ShortestWindow - MaxDelay
  BY <1>2, <1>3 DEF Young
<1>5. PICK j \in Int : j = Len(s) - size + i
  <2>1. Len(s) \in Nat
    BY LenProperties
  <2>2. Len(s) - size + i \in Int
    BY <2>1
  <2> QED BY <2>2, Zenon
<1>6. j >= 1 /\ s[j] >= time - MaxDelay
  BY <1>2, <1>3, <1>5 DEF Rated, Remembers, Remembered
<1>7. Len(s) \in Nat /\ j \in 1..Len(s)
  BY <1>4, <1>5, <1>6, LenProperties
<1>8. s[j] \in Nat
  BY <1>7, ElementOfSeq
<1>9. stamp - width \in Int /\ s[j] > stamp - width
  <2>1. stamp - width < time - MaxDelay
    BY <1>2, <1>4
  <2> QED BY <1>6, <1>8, <2>1
<1>10. PICK c \in Nat, r \in Seq(Nat) :
         /\ r = Window(t) /\ Len(r) = Len(s) - c
         /\ \A k \in 1..Len(s) : s[k] > stamp - width => c < k /\ r[k - c] = s[k]
  <2>1. Window(t) = Pruned(s, stamp - width)
    BY <1>2 DEF Window
  <2>2. PICK c \in Nat :
          /\ Pruned(s, stamp - width) \in Seq(Nat) /\ Len(Pruned(s, stamp - width)) = Len(s) - c
          /\ \A k \in 1..Len(s) : s[k] > stamp - width =>
               c < k /\ Pruned(s, stamp - width)[k - c] = s[k]
    BY <1>9, PrunedKeeps
  <2>3. /\ Window(t) \in Seq(Nat) /\ Len(Window(t)) = Len(s) - c
        /\ \A k \in 1..Len(s) : s[k] > stamp - width => c < k /\ Window(t)[k - c] = s[k]
    BY <2>1, <2>2, Zenon
  <2> QED BY <2>3, Zenon
<1>11. c < j /\ r[j - c] = s[j]
  BY <1>7, <1>9, <1>10
<1>12. Len(r) - size + i = j - c
  BY <1>5, <1>7, <1>10
<1>13. j - c >= 1 /\ j - c <= Len(r)
  BY <1>7, <1>10, <1>11
<1> QED BY <1>2, <1>3, <1>6, <1>10, <1>11, <1>12, <1>13

\* With no more askers than places, a new one never displaces another.
LEMMA AdmittingKeeps ==
  ASSUME Rated, NEW t \in Threads, pc[t] = "stamped"
  PROVE  \A p \in Swept(now[t]) : p \in Admitting(t)
<1> USE RateAssumption
<1> DEFINE kept == Swept(now[t])
           p == who[t]
<1>1. p \in Principals /\ p # Nobody /\ p \in Asking
  BY DEF Rated, Exact, Calling, Asking
<1>2. p \in Askers /\ kept \subseteq Askers
  BY <1>1 DEF Rated, Readings, Swept
<1>3. IsFiniteSet(Askers) /\ IsFiniteSet(kept) /\ Cardinality(kept) \in Nat
      /\ Cardinality(Askers) \in Nat
  <2> HIDE DEF kept
  <2> QED BY <1>2, FS_Subset, FS_CardinalityType
<1>4. CASE p \in kept
  BY <1>4 DEF Admitting
<1>5. CASE p \notin kept
  <2>1. Cardinality(kept \cup {p}) = Cardinality(kept) + 1
    <3> HIDE DEF kept, p
    <3> QED BY <1>3, <1>5, FS_AddElement
  <2>2. Cardinality(kept \cup {p}) <= Cardinality(Askers)
    <3>1. kept \cup {p} \subseteq Askers
      BY <1>2
    <3> HIDE DEF kept, p
    <3> QED BY <1>3, <3>1, FS_Subset
  <2>3. Cardinality(kept) < MaxPrincipals
    BY <1>3, <2>1, <2>2
  <2>4. ~ (Cardinality(kept) >= MaxPrincipals)
    BY <1>3, <2>3
  <2> QED BY <1>5, <2>4 DEF Admitting
<1> QED BY <1>4, <1>5
-----------------------------------------------------------------------------
(* The rate limit: every step.                                             *)

LEMMA RatedInit == RateInit => Rated
<1> SUFFICES ASSUME RateInit PROVE Rated
  OBVIOUS
<1>1. Exact
  BY ExactInit DEF RateInit
<1>2. Readings
  BY DEF RateInit, Init, Readings, Asking
<1>3. \A p \in Principals : entered[p] = <<>> /\ entered[p] \in Seq(Nat) /\ Len(entered[p]) = 0
  BY EmptySeq DEF RateInit, NoneEntered
<1>4. History
  <2>1. \A p \in Principals :
          Len(entered[p]) <= MostRequests + 1 /\ \A i \in 1..Len(entered[p]) : entered[p][i] <= clock
    BY <1>3, RateAssumption
  <2> QED BY <1>3, <2>1 DEF History, RateInit, NoneEntered
<1>5. Remembers
  BY <1>3 DEF Remembers, Young
<1>6. RateKept
  BY <1>3, RateAssumption DEF RateKept
<1> QED BY <1>1, <1>2, <1>4, <1>5, <1>6 DEF Rated

LEMMA ReadingsNext ==
  ASSUME Rated, RateNext
  PROVE  Readings'
<1> USE RateAssumption
<1>1. policy' \in RatePolicies /\ Asking' \subseteq Askers /\ Next
  BY DEF RateNext
<1>2. known' \subseteq Askers
  <2>1. ASSUME NEW t \in Threads, Grant(t) PROVE known' \subseteq Askers
    <3>1. who[t] \in Askers
      BY <2>1 DEF Grant, Rated, Readings, Exact, Calling, Asking
    <3>2. known' = Admitting(t)
      BY <2>1 DEF Grant, Table
    <3>3. Admitting(t) \subseteq known \cup {who[t]}
      BY DEF Admitting, Swept
    <3> QED BY <3>1, <3>2, <3>3 DEF Rated, Readings
  <2>2. ASSUME NEW t \in Threads, RejectGlobal(t) \/ RejectUser(t)
        PROVE  known' \subseteq Askers
    BY <2>2 DEF RejectGlobal, RejectUser, Table, Swept, Rated, Readings
  <2>3. ASSUME NEW t \in Threads, Release(t) PROVE known' = known
    BY <2>3 DEF Release, Table
  <2>4. ASSUME NEW t \in Threads, Stamp(t) \/ \E p \in Principals : Ask(t, p)
        PROVE  known' = known
    BY <2>4 DEF Stamp, Ask, tableVars
  <2>5. SetPolicy \/ Tick => known' = known
    BY DEF SetPolicy, Tick, tableVars
  <2> QED BY <1>1, <2>1, <2>2, <2>3, <2>4, <2>5 DEF Next, Rated, Readings
<1>3. ASSUME NEW s \in Threads
      PROVE  /\ pc'[s] \in {"asked", "stamped"} => plan'[s] \in RatePolicies
             /\ pc'[s] = "stamped" => now'[s] <= clock' /\ clock' <= now'[s] + MaxDelay
  <2> DEFINE Same == pc'[s] = pc[s] /\ plan'[s] = plan[s] /\ now'[s] = now[s] /\ clock' = clock
  <2>1. /\ pc[s] \in {"asked", "stamped"} => plan[s] \in RatePolicies
        /\ pc[s] = "stamped" => now[s] <= clock /\ clock <= now[s] + MaxDelay
        /\ policy \in RatePolicies /\ clock \in Nat /\ now[s] \in Nat
    BY DEF Rated, Readings, Exact, TypeOK
  <2>2. ASSUME NEW t \in Threads, Grant(t) \/ RejectGlobal(t) \/ RejectUser(t) \/ Release(t)
        PROVE  Same \/ pc'[s] \in {"idle", "running"}
    BY <2>2 DEF Grant, RejectGlobal, RejectUser, Release, Reject, Return, Rated, Exact, TypeOK
  <2>3. ASSUME NEW t \in Threads, NEW p \in Principals, Ask(t, p)
        PROVE  Same \/ (pc'[s] = "asked" /\ plan'[s] = policy)
    BY <2>3 DEF Ask, Rated, Exact, TypeOK
  <2>4. ASSUME NEW t \in Threads, Stamp(t)
        PROVE  \/ Same
               \/ pc[s] = "asked" /\ plan'[s] = plan[s] /\ now'[s] = clock /\ clock' = clock
    BY <2>4 DEF Stamp, Rated, Exact, TypeOK
  <2>5. SetPolicy => Same
    BY DEF SetPolicy, threadVars
  <2>6. ASSUME Tick
        PROVE  /\ pc'[s] = pc[s] /\ plan'[s] = plan[s] /\ now'[s] = now[s] /\ clock' = clock + 1
               /\ pc[s] = "stamped" => clock - now[s] < MaxDelay
    BY <2>6 DEF Tick, threadVars
  <2>7. CASE Same
    BY <2>1, <2>7
  <2>8. CASE \E t \in Threads : Stamp(t)
    BY <2>1, <2>4, <2>7, <2>8
  <2>9. CASE Tick
    BY <2>1, <2>6, <2>9
  <2>10. CASE \E t \in Threads, p \in Principals : Ask(t, p)
    BY <2>1, <2>3, <2>7, <2>10
  <2>11. CASE \E t \in Threads : Grant(t) \/ RejectGlobal(t) \/ RejectUser(t) \/ Release(t)
    BY <2>2, <2>7, <2>11
  <2> QED BY <1>1, <2>5, <2>7, <2>8, <2>9, <2>10, <2>11 DEF Next
<1> QED BY <1>1, <1>2, <1>3 DEF Readings

\* A step that lets nobody in records nothing.
LEMMA NobodyEnters ==
  ASSUME Rated, RateNext, active' = active \/ \E t \in Threads : Release(t)
  PROVE  entered' = entered
<1>1. ASSUME NEW p \in Principals PROVE ~ (active'[p] > active[p])
  <2>1. active[p] \in Nat
    BY DEF Rated, Exact, TypeOK
  <2>2. CASE active' = active
    BY <2>1, <2>2
  <2>3. ASSUME NEW t \in Threads, Release(t) PROVE ~ (active'[p] > active[p])
    <3>1. active'[p] = active[p] \/ active'[p] = Less(active[p])
      BY <2>3 DEF Release, Rated, Exact, TypeOK
    <3> QED BY <2>1, <3>1 DEF Less
  <2> QED BY <2>2, <2>3
<1>2. entered' = [p \in Principals |-> entered[p]]
  <2>1. entered' = [p \in Principals |->
          IF active'[p] > active[p] THEN Latest(Append(entered[p], clock)) ELSE entered[p]]
    BY DEF RateNext
  <2> QED BY <1>1, <2>1
<1> QED BY <1>2 DEF Rated, History

\* It preserves the invariant if what was remembered is still remembered.
LEMMA RatedQuiet ==
  ASSUME Rated, Exact', Readings', entered' = entered, clock' \in {clock, clock + 1},
         \A p \in Principals : \A i \in Nat : Young(p, i) => Remembered(p, i)'
  PROVE  Rated'
<1> USE RateAssumption
<1>1. clock \in Nat /\ \A p \in Principals : \A i \in 1..Len(entered[p]) : entered[p][i] \in Nat
  BY ElementOfSeq DEF Rated, Exact, TypeOK, History
<1>2. History'
  BY <1>1 DEF Rated, History
<1>3. Remembers'
  <2> SUFFICES ASSUME NEW p \in Principals, NEW i \in Nat, Young(p, i)'
               PROVE  Remembered(p, i)'
    BY DEF Remembers
  <2>1. i \in 1..Len(entered[p]) /\ clock' - entered[p][i] < ShortestWindow - MaxDelay
    BY DEF Young
  <2>2. Young(p, i)
    BY <1>1, <2>1 DEF Young
  <2> QED BY <2>2
<1>4. RateKept'
  BY DEF Rated, RateKept
<1> QED BY <1>2, <1>3, <1>4 DEF Rated

\* Steps that leave the table alone.
LEMMA RatedAway ==
  ASSUME Rated, Exact', Readings', entered' = entered, clock' \in {clock, clock + 1},
         UNCHANGED <<known, accepted, seen>>
  PROVE  Rated'
<1>1. \A p \in Principals : \A i \in Nat : Young(p, i) => Remembered(p, i)'
  BY DEF Rated, Remembers, Remembered
<1> QED BY <1>1, RatedQuiet

LEMMA RatedRelease ==
  ASSUME Rated, Exact', RateNext, NEW t \in Threads, Release(t)
  PROVE  Rated'
<1>1. Readings' /\ entered' = entered /\ clock' = clock /\ accepted' = accepted
  BY ReadingsNext, NobodyEnters DEF Release
<1>2. known' = known /\ \A p \in Principals : p \in known => seen'[p] = clock \/ seen'[p] = seen[p]
  BY DEF Release, Table
<1>3. ASSUME NEW p \in Principals, NEW i \in Nat, Young(p, i) PROVE Remembered(p, i)'
  <2>1. Remembered(p, i)
    BY <1>3 DEF Rated, Remembers
  <2>2. entered[p][i] <= clock /\ entered[p][i] \in Nat /\ clock \in Nat
    BY <1>3, ElementOfSeq DEF Young, Rated, History, Exact, TypeOK
  <2>3. seen'[p] >= entered[p][i] - MaxDelay
    BY <1>2, <2>1, <2>2 DEF Remembered
  <2> QED BY <1>1, <1>2, <2>1, <2>3 DEF Remembered
<1> QED BY <1>1, <1>3, RatedQuiet

LEMMA RatedReject ==
  ASSUME Rated, Exact', RateNext, NEW t \in Threads, RejectGlobal(t) \/ RejectUser(t)
  PROVE  Rated'
<1> DEFINE kept == Swept(now[t])
<1>1. PICK p \in Principals, stamp \in Nat :
        /\ p = who[t] /\ stamp = now[t] /\ pc[t] = "stamped"
        /\ stamp <= clock /\ clock <= stamp + MaxDelay
        /\ Table(kept, p, stamp)
        /\ Windows(kept, p, accepted[p]) \/ Windows(kept, p, Window(t))
  <2>1. pc[t] = "stamped" /\ Table(kept, who[t], now[t])
    BY DEF RejectGlobal, RejectUser
  <2>2. who[t] \in Principals /\ now[t] \in Nat
    BY <2>1 DEF Rated, Exact, TypeOK, Calling
  <2>3. now[t] <= clock /\ clock <= now[t] + MaxDelay
    BY <2>1 DEF Rated, Readings
  <2>4. Windows(kept, who[t], accepted[who[t]]) \/ Windows(kept, who[t], Window(t))
    BY DEF RejectGlobal, RejectUser
  <2> HIDE DEF kept
  <2> QED BY <2>1, <2>2, <2>3, <2>4, Zenon
<1>2. Readings' /\ entered' = entered /\ clock' = clock
  BY ReadingsNext, NobodyEnters DEF RejectGlobal, RejectUser, Reject
<1>3. ASSUME NEW q \in Principals, NEW i \in Nat, Young(q, i) PROVE Remembered(q, i)'
  <2>1. Remembered(q, i)
    BY <1>3 DEF Rated, Remembers
  <2>2. q \in kept
    BY <1>1, <1>3, YoungNotSwept
  <2>3. entered[q][i] <= clock /\ entered[q][i] \in Nat /\ clock \in Nat
    BY <1>3, ElementOfSeq DEF Young, Rated, History, Exact, TypeOK
  <2>4. /\ known' = kept /\ seen'[q] = (IF q = p THEN stamp ELSE seen[q])
        /\ accepted'[q] = accepted[q] \/ (q = p /\ accepted'[q] = Window(t))
    BY <1>1, <2>2 DEF Table, Windows
  <2>5. seen'[q] >= entered[q][i] - MaxDelay
    BY <1>1, <2>1, <2>3, <2>4 DEF Remembered
  <2>6. CASE accepted'[q] = accepted[q]
    BY <1>2, <2>1, <2>2, <2>4, <2>5, <2>6 DEF Remembered
  <2>7. CASE q = p /\ accepted'[q] = Window(t)
    <3>1. /\ Len(Window(t)) - Len(entered[q]) + i >= 1
          /\ Window(t)[Len(Window(t)) - Len(entered[q]) + i] >= entered[q][i] - MaxDelay
      BY <1>1, <1>3, <2>7, WindowRemembers
    <3> QED BY <1>2, <2>2, <2>4, <2>5, <2>7, <3>1 DEF Remembered
  <2> QED BY <1>1, <2>4, <2>6, <2>7
<1> QED BY <1>2, <1>3, RatedQuiet

\* An admission finds every young one of the same principal in its window: the
\* table has kept the principal, and the window the times.
LEMMA GrantFinds ==
  ASSUME Rated, NEW t \in Threads, Grant(t), NEW p \in Principals, p = who[t],
         NEW i \in Nat, Young(p, i)
  PROVE  LET j == Len(Window(t)) - Len(entered[p]) + i IN
         /\ j >= 1 /\ j <= Len(Window(t)) /\ Window(t)[j] >= entered[p][i] - MaxDelay
         /\ Len(Window(t)) < MostRequests
         /\ accepted'[p] = Append(Window(t), now[t])
<1> USE RateAssumption
<1>1. pc[t] = "stamped"
  BY DEF Grant
<1>2. plan[t] \in RatePolicies /\ now[t] \in Nat /\ now[t] <= clock
  BY <1>1 DEF Rated, Readings, Exact, TypeOK
<1>3. plan[t].enabled /\ plan[t].requests <= MostRequests /\ plan[t].requests \in Nat
  BY <1>2 DEF PolicyType
<1>4. p \in Swept(now[t])
  BY <1>2, YoungNotSwept
<1>5. ~ RateFull(t)
  BY <1>4 DEF Grant
<1>6. Window(t) \in Seq(Nat) /\ Len(Window(t)) \in Nat
  <2>1. Window(t) \in Seq(Nat)
    BY WindowTimes DEF Rated, Exact
  <2> QED BY <2>1, LenProperties
<1>7. Len(Window(t)) < MostRequests
  BY <1>3, <1>5, <1>6 DEF RateFull
<1>8. accepted'[p] = Append(Window(t), now[t])
  <2>1. Windows(Admitting(t), p, Append(Window(t), now[t]))
    BY <1>3, <1>4 DEF Grant
  <2>2. p \in Admitting(t)
    BY DEF Admitting
  <2> QED BY <2>1, <2>2 DEF Windows
<1>9. LET j == Len(Window(t)) - Len(entered[p]) + i IN
        j >= 1 /\ j <= Len(Window(t)) /\ Window(t)[j] >= entered[p][i] - MaxDelay
  BY <1>1, WindowRemembers
<1> QED BY <1>7, <1>8, <1>9

\* The window after an admission ends with it, whatever it held before.
LEMMA GrantWindow ==
  ASSUME Rated, NEW t \in Threads, Grant(t), NEW p \in Principals, p = who[t]
  PROVE  \E w \in Seq(Nat) : accepted'[p] = Append(w, now[t])
<1> USE RateAssumption
<1>1. pc[t] = "stamped"
  BY DEF Grant
<1>2. plan[t].enabled
  BY <1>1 DEF Rated, Readings
<1>3. Window(t) \in Seq(Nat) /\ <<>> \in Seq(Nat)
  BY WindowTimes, EmptySeq DEF Rated, Exact
<1>4. p \in Admitting(t)
  BY DEF Admitting
<1>5. \E w \in {Window(t), <<>>} : accepted'[p] = Append(w, now[t])
  BY <1>2, <1>4 DEF Grant, Windows
<1> QED BY <1>3, <1>5

LEMMA RatedGrant ==
  ASSUME Rated, Exact', RateNext, NEW t \in Threads, Grant(t)
  PROVE  Rated'
<1> USE RateAssumption
<1>1. PICK p \in Principals, stamp \in Nat :
        /\ p = who[t] /\ stamp = now[t] /\ pc[t] = "stamped"
        /\ stamp <= clock /\ clock <= stamp + MaxDelay /\ clock \in Nat
  BY DEF Grant, Rated, Exact, TypeOK, Calling, Readings
<1>2. clock' = clock /\ active' = [active EXCEPT ![p] = @ + 1]
      /\ Table(Admitting(t), p, stamp) /\ known' = Admitting(t)
  BY <1>1 DEF Grant, Table
<1>3. entered' = [q \in Principals |->
         IF q = p THEN Latest(Append(entered[p], clock)) ELSE entered[q]]
  <2>1. \A q \in Principals : (active'[q] > active[q]) <=> q = p
    BY <1>2 DEF Rated, Exact, TypeOK
  <2>2. entered' = [q \in Principals |->
          IF active'[q] > active[q] THEN Latest(Append(entered[q], clock)) ELSE entered[q]]
    BY DEF RateNext
  <2> QED BY <2>1, <2>2
<1>4. Readings'
  BY ReadingsNext
<1>5. PICK s \in Seq(Nat), size \in Nat : s = entered[p] /\ size = Len(s) /\ size <= MostRequests + 1
  <2>1. entered[p] \in Seq(Nat) /\ Len(entered[p]) <= MostRequests + 1
    BY DEF Rated, History
  <2>2. Len(entered[p]) \in Nat
    BY <2>1, LenProperties
  <2> QED BY <2>1, <2>2, Zenon
<1>6. PICK r \in Seq(Nat), d \in Nat :
        /\ r = entered'[p] /\ Len(r) \in 1..(MostRequests + 1) /\ d = size + 1 - Len(r)
        /\ r[Len(r)] = clock
        /\ \A i \in 1..(Len(r) - 1) : r[i] = s[i + d]
  <2>1. entered'[p] = Latest(Append(s, clock))
    BY <1>3, <1>5
  <2> HIDE DEF Latest
  <2>2. /\ Latest(Append(s, clock)) \in Seq(Nat)
        /\ Len(Latest(Append(s, clock))) \in 1..(MostRequests + 1)
        /\ Len(s) + 1 - Len(Latest(Append(s, clock))) \in Nat
        /\ Latest(Append(s, clock))[Len(Latest(Append(s, clock)))] = clock
        /\ \A i \in 1..(Len(Latest(Append(s, clock))) - 1) :
             Latest(Append(s, clock))[i] = s[i + (Len(s) + 1 - Len(Latest(Append(s, clock))))]
    BY <1>1, <1>5, LatestAppend
  <2> QED BY <1>5, <2>1, <2>2, Zenon
<1>7. \A i \in 1..size : s[i] \in Nat /\ s[i] <= clock
  BY <1>5, ElementOfSeq DEF Rated, History
\* An earlier young entry of the new history is one of the old history.
<1>8. ASSUME NEW i \in 1..(Len(r) - 1), clock - r[i] < ShortestWindow - MaxDelay
      PROVE  i + d \in 1..size /\ Young(p, i + d) /\ r[i] = s[i + d]
  <2>1. i \in Nat /\ i >= 1 /\ i <= Len(r) - 1 /\ Len(r) \in Nat /\ Len(r) = size + 1 - d
    BY <1>6
  <2>2. i + d \in 1..size
    BY <2>1
  <2>3. r[i] = s[i + d]
    BY <1>6
  <2> QED BY <1>5, <1>8, <2>2, <2>3 DEF Young
<1>9. History'
  <2>1. \A i \in 1..Len(r) : r[i] <= clock
    <3> SUFFICES ASSUME NEW i \in 1..Len(r) PROVE r[i] <= clock
      OBVIOUS
    <3>1. CASE i = Len(r)
      BY <1>1, <1>6, <3>1
    <3>2. CASE i # Len(r)
      <4>1. i \in 1..(Len(r) - 1) /\ i + d \in 1..size
        BY <1>6, <3>2
      <4> QED BY <1>6, <1>7, <4>1
    <3> QED BY <3>1, <3>2
  <2>2. entered' \in [Principals -> Seq(Nat)]
    BY <1>3, <1>6 DEF Rated, History
  <2>3. ASSUME NEW q \in Principals
        PROVE  /\ Len(entered'[q]) <= MostRequests + 1
               /\ \A i \in 1..Len(entered'[q]) : entered'[q][i] <= clock
    <3>1. CASE q = p
      BY <1>6, <2>1, <3>1
    <3>2. CASE q # p
      BY <1>3, <3>2 DEF Rated, History
    <3> QED BY <3>1, <3>2
  <2> QED BY <1>2, <2>2, <2>3 DEF History
<1>10. ASSUME NEW q \in Principals, NEW i \in Nat, Young(q, i)' PROVE Remembered(q, i)'
  <2>1. CASE q # p
    <3>1. entered'[q] = entered[q] /\ Young(q, i)
      BY <1>2, <1>3, <1>10, <2>1 DEF Young
    <3>2. Remembered(q, i)
      BY <3>1 DEF Rated, Remembers
    <3>3. q \in Admitting(t)
      BY <1>1, <3>1, YoungNotSwept, AdmittingKeeps
    <3>4. seen'[q] = seen[q] /\ accepted'[q] = accepted[q]
      BY <1>1, <1>2, <2>1, <3>3 DEF Grant, Table, Windows
    <3> QED BY <1>2, <3>1, <3>2, <3>3, <3>4 DEF Remembered
  <2>2. CASE q = p /\ i = Len(r)
    <3>1. PICK w \in Seq(Nat) : accepted'[p] = Append(w, stamp)
      BY <1>1, GrantWindow
    <3>2. Len(accepted'[p]) = Len(w) + 1 /\ accepted'[p][Len(w) + 1] = stamp /\ Len(w) \in Nat
      BY <3>1, AppendProperties, LenProperties
    <3>3. p \in Admitting(t) /\ seen'[p] = stamp
      BY <1>1, <1>2 DEF Admitting, Table
    <3>4. Len(accepted'[p]) - Len(r) + i = Len(w) + 1 /\ Len(w) + 1 >= 1
      BY <1>6, <2>2, <3>2
    <3>5. stamp >= r[i] - MaxDelay
      BY <1>1, <1>6, <2>2
    <3> QED BY <1>2, <1>6, <2>2, <3>2, <3>3, <3>4, <3>5 DEF Remembered
  <2>3. CASE q = p /\ i # Len(r)
    <3>1. i \in 1..(Len(r) - 1) /\ clock - r[i] < ShortestWindow - MaxDelay
      BY <1>2, <1>6, <1>10, <2>3 DEF Young
    <3>2. i + d \in 1..size /\ Young(p, i + d) /\ r[i] = s[i + d] /\ i + d \in Nat
      BY <1>8, <3>1
    <3>3. PICK w \in Seq(Nat), j \in Int :
            /\ w = Window(t) /\ j = Len(w) - size + (i + d) /\ j >= 1 /\ j <= Len(w)
            /\ w[j] >= r[i] - MaxDelay /\ accepted'[p] = Append(w, stamp)
      <4>1. LET j == Len(Window(t)) - Len(entered[p]) + (i + d) IN
            /\ j >= 1 /\ j <= Len(Window(t)) /\ Window(t)[j] >= entered[p][i + d] - MaxDelay
            /\ accepted'[p] = Append(Window(t), now[t])
        BY <1>1, <3>2, GrantFinds
      <4>2. Window(t) \in Seq(Nat)
        BY <1>1, WindowTimes DEF Rated, Exact
      <4>3. Len(Window(t)) \in Nat
        BY <4>2, LenProperties
      <4>4. Len(Window(t)) - size + (i + d) \in Int
        BY <3>2, <4>3
      <4> QED BY <1>1, <1>5, <3>2, <4>1, <4>2, <4>4, Zenon
    <3>4. Len(w) \in Nat /\ Len(accepted'[p]) = Len(w) + 1 /\ \A k \in 1..Len(w) : accepted'[p][k] = w[k]
      BY <3>3, AppendProperties, LenProperties
    <3>5. Len(accepted'[p]) - Len(r) + i = j
      <4>1. Len(r) = size + 1 - d /\ Len(r) \in Nat
        BY <1>6
      <4> QED BY <3>1, <3>3, <3>4, <4>1
    <3>6. accepted'[p][j] >= r[i] - MaxDelay
      BY <3>3, <3>4
    <3>7. p \in Admitting(t) /\ seen'[p] = stamp
      BY <1>1, <1>2 DEF Admitting, Table
    <3>8. stamp >= r[i] - MaxDelay
      <4>1. s[i + d] \in Nat /\ s[i + d] <= clock
        BY <1>7, <3>2
      <4> QED BY <1>1, <3>2, <4>1
    <3> QED BY <1>2, <1>6, <2>3, <3>3, <3>5, <3>6, <3>7, <3>8 DEF Remembered
  <2> QED BY <2>1, <2>2, <2>3
<1>11. RateKept'
  <2> SUFFICES ASSUME NEW q \in Principals, Len(entered'[q]) > MostRequests
               PROVE  entered'[q][Len(entered'[q])] - entered'[q][1] >= ShortestWindow - MaxDelay
    BY DEF RateKept
  <2>1. CASE q # p
    BY <1>3, <2>1 DEF Rated, RateKept
  <2>2. CASE q = p
    <3>1. Len(r) = MostRequests + 1 /\ 1 \in 1..(Len(r) - 1)
      BY <1>6, <2>2
    <3>2. SUFFICES ASSUME clock - r[1] < ShortestWindow - MaxDelay PROVE FALSE
      <4>1. r[1] = s[1 + d] /\ 1 + d \in 1..size
        BY <1>6, <3>1
      <4>2. r[1] \in Nat
        BY <1>7, <4>1
      <4>3. clock - r[1] >= ShortestWindow - MaxDelay => r[Len(r)] - r[1] >= ShortestWindow - MaxDelay
        BY <1>6
      <4>4. ShortestWindow - MaxDelay \in Int /\ clock - r[1] \in Int
        BY <1>1, <4>2
      <4>5. clock - r[1] < ShortestWindow - MaxDelay \/ clock - r[1] >= ShortestWindow - MaxDelay
        BY <4>4
      <4> QED BY <1>6, <2>2, <4>3, <4>5
    <3>3. Young(p, 1 + d) /\ 1 + d \in Nat
      BY <1>8, <3>1, <3>2
    <3>4. Len(Window(t)) - size + (1 + d) >= 1 /\ Len(Window(t)) < MostRequests
      BY <1>1, <1>5, <3>3, GrantFinds
    <3>5. Len(Window(t)) \in Nat
      <4>1. Window(t) \in Seq(Nat)
        BY <1>1, WindowTimes DEF Rated, Exact
      <4> QED BY <4>1, LenProperties
    <3> QED BY <1>6, <3>1, <3>4, <3>5
  <2> QED BY <2>1, <2>2
<1>12. Remembers'
  BY <1>10 DEF Remembers
<1> QED BY <1>4, <1>9, <1>11, <1>12 DEF Rated

LEMMA RatedNext == Rated /\ [RateNext]_<<vars, entered>> => Rated'
<1> SUFFICES ASSUME Rated, [RateNext]_<<vars, entered>> PROVE Rated'
  OBVIOUS
<1>1. Exact'
  BY ExactNext DEF Rated, RateNext
<1>2. CASE UNCHANGED <<vars, entered>>
  <2>1. Readings'
    BY <1>2 DEF vars, tableVars, threadVars, Rated, Readings, Asking
  <2> QED BY <1>1, <1>2, <2>1, RatedAway DEF vars, tableVars, threadVars
<1>3. CASE RateNext
  <2>1. Readings' /\ Next
    BY <1>3, ReadingsNext DEF RateNext
  <2>2. ASSUME \/ \E t \in Threads : Stamp(t) \/ \E p \in Principals : Ask(t, p)
               \/ SetPolicy \/ Tick
        PROVE  Rated'
    <3>1. UNCHANGED <<known, accepted, seen, active>> /\ clock' \in {clock, clock + 1}
      BY <2>2 DEF Stamp, Ask, SetPolicy, Tick, tableVars
    <3>2. entered' = entered
      BY <1>3, <3>1, NobodyEnters
    <3> QED BY <1>1, <2>1, <3>1, <3>2, RatedAway
  <2> QED BY <1>1, <1>3, <2>1, <2>2, RatedRelease, RatedReject, RatedGrant DEF Next
<1> QED BY <1>2, <1>3

\* One more admission of a principal than any policy in force allows takes at
\* least the shortest window, less the wait for the lock: for every number of
\* threads and policies, while no more principals ask than the table holds.
THEOREM RateLimitKept == RateSpec => []RateKept
<1>1. RateSpec => []Rated
  BY RatedInit, RatedNext, PTL DEF RateSpec
<1> QED BY <1>1, PTL DEF Rated
=============================================================================
