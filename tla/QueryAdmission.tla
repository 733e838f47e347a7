--------------------------- MODULE QueryAdmission ---------------------------
(***************************************************************************)
(* Admission of query requests: concurrency limits and a sliding-window    *)
(* rate limit per principal, kept in the memory of the one process.        *)
(*                                                                         *)
(* Source: api/query_admission.py and its caller in api/query_execution.py.*)
(*                                                                         *)
(* The methods hold the controller's lock, so each is one step; but the    *)
(* policy, and then the clock, are read before the lock is taken, and both *)
(* may be stale when they are used.  The OrderedDict of principals is the  *)
(* set known with, for each principal, the set of those before it.         *)
(***************************************************************************)
EXTENDS Integers, FiniteSets, Sequences

CONSTANTS
  Threads,        \* threads of the server's pool
  Principals,     \* users, tokens and anonymous clients
  Nobody,
  Policies,       \* normalised policies an administrator may set
  MaxPrincipals,  \* 10 000; never below 100
  IdleSeconds,    \* 3600, as long as the longest window a policy may have
  SweepSeconds,   \* min(60, IdleSeconds / 4)
  MaxClock,       \* bound: length of the run
  MaxDelay        \* bound: time between reading the clock and getting the lock

PolicyType == [enabled: BOOLEAN, window: Nat \ {0}, requests: Nat \ {0},
               perUser: Nat \ {0}, global: Nat \ {0}]

\* The hard limits of normalize_query_protection: at most 32 requests at once
\* and a window of at most 3600 s.
ASSUME AdmissionAssumption ==
  /\ IsFiniteSet(Threads) /\ IsFiniteSet(Principals)
  /\ Nobody \notin Principals \cup Policies
  /\ Policies \subseteq PolicyType
  /\ MaxPrincipals \in Nat /\ IdleSeconds \in Nat /\ SweepSeconds \in Nat
  /\ MaxClock \in Nat /\ MaxDelay \in Nat
  /\ \A plan \in Policies : plan.global <= MaxPrincipals /\ plan.window <= IdleSeconds

VARIABLES
  known, before,    \* keys of _states, and which keys precede each of them
  active, accepted, seen,   \* fields of the state of each principal
  total,            \* _active_requests
  sweep,            \* _next_idle_sweep
  policy,           \* the settings in force
  clock,            \* time.monotonic()
  pc, who, plan, now   \* each thread: step, principal, policy and time it read

tableVars  == <<known, before, active, accepted, seen, total, sweep>>
threadVars == <<pc, who, plan, now>>
vars == <<tableVars, policy, clock, threadVars>>

Init ==
  /\ known = {} /\ before = [p \in Principals |-> {}]
  /\ active = [p \in Principals |-> 0]
  /\ accepted = [p \in Principals |-> <<>>]
  /\ seen = [p \in Principals |-> 0]
  /\ total = 0 /\ sweep = 0
  /\ policy \in Policies /\ clock = 0
  /\ pc = [t \in Threads |-> "idle"]
  /\ who = [t \in Threads |-> Nobody]
  /\ plan = [t \in Threads |-> Nobody]
  /\ now = [t \in Threads |-> 0]

-----------------------------------------------------------------------------
(* The environment.                                                        *)

\* Faulty variant: the request is judged by default limits, not the settings.
AskDefault(t, p) ==
  /\ pc[t] = "idle"
  /\ pc' = [pc EXCEPT ![t] = "asked"]
  /\ who' = [who EXCEPT ![t] = p]
  /\ plan' = [plan EXCEPT ![t] = CHOOSE limits \in Policies : TRUE]
  /\ UNCHANGED <<tableVars, policy, clock, now>>

\* A request arrives; its principal and the settings are read.
Ask(t, p) ==
  /\ pc[t] = "idle"
  /\ pc' = [pc EXCEPT ![t] = "asked"]
  /\ who' = [who EXCEPT ![t] = p]
  /\ plan' = [plan EXCEPT ![t] = policy]
  /\ UNCHANGED <<tableVars, policy, clock, now>>

\* The clock is read, outside the lock.
Stamp(t) ==
  /\ pc[t] = "asked"
  /\ pc' = [pc EXCEPT ![t] = "stamped"]
  /\ now' = [now EXCEPT ![t] = clock]
  /\ UNCHANGED <<tableVars, policy, clock, who, plan>>

SetPolicy ==
  /\ policy' \in Policies \ {policy}
  /\ UNCHANGED <<tableVars, clock, threadVars>>

Tick ==
  /\ clock < MaxClock
  /\ \A t \in Threads : pc[t] = "stamped" => clock - now[t] < MaxDelay
  /\ clock' = clock + 1
  /\ UNCHANGED <<tableVars, policy, threadVars>>

-----------------------------------------------------------------------------
(* try_acquire.                                                            *)

\* Faulty variant: a principal at work counts as idle.
StaleAtWork(p, n) == seen[p] < n - IdleSeconds
Stale(p, n) == active[p] = 0 /\ seen[p] < n - IdleSeconds

\* _evict_idle: the principals it leaves; it pops from the old end of the
\* dictionary and stops at the first one that is not stale.
Swept(n) ==
  IF n < sweep THEN known
  ELSE {p \in known : \E q \in before[p] \cup {p} : ~Stale(q, n)}

\* _evict_oldest_idle: the first principal in K without an active request.
OldestIdle(K) ==
  {p \in K : active[p] = 0 /\ \A q \in before[p] \cap K : active[q] > 0}

\* The dictionary holds the principals K, and if p is one of them it has been
\* touched at time n and is the last of them.
Table(K, p, n) ==
  /\ known' = K
  /\ before' = [q \in Principals |->
       IF q \notin K THEN {} ELSE IF q = p THEN K \ {p}
       ELSE (before[q] \cap K) \ {p}]
  /\ seen' = [q \in Principals |->
       IF q \notin K THEN 0 ELSE IF q = p THEN n ELSE seen[q]]

\* Faulty variant: one expired entry clears the window.
PrunedAll(s, cutoff) == IF s # <<>> /\ s[1] <= cutoff THEN <<>> ELSE s
\* _prune_window: entries are dropped from the front until one is younger.
Pruned(s, cutoff) ==
  LET gone == {i \in 1..Len(s) : \A k \in 1..i : s[k] <= cutoff}
  IN SubSeq(s, Cardinality(gone) + 1, Len(s))

\* The accepted times that remain: those of the principals K, and w for p.
Windows(K, p, w) ==
  accepted' = [q \in Principals |->
    IF q \notin K THEN <<>> ELSE IF q = p THEN w ELSE accepted[q]]

Window(t) == Pruned(accepted[who[t]], now[t] - plan[t].window)
RateFull(t) == plan[t].enabled /\ Len(Window(t)) >= plan[t].requests

Sweeping(n) == sweep' = IF n < sweep THEN sweep ELSE n + SweepSeconds

\* The call is over, and with it what the thread had read for it.
Return(t) ==
  /\ plan' = [plan EXCEPT ![t] = Nobody] /\ now' = [now EXCEPT ![t] = 0]

Reject(t) ==
  /\ pc' = [pc EXCEPT ![t] = "idle"] /\ who' = [who EXCEPT ![t] = Nobody]
  /\ Return(t)
  /\ UNCHANGED <<active, total, policy, clock>>

\* Too many requests in all; a new principal is not recorded.
RejectGlobal(t) ==
  /\ pc[t] = "stamped" /\ total >= plan[t].global
  /\ LET kept == Swept(now[t]) IN
       /\ Table(kept, who[t], now[t])
       /\ Windows(kept, who[t], accepted[who[t]])
  /\ Sweeping(now[t]) /\ Reject(t)

\* Too many requests of this principal at once, or in the window.
RejectUser(t) ==
  /\ pc[t] = "stamped" /\ total < plan[t].global
  /\ LET kept == Swept(now[t]) IN
       /\ who[t] \in kept
       /\ active[who[t]] >= plan[t].perUser \/ RateFull(t)
       /\ Table(kept, who[t], now[t])
       /\ Windows(kept, who[t], Window(t))
  /\ Sweeping(now[t]) /\ Reject(t)

\* The principals after thread t is let in: an idle one makes room if the
\* table is full.
Admitting(t) ==
  LET kept == Swept(now[t]) IN
  IF who[t] \in kept THEN kept
  ELSE {who[t]} \cup
       (IF Cardinality(kept) >= MaxPrincipals THEN kept \ OldestIdle(kept) ELSE kept)

Grant(t) ==
  /\ pc[t] = "stamped" /\ total < plan[t].global
  /\ LET p == who[t]
         isNew == p \notin Swept(now[t])
         w == IF isNew THEN <<>> ELSE Window(t)
     IN
       /\ isNew \/ (active[p] < plan[t].perUser /\ ~RateFull(t))
       /\ Table(Admitting(t), p, now[t])
       /\ Windows(Admitting(t), p, IF plan[t].enabled THEN Append(w, now[t]) ELSE w)
       /\ active' = [active EXCEPT ![p] = @ + 1]
  /\ total' = total + 1
  /\ Sweeping(now[t])
  /\ pc' = [pc EXCEPT ![t] = "running"] /\ Return(t)
  /\ UNCHANGED <<policy, clock, who>>

-----------------------------------------------------------------------------
(* release, in the finally clause of run_lookup, however the query ends.   *)

Less(x) == IF x > 0 THEN x - 1 ELSE 0

Release(t) ==
  /\ pc[t] = "running"
  /\ pc' = [pc EXCEPT ![t] = "idle"] /\ who' = [who EXCEPT ![t] = Nobody]
  /\ IF who[t] \in known
       THEN /\ total' = Less(total)
            /\ active' = [active EXCEPT ![who[t]] = Less(@)]
            /\ Table(known, who[t], clock)
       ELSE UNCHANGED <<total, active, known, before, seen>>
  /\ UNCHANGED <<accepted, sweep, policy, clock, plan, now>>

Next ==
  \/ \E t \in Threads :
       \/ \E p \in Principals : Ask(t, p)
       \/ Stamp(t) \/ Grant(t) \/ RejectGlobal(t) \/ RejectUser(t) \/ Release(t)
  \/ SetPolicy \/ Tick

Spec == Init /\ [][Next]_vars

-----------------------------------------------------------------------------
(* Properties.                                                             *)

\* Types; the order of the dictionary is an order of the keys it holds.
TypeOK ==
  /\ known \subseteq Principals
  /\ before \in [Principals -> SUBSET known]
  /\ \A p \in Principals : p \notin before[p] /\ \A q \in before[p] : before[q] \subseteq before[p]
  /\ active \in [Principals -> Nat] /\ total \in Nat
  /\ accepted \in [Principals -> Seq(Nat)] /\ seen \in [Principals -> Nat]
  /\ sweep \in Nat /\ clock \in Nat /\ policy \in Policies
  /\ pc \in [Threads -> {"idle", "asked", "stamped", "running"}]
  /\ who \in [Threads -> Principals \cup {Nobody}]
  /\ plan \in [Threads -> Policies \cup {Nobody}] /\ now \in [Threads -> Nat]

Running     == {t \in Threads : pc[t] = "running"}
RunningOf(p) == {t \in Running : who[t] = p}

\* The counters are exact: whatever evictions, rejections and changes of the
\* policy come in between, no slot is lost and none is given back twice.
CountsExact ==
  /\ total = Cardinality(Running)
  /\ \A p \in Principals : active[p] = Cardinality(RunningOf(p))

\* A principal with a request in progress is never evicted.
WorkersKnown == \A t \in Running : who[t] \in known

\* The table never outgrows its capacity: a full one always has an idle entry.
TableBounded == Cardinality(known) <= MaxPrincipals

Contract == INSTANCE AdmissionContract WITH
  holder <- [t \in Threads |-> IF pc[t] = "running" THEN who[t] ELSE Nobody],
  judged <- plan

\* The controller implements the contract: each request let in found fewer
\* requests really in progress than the limits of the policy that was in force
\* when it came, although the settings may have changed, other requests come
\* and gone and principals been evicted since.
KeepsContract == Contract!Spec
=============================================================================
