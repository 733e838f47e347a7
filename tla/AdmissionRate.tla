---------------------------- MODULE AdmissionRate ----------------------------
(***************************************************************************)
(* The rate limit of QueryAdmission, stated over the times at which        *)
(* requests were really let in.  The controller keeps the times that       *)
(* threads read before they waited for the lock, prunes them, and forgets  *)
(* those of a principal it evicts; a history variable records the truth.   *)
(***************************************************************************)
EXTENDS QueryAdmission

CONSTANTS
  RatePolicies,   \* policies an administrator may set while the limit is on
  MostRequests,   \* the most requests any of them lets into a window
  ShortestWindow, \* the shortest window any of them has
  Askers          \* principals that send requests

\* An idle principal is evicted, window and all, when the table is full: the
\* limit is promised to no more principals than the table holds.
ASSUME RateAssumption ==
  /\ RatePolicies \subseteq Policies
  /\ MostRequests \in Nat \ {0} /\ ShortestWindow \in Nat \ {0}
  /\ \A pl \in RatePolicies :
       pl.enabled /\ pl.requests <= MostRequests /\ pl.window >= ShortestWindow
  /\ Askers \subseteq Principals /\ Cardinality(Askers) <= MaxPrincipals

VARIABLE entered   \* real times of the latest admissions of each principal

\* Only the latest MostRequests + 1 admissions matter.
Latest(s) == SubSeq(s, IF Len(s) > MostRequests THEN Len(s) - MostRequests ELSE 1, Len(s))

NoneEntered == entered = [p \in Principals |-> <<>>]

RateInit == Init /\ policy \in RatePolicies /\ NoneEntered

Asking == {who[t] : t \in Threads} \ {Nobody}

RateNext ==
  /\ Next /\ policy' \in RatePolicies
  /\ entered' = [p \in Principals |->
       IF active'[p] > active[p] THEN Latest(Append(entered[p], clock))
       ELSE entered[p]]
  /\ Asking' \subseteq Askers

RateSpec == RateInit /\ [][RateNext]_<<vars, entered>>

\* One more admission of a principal than the limit allows takes at least a
\* window, less the time a thread may wait for the lock with the time it read.
RateKept ==
  \A p \in Principals :
    Len(entered[p]) > MostRequests =>
      entered[p][Len(entered[p])] - entered[p][1] >= ShortestWindow - MaxDelay
=============================================================================
