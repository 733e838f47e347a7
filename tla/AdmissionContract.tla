-------------------------- MODULE AdmissionContract --------------------------
(***************************************************************************)
(* What query admission promises: a request is let in only while fewer     *)
(* requests than the global limit, and fewer of the same principal than    *)
(* the limit per user, are really in progress, by the limits of the policy *)
(* that was in force when that request came, whatever an administrator has *)
(* set since.  The counters of the controller do not appear: the requests  *)
(* themselves are counted.                                                 *)
(***************************************************************************)
EXTENDS Naturals, FiniteSets

CONSTANTS Threads, Principals, Nobody, Policies

VARIABLES
  holder,   \* the principal each thread is working for, or Nobody
  policy,   \* the policy in force
  judged    \* the policy each waiting request is judged by, or Nobody

contractVars == <<holder, policy, judged>>

Holders == {t \in Threads : holder[t] # Nobody}

Init ==
  /\ holder = [t \in Threads |-> Nobody]
  /\ policy \in Policies
  /\ judged = [t \in Threads |-> Nobody]

\* A request comes: the policy in force now is the one that counts for it.
Come(t) ==
  /\ holder[t] = Nobody /\ judged[t] = Nobody
  /\ judged' = [judged EXCEPT ![t] = policy]
  /\ UNCHANGED <<holder, policy>>

Admit(t, p) ==
  /\ holder[t] = Nobody /\ judged[t] # Nobody
  /\ Cardinality(Holders) < judged[t].global
  /\ Cardinality({s \in Holders : holder[s] = p}) < judged[t].perUser
  /\ holder' = [holder EXCEPT ![t] = p]
  /\ judged' = [judged EXCEPT ![t] = Nobody]
  /\ UNCHANGED policy

Decline(t) ==
  /\ judged[t] # Nobody
  /\ judged' = [judged EXCEPT ![t] = Nobody]
  /\ UNCHANGED <<holder, policy>>

Leave(t) ==
  /\ holder[t] # Nobody
  /\ holder' = [holder EXCEPT ![t] = Nobody]
  /\ UNCHANGED <<policy, judged>>

Change == policy' \in Policies /\ UNCHANGED <<holder, judged>>

Next ==
  \/ \E t \in Threads :
       Come(t) \/ Decline(t) \/ Leave(t) \/ \E p \in Principals : Admit(t, p)
  \/ Change

Spec == Init /\ [][Next]_contractVars
=============================================================================
