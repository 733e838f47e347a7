-------------------------- MODULE MCAdmissionRate --------------------------
(* Small instances of QueryAdmission and AdmissionRate.                     *)
EXTENDS AdmissionRate, TLC

\* One principal against windows of one and of two requests.
MCRatePolicies ==
  [enabled : {TRUE}, window : {2}, requests : {1, 2}, perUser : {1}, global : {1}]

\* The limits of requests in progress: a policy that allows more per user
\* allows fewer in all, so that both come to bind and a change may leave more
\* running than the new one allows.
CountPolicies ==
  {pl \in [enabled : {FALSE}, window : {1}, requests : {2}, perUser : {1, 2}, global : {1, 2}] :
     pl.perUser + pl.global = 3}

MCPolicies == MCRatePolicies \cup CountPolicies

\* A shorter run is long enough for every idle principal to be evicted.
CountNext ==
  /\ Next /\ policy' \in CountPolicies
  /\ clock' <= IdleSeconds + 1
  /\ UNCHANGED entered
=============================================================================
