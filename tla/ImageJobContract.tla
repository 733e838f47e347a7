-------------------------- MODULE ImageJobContract --------------------------
(***************************************************************************)
(* What image generation promises the owner of a job                       *)
(* (docs/services/image-generation.md, "tasks and points"): a submitted    *)
(* job is settled at most once, either by an image, whose reservation is   *)
(* confirmed in the same step, or without one, and then the reservation is *)
(* returned in the same step.  A free job has no reservation at all.       *)
(***************************************************************************)
CONSTANT Jobs

VARIABLES
  outcome,   \* "none", "open", "delivered" or "abandoned"
  money      \* "none", "reserved", "completed" or "refunded"

contractVars == <<outcome, money>>

Init ==
  /\ outcome = [j \in Jobs |-> "none"]
  /\ money = [j \in Jobs |-> "none"]

Submit(j) ==
  /\ outcome[j] = "none"
  /\ outcome' = [outcome EXCEPT ![j] = "open"]
  /\ \E m \in {"none", "reserved"} : money' = [money EXCEPT ![j] = m]

\* A reservation moves on to m; a free job has nothing to move.
Book(j, m) ==
  money' = [money EXCEPT ![j] = IF @ = "reserved" THEN m ELSE @]

Deliver(j) ==
  /\ outcome[j] = "open"
  /\ outcome' = [outcome EXCEPT ![j] = "delivered"]
  /\ Book(j, "completed")

Abandon(j) ==
  /\ outcome[j] = "open"
  /\ outcome' = [outcome EXCEPT ![j] = "abandoned"]
  /\ Book(j, "refunded")

Next == \E j \in Jobs : Submit(j) \/ Deliver(j) \/ Abandon(j)

Spec == Init /\ [][Next]_contractVars
=============================================================================
