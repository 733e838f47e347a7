------------------------------ MODULE MCPlatform ------------------------------
(* Small instances of the platform's components for TLC.  Each behaviour    *)
(* exercises one of them and leaves the others as they start: they share no *)
(* state, and one run checks them all.                                      *)
EXTENDS MCAdmissionRate, Accounts, Sessions, Registration, Notices, Configuration

admissionVars == <<vars, entered>>

VARIABLE part   \* the component of this behaviour

Parts == {"rate", "counts", "accounts", "sessions", "registration", "notices", "settings"}

\* Components with several initial states keep one of them in the behaviours
\* of the others.
PlatformInit ==
  /\ part \in Parts
  /\ Init /\ NoneEntered /\ AccountsInit /\ SessionsInit /\ RegistrationInit /\ NoticesInit /\ ConfigInit
  /\ IF part = "counts" THEN policy \in CountPolicies
     ELSE IF part = "rate" THEN policy \in RatePolicies
     ELSE policy = CHOOSE pl \in Policies : TRUE
  /\ \/ part = "notices"
     \/ \A n \in Notes : note[n] = Absent /\ \A u, v \in Readers : role[u] = role[v]
  /\ part = "notices" \/ \A u \in Readers : role[u] = CHOOSE r \in Audiences : TRUE
  /\ part = "settings" \/ ~legacy

AdmissionPart ==
  /\ \/ part = "rate" /\ RateNext
     \/ part = "counts" /\ CountNext
  /\ UNCHANGED <<part, accountsVars, sessionsVars, registrationVars, noticesVars, configVars>>
AccountsPart ==
  /\ part = "accounts" /\ AccountsNext
  /\ UNCHANGED <<part, admissionVars, sessionsVars, registrationVars, noticesVars, configVars>>
SessionsPart ==
  /\ part = "sessions" /\ SessionsNext
  /\ UNCHANGED <<part, admissionVars, accountsVars, registrationVars, noticesVars, configVars>>
RegistrationPart ==
  /\ part = "registration" /\ RegistrationNext
  /\ UNCHANGED <<part, admissionVars, accountsVars, sessionsVars, noticesVars, configVars>>
NoticesPart ==
  /\ part = "notices" /\ NoticesNext
  /\ UNCHANGED <<part, admissionVars, accountsVars, sessionsVars, registrationVars, configVars>>
SettingsPart ==
  /\ part = "settings" /\ ConfigNext
  /\ UNCHANGED <<part, admissionVars, accountsVars, sessionsVars, registrationVars, noticesVars>>

PlatformNext ==
  AdmissionPart \/ AccountsPart \/ SessionsPart \/ RegistrationPart \/ NoticesPart \/ SettingsPart

PlatformSpec ==
  PlatformInit /\ [][PlatformNext]_<<part, admissionVars, accountsVars, sessionsVars,
                                     registrationVars, noticesVars, configVars>>

\* Constants that no expression tells apart share two sets of model values.
PlatformSymmetry ==
  Permutations(Readers) \cup Permutations(AdminRequests)
===============================================================================
