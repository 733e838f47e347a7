------------------------------ MODULE Sessions ------------------------------
(***************************************************************************)
(* Signing in and staying signed in: the sessions of one account name, the *)
(* index they are revoked through, one-time reset tokens, and the throttle *)
(* of wrong passwords with the captcha asked for before it.                *)
(*                                                                         *)
(* Source: auth/service.py, auth/security.py, storage/redis_state.py       *)
(* (RedisSessionStore), auth/slider_captcha.py, api/v1/auth/router.py.     *)
(*                                                                         *)
(* Redis lets a key vanish when its time to live is over; the sessions of  *)
(* a name and the set of their tokens are separate keys with a time to     *)
(* live each.  AuthService writes under a lock; resolve_session and logout *)
(* do not take it, and a resolution reads the session, then the account.   *)
(***************************************************************************)
EXTENDS Naturals, FiniteSets, Sequences

CONSTANTS
  Tokens,                   \* session tokens that may be issued
  DefaultTTL, RememberTTL,  \* SESSION_TTL_DEFAULT and SESSION_TTL_REMEMBER
  ResetTTL,                 \* RESET_TOKEN_TTL
  MaxFailures, ThrottleWindow, ThrottleLock,  \* THROTTLE_*
  MaxTime,                 \* bound: time.time()
  MaxEpoch                  \* bound: changes of the password or the account

ASSUME SessionsAssumption ==
  /\ DefaultTTL \in Nat \ {0} /\ RememberTTL \in Nat /\ DefaultTTL <= RememberTTL
  /\ ResetTTL \in Nat /\ MaxTime \in Nat /\ MaxEpoch \in Nat
  /\ MaxFailures \in Nat \ {0, 1}
  /\ ThrottleWindow \in Nat /\ ThrottleLock \in Nat /\ ThrottleWindow < ThrottleLock

Time  == 0 .. MaxTime + RememberTTL + ResetTTL + ThrottleLock
Epoch == 0 .. MaxEpoch
NoSession == [live |-> FALSE]

VARIABLES
  time,       \* time.time()
  status,     \* of the account, or "absent"
  epoch,      \* history: how often its sessions had to be revoked
  session,    \* stqb:session:<token>
  tokens,     \* stqb:user-sessions:<username>
  indexEnd,   \* when that set expires
  resolving,  \* a resolution that has read its session, or none
  resetEnd,   \* reset_expires_at of an open reset token, or none
  failure,    \* _failures of the name at one address
  tried       \* history: when wrong passwords were looked at

sessionsVars == <<time, status, epoch, session, tokens, indexEnd, resolving,
                  resetEnd, failure, tried>>

SessionType == {NoSession} \cup
  [live : {TRUE}, end : Time, issued : 0 .. MaxTime, epoch : Epoch]

SessionsTypeOK ==
  /\ time \in 0 .. MaxTime
  /\ status \in {"absent", "active", "disabled"} /\ epoch \in Epoch
  /\ session \in [Tokens -> SessionType]
  /\ tokens \subseteq Tokens /\ indexEnd \in Time
  /\ resolving \in {{}} \cup {{t} : t \in Tokens}
  /\ resetEnd \in {{}} \cup {{e} : e \in Time}
  /\ failure \in [first : Time, count : 0 .. MaxFailures, lockedUntil : Time]
  /\ tried \in Seq(0 .. MaxTime)

NoFailure == [first |-> 0, count |-> 0, lockedUntil |-> 0]

SessionsInit ==
  /\ time = 0 /\ status = "active" /\ epoch = 0
  /\ session = [t \in Tokens |-> NoSession]
  /\ tokens = {} /\ indexEnd = 0 /\ resolving = {} /\ resetEnd = {}
  /\ failure = NoFailure /\ tried = <<>>

-----------------------------------------------------------------------------
\* Redis: a key is there until its time to live is over.
Live(t)  == session[t].live /\ time < session[t].end
Indexed  == IF time < indexEnd THEN tokens ELSE {}

TimeGoesOn ==
  /\ time < MaxTime
  /\ time' = time + 1
  /\ UNCHANGED <<status, epoch, session, tokens, indexEnd, resolving, resetEnd,
                 failure, tried>>

-----------------------------------------------------------------------------
\* assert_not_locked: over the window the record is dropped, unless locked.
Locked == failure.lockedUntil > time
Faded  == failure.count > 0 /\ time - failure.first > ThrottleWindow

\* Faulty variant: no lock is set.
AfterFailureUnlocked ==
  IF failure.count = 0 \/ Faded
  THEN [first |-> time, count |-> 1, lockedUntil |-> 0]
  ELSE [failure EXCEPT !.count = IF @ < MaxFailures THEN @ + 1 ELSE @]

\* record_failure: a new window, or one more and perhaps the lock.
AfterFailure ==
  IF failure.count = 0 \/ Faded
  THEN [first |-> time, count |-> 1, lockedUntil |-> 0]
  ELSE [failure EXCEPT
         !.count = @ + 1,
         !.lockedUntil = IF failure.count + 1 >= MaxFailures
                         THEN time + ThrottleLock ELSE @]

WrongPassword ==
  /\ ~Locked
  /\ status /= "disabled"
  /\ failure' = AfterFailure
  /\ tried' = Append(tried, time)
  /\ UNCHANGED <<time, status, epoch, session, tokens, indexEnd, resolving, resetEnd>>

\* An attempt on a disabled account ends before the password; a record whose
\* window is over has been dropped by then.
RefuseDisabled ==
  /\ ~Locked /\ status = "disabled"
  /\ failure' = IF Faded THEN NoFailure ELSE failure
  /\ UNCHANGED <<time, status, epoch, session, tokens, indexEnd, resolving, resetEnd, tried>>

\* Faulty variant: the index keeps the time to live of its first session.
IndexEndFirst(ttl) == IF time < indexEnd THEN indexEnd ELSE time + ttl

\* RedisSessionStore.save: the token, its place in the index, and the time to
\* live of the whole index, set anew to that of this session.
IndexEnd(ttl) == time + ttl

Login(t, remember) ==
  LET ttl == IF remember THEN RememberTTL ELSE DefaultTTL
  IN /\ ~Locked /\ status = "active"
     /\ session[t] = NoSession
     /\ session' = [session EXCEPT ![t] =
          [live |-> TRUE, end |-> time + ttl, issued |-> time, epoch |-> epoch]]
     /\ tokens' = Indexed \cup {t}
     /\ indexEnd' = IndexEnd(ttl)
     /\ failure' = NoFailure /\ tried' = <<>>
     /\ UNCHANGED <<time, status, epoch, resolving, resetEnd>>

-----------------------------------------------------------------------------
\* RedisSessionStore.delete.
Deleted(T) == [t \in Tokens |-> IF t \in T THEN NoSession ELSE session[t]]

Logout(t) ==
  /\ Live(t)
  /\ session' = Deleted({t})
  /\ tokens' = Indexed \ {t}
  /\ UNCHANGED <<time, status, epoch, indexEnd, resolving, resetEnd, failure, tried>>

\* resolve_session has found the session; the account comes next.
ReadSession(t) ==
  /\ resolving = {} /\ Live(t)
  /\ resolving' = {t}
  /\ UNCHANGED <<time, status, epoch, session, tokens, indexEnd, resetEnd, failure, tried>>

\* Of an account that is gone or disabled the session is deleted.
ReadAccount(t) ==
  /\ t \in resolving
  /\ resolving' = {}
  /\ session' = IF status = "active" THEN session ELSE Deleted({t})
  /\ tokens' = IF status = "active" THEN tokens ELSE Indexed \ {t}
  /\ UNCHANGED <<time, status, epoch, indexEnd, resetEnd, failure, tried>>

-----------------------------------------------------------------------------
\* delete_user_sessions: what the index still knows.
Revoked == Indexed

Revoke ==
  /\ epoch < MaxEpoch /\ epoch' = epoch + 1
  /\ session' = Deleted(Revoked)
  /\ tokens' = {} /\ indexEnd' = 0

ChangePassword ==
  /\ status /= "absent" /\ \E t \in Tokens : Live(t)
  /\ Revoke
  /\ UNCHANGED <<time, status, resolving, resetEnd, failure, tried>>

SetStatus(s) ==
  /\ status \notin {"absent", s}
  /\ status' = s
  /\ IF s = "disabled" THEN Revoke ELSE UNCHANGED <<epoch, session, tokens, indexEnd>>
  /\ UNCHANGED <<time, resolving, resetEnd, failure, tried>>

DeleteUser ==
  /\ status /= "absent"
  /\ status' = "absent" /\ resetEnd' = {}
  /\ Revoke
  /\ UNCHANGED <<time, resolving, failure, tried>>

\* The name is free again.
RegisterAgain ==
  /\ status = "absent"
  /\ status' = "active"
  /\ UNCHANGED <<time, epoch, session, tokens, indexEnd, resolving, resetEnd, failure, tried>>

\* A new reset token replaces an older one.
CreateReset ==
  /\ status /= "absent"
  /\ resetEnd' = {time + ResetTTL}
  /\ UNCHANGED <<time, status, epoch, session, tokens, indexEnd, resolving, failure, tried>>

\* confirm_reset with the right token: used up whatever follows.
ConfirmReset ==
  /\ status /= "absent" /\ \E e \in resetEnd : e >= time
  /\ resetEnd' = {}
  /\ Revoke
  /\ UNCHANGED <<time, status, resolving, failure, tried>>

-----------------------------------------------------------------------------
SessionsNext ==
  \/ TimeGoesOn \/ WrongPassword \/ RefuseDisabled
  \/ \E t \in Tokens :
       \/ \E remember \in BOOLEAN : Login(t, remember)
       \/ Logout(t) \/ ReadSession(t) \/ ReadAccount(t)
  \/ ChangePassword \/ DeleteUser \/ RegisterAgain \/ CreateReset \/ ConfirmReset
  \/ \E s \in {"active", "disabled"} : SetStatus(s)

SessionsSpec == SessionsInit /\ [][SessionsNext]_sessionsVars

-----------------------------------------------------------------------------
\* A password change, a reset, a disabling or a deletion ends every session
\* issued less than DefaultTTL ago.  Only a remembered session may outlive it,
\* after a shorter one took the index down with it (redis_state.py:104).
RecentSessionsRevoked ==
  \A t \in Tokens :
    Live(t) /\ session[t].epoch < epoch => time - session[t].issued >= DefaultTTL

\* Wrong passwords looked at within one window, since the last success: the
\* fixed windows of record_failure let two of them meet, never more.
AttemptsBounded ==
  \A i \in DOMAIN tried :
    Cardinality({j \in DOMAIN tried : tried[j] \in tried[i] .. tried[i] + ThrottleWindow})
      <= 2 * MaxFailures - 2
=============================================================================
