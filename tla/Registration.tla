---------------------------- MODULE Registration ----------------------------
(***************************************************************************)
(* E-mail verification and the registrations that depend on it: codes are  *)
(* mailed under three limits, entered within their attempts, and used up   *)
(* after the account has been created.                                     *)
(*                                                                         *)
(* Source: auth/email_verification.py, storage/repositories/auth.py, the   *)
(* register and e-mail handlers of api/v1/auth/router.py, auth/service.py. *)
(*                                                                         *)
(* Each handler is a thread; every database call is a transaction of its   *)
(* own and no lock is held from one to the next.  A handler may also end   *)
(* between two calls, when one fails or the process stops.                 *)
(***************************************************************************)
EXTENDS Naturals, Sequences, FiniteSets

CONSTANTS
  Handlers,                 \* requests in progress at once
  Emails, Names,            \* addresses and user names
  Cooldown, CodeTTL, Day, Hour,   \* seconds, in ticks
  DailyLimit, HourlyLimit, MaxAttempts,
  MaxNow, MaxCodes          \* bounds: the clock and the records of codes

ASSUME RegistrationAssumption ==
  /\ IsFiniteSet(Handlers)
  /\ \A n \in {Cooldown, CodeTTL, Day, Hour, MaxNow, MaxCodes} : n \in Nat
  /\ \A n \in {DailyLimit, HourlyLimit, MaxAttempts} : n \in Nat \ {0}

Codes   == 1 .. MaxCodes
NoOne   == [named |-> FALSE]
CodeRow == [email : Emails, created : 0 .. MaxNow, expires : 0 .. MaxNow + CodeTTL,
            attempts : Nat, consumed : BOOLEAN]
NoTask == [pc |-> "rest"]
HandlerType ==
       {NoTask}
  \cup [pc : {"mail"}, email : Emails, at : 0 .. MaxNow]
  \cup [pc : {"save"}, email : Emails, at : 0 .. MaxNow, sent : BOOLEAN]
  \cup [pc : {"count", "register", "consume"}, code : Codes]
  \cup [pc : {"write"}, code : Codes, attempts : Nat]

VARIABLES
  instant,        \* time.time()
  codes,      \* email_verification_codes, oldest row first
  handler,    \* what each handler is about to do
  person,     \* users: the address of each name and the code it used
  mailed,     \* history: address and decision time of every mail that went out
  unsaved     \* history: sends that ended before their row was saved

registrationVars == <<instant, codes, handler, person, mailed, unsaved>>

RegistrationTypeOK ==
  /\ instant \in 0 .. MaxNow
  /\ codes \in Seq(CodeRow) /\ Len(codes) <= MaxCodes
  /\ handler \in [Handlers -> HandlerType]
  /\ person \in [Names -> {NoOne} \cup [named : {TRUE}, email : Emails, code : Codes]]
  /\ mailed \in Seq([email : Emails, at : 0 .. MaxNow])
  /\ unsaved \in Nat

RegistrationInit ==
  /\ instant = 0 /\ codes = <<>>
  /\ handler = [h \in Handlers |-> NoTask]
  /\ person = [n \in Names |-> NoOne]
  /\ mailed = <<>> /\ unsaved = 0

Go(h, s) == handler' = [handler EXCEPT ![h] = s]

TickNow ==
  /\ instant < MaxNow
  /\ instant' = instant + 1
  /\ UNCHANGED <<codes, handler, person, mailed, unsaved>>

-----------------------------------------------------------------------------
\* latest_email_verification_send
LastSends(e) ==
  {c \in DOMAIN codes :
     /\ codes[c].email = e
     /\ \A d \in DOMAIN codes : codes[d].email = e => codes[d].created <= codes[c].created}

\* count_email_verification_sends: those since a time, a failed one included.
SendsSince(e, s) == Cardinality({c \in DOMAIN codes : codes[c].email = e /\ codes[c].created >= s})

\* count_email_verification_sends_by_ip: the one address all requests share.
SendsByIpSince(s) == Cardinality({c \in DOMAIN codes : codes[c].created >= s})

Since(span) == IF instant > span THEN instant - span ELSE 0

\* Faulty variant: the cool-down is left to the limits.
WithinLimitsOnCooldown(e) == \A c \in LastSends(e) : instant - codes[c].created >= Cooldown
WithinLimits(e) ==
  /\ \A c \in LastSends(e) : instant - codes[c].created >= Cooldown
  /\ SendsSince(e, Since(Day)) < DailyLimit
  /\ SendsByIpSince(Since(Hour)) < HourlyLimit

\* send_code reads the clock once; its row will carry that time.
AskCode(h, e) ==
  /\ handler[h] = NoTask
  /\ Len(mailed) + Cardinality({k \in Handlers : handler[k].pc = "mail"}) < MaxCodes
  /\ WithinLimits(e)
  /\ Go(h, [pc |-> "mail", email |-> e, at |-> instant])
  /\ UNCHANGED <<instant, codes, person, mailed, unsaved>>

\* The mail server accepts the mail, or the send is recorded as failed.
SendMail(h, ok) ==
  /\ handler[h].pc = "mail"
  /\ Go(h, [pc |-> "save", email |-> handler[h].email, at |-> handler[h].at, sent |-> ok])
  /\ mailed' = Append(mailed, [email |-> handler[h].email, at |-> handler[h].at])
  /\ UNCHANGED <<instant, codes, person, unsaved>>

\* save_email_verification_code: a failed send is consumed from the start.
Row(r) == [email |-> r.email, created |-> r.at, attempts |-> 0, consumed |-> ~r.sent,
           expires |-> IF r.sent THEN r.at + CodeTTL ELSE r.at]

SaveCode(h) ==
  /\ handler[h].pc = "save"
  /\ codes' = Append(codes, Row(handler[h]))
  /\ Go(h, NoTask)
  /\ UNCHANGED <<instant, person, mailed, unsaved>>

-----------------------------------------------------------------------------
\* latest_email_verification_code: the newest row that is not consumed; of
\* two of the same time the database may return either.
Current(e) ==
  {c \in DOMAIN codes :
     /\ codes[c].email = e /\ ~codes[c].consumed
     /\ \A d \in DOMAIN codes :
          codes[d].email = e /\ ~codes[d].consumed => codes[d].created <= codes[c].created}

Spent(c) == codes[c].expires < instant \/ codes[c].attempts >= MaxAttempts

\* verify: the code entered is the one of this row, or not.
Verify(h, e, right) ==
  /\ handler[h] = NoTask
  /\ \E c \in Current(e) :
       Go(h, [pc |-> IF Spent(c) THEN "consume" ELSE IF right THEN "register" ELSE "count",
              code |-> c])
  /\ UNCHANGED <<instant, codes, person, mailed, unsaved>>

\* increment_email_verification_attempts reads the counter, ...
ReadAttempts(h) ==
  /\ handler[h].pc = "count"
  /\ Go(h, [pc |-> "write", code |-> handler[h].code,
            attempts |-> codes[handler[h].code].attempts])
  /\ UNCHANGED <<instant, codes, person, mailed, unsaved>>

\* ... and writes one more than it read.  The last attempt uses the code up.
WriteAttempts(h) ==
  /\ handler[h].pc = "write"
  /\ LET c == handler[h].code
         n == handler[h].attempts + 1
     IN /\ codes' = [codes EXCEPT ![c].attempts = n]
        /\ Go(h, IF n >= MaxAttempts THEN [pc |-> "consume", code |-> c] ELSE NoTask)
  /\ UNCHANGED <<instant, person, mailed, unsaved>>

\* Faulty variant: only the name must be free.
FreeName(n, e) == person[n] = NoOne
\* AuthService.register, under its lock: name and address must be free.
Free(n, e) == person[n] = NoOne /\ \A p \in Names : person[p] /= NoOne => person[p].email /= e

RegisterName(h, n) ==
  /\ handler[h].pc = "register"
  /\ LET c == handler[h].code
         e == codes[c].email
     IN IF Free(n, e)
        THEN /\ person' = [person EXCEPT ![n] = [named |-> TRUE, email |-> e, code |-> c]]
             /\ Go(h, [pc |-> "consume", code |-> c])
        ELSE Go(h, NoTask) /\ UNCHANGED person
  /\ UNCHANGED <<instant, codes, mailed, unsaved>>

\* consume_email_verification_code
Consume(h) ==
  /\ handler[h].pc = "consume"
  /\ codes' = [codes EXCEPT ![handler[h].code].consumed = TRUE]
  /\ Go(h, NoTask)
  /\ UNCHANGED <<instant, person, mailed, unsaved>>

\* A call fails or the process stops: the handler does nothing more.
Abort(h) ==
  /\ handler[h] /= NoTask
  /\ Go(h, NoTask)
  /\ unsaved' = unsaved + (IF handler[h].pc = "save" THEN 1 ELSE 0)
  /\ UNCHANGED <<instant, codes, person, mailed>>

\* An administrator deletes the account; its address is free again.
DeleteName(n) ==
  /\ person[n] /= NoOne
  /\ person' = [person EXCEPT ![n] = NoOne]
  /\ UNCHANGED <<instant, codes, handler, mailed, unsaved>>

-----------------------------------------------------------------------------
RegistrationNext ==
  \/ TickNow
  \/ \E h \in Handlers :
       \/ \E e \in Emails :
            AskCode(h, e) \/ \E right \in BOOLEAN : Verify(h, e, right)
       \/ \E ok \in BOOLEAN : SendMail(h, ok)
       \/ SaveCode(h) \/ ReadAttempts(h) \/ WriteAttempts(h) \/ Consume(h) \/ Abort(h)
       \/ \E n \in Names : RegisterName(h, n)
  \/ \E n \in Names : DeleteName(n)

RegistrationSpec == RegistrationInit /\ [][RegistrationNext]_registrationVars

-----------------------------------------------------------------------------
\* A code is consumed only after the registration, so several handlers may
\* hold it as verified; still it serves one account at a time.
OneAccountPerCode ==
  \A n, p \in Names :
    n /= p /\ person[n] /= NoOne /\ person[p] /= NoOne => person[n].code /= person[p].code

\* Mails within a day or an hour: the limit, one more for each other handler
\* that decided before the rows were saved, and those whose row was lost.
MailsWithin(M, s, span) ==
  Cardinality({i \in DOMAIN mailed : mailed[i].email \in M /\ mailed[i].at \in s .. s + span})

MailsBounded ==
  \A s \in 0 .. MaxNow :
    /\ \A e \in Emails :
         MailsWithin({e}, s, Day) <= DailyLimit + Cardinality(Handlers) - 1 + unsaved
    /\ MailsWithin(Emails, s, Hour) <= HourlyLimit + Cardinality(Handlers) - 1 + unsaved
=============================================================================
