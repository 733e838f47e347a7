----------------------------- MODULE AccessProofs -----------------------------
(***************************************************************************)
(* Proofs about who may do what: Registration, Accounts and Sessions, for  *)
(* all limits and sets of handlers, for every set of users, roles,         *)
(* requests and permissions, of tokens and all times to live.              *)
(***************************************************************************)
EXTENDS Accounts, Sessions, Registration, FiniteSetTheorems, SequenceTheorems, TLAPS

-----------------------------------------------------------------------------
(***************************************************************************)
(* Registration: the codes sent by mail.                                   *)
(***************************************************************************)

LEMMA Limits ==
  /\ IsFiniteSet(Handlers)
  /\ Cooldown \in Nat /\ CodeTTL \in Nat /\ Day \in Nat /\ Hour \in Nat
  /\ MaxNow \in Nat /\ MaxCodes \in Nat
  /\ DailyLimit \in Nat \ {0} /\ HourlyLimit \in Nat \ {0} /\ MaxAttempts \in Nat \ {0}
  BY RegistrationAssumption

\* The handlers about to mail or to save a code of an address of M, decided
\* from a to b; the rows and the mails of that kind.
Doing(pc, M, a, b) ==
  {k \in Handlers : handler[k].pc = pc /\ handler[k].email \in M /\ handler[k].at \in a .. b}
RowsOf(M, a, b) == {c \in DOMAIN codes : codes[c].email \in M /\ codes[c].created \in a .. b}
MailsOf(M, a, b) == {i \in DOMAIN mailed : mailed[i].email \in M /\ mailed[i].at \in a .. b}

\* A mail belongs to a row, to a handler about to save it, or was lost.
MailsHaveRows ==
  \A M \in SUBSET Emails, a, b \in Nat :
    Cardinality(MailsOf(M, a, b)) <=
      Cardinality(RowsOf(M, a, b)) + Cardinality(Doing("save", M, a, b)) + unsaved
\* The rows and the mails keep within the bound on them.
RowsHaveMails ==
  /\ Len(codes) + Cardinality(Doing("save", Emails, 0, MaxNow)) <= Len(mailed)
  /\ Len(mailed) + Cardinality(Doing("mail", Emails, 0, MaxNow)) <= MaxCodes
\* The mails of a window, those decided on included.
Within(M, span, limit) ==
  \A s \in Nat :
    Cardinality(MailsOf(M, s, s + span)) + Cardinality(Doing("mail", M, s, s + span))
      <= limit + Cardinality(Handlers) - 1 + unsaved
SendsWithin ==
  /\ \A e \in Emails : Within({e}, Day, DailyLimit)
  /\ Within(Emails, Hour, HourlyLimit)

\* A handler past "verify" and an account refer to a row that exists; the
\* account has the address of the row, and addresses are not shared.
CodesHeld ==
  \A h \in Handlers :
    handler[h].pc \in {"count", "register", "consume", "write"} => handler[h].code \in DOMAIN codes
AccountsHold ==
  \A n \in Names :
    person[n] /= NoOne =>
      person[n].code \in DOMAIN codes /\ codes[person[n].code].email = person[n].email
AddressesApart ==
  \A n, p \in Names :
    n /= p /\ person[n] /= NoOne /\ person[p] /= NoOne => person[n].email /= person[p].email

-----------------------------------------------------------------------------
\* What a handler's record looks like.
LEMMA HandlerShape ==
  ASSUME RegistrationTypeOK, NEW h \in Handlers
  PROVE  /\ handler[h].pc \in {"rest", "mail", "save", "count", "register", "consume", "write"}
         /\ handler[h].pc = "rest" => handler[h] = NoTask
         /\ handler[h].pc = "mail" =>
              /\ handler[h].email \in Emails /\ handler[h].at \in 0 .. MaxNow
         /\ handler[h].pc = "save" =>
              /\ handler[h].email \in Emails /\ handler[h].at \in 0 .. MaxNow
              /\ handler[h].sent \in BOOLEAN
         /\ handler[h].pc \in {"count", "register", "consume", "write"} => handler[h].code \in Codes
         /\ handler[h].pc = "write" => handler[h].attempts \in Nat
<1>1. PICK r : r = handler[h]
  OBVIOUS
<1>2. r \in HandlerType
  BY <1>1 DEF RegistrationTypeOK
<1>3. CASE r = NoTask
  BY <1>1, <1>3 DEF NoTask
<1>4. CASE r \in [pc : {"mail"}, email : Emails, at : 0 .. MaxNow]
  BY <1>1, <1>4
<1>5. CASE r \in [pc : {"save"}, email : Emails, at : 0 .. MaxNow, sent : BOOLEAN]
  BY <1>1, <1>5
<1>6. CASE r \in [pc : {"count", "register", "consume"}, code : Codes]
  BY <1>1, <1>6
<1>7. CASE r \in [pc : {"write"}, code : Codes, attempts : Nat]
  BY <1>1, <1>7
<1> QED BY <1>2, <1>3, <1>4, <1>5, <1>6, <1>7 DEF HandlerType

LEMMA CodeShape ==
  ASSUME RegistrationTypeOK, NEW c \in DOMAIN codes
  PROVE  /\ c \in 1 .. Len(codes) /\ c \in Codes /\ codes[c] \in CodeRow
         /\ codes[c].email \in Emails /\ codes[c].created \in 0 .. MaxNow
         /\ codes[c].attempts \in Nat
<1>1. codes \in Seq(CodeRow) /\ Len(codes) \in Nat /\ Len(codes) <= MaxCodes
  BY DEF RegistrationTypeOK
<1>2. c \in 1 .. Len(codes) /\ codes[c] \in CodeRow
  BY <1>1
<1>3. c \in Codes
  BY <1>1, <1>2, Limits DEF Codes
<1> QED BY <1>2, <1>3 DEF CodeRow

\* An update of one row keeps the other rows, its address and its time.
LEMMA RowChanged ==
  ASSUME codes \in Seq(CodeRow), NEW c \in DOMAIN codes,
         \/ \E n \in Nat : codes' = [codes EXCEPT ![c].attempts = n]
         \/ codes' = [codes EXCEPT ![c].consumed = TRUE]
  PROVE  /\ codes' \in Seq(CodeRow) /\ Len(codes') = Len(codes) /\ DOMAIN codes' = DOMAIN codes
         /\ \A d \in DOMAIN codes :
              codes'[d].email = codes[d].email /\ codes'[d].created = codes[d].created
<1>1. /\ codes[c] \in CodeRow
  OBVIOUS
<1>4. /\ \A n \in Nat : [codes[c] EXCEPT !.attempts = n] \in CodeRow
      /\ [codes[c] EXCEPT !.consumed = TRUE] \in CodeRow
  BY <1>1 DEF CodeRow
<1>2. PICK r \in CodeRow : /\ codes' = [codes EXCEPT ![c] = r]
                          /\ r.email = codes[c].email /\ r.created = codes[c].created
  BY <1>1, <1>4 DEF CodeRow
<1>3. codes' \in Seq(CodeRow) /\ Len(codes') = Len(codes)
  BY <1>2, ExceptSeq
<1> QED BY <1>2, <1>3

\* What the steps that change rows or handlers leave as it was.
LEMMA GoOther ==
  ASSUME RegistrationTypeOK, NEW h \in Handlers, NEW s, Go(h, s)
  PROVE  handler'[h] = s /\ \A k \in Handlers \ {h} : handler'[k] = handler[k]
  BY DEF Go, RegistrationTypeOK

-----------------------------------------------------------------------------
\* A set loses or gains one handler, row or mail.
LEMMA OneMore ==
  ASSUME NEW S, NEW x, IsFiniteSet(S)
  PROVE  /\ IsFiniteSet(S \cup {x}) /\ IsFiniteSet(S \ {x})
         /\ Cardinality(S) \in Nat
         /\ Cardinality(S \cup {x}) = IF x \in S THEN Cardinality(S) ELSE Cardinality(S) + 1
         /\ Cardinality(S \ {x}) = IF x \in S THEN Cardinality(S) - 1 ELSE Cardinality(S)
  BY FS_AddElement, FS_RemoveElement, FS_CardinalityType

LEMMA Finite ==
  ASSUME RegistrationTypeOK, NEW M, NEW a, NEW b, NEW pc
  PROVE  /\ IsFiniteSet(Doing(pc, M, a, b)) /\ Cardinality(Doing(pc, M, a, b)) \in Nat
         /\ IsFiniteSet(RowsOf(M, a, b)) /\ Cardinality(RowsOf(M, a, b)) \in Nat
         /\ IsFiniteSet(MailsOf(M, a, b)) /\ Cardinality(MailsOf(M, a, b)) \in Nat
<1>1. IsFiniteSet(Doing(pc, M, a, b))
  BY FS_Subset, Limits DEF Doing
<1>2. /\ Len(codes) \in Nat /\ DOMAIN codes = 1 .. Len(codes)
      /\ Len(mailed) \in Nat /\ DOMAIN mailed = 1 .. Len(mailed)
  BY DEF RegistrationTypeOK
<1>3. IsFiniteSet(1 .. Len(codes)) /\ IsFiniteSet(1 .. Len(mailed))
  BY <1>2, FS_Interval
<1>4. RowsOf(M, a, b) \subseteq 1 .. Len(codes) /\ MailsOf(M, a, b) \subseteq 1 .. Len(mailed)
  BY <1>2 DEF RowsOf, MailsOf
<1>5. IsFiniteSet(RowsOf(M, a, b)) /\ IsFiniteSet(MailsOf(M, a, b))
  BY <1>3, <1>4, FS_Subset
<1> QED BY <1>1, <1>5, FS_CardinalityType

\* What a step of one handler does to the handlers counted.
LEMMA DoingStep ==
  ASSUME RegistrationTypeOK, NEW h \in Handlers, NEW s, Go(h, s), NEW M, NEW a, NEW b, NEW pc
  PROVE  Doing(pc, M, a, b)' =
           IF s.pc = pc /\ s.email \in M /\ s.at \in a .. b
             THEN Doing(pc, M, a, b) \cup {h} ELSE Doing(pc, M, a, b) \ {h}
  BY GoOther DEF Doing

LEMMA Ends ==
  ASSUME RegistrationTypeOK, NEW h \in Handlers, Go(h, NoTask), NEW M, NEW a, NEW b,
         NEW pc \in {"save", "mail"}
  PROVE  Doing(pc, M, a, b)' = Doing(pc, M, a, b) \ {h}
<1>1. NoTask.pc = "rest"
  BY DEF NoTask
<1> QED BY <1>1, GoOther DEF Doing

\* A row or a mail is added at the end.
LEMMA RowsStep ==
  ASSUME RegistrationTypeOK, NEW r, codes' = Append(codes, r), NEW M, NEW a, NEW b, r \in CodeRow
  PROVE  /\ RowsOf(M, a, b)' = IF r.email \in M /\ r.created \in a .. b
                                 THEN RowsOf(M, a, b) \cup {Len(codes) + 1} ELSE RowsOf(M, a, b)
         /\ Len(codes) + 1 \notin RowsOf(M, a, b)
<1>1. /\ Len(codes) \in Nat /\ DOMAIN codes = 1 .. Len(codes)
      /\ Len(codes') = Len(codes) + 1 /\ DOMAIN codes' = 1 .. (Len(codes) + 1)
      /\ codes'[Len(codes) + 1] = r
      /\ \A c \in 1 .. Len(codes) : codes'[c] = codes[c]
  BY AppendProperties DEF RegistrationTypeOK
<1> QED BY <1>1 DEF RowsOf

LEMMA MailsStep ==
  ASSUME RegistrationTypeOK, NEW m, mailed' = Append(mailed, m), NEW M, NEW a, NEW b,
         m \in [email : Emails, at : 0 .. MaxNow]
  PROVE  /\ MailsOf(M, a, b)' = IF m.email \in M /\ m.at \in a .. b
                                  THEN MailsOf(M, a, b) \cup {Len(mailed) + 1} ELSE MailsOf(M, a, b)
         /\ Len(mailed) + 1 \notin MailsOf(M, a, b)
<1>1. /\ Len(mailed) \in Nat /\ DOMAIN mailed = 1 .. Len(mailed)
      /\ Len(mailed') = Len(mailed) + 1 /\ DOMAIN mailed' = 1 .. (Len(mailed) + 1)
      /\ mailed'[Len(mailed) + 1] = m
      /\ \A c \in 1 .. Len(mailed) : mailed'[c] = mailed[c]
  BY AppendProperties DEF RegistrationTypeOK
<1> QED BY <1>1 DEF MailsOf

-----------------------------------------------------------------------------
\* Every step keeps the types, as the rows keep within their bound.
LEMMA RegistrationTypeStep ==
  ASSUME RegistrationTypeOK, RowsHaveMails, CodesHeld, RegistrationNext
  PROVE  RegistrationTypeOK'
<1>t. /\ codes \in Seq(CodeRow) /\ Len(codes) \in Nat /\ Len(codes) <= MaxCodes
      /\ handler \in [Handlers -> HandlerType] /\ instant \in 0 .. MaxNow
      /\ person \in [Names -> {NoOne} \cup [named : {TRUE}, email : Emails, code : Codes]]
      /\ mailed \in Seq([email : Emails, at : 0 .. MaxNow]) /\ unsaved \in Nat
  <2>1. codes \in Seq(CodeRow)
    BY DEF RegistrationTypeOK
  <2>2. Len(codes) \in Nat
    BY <2>1
  <2> QED BY Zenon, <2>2 DEF RegistrationTypeOK
<1>1. CASE TickNow
  <2>1. instant' \in 0 .. MaxNow
    BY <1>1, <1>t, Limits DEF TickNow
  <2> QED BY Zenon, <1>1, <1>t, <2>1 DEF TickNow, RegistrationTypeOK
<1>2. ASSUME NEW h \in Handlers, NEW e \in Emails, AskCode(h, e) PROVE RegistrationTypeOK'
  <2>1. [pc |-> "mail", email |-> e, at |-> instant] \in HandlerType
    BY <1>t DEF HandlerType
  <2> QED BY <1>2, <1>t, <2>1 DEF AskCode, Go, RegistrationTypeOK
<1>3. ASSUME NEW h \in Handlers, NEW ok \in BOOLEAN, SendMail(h, ok) PROVE RegistrationTypeOK'
  <2>1. /\ [pc |-> "save", email |-> handler[h].email, at |-> handler[h].at, sent |-> ok] \in HandlerType
        /\ [email |-> handler[h].email, at |-> handler[h].at] \in [email : Emails, at : 0 .. MaxNow]
    BY <1>3, HandlerShape DEF HandlerType, SendMail
  <2>2. mailed' \in Seq([email : Emails, at : 0 .. MaxNow])
    BY <1>3, <1>t, <2>1, AppendProperties DEF SendMail
  <2> QED BY <1>3, <1>t, <2>1, <2>2 DEF SendMail, Go, RegistrationTypeOK
<1>4. ASSUME NEW h \in Handlers, SaveCode(h) PROVE RegistrationTypeOK'
  <2>1. /\ handler[h].email \in Emails /\ handler[h].at \in 0 .. MaxNow /\ handler[h].sent \in BOOLEAN
    BY <1>4, HandlerShape DEF SaveCode
  <2>2. Row(handler[h]) \in CodeRow
    BY <2>1, Limits DEF Row, CodeRow
  <2>3. h \in Doing("save", Emails, 0, MaxNow)
    BY <1>4, <2>1 DEF Doing, SaveCode
  <2>4. Cardinality(Doing("save", Emails, 0, MaxNow)) /= 0
    BY <2>3, Finite, FS_EmptySet
  <2>5. /\ Cardinality(Doing("save", Emails, 0, MaxNow)) \in Nat
        /\ Cardinality(Doing("mail", Emails, 0, MaxNow)) \in Nat
        /\ Len(mailed) \in Nat
    BY <1>t, Finite
  <2>6. Len(codes) + 1 <= MaxCodes
    BY <1>t, <2>4, <2>5, Limits DEF RowsHaveMails
  <2>7. codes' \in Seq(CodeRow) /\ Len(codes') = Len(codes) + 1
    BY <1>4, <1>t, <2>2, AppendProperties DEF SaveCode
  <2>8. NoTask \in HandlerType
    BY DEF HandlerType
  <2> QED BY <1>4, <1>t, <2>6, <2>7, <2>8 DEF SaveCode, Go, RegistrationTypeOK
<1>5. ASSUME NEW h \in Handlers, NEW e \in Emails, NEW right \in BOOLEAN, Verify(h, e, right)
      PROVE RegistrationTypeOK'
  <2>1. PICK c \in Current(e) :
          Go(h, [pc |-> IF Spent(c) THEN "consume" ELSE IF right THEN "register" ELSE "count",
                 code |-> c])
    BY Zenon, <1>5 DEF Verify
  <2>2. c \in Codes
    BY <2>1, CodeShape DEF Current
  <2>3. [pc |-> IF Spent(c) THEN "consume" ELSE IF right THEN "register" ELSE "count", code |-> c]
          \in HandlerType
    BY <2>2 DEF HandlerType
  <2> QED BY <1>5, <1>t, <2>1, <2>3 DEF Verify, Go, RegistrationTypeOK
<1>6. ASSUME NEW h \in Handlers, ReadAttempts(h) PROVE RegistrationTypeOK'
  <2>1. handler[h].code \in DOMAIN codes /\ handler[h].code \in Codes
    BY <1>6, HandlerShape DEF ReadAttempts, CodesHeld
  <2>2. codes[handler[h].code].attempts \in Nat
    BY <2>1, CodeShape
  <2>3. [pc |-> "write", code |-> handler[h].code, attempts |-> codes[handler[h].code].attempts]
          \in HandlerType
    BY <2>1, <2>2 DEF HandlerType
  <2> QED BY <1>6, <1>t, <2>3 DEF ReadAttempts, Go, RegistrationTypeOK
<1>7. ASSUME NEW h \in Handlers, WriteAttempts(h) PROVE RegistrationTypeOK'
  <2>1. /\ handler[h].code \in DOMAIN codes /\ handler[h].code \in Codes
        /\ handler[h].attempts \in Nat
    BY <1>7, HandlerShape DEF WriteAttempts, CodesHeld
  <2>2. [pc |-> "consume", code |-> handler[h].code] \in HandlerType /\ NoTask \in HandlerType
    BY <2>1 DEF HandlerType
  <2>3. handler' \in [Handlers -> HandlerType]
    BY <1>7, <1>t, <2>2 DEF WriteAttempts, Go
  <2>4. codes' = [codes EXCEPT ![handler[h].code].attempts = handler[h].attempts + 1]
    BY <1>7 DEF WriteAttempts
  <2>5. codes' \in Seq(CodeRow) /\ Len(codes') = Len(codes)
    <3>1. handler[h].attempts + 1 \in Nat
      BY <2>1
    <3> QED BY <2>1, <2>4, <3>1, <1>t, RowChanged
  <2> QED BY <1>7, <1>t, <2>3, <2>5 DEF WriteAttempts, RegistrationTypeOK
<1>8. ASSUME NEW h \in Handlers, Consume(h) PROVE RegistrationTypeOK'
  <2>1. handler[h].code \in DOMAIN codes
    BY <1>8 DEF Consume, CodesHeld
  <2>2. codes' \in Seq(CodeRow) /\ Len(codes') = Len(codes)
    BY <1>8, <2>1, <1>t, RowChanged DEF Consume
  <2>3. NoTask \in HandlerType
    BY DEF HandlerType
  <2> QED BY <1>8, <1>t, <2>2, <2>3 DEF Consume, Go, RegistrationTypeOK
<1>9. ASSUME NEW h \in Handlers, Abort(h) PROVE RegistrationTypeOK'
  <2>1. NoTask \in HandlerType
    BY DEF HandlerType
  <2>2. unsaved' \in Nat
    BY <1>9, <1>t DEF Abort
  <2> QED BY <1>9, <1>t, <2>1, <2>2 DEF Abort, Go, RegistrationTypeOK
<1>10. ASSUME NEW h \in Handlers, NEW n \in Names, RegisterName(h, n) PROVE RegistrationTypeOK'
  <2>1. handler[h].code \in DOMAIN codes /\ handler[h].code \in Codes
    BY <1>10, HandlerShape DEF RegisterName, CodesHeld
  <2>2. codes[handler[h].code].email \in Emails
    BY <2>1, CodeShape
  <2>3. [pc |-> "consume", code |-> handler[h].code] \in HandlerType /\ NoTask \in HandlerType
    BY <2>1 DEF HandlerType
  <2>4. handler' \in [Handlers -> HandlerType]
    BY <1>10, <1>t, <2>3 DEF RegisterName, Go
  <2>5. person' \in [Names -> {NoOne} \cup [named : {TRUE}, email : Emails, code : Codes]]
    <3>1. PICK r : r = [named |-> TRUE, email |-> codes[handler[h].code].email, code |-> handler[h].code]
      OBVIOUS
    <3>2. r \in [named : {TRUE}, email : Emails, code : Codes]
      BY <3>1, <2>1, <2>2
    <3>3. person' = [person EXCEPT ![n] = r] \/ person' = person
      BY <1>10, <3>1 DEF RegisterName
    <3> QED BY <1>t, <3>2, <3>3
  <2> QED BY <1>10, <1>t, <2>4, <2>5 DEF RegisterName, RegistrationTypeOK
<1>11. ASSUME NEW n \in Names, DeleteName(n) PROVE RegistrationTypeOK'
  BY <1>11, <1>t DEF DeleteName, RegistrationTypeOK
<1> QED BY Zenon, <1>1, <1>2, <1>3, <1>4, <1>5, <1>6, <1>7, <1>8, <1>9, <1>10, <1>11 DEF RegistrationNext

-----------------------------------------------------------------------------
\* The rows that exist stay, with their address; new ones have other numbers.
RowsStay ==
  \A c \in DOMAIN codes : c \in DOMAIN codes' /\ codes'[c].email = codes[c].email

LEMMA RowsStayStep ==
  ASSUME RegistrationTypeOK, CodesHeld, RegistrationNext
  PROVE  RowsStay
<1>0. codes \in Seq(CodeRow)
  BY DEF RegistrationTypeOK
<1>1. CASE codes' = codes
  BY <1>1 DEF RowsStay
<1>2. ASSUME NEW h \in Handlers, SaveCode(h) PROVE RowsStay
  <2>1. /\ handler[h].email \in Emails /\ handler[h].at \in 0 .. MaxNow /\ handler[h].sent \in BOOLEAN
    BY <1>2, HandlerShape DEF SaveCode
  <2>2. Row(handler[h]) \in CodeRow
    BY <2>1, Limits DEF Row, CodeRow
  <2>3. codes' = Append(codes, Row(handler[h]))
    BY <1>2 DEF SaveCode
  <2> QED BY <1>0, <2>2, <2>3, AppendProperties DEF RowsStay
<1>3. ASSUME NEW h \in Handlers, WriteAttempts(h) PROVE RowsStay
  <2>1. handler[h].code \in DOMAIN codes /\ handler[h].attempts \in Nat
    BY <1>3, HandlerShape DEF WriteAttempts, CodesHeld
  <2>2. codes' = [codes EXCEPT ![handler[h].code].attempts = handler[h].attempts + 1]
    BY <1>3 DEF WriteAttempts
  <2>3. handler[h].attempts + 1 \in Nat
    BY <2>1
  <2> QED BY <1>0, <2>1, <2>2, <2>3, RowChanged DEF RowsStay
<1>4. ASSUME NEW h \in Handlers, Consume(h) PROVE RowsStay
  <2>1. handler[h].code \in DOMAIN codes
    BY <1>4 DEF Consume, CodesHeld
  <2> QED BY <1>4, <1>0, <2>1, RowChanged DEF RowsStay, Consume
<1> QED BY Zenon, <1>1, <1>2, <1>3, <1>4
     DEF RegistrationNext, TickNow, AskCode, SendMail, Verify, ReadAttempts, RegisterName, Abort, DeleteName

\* A handler comes to hold a code only by finding its row, or keeps it.
LEMMA CodesHeldStep ==
  ASSUME RegistrationTypeOK, CodesHeld, RowsStay, RegistrationNext
  PROVE  CodesHeld'
<1>1. CASE handler' = handler
  BY <1>1 DEF CodesHeld, RowsStay
<1>2. ASSUME NEW h \in Handlers, NEW s, Go(h, s),
             s.pc \in {"count", "register", "consume", "write"} => s.code \in DOMAIN codes
      PROVE  CodesHeld'
  BY <1>2, GoOther DEF CodesHeld, RowsStay
<1>3. ASSUME NEW h \in Handlers, Go(h, NoTask) PROVE CodesHeld'
  BY <1>2, <1>3 DEF NoTask
<1>4. ASSUME NEW h \in Handlers, NEW e \in Emails, AskCode(h, e) PROVE CodesHeld'
  BY <1>2, <1>4 DEF AskCode
<1>5. ASSUME NEW h \in Handlers, NEW ok \in BOOLEAN, SendMail(h, ok) PROVE CodesHeld'
  BY <1>2, <1>5 DEF SendMail
<1>6. ASSUME NEW h \in Handlers, NEW e \in Emails, NEW right \in BOOLEAN, Verify(h, e, right)
      PROVE CodesHeld'
  <2>1. PICK c \in Current(e) :
          Go(h, [pc |-> IF Spent(c) THEN "consume" ELSE IF right THEN "register" ELSE "count",
                 code |-> c])
    BY Zenon, <1>6 DEF Verify
  <2> QED BY <1>2, <2>1 DEF Current
<1>7. ASSUME NEW h \in Handlers, ReadAttempts(h) PROVE CodesHeld'
  BY <1>2, <1>7 DEF ReadAttempts, CodesHeld
<1>8. ASSUME NEW h \in Handlers, WriteAttempts(h) PROVE CodesHeld'
  <2>1. handler[h].code \in DOMAIN codes
    BY <1>8 DEF WriteAttempts, CodesHeld
  <2>2. Go(h, [pc |-> "consume", code |-> handler[h].code]) \/ Go(h, NoTask)
    BY <1>8 DEF WriteAttempts
  <2> QED BY <1>2, <1>3, <2>1, <2>2
<1>9. ASSUME NEW h \in Handlers, NEW n \in Names, RegisterName(h, n) PROVE CodesHeld'
  <2>1. handler[h].code \in DOMAIN codes
    BY <1>9 DEF RegisterName, CodesHeld
  <2>2. Go(h, [pc |-> "consume", code |-> handler[h].code]) \/ Go(h, NoTask)
    BY <1>9 DEF RegisterName
  <2> QED BY <1>2, <1>3, <2>1, <2>2
<1> QED BY Zenon, <1>1, <1>3, <1>4, <1>5, <1>6, <1>7, <1>8, <1>9
     DEF RegistrationNext, TickNow, SaveCode, Consume, Abort, DeleteName

\* Only a registration adds an account, for an address that no account has;
\* a deletion takes one away.
LEMMA AccountsStep ==
  ASSUME RegistrationTypeOK, CodesHeld, RowsStay, AccountsHold, AddressesApart, RegistrationNext
  PROVE  AccountsHold' /\ AddressesApart'
<1>1. CASE person' = person
  BY <1>1 DEF AccountsHold, AddressesApart, RowsStay
<1>2. ASSUME NEW h \in Handlers, NEW n \in Names, RegisterName(h, n), person' /= person
      PROVE  AccountsHold' /\ AddressesApart'
  <2>1. PICK e : e = codes[handler[h].code].email
    OBVIOUS
  <2>2. /\ handler[h].code \in DOMAIN codes /\ codes' = codes
        /\ Free(n, e)
        /\ person' = [person EXCEPT ![n] = [named |-> TRUE, email |-> e, code |-> handler[h].code]]
    BY <1>2, <2>1 DEF RegisterName, CodesHeld
  <2>3. /\ person'[n].email = e /\ person'[n].code = handler[h].code
        /\ \A p \in Names \ {n} : person'[p] = person[p]
    BY <2>2 DEF RegistrationTypeOK
  <2>4. AccountsHold'
    BY <2>1, <2>2, <2>3 DEF AccountsHold
  <2>5. AddressesApart'
    BY <2>2, <2>3 DEF AddressesApart, Free
  <2> QED BY <2>4, <2>5
<1>3. ASSUME NEW n \in Names, DeleteName(n) PROVE AccountsHold' /\ AddressesApart'
  <2>1. /\ codes' = codes /\ person'[n] = NoOne
        /\ \A p \in Names \ {n} : person'[p] = person[p]
    BY <1>3 DEF DeleteName, RegistrationTypeOK
  <2> QED BY <2>1 DEF AccountsHold, AddressesApart
<1> QED BY Zenon, <1>1, <1>2, <1>3
     DEF RegistrationNext, TickNow, AskCode, SendMail, SaveCode, Verify, ReadAttempts, WriteAttempts,
         Consume, Abort

-----------------------------------------------------------------------------
\* The counts of a kind of mail before and after a step of one handler.
Mailed(M, a, b)  == Cardinality(MailsOf(M, a, b))
Rows(M, a, b)    == Cardinality(RowsOf(M, a, b))
Saving(M, a, b)  == Cardinality(Doing("save", M, a, b))
Sending(M, a, b) == Cardinality(Doing("mail", M, a, b))

LEMMA Counted ==
  ASSUME RegistrationTypeOK, NEW M, NEW a, NEW b
  PROVE  /\ Mailed(M, a, b) \in Nat /\ Rows(M, a, b) \in Nat
         /\ Saving(M, a, b) \in Nat /\ Sending(M, a, b) \in Nat
  BY Finite DEF Mailed, Rows, Saving, Sending

LEMMA FinitePrimed ==
  ASSUME NEW M, NEW a, NEW b, RegistrationTypeOK'
  PROVE  Saving(M, a, b)' \in Nat /\ Sending(M, a, b)' \in Nat
<1>1. /\ Doing("save", M, a, b)' \subseteq Handlers /\ Doing("mail", M, a, b)' \subseteq Handlers
  BY DEF Doing
<1>2. IsFiniteSet(Doing("save", M, a, b)') /\ IsFiniteSet(Doing("mail", M, a, b)')
  BY <1>1, Limits, FS_Subset
<1> QED BY <1>2, FS_CardinalityType DEF Saving, Sending

\* A step of a handler that is not mailing or saving, nor comes to.
LEMMA QuietCounts ==
  ASSUME RegistrationTypeOK, NEW h \in Handlers, NEW s, Go(h, s),
         handler[h].pc \notin {"mail", "save"}, s.pc \notin {"mail", "save"},
         NEW M, NEW a, NEW b
  PROVE  Saving(M, a, b)' = Saving(M, a, b) /\ Sending(M, a, b)' = Sending(M, a, b)
<1>1. Doing("save", M, a, b)' = Doing("save", M, a, b)
  BY DoingStep DEF Doing
<1>2. Doing("mail", M, a, b)' = Doing("mail", M, a, b)
  BY DoingStep DEF Doing
<1> QED BY <1>1, <1>2 DEF Saving, Sending

\* A handler decides to send, ...
LEMMA AskCounts ==
  ASSUME RegistrationTypeOK, NEW h \in Handlers, NEW e \in Emails, AskCode(h, e),
         NEW M, NEW a, NEW b
  PROVE  /\ Saving(M, a, b)' = Saving(M, a, b)
         /\ Sending(M, a, b)' = Sending(M, a, b) + IF e \in M /\ instant \in a .. b THEN 1 ELSE 0
         /\ Mailed(M, a, b)' = Mailed(M, a, b) /\ Rows(M, a, b)' = Rows(M, a, b)
<1>1. PICK s : s = [pc |-> "mail", email |-> e, at |-> instant]
  OBVIOUS
<1>2. Go(h, s) /\ s.pc = "mail" /\ s.email = e /\ s.at = instant /\ handler[h].pc = "rest"
  BY <1>1 DEF AskCode, NoTask
<1>3. h \notin Doing("save", M, a, b) /\ h \notin Doing("mail", M, a, b)
  BY <1>2 DEF Doing
<1>4. Doing("save", M, a, b)' = Doing("save", M, a, b)
  BY <1>2, <1>3, DoingStep
<1>5. Doing("mail", M, a, b)' = IF e \in M /\ instant \in a .. b
                                  THEN Doing("mail", M, a, b) \cup {h} ELSE Doing("mail", M, a, b)
  BY <1>2, <1>3, DoingStep
<1>6. Cardinality(Doing("mail", M, a, b) \cup {h}) = Cardinality(Doing("mail", M, a, b)) + 1
  BY <1>3, Finite, OneMore
<1>7. Sending(M, a, b)' = Sending(M, a, b) + IF e \in M /\ instant \in a .. b THEN 1 ELSE 0
  <2>1. Sending(M, a, b) \in Nat
    BY Counted
  <2>2. CASE e \in M /\ instant \in a .. b
    BY <1>5, <1>6, <2>2 DEF Sending
  <2>3. CASE ~(e \in M /\ instant \in a .. b)
    BY <1>5, <2>1, <2>3 DEF Sending
  <2> QED BY <2>2, <2>3
<1>8. RowsOf(M, a, b)' = RowsOf(M, a, b) /\ MailsOf(M, a, b)' = MailsOf(M, a, b)
  BY DEF AskCode, RowsOf, MailsOf
<1> QED BY <1>4, <1>7, <1>8 DEF Saving, Mailed, Rows

\* ... mails, ...
LEMMA SendCounts ==
  ASSUME RegistrationTypeOK, NEW h \in Handlers, NEW ok \in BOOLEAN, SendMail(h, ok),
         NEW M, NEW a, NEW b
  PROVE  \E d \in {0, 1} :
           /\ Saving(M, a, b)' = Saving(M, a, b) + d
           /\ Sending(M, a, b)' = Sending(M, a, b) - d
           /\ Mailed(M, a, b)' = Mailed(M, a, b) + d /\ Rows(M, a, b)' = Rows(M, a, b)
           /\ M = Emails /\ a = 0 /\ b = MaxNow => d = 1
<1>1. PICK s : s = [pc |-> "save", email |-> handler[h].email, at |-> handler[h].at, sent |-> ok]
  OBVIOUS
<1>2. PICK m : m = [email |-> handler[h].email, at |-> handler[h].at]
  OBVIOUS
<1>3. /\ handler[h].pc = "mail" /\ handler[h].email \in Emails /\ handler[h].at \in 0 .. MaxNow
  BY HandlerShape DEF SendMail
<1>4. /\ Go(h, s) /\ s.pc = "save" /\ s.email = handler[h].email /\ s.at = handler[h].at
      /\ mailed' = Append(mailed, m) /\ m \in [email : Emails, at : 0 .. MaxNow]
      /\ m.email = handler[h].email /\ m.at = handler[h].at /\ codes' = codes
  BY <1>1, <1>2, <1>3 DEF SendMail
<1>5. h \notin Doing("save", M, a, b)
  BY <1>3 DEF Doing
<1>6. RowsOf(M, a, b)' = RowsOf(M, a, b)
  BY <1>4 DEF RowsOf
<1>7. Doing("mail", M, a, b)' = Doing("mail", M, a, b) \ {h}
  BY <1>4, DoingStep
<1>8. CASE handler[h].email \in M /\ handler[h].at \in a .. b
  <2>1. h \in Doing("mail", M, a, b)
    BY <1>3, <1>8 DEF Doing
  <2>2. Sending(M, a, b)' = Sending(M, a, b) - 1
    BY <1>7, <2>1, Finite, OneMore DEF Sending
  <2>3. Doing("save", M, a, b)' = Doing("save", M, a, b) \cup {h}
    BY <1>4, <1>8, DoingStep
  <2>4. Saving(M, a, b)' = Saving(M, a, b) + 1
    BY <1>5, <2>3, Finite, OneMore DEF Saving
  <2>5. /\ MailsOf(M, a, b)' = MailsOf(M, a, b) \cup {Len(mailed) + 1}
        /\ Len(mailed) + 1 \notin MailsOf(M, a, b)
    BY <1>4, <1>8, MailsStep
  <2>6. Mailed(M, a, b)' = Mailed(M, a, b) + 1
    BY <2>5, Finite, OneMore DEF Mailed
  <2> QED BY <1>6, <2>2, <2>4, <2>6 DEF Rows
<1>9. CASE ~(handler[h].email \in M /\ handler[h].at \in a .. b)
  <2>1. h \notin Doing("mail", M, a, b)
    BY <1>9 DEF Doing
  <2>2. Doing("mail", M, a, b)' = Doing("mail", M, a, b)
    BY <1>7, <2>1
  <2>3. Doing("save", M, a, b)' = Doing("save", M, a, b)
    <3>1. Doing("save", M, a, b)' = Doing("save", M, a, b) \ {h}
      BY <1>4, <1>9, DoingStep
    <3> QED BY <1>5, <3>1
  <2>4. MailsOf(M, a, b)' = MailsOf(M, a, b)
    BY <1>4, <1>9, MailsStep
  <2>5. /\ Saving(M, a, b)' = Saving(M, a, b) + 0
        /\ Sending(M, a, b)' = Sending(M, a, b) - 0
        /\ Mailed(M, a, b)' = Mailed(M, a, b) + 0 /\ Rows(M, a, b)' = Rows(M, a, b)
    BY <1>6, <2>2, <2>3, <2>4, Counted DEF Saving, Sending, Mailed, Rows
  <2> QED BY <1>3, <1>9, <2>5
<1> QED BY <1>8, <1>9

\* ... and saves the row.
LEMMA SaveCounts ==
  ASSUME RegistrationTypeOK, NEW h \in Handlers, SaveCode(h), NEW M, NEW a, NEW b
  PROVE  \E d \in {0, 1} :
           /\ Saving(M, a, b)' = Saving(M, a, b) - d
           /\ Sending(M, a, b)' = Sending(M, a, b)
           /\ Mailed(M, a, b)' = Mailed(M, a, b) /\ Rows(M, a, b)' = Rows(M, a, b) + d
           /\ M = Emails /\ a = 0 /\ b = MaxNow => d = 1
<1>3. /\ handler[h].pc = "save" /\ handler[h].email \in Emails /\ handler[h].at \in 0 .. MaxNow
      /\ handler[h].sent \in BOOLEAN
  BY HandlerShape DEF SaveCode
<1>4. /\ Go(h, NoTask) /\ codes' = Append(codes, Row(handler[h])) /\ mailed' = mailed
  BY DEF SaveCode
<1>r. /\ Row(handler[h]) \in CodeRow /\ Row(handler[h]).email = handler[h].email
      /\ Row(handler[h]).created = handler[h].at
  BY <1>3, Limits DEF Row, CodeRow
<1>5. /\ h \notin Doing("mail", M, a, b)
      /\ h \in Doing("save", M, a, b) <=> handler[h].email \in M /\ handler[h].at \in a .. b
  BY <1>3 DEF Doing
<1>6. MailsOf(M, a, b)' = MailsOf(M, a, b)
  BY <1>4 DEF MailsOf
<1>7. /\ Doing("mail", M, a, b)' = Doing("mail", M, a, b)
      /\ Doing("save", M, a, b)' = Doing("save", M, a, b) \ {h}
  <2>1. /\ Doing("mail", M, a, b)' = Doing("mail", M, a, b) \ {h}
        /\ Doing("save", M, a, b)' = Doing("save", M, a, b) \ {h}
    BY <1>4, Ends
  <2> QED BY <1>5, <2>1
<1>8. CASE handler[h].email \in M /\ handler[h].at \in a .. b
  <2>1. Saving(M, a, b)' = Saving(M, a, b) - 1
    BY <1>5, <1>7, <1>8, Finite, OneMore DEF Saving
  <2>2. /\ RowsOf(M, a, b)' = RowsOf(M, a, b) \cup {Len(codes) + 1}
        /\ Len(codes) + 1 \notin RowsOf(M, a, b)
    BY <1>4, <1>r, <1>8, RowsStep
  <2>3. Rows(M, a, b)' = Rows(M, a, b) + 1
    BY <2>2, Finite, OneMore DEF Rows
  <2> QED BY <1>6, <1>7, <2>1, <2>3 DEF Sending, Mailed
<1>9. CASE ~(handler[h].email \in M /\ handler[h].at \in a .. b)
  <2>1. Doing("save", M, a, b)' = Doing("save", M, a, b)
    BY <1>5, <1>7, <1>9
  <2>2. RowsOf(M, a, b)' = RowsOf(M, a, b)
    BY <1>4, <1>r, <1>9, RowsStep
  <2>3. /\ Saving(M, a, b)' = Saving(M, a, b) - 0
        /\ Sending(M, a, b)' = Sending(M, a, b)
        /\ Mailed(M, a, b)' = Mailed(M, a, b) /\ Rows(M, a, b)' = Rows(M, a, b) + 0
    BY <1>6, <1>7, <2>1, <2>2, Counted DEF Saving, Sending, Mailed, Rows
  <2> QED BY <1>3, <1>9, <2>3
<1> QED BY <1>8, <1>9

\* A handler that ends leaves a mail without its row when it was about to save it.
LEMMA AbortCounts ==
  ASSUME RegistrationTypeOK, NEW h \in Handlers, Abort(h), NEW M, NEW a, NEW b
  PROVE  \E d \in {0, 1} :
           /\ Saving(M, a, b)' = Saving(M, a, b) - d
           /\ Sending(M, a, b)' <= Sending(M, a, b)
           /\ Mailed(M, a, b)' = Mailed(M, a, b) /\ Rows(M, a, b)' = Rows(M, a, b)
           /\ unsaved' >= unsaved + d
<1>1. Go(h, NoTask) /\ codes' = codes /\ mailed' = mailed
  BY DEF Abort
<1>2. \A pc : pc \in {"save", "mail"} => Doing(pc, M, a, b)' = Doing(pc, M, a, b) \ {h}
  BY <1>1, Ends
<1>3. RowsOf(M, a, b)' = RowsOf(M, a, b) /\ MailsOf(M, a, b)' = MailsOf(M, a, b)
  BY <1>1 DEF RowsOf, MailsOf
<1>4. Sending(M, a, b)' <= Sending(M, a, b)
  <2>1. /\ IsFiniteSet(Doing("mail", M, a, b)) /\ Cardinality(Doing("mail", M, a, b)) \in Nat
    BY Finite
  <2>2. Cardinality(Doing("mail", M, a, b) \ {h}) <= Cardinality(Doing("mail", M, a, b))
    <3>1. Cardinality(Doing("mail", M, a, b) \ {h}) =
            IF h \in Doing("mail", M, a, b) THEN Cardinality(Doing("mail", M, a, b)) - 1
                                           ELSE Cardinality(Doing("mail", M, a, b))
      BY <2>1, OneMore
    <3> QED BY <2>1, <3>1
  <2> QED BY <1>2, <2>2 DEF Sending
<1>5. h \in Doing("save", M, a, b) => handler[h].pc = "save"
  BY DEF Doing
<1>6. unsaved' = unsaved + (IF handler[h].pc = "save" THEN 1 ELSE 0) /\ unsaved \in Nat
  BY DEF Abort, RegistrationTypeOK
<1>7. CASE h \in Doing("save", M, a, b)
  BY <1>2, <1>3, <1>4, <1>5, <1>6, <1>7, Finite, OneMore DEF Saving, Mailed, Rows
<1>8. CASE h \notin Doing("save", M, a, b)
  <2>1. Doing("save", M, a, b)' = Doing("save", M, a, b)
    BY <1>2, <1>8
  <2>2. Saving(M, a, b)' = Saving(M, a, b) - 0
    BY <2>1, Counted DEF Saving
  <2>3. unsaved' >= unsaved + 0
    BY <1>6
  <2> QED BY <1>3, <1>4, <2>2, <2>3 DEF Mailed, Rows
<1> QED BY <1>7, <1>8

-----------------------------------------------------------------------------
\* The steps that leave all counts alone, or only those of the handlers.
Quiet ==
  /\ unsaved' = unsaved /\ mailed' = mailed /\ Len(codes') = Len(codes)
  /\ \A M \in SUBSET Emails, a, b \in Nat :
       /\ Saving(M, a, b)' = Saving(M, a, b) /\ Sending(M, a, b)' = Sending(M, a, b)
       /\ Mailed(M, a, b)' = Mailed(M, a, b) /\ Rows(M, a, b)' = Rows(M, a, b)

LEMMA QuietSteps ==
  ASSUME RegistrationTypeOK, CodesHeld, NEW h \in Handlers,
         \/ TickNow \/ \E e \in Emails, right \in BOOLEAN : Verify(h, e, right)
         \/ ReadAttempts(h) \/ WriteAttempts(h) \/ Consume(h)
         \/ \E n \in Names : RegisterName(h, n) \/ DeleteName(n)
  PROVE  Quiet
<1>1. unsaved' = unsaved /\ mailed' = mailed
  BY DEF TickNow, Verify, ReadAttempts, WriteAttempts, Consume, RegisterName, DeleteName
<1>2. \A M \in SUBSET Emails, a, b \in Nat : Mailed(M, a, b)' = Mailed(M, a, b)
  BY <1>1 DEF Mailed, MailsOf
<1>3. Len(codes') = Len(codes) /\ \A M \in SUBSET Emails, a, b \in Nat : RowsOf(M, a, b)' = RowsOf(M, a, b)
  <2>1. CASE codes' = codes
    BY <2>1 DEF RowsOf
  <2>2. CASE codes' /= codes
    <3>0. codes \in Seq(CodeRow)
      BY DEF RegistrationTypeOK
    <3>1. WriteAttempts(h) \/ Consume(h)
      BY <2>2 DEF TickNow, Verify, ReadAttempts, RegisterName, DeleteName
    <3>2. handler[h].code \in DOMAIN codes
      BY <3>1 DEF WriteAttempts, Consume, CodesHeld
    <3>3. WriteAttempts(h) => handler[h].attempts + 1 \in Nat
      BY HandlerShape DEF WriteAttempts
    <3>4. \/ \E n \in Nat : codes' = [codes EXCEPT ![handler[h].code].attempts = n]
          \/ codes' = [codes EXCEPT ![handler[h].code].consumed = TRUE]
      BY <3>1, <3>3 DEF WriteAttempts, Consume
    <3>5. /\ Len(codes') = Len(codes) /\ DOMAIN codes' = DOMAIN codes
          /\ \A d \in DOMAIN codes :
               codes'[d].email = codes[d].email /\ codes'[d].created = codes[d].created
      BY <3>0, <3>2, <3>4, RowChanged
    <3> QED BY <3>5 DEF RowsOf
  <2> QED BY <2>1, <2>2
<1>4. \A M \in SUBSET Emails, a, b \in Nat :
        Saving(M, a, b)' = Saving(M, a, b) /\ Sending(M, a, b)' = Sending(M, a, b)
  <2>1. CASE handler' = handler
    BY <2>1 DEF Saving, Sending, Doing
  <2>2. CASE handler' /= handler
    <3>1. /\ handler[h].pc \notin {"mail", "save"}
          /\ \E s : Go(h, s) /\ s.pc \notin {"mail", "save"}
      <4>1. ASSUME NEW e \in Emails, NEW right \in BOOLEAN, Verify(h, e, right)
            PROVE \E s : Go(h, s) /\ s.pc \notin {"mail", "save"}
        <5>1. PICK c \in Current(e) :
                Go(h, [pc |-> IF Spent(c) THEN "consume" ELSE IF right THEN "register" ELSE "count",
                       code |-> c])
          BY Zenon, <4>1 DEF Verify
        <5>2. [pc |-> IF Spent(c) THEN "consume" ELSE IF right THEN "register" ELSE "count",
               code |-> c].pc \notin {"mail", "save"}
          OBVIOUS
        <5> QED BY Zenon, <5>1, <5>2
      <4>2. NoTask.pc \notin {"mail", "save"}
        BY DEF NoTask
      <4>3. \A c : /\ [pc |-> "consume", code |-> c].pc \notin {"mail", "save"}
                   /\ \A n : [pc |-> "write", code |-> c, attempts |-> n].pc \notin {"mail", "save"}
        OBVIOUS
      <4>4. ASSUME ReadAttempts(h) \/ WriteAttempts(h) \/ Consume(h) \/ \E n \in Names : RegisterName(h, n)
            PROVE \E s : Go(h, s) /\ s.pc \notin {"mail", "save"}
        <5>1. \/ Go(h, NoTask) \/ \E c : Go(h, [pc |-> "consume", code |-> c])
              \/ \E c, n : Go(h, [pc |-> "write", code |-> c, attempts |-> n])
          BY Zenon, <4>4 DEF ReadAttempts, WriteAttempts, Consume, RegisterName
        <5> QED BY Zenon, <5>1, <4>2, <4>3
      <4>5. handler[h].pc \notin {"mail", "save"}
        BY <2>2 DEF TickNow, Verify, ReadAttempts, WriteAttempts, Consume, RegisterName, DeleteName, NoTask
      <4> QED BY Zenon, <2>2, <4>1, <4>4, <4>5 DEF TickNow, DeleteName
    <3> QED BY <3>1, QuietCounts
  <2> QED BY <2>1, <2>2
<1> QED BY <1>1, <1>2, <1>3, <1>4 DEF Quiet, Rows

\* Every row of the window is one the limits count.
LEMMA AskedWithin ==
  ASSUME RegistrationTypeOK, NEW e \in Emails, WithinLimits(e), NEW s \in Nat
  PROVE  /\ instant \in s .. s + Day => Rows({e}, s, s + Day) <= DailyLimit - 1
         /\ instant \in s .. s + Hour => Rows(Emails, s, s + Hour) <= HourlyLimit - 1
<1>0. /\ instant \in Nat /\ Len(codes) \in Nat /\ DOMAIN codes = 1 .. Len(codes)
      /\ codes \in Seq(CodeRow)
  BY Limits DEF RegistrationTypeOK
<1>c. \A c \in DOMAIN codes : codes[c].created \in Nat /\ codes[c].email \in Emails
  BY CodeShape, Limits
<1>1. ASSUME instant \in s .. s + Day PROVE Rows({e}, s, s + Day) <= DailyLimit - 1
  <2> DEFINE A == {c \in DOMAIN codes : codes[c].email = e /\ codes[c].created >= Since(Day)}
  <2>1. Since(Day) <= s
    BY <1>0, <1>1, Limits DEF Since
  <2>2. IsFiniteSet(A)
    <3>1. A \subseteq 1 .. Len(codes)
      BY <1>0
    <3>2. IsFiniteSet(1 .. Len(codes))
      BY <1>0, FS_Interval
    <3> HIDE DEF A
    <3> QED BY <3>1, <3>2, FS_Subset
  <2>3. RowsOf({e}, s, s + Day) \subseteq A
    BY <2>1, <1>c, <1>0, Limits DEF RowsOf, Since
  <2>4. Cardinality(A) < DailyLimit
    BY DEF WithinLimits, SendsSince
  <2>5. Cardinality(RowsOf({e}, s, s + Day)) <= Cardinality(A)
    BY <2>2, <2>3, FS_Subset
  <2>6. Cardinality(A) \in Nat /\ Rows({e}, s, s + Day) \in Nat
    BY <2>2, FS_CardinalityType, Counted
  <2> HIDE DEF A
  <2> QED BY <2>4, <2>5, <2>6, Limits DEF Rows
<1>2. ASSUME instant \in s .. s + Hour PROVE Rows(Emails, s, s + Hour) <= HourlyLimit - 1
  <2> DEFINE A == {c \in DOMAIN codes : codes[c].created >= Since(Hour)}
  <2>1. Since(Hour) <= s
    BY <1>0, <1>2, Limits DEF Since
  <2>2. IsFiniteSet(A)
    <3>1. A \subseteq 1 .. Len(codes)
      BY <1>0
    <3>2. IsFiniteSet(1 .. Len(codes))
      BY <1>0, FS_Interval
    <3> HIDE DEF A
    <3> QED BY <3>1, <3>2, FS_Subset
  <2>3. RowsOf(Emails, s, s + Hour) \subseteq A
    BY <2>1, <1>c, <1>0, Limits DEF RowsOf, Since
  <2>4. Cardinality(A) < HourlyLimit
    BY DEF WithinLimits, SendsByIpSince
  <2>5. Cardinality(RowsOf(Emails, s, s + Hour)) <= Cardinality(A)
    BY <2>2, <2>3, FS_Subset
  <2>6. Cardinality(A) \in Nat /\ Rows(Emails, s, s + Hour) \in Nat
    BY <2>2, FS_CardinalityType, Counted
  <2> HIDE DEF A
  <2> QED BY <2>4, <2>5, <2>6, Limits DEF Rows
<1> QED BY <1>1, <1>2

\* The handlers that mail or save, when one of them rests.
LEMMA OthersBusy ==
  ASSUME RegistrationTypeOK, NEW h \in Handlers, handler[h].pc = "rest", NEW M, NEW a, NEW b
  PROVE  Saving(M, a, b) + Sending(M, a, b) <= Cardinality(Handlers) - 1
<1> DEFINE A == Doing("save", M, a, b)
           B == Doing("mail", M, a, b)
<1>1. IsFiniteSet(A) /\ IsFiniteSet(B)
  BY Finite
<1>2. A \cap B = {} /\ A \cup B \subseteq Handlers \ {h}
  BY DEF Doing
<1>3. Cardinality(A \cup B) = Cardinality(A) + Cardinality(B)
  <2>1. Cardinality(A \cup B) = Cardinality(A) + Cardinality(B) - Cardinality(A \cap B)
    BY <1>1, FS_Union
  <2>2. Cardinality(A \cap B) = 0
    BY <1>2, FS_EmptySet
  <2>3. Cardinality(A) \in Nat /\ Cardinality(B) \in Nat
    BY <1>1, FS_CardinalityType
  <2> HIDE DEF A, B
  <2> QED BY <2>1, <2>2, <2>3
<1>4. IsFiniteSet(Handlers \ {h}) /\ Cardinality(Handlers \ {h}) = Cardinality(Handlers) - 1
  BY Limits, FS_RemoveElement
<1>5. Cardinality(A \cup B) <= Cardinality(Handlers \ {h})
  BY <1>2, <1>4, FS_Subset
<1> QED BY <1>3, <1>4, <1>5 DEF Saving, Sending

-----------------------------------------------------------------------------
\* What the invariants of the sends say of the counts.
SendsInv == RowsHaveMails /\ MailsHaveRows /\ SendsWithin

LEMMA SendsCounts ==
  ASSUME RegistrationTypeOK
  PROVE  SendsInv <=>
           /\ Len(codes) + Saving(Emails, 0, MaxNow) <= Len(mailed)
           /\ Len(mailed) + Sending(Emails, 0, MaxNow) <= MaxCodes
           /\ \A M \in SUBSET Emails, a, b \in Nat :
                Mailed(M, a, b) <= Rows(M, a, b) + Saving(M, a, b) + unsaved
           /\ \A e \in Emails, s \in Nat :
                Mailed({e}, s, s + Day) + Sending({e}, s, s + Day)
                  <= DailyLimit + Cardinality(Handlers) - 1 + unsaved
           /\ \A s \in Nat :
                Mailed(Emails, s, s + Hour) + Sending(Emails, s, s + Hour)
                  <= HourlyLimit + Cardinality(Handlers) - 1 + unsaved
  BY Zenon DEF SendsInv, RowsHaveMails, MailsHaveRows, SendsWithin, Within, Saving, Sending, Mailed, Rows

\* The same of the next state.
LEMMA SendsCountsPrimed ==
  ASSUME RegistrationTypeOK'
  PROVE  SendsInv' <=>
           /\ Len(codes') + Saving(Emails, 0, MaxNow)' <= Len(mailed')
           /\ Len(mailed') + Sending(Emails, 0, MaxNow)' <= MaxCodes
           /\ \A M \in SUBSET Emails, a, b \in Nat :
                Mailed(M, a, b)' <= Rows(M, a, b)' + Saving(M, a, b)' + unsaved'
           /\ \A e \in Emails, s \in Nat :
                Mailed({e}, s, s + Day)' + Sending({e}, s, s + Day)'
                  <= DailyLimit + Cardinality(Handlers) - 1 + unsaved'
           /\ \A s \in Nat :
                Mailed(Emails, s, s + Hour)' + Sending(Emails, s, s + Hour)'
                  <= HourlyLimit + Cardinality(Handlers) - 1 + unsaved'
  BY Zenon DEF SendsInv, RowsHaveMails, MailsHaveRows, SendsWithin, Within, Saving, Sending, Mailed, Rows

LEMMA SendsInvInit == RegistrationInit => RegistrationTypeOK /\ SendsInv
<1> SUFFICES ASSUME RegistrationInit PROVE RegistrationTypeOK /\ SendsInv
  OBVIOUS
<1>1. RegistrationTypeOK
  <2>1. NoTask \in HandlerType
    BY DEF HandlerType
  <2>2. codes = <<>> /\ mailed = <<>> /\ instant = 0 /\ unsaved = 0
    BY DEF RegistrationInit
  <2>3. /\ codes \in Seq(CodeRow) /\ Len(codes) <= MaxCodes /\ unsaved \in Nat
        /\ mailed \in Seq([email : Emails, at : 0 .. MaxNow]) /\ instant \in 0 .. MaxNow
    BY <2>2, Limits
  <2>4. handler \in [Handlers -> HandlerType]
    BY <2>1 DEF RegistrationInit
  <2>5. person \in [Names -> {NoOne} \cup [named : {TRUE}, email : Emails, code : Codes]]
    BY DEF RegistrationInit
  <2> QED BY Zenon, <2>3, <2>4, <2>5 DEF RegistrationTypeOK
<1>2. ASSUME NEW M, NEW a, NEW b
      PROVE /\ Saving(M, a, b) = 0 /\ Sending(M, a, b) = 0
            /\ Mailed(M, a, b) = 0 /\ Rows(M, a, b) = 0
  <2>1. /\ Doing("save", M, a, b) = {} /\ Doing("mail", M, a, b) = {}
        /\ MailsOf(M, a, b) = {} /\ RowsOf(M, a, b) = {}
    BY DEF RegistrationInit, Doing, MailsOf, RowsOf, NoTask
  <2> QED BY <2>1, FS_EmptySet DEF Saving, Sending, Mailed, Rows
<1>3. Cardinality(Handlers) \in Nat /\ unsaved = 0 /\ Len(codes) = 0 /\ Len(mailed) = 0
  BY Limits, FS_CardinalityType DEF RegistrationInit
<1>4. /\ DailyLimit + Cardinality(Handlers) - 1 + unsaved >= 0
      /\ HourlyLimit + Cardinality(Handlers) - 1 + unsaved >= 0
  BY <1>3, Limits
<1> QED BY <1>1, <1>2, <1>3, <1>4, Limits, SendsCounts

\* The counts are numbers, before and after.
LEMMA CountTypes ==
  ASSUME RegistrationTypeOK, RegistrationTypeOK', NEW M, NEW a, NEW b
  PROVE  /\ Mailed(M, a, b) \in Nat /\ Rows(M, a, b) \in Nat
         /\ Saving(M, a, b) \in Nat /\ Sending(M, a, b) \in Nat
         /\ Mailed(M, a, b)' \in Nat /\ Rows(M, a, b)' \in Nat
         /\ Saving(M, a, b)' \in Nat /\ Sending(M, a, b)' \in Nat
         /\ unsaved \in Nat /\ unsaved' \in Nat /\ Len(codes) \in Nat /\ Len(codes') \in Nat
         /\ Len(mailed) \in Nat /\ Len(mailed') \in Nat /\ Cardinality(Handlers) \in Nat
<1>1. /\ Len(codes') \in Nat /\ DOMAIN codes' = 1 .. Len(codes') /\ Len(codes) \in Nat
      /\ Len(mailed') \in Nat /\ DOMAIN mailed' = 1 .. Len(mailed') /\ Len(mailed) \in Nat
      /\ unsaved \in Nat /\ unsaved' \in Nat
  BY DEF RegistrationTypeOK
<1>2. RowsOf(M, a, b)' \subseteq 1 .. Len(codes') /\ MailsOf(M, a, b)' \subseteq 1 .. Len(mailed')
  BY <1>1 DEF RowsOf, MailsOf
<1>3. IsFiniteSet(1 .. Len(codes')) /\ IsFiniteSet(1 .. Len(mailed'))
  BY <1>1, FS_Interval
<1>4. IsFiniteSet(RowsOf(M, a, b)') /\ IsFiniteSet(MailsOf(M, a, b)')
  BY <1>2, <1>3, FS_Subset
<1>5. Mailed(M, a, b)' \in Nat /\ Rows(M, a, b)' \in Nat
  BY <1>4, FS_CardinalityType DEF Mailed, Rows
<1>6. Saving(M, a, b)' \in Nat /\ Sending(M, a, b)' \in Nat
  BY FinitePrimed
<1> QED BY <1>1, <1>5, <1>6, Counted, Limits, FS_CardinalityType

\* A step keeps the invariant when it keeps the balance of every window and
\* adds to no window, but for mails whose rows are lost.
LEMMA SendsKept ==
  ASSUME RegistrationTypeOK, RegistrationTypeOK', SendsInv,
         Len(codes') + Saving(Emails, 0, MaxNow)' <= Len(mailed'),
         Len(mailed') + Sending(Emails, 0, MaxNow)' <= MaxCodes,
         \A M \in SUBSET Emails, a, b \in Nat :
           Mailed(M, a, b)' <= Rows(M, a, b)' + Saving(M, a, b)' + unsaved',
         \A M \in SUBSET Emails, a, b \in Nat :
           Mailed(M, a, b)' + Sending(M, a, b)' + unsaved <= Mailed(M, a, b) + Sending(M, a, b) + unsaved'
  PROVE  SendsInv'
<1>1. /\ \A e \in Emails, s \in Nat :
           Mailed({e}, s, s + Day) + Sending({e}, s, s + Day)
             <= DailyLimit + Cardinality(Handlers) - 1 + unsaved
      /\ \A s \in Nat :
           Mailed(Emails, s, s + Hour) + Sending(Emails, s, s + Hour)
             <= HourlyLimit + Cardinality(Handlers) - 1 + unsaved
  BY Zenon, SendsCounts
<1>2. ASSUME NEW M \in SUBSET Emails, NEW a \in Nat, NEW b \in Nat, NEW l \in Nat,
             Mailed(M, a, b) + Sending(M, a, b) <= l + Cardinality(Handlers) - 1 + unsaved
      PROVE  Mailed(M, a, b)' + Sending(M, a, b)' <= l + Cardinality(Handlers) - 1 + unsaved'
  <2>1. Mailed(M, a, b)' + Sending(M, a, b)' + unsaved <= Mailed(M, a, b) + Sending(M, a, b) + unsaved'
    BY Zenon
  <2>2. /\ Mailed(M, a, b) \in Nat /\ Sending(M, a, b) \in Nat
        /\ Mailed(M, a, b)' \in Nat /\ Sending(M, a, b)' \in Nat
        /\ unsaved \in Nat /\ unsaved' \in Nat /\ Cardinality(Handlers) \in Nat
    BY CountTypes
  <2> QED BY <1>2, <2>1, <2>2
<1>3. ASSUME NEW e \in Emails, NEW s \in Nat
      PROVE  Mailed({e}, s, s + Day)' + Sending({e}, s, s + Day)'
               <= DailyLimit + Cardinality(Handlers) - 1 + unsaved'
  <2>1. {e} \in SUBSET Emails /\ s + Day \in Nat /\ DailyLimit \in Nat
    BY Limits
  <2> QED BY Zenon, <1>1, <1>2, <2>1
<1>4. ASSUME NEW s \in Nat
      PROVE  Mailed(Emails, s, s + Hour)' + Sending(Emails, s, s + Hour)'
               <= HourlyLimit + Cardinality(Handlers) - 1 + unsaved'
  <2>1. Emails \in SUBSET Emails /\ s + Hour \in Nat /\ HourlyLimit \in Nat
    BY Limits
  <2> QED BY Zenon, <1>1, <1>2, <2>1
<1> QED BY Zenon, <1>3, <1>4, SendsCountsPrimed

LEMMA SendsQuiet ==
  ASSUME RegistrationTypeOK, RegistrationTypeOK', SendsInv, Quiet
  PROVE  SendsInv'
<1>1. /\ Len(codes) + Saving(Emails, 0, MaxNow) <= Len(mailed)
      /\ Len(mailed) + Sending(Emails, 0, MaxNow) <= MaxCodes
      /\ \A M \in SUBSET Emails, a, b \in Nat :
           Mailed(M, a, b) <= Rows(M, a, b) + Saving(M, a, b) + unsaved
  BY Zenon, SendsCounts
<1>2. 0 \in Nat /\ MaxNow \in Nat /\ Emails \in SUBSET Emails
  BY Limits
<1>3. /\ Len(codes') + Saving(Emails, 0, MaxNow)' <= Len(mailed')
      /\ Len(mailed') + Sending(Emails, 0, MaxNow)' <= MaxCodes
  BY Zenon, <1>1, <1>2 DEF Quiet
<1>4. ASSUME NEW M \in SUBSET Emails, NEW a \in Nat, NEW b \in Nat
      PROVE  /\ Mailed(M, a, b)' <= Rows(M, a, b)' + Saving(M, a, b)' + unsaved'
             /\ Mailed(M, a, b)' + Sending(M, a, b)' + unsaved <= Mailed(M, a, b) + Sending(M, a, b) + unsaved'
  <2>1. /\ unsaved' = unsaved
        /\ Saving(M, a, b)' = Saving(M, a, b) /\ Sending(M, a, b)' = Sending(M, a, b)
        /\ Mailed(M, a, b)' = Mailed(M, a, b) /\ Rows(M, a, b)' = Rows(M, a, b)
    BY Zenon DEF Quiet
  <2>2. Mailed(M, a, b) \in Nat /\ Sending(M, a, b) \in Nat /\ unsaved \in Nat
    BY CountTypes
  <2>3. Mailed(M, a, b) <= Rows(M, a, b) + Saving(M, a, b) + unsaved
    BY Zenon, <1>1
  <2> QED BY <2>1, <2>2, <2>3
<1> QED BY Zenon, <1>3, <1>4, SendsKept

LEMMA SendsMail ==
  ASSUME RegistrationTypeOK, RegistrationTypeOK', SendsInv,
         NEW h \in Handlers, NEW ok \in BOOLEAN, SendMail(h, ok)
  PROVE  SendsInv'
<1>1. /\ Len(codes) + Saving(Emails, 0, MaxNow) <= Len(mailed)
      /\ Len(mailed) + Sending(Emails, 0, MaxNow) <= MaxCodes
      /\ \A M \in SUBSET Emails, a, b \in Nat :
           Mailed(M, a, b) <= Rows(M, a, b) + Saving(M, a, b) + unsaved
  BY Zenon, SendsCounts
<1>2. unsaved' = unsaved /\ Len(codes') = Len(codes) /\ Len(mailed') = Len(mailed) + 1
  <2>1. handler[h].email \in Emails /\ handler[h].at \in 0 .. MaxNow
    BY HandlerShape DEF SendMail
  <2>2. PICK m \in [email : Emails, at : 0 .. MaxNow] : mailed' = Append(mailed, m)
    BY <2>1 DEF SendMail
  <2>3. mailed \in Seq([email : Emails, at : 0 .. MaxNow])
    BY DEF RegistrationTypeOK
  <2>4. Len(mailed') = Len(mailed) + 1
    BY <2>2, <2>3, AppendProperties
  <2> QED BY <2>4 DEF SendMail
<1>3. /\ Len(codes') + Saving(Emails, 0, MaxNow)' <= Len(mailed')
      /\ Len(mailed') + Sending(Emails, 0, MaxNow)' <= MaxCodes
  <2>1. PICK d \in {0, 1} :
          /\ Saving(Emails, 0, MaxNow)' = Saving(Emails, 0, MaxNow) + d
          /\ Sending(Emails, 0, MaxNow)' = Sending(Emails, 0, MaxNow) - d
          /\ d = 1
    BY SendCounts
  <2>2. /\ Saving(Emails, 0, MaxNow) \in Nat /\ Sending(Emails, 0, MaxNow) \in Nat
        /\ Len(codes) \in Nat /\ Len(mailed) \in Nat
    BY CountTypes
  <2> QED BY <1>1, <1>2, <2>1, <2>2, Limits
<1>4. ASSUME NEW M \in SUBSET Emails, NEW a \in Nat, NEW b \in Nat
      PROVE  /\ Mailed(M, a, b)' <= Rows(M, a, b)' + Saving(M, a, b)' + unsaved'
             /\ Mailed(M, a, b)' + Sending(M, a, b)' + unsaved <= Mailed(M, a, b) + Sending(M, a, b) + unsaved'
  <2>1. PICK d \in {0, 1} :
           /\ Saving(M, a, b)' = Saving(M, a, b) + d
           /\ Sending(M, a, b)' = Sending(M, a, b) - d
           /\ Mailed(M, a, b)' = Mailed(M, a, b) + d /\ Rows(M, a, b)' = Rows(M, a, b)
    BY Zenon, SendCounts
  <2>2. /\ Mailed(M, a, b) \in Nat /\ Sending(M, a, b) \in Nat /\ unsaved \in Nat
        /\ Saving(M, a, b) \in Nat /\ Rows(M, a, b) \in Nat
    BY CountTypes
  <2>3. Mailed(M, a, b) <= Rows(M, a, b) + Saving(M, a, b) + unsaved
    BY Zenon, <1>1
  <2> QED BY <1>2, <2>1, <2>2, <2>3
<1> QED BY Zenon, <1>3, <1>4, SendsKept

LEMMA SendsSave ==
  ASSUME RegistrationTypeOK, RegistrationTypeOK', SendsInv, NEW h \in Handlers, SaveCode(h)
  PROVE  SendsInv'
<1>1. /\ Len(codes) + Saving(Emails, 0, MaxNow) <= Len(mailed)
      /\ Len(mailed) + Sending(Emails, 0, MaxNow) <= MaxCodes
      /\ \A M \in SUBSET Emails, a, b \in Nat :
           Mailed(M, a, b) <= Rows(M, a, b) + Saving(M, a, b) + unsaved
  BY Zenon, SendsCounts
<1>2. unsaved' = unsaved /\ mailed' = mailed /\ Len(codes') = Len(codes) + 1
  <2>1. handler[h].email \in Emails /\ handler[h].at \in 0 .. MaxNow /\ handler[h].sent \in BOOLEAN
    BY HandlerShape DEF SaveCode
  <2>2. Row(handler[h]) \in CodeRow
    BY <2>1, Limits DEF Row, CodeRow
  <2>3. codes \in Seq(CodeRow)
    BY DEF RegistrationTypeOK
  <2> QED BY <2>2, <2>3, AppendProperties DEF SaveCode
<1>3. /\ Len(codes') + Saving(Emails, 0, MaxNow)' <= Len(mailed')
      /\ Len(mailed') + Sending(Emails, 0, MaxNow)' <= MaxCodes
  <2>1. PICK d \in {0, 1} :
          /\ Saving(Emails, 0, MaxNow)' = Saving(Emails, 0, MaxNow) - d
          /\ Sending(Emails, 0, MaxNow)' = Sending(Emails, 0, MaxNow)
          /\ d = 1
    BY SaveCounts
  <2>2. /\ Saving(Emails, 0, MaxNow) \in Nat /\ Sending(Emails, 0, MaxNow) \in Nat
        /\ Len(codes) \in Nat /\ Len(mailed) \in Nat
    BY CountTypes
  <2> QED BY <1>1, <1>2, <2>1, <2>2, Limits
<1>4. ASSUME NEW M \in SUBSET Emails, NEW a \in Nat, NEW b \in Nat
      PROVE  /\ Mailed(M, a, b)' <= Rows(M, a, b)' + Saving(M, a, b)' + unsaved'
             /\ Mailed(M, a, b)' + Sending(M, a, b)' + unsaved <= Mailed(M, a, b) + Sending(M, a, b) + unsaved'
  <2>1. PICK d \in {0, 1} :
           /\ Saving(M, a, b)' = Saving(M, a, b) - d
           /\ Sending(M, a, b)' = Sending(M, a, b)
           /\ Mailed(M, a, b)' = Mailed(M, a, b) /\ Rows(M, a, b)' = Rows(M, a, b) + d
    BY Zenon, SaveCounts
  <2>2. /\ Mailed(M, a, b) \in Nat /\ Sending(M, a, b) \in Nat /\ unsaved \in Nat
        /\ Saving(M, a, b) \in Nat /\ Rows(M, a, b) \in Nat
    BY CountTypes
  <2>3. Mailed(M, a, b) <= Rows(M, a, b) + Saving(M, a, b) + unsaved
    BY Zenon, <1>1
  <2> QED BY <1>2, <2>1, <2>2, <2>3
<1> QED BY Zenon, <1>3, <1>4, SendsKept

LEMMA SendsAbort ==
  ASSUME RegistrationTypeOK, RegistrationTypeOK', SendsInv, NEW h \in Handlers, Abort(h)
  PROVE  SendsInv'
<1>1. /\ Len(codes) + Saving(Emails, 0, MaxNow) <= Len(mailed)
      /\ Len(mailed) + Sending(Emails, 0, MaxNow) <= MaxCodes
      /\ \A M \in SUBSET Emails, a, b \in Nat :
           Mailed(M, a, b) <= Rows(M, a, b) + Saving(M, a, b) + unsaved
  BY Zenon, SendsCounts
<1>2. codes' = codes /\ mailed' = mailed
  BY DEF Abort
<1>3. /\ Len(codes') + Saving(Emails, 0, MaxNow)' <= Len(mailed')
      /\ Len(mailed') + Sending(Emails, 0, MaxNow)' <= MaxCodes
  <2>1. PICK d \in {0, 1} :
          /\ Saving(Emails, 0, MaxNow)' = Saving(Emails, 0, MaxNow) - d
          /\ Sending(Emails, 0, MaxNow)' <= Sending(Emails, 0, MaxNow)
    BY Zenon, AbortCounts
  <2>2. /\ Saving(Emails, 0, MaxNow) \in Nat /\ Sending(Emails, 0, MaxNow) \in Nat
        /\ Sending(Emails, 0, MaxNow)' \in Nat
        /\ Len(codes) \in Nat /\ Len(mailed) \in Nat
    BY CountTypes
  <2> QED BY <1>1, <1>2, <2>1, <2>2, Limits
<1>4. ASSUME NEW M \in SUBSET Emails, NEW a \in Nat, NEW b \in Nat
      PROVE  /\ Mailed(M, a, b)' <= Rows(M, a, b)' + Saving(M, a, b)' + unsaved'
             /\ Mailed(M, a, b)' + Sending(M, a, b)' + unsaved <= Mailed(M, a, b) + Sending(M, a, b) + unsaved'
  <2>1. PICK d \in {0, 1} :
           /\ Saving(M, a, b)' = Saving(M, a, b) - d
           /\ Sending(M, a, b)' <= Sending(M, a, b)
           /\ Mailed(M, a, b)' = Mailed(M, a, b) /\ Rows(M, a, b)' = Rows(M, a, b)
           /\ unsaved' >= unsaved + d
    BY Zenon, AbortCounts
  <2>2. /\ Mailed(M, a, b) \in Nat /\ Sending(M, a, b) \in Nat /\ unsaved \in Nat
        /\ Saving(M, a, b) \in Nat /\ Rows(M, a, b) \in Nat
        /\ Sending(M, a, b)' \in Nat /\ unsaved' \in Nat
    BY CountTypes
  <2>3. Mailed(M, a, b) <= Rows(M, a, b) + Saving(M, a, b) + unsaved
    BY Zenon, <1>1
  <2> QED BY <2>1, <2>2, <2>3
<1> QED BY Zenon, <1>3, <1>4, SendsKept

LEMMA SendsAsk ==
  ASSUME RegistrationTypeOK, RegistrationTypeOK', SendsInv,
         NEW h \in Handlers, NEW e \in Emails, AskCode(h, e)
  PROVE  SendsInv'
<1>1. /\ Len(codes) + Saving(Emails, 0, MaxNow) <= Len(mailed)
      /\ \A M \in SUBSET Emails, a, b \in Nat :
           Mailed(M, a, b) <= Rows(M, a, b) + Saving(M, a, b) + unsaved
      /\ \A d \in Emails, s \in Nat :
           Mailed({d}, s, s + Day) + Sending({d}, s, s + Day)
             <= DailyLimit + Cardinality(Handlers) - 1 + unsaved
      /\ \A s \in Nat :
           Mailed(Emails, s, s + Hour) + Sending(Emails, s, s + Hour)
             <= HourlyLimit + Cardinality(Handlers) - 1 + unsaved
  BY Zenon, SendsCounts
<1>2. unsaved' = unsaved /\ codes' = codes /\ mailed' = mailed /\ handler[h].pc = "rest"
  BY DEF AskCode, NoTask
<1>3. /\ Len(codes') + Saving(Emails, 0, MaxNow)' <= Len(mailed')
      /\ Len(mailed') + Sending(Emails, 0, MaxNow)' <= MaxCodes
  <2>1. {k \in Handlers : handler[k].pc = "mail"} = Doing("mail", Emails, 0, MaxNow)
    BY HandlerShape DEF Doing
  <2>2. Len(mailed) + Sending(Emails, 0, MaxNow) < MaxCodes
    BY <2>1 DEF AskCode, Sending
  <2>3. instant \in 0 .. MaxNow
    BY DEF RegistrationTypeOK
  <2>4. /\ Saving(Emails, 0, MaxNow)' = Saving(Emails, 0, MaxNow)
        /\ Sending(Emails, 0, MaxNow)' = Sending(Emails, 0, MaxNow) + 1
    BY <2>3, AskCounts
  <2>5. Sending(Emails, 0, MaxNow) \in Nat /\ Len(mailed) \in Nat
    BY CountTypes
  <2> QED BY <1>1, <1>2, <2>2, <2>4, <2>5, Limits
<1>4. ASSUME NEW M \in SUBSET Emails, NEW a \in Nat, NEW b \in Nat
      PROVE  Mailed(M, a, b)' <= Rows(M, a, b)' + Saving(M, a, b)' + unsaved'
  <2>1. /\ Saving(M, a, b)' = Saving(M, a, b)
        /\ Mailed(M, a, b)' = Mailed(M, a, b) /\ Rows(M, a, b)' = Rows(M, a, b)
    BY Zenon, AskCounts
  <2>2. Mailed(M, a, b) <= Rows(M, a, b) + Saving(M, a, b) + unsaved
    BY Zenon, <1>1
  <2> QED BY <1>2, <2>1, <2>2
<1>5. ASSUME NEW M \in SUBSET Emails, NEW a \in Nat, NEW b \in Nat, NEW l \in Nat \ {0},
             Mailed(M, a, b) + Sending(M, a, b) <= l + Cardinality(Handlers) - 1 + unsaved,
             e \in M /\ instant \in a .. b => Rows(M, a, b) <= l - 1
      PROVE  Mailed(M, a, b)' + Sending(M, a, b)' <= l + Cardinality(Handlers) - 1 + unsaved'
  <2>1. /\ Mailed(M, a, b) \in Nat /\ Sending(M, a, b) \in Nat /\ unsaved \in Nat
        /\ Saving(M, a, b) \in Nat /\ Rows(M, a, b) \in Nat /\ Cardinality(Handlers) \in Nat
    BY CountTypes
  <2>2. Mailed(M, a, b)' = Mailed(M, a, b)
    BY Zenon, AskCounts
  <2>3. CASE e \in M /\ instant \in a .. b
    <3>1. Sending(M, a, b)' = Sending(M, a, b) + 1
      BY <2>3, AskCounts
    <3>2. Mailed(M, a, b) <= Rows(M, a, b) + Saving(M, a, b) + unsaved
      BY Zenon, <1>1
    <3>3. Saving(M, a, b) + Sending(M, a, b) <= Cardinality(Handlers) - 1
      BY Zenon, <1>2, OthersBusy
    <3>4. Rows(M, a, b) <= l - 1
      BY Zenon, <1>5, <2>3
    <3> QED BY <1>2, <2>1, <2>2, <3>1, <3>2, <3>3, <3>4
  <2>4. CASE ~(e \in M /\ instant \in a .. b)
    <3>1. Sending(M, a, b)' = Sending(M, a, b)
      BY <2>1, <2>4, AskCounts
    <3> QED BY <1>2, <1>5, <2>2, <3>1
  <2> QED BY <2>3, <2>4
<1>6. ASSUME NEW d \in Emails, NEW s \in Nat
      PROVE  Mailed({d}, s, s + Day)' + Sending({d}, s, s + Day)'
               <= DailyLimit + Cardinality(Handlers) - 1 + unsaved'
  <2>1. {d} \in SUBSET Emails /\ s + Day \in Nat /\ DailyLimit \in Nat \ {0}
    BY Limits
  <2>2. Mailed({d}, s, s + Day) + Sending({d}, s, s + Day)
          <= DailyLimit + Cardinality(Handlers) - 1 + unsaved
    BY Zenon, <1>1
  <2>3. e \in {d} /\ instant \in s .. s + Day => Rows({d}, s, s + Day) <= DailyLimit - 1
    <3>1. instant \in s .. s + Day => Rows({e}, s, s + Day) <= DailyLimit - 1
      BY AskedWithin DEF AskCode
    <3> QED BY <3>1
  <2> QED BY Zenon, <1>5, <2>1, <2>2, <2>3
<1>7. ASSUME NEW s \in Nat
      PROVE  Mailed(Emails, s, s + Hour)' + Sending(Emails, s, s + Hour)'
               <= HourlyLimit + Cardinality(Handlers) - 1 + unsaved'
  <2>1. Emails \in SUBSET Emails /\ s + Hour \in Nat /\ HourlyLimit \in Nat \ {0}
    BY Limits
  <2>2. Mailed(Emails, s, s + Hour) + Sending(Emails, s, s + Hour)
          <= HourlyLimit + Cardinality(Handlers) - 1 + unsaved
    BY Zenon, <1>1
  <2>3. instant \in s .. s + Hour => Rows(Emails, s, s + Hour) <= HourlyLimit - 1
    BY AskedWithin DEF AskCode
  <2> QED BY Zenon, <1>5, <2>1, <2>2, <2>3
<1> QED BY Zenon, <1>3, <1>4, <1>6, <1>7, SendsCountsPrimed

LEMMA SendsInvStep ==
  ASSUME RegistrationTypeOK, RegistrationTypeOK', CodesHeld, SendsInv, RegistrationNext
  PROVE  SendsInv'
<1>1. ASSUME NEW h \in Handlers,
             \/ TickNow \/ \E e \in Emails, right \in BOOLEAN : Verify(h, e, right)
             \/ ReadAttempts(h) \/ WriteAttempts(h) \/ Consume(h)
             \/ \E n \in Names : RegisterName(h, n) \/ DeleteName(n)
      PROVE  SendsInv'
  BY Zenon, <1>1, QuietSteps, SendsQuiet
<1>2. CASE TickNow \/ \E n \in Names : DeleteName(n)
  <2>1. unsaved' = unsaved /\ mailed' = mailed /\ codes' = codes /\ handler' = handler
    BY <1>2 DEF TickNow, DeleteName
  <2>2. Quiet
    BY <2>1 DEF Quiet, Saving, Sending, Mailed, Rows, Doing, MailsOf, RowsOf
  <2> QED BY <2>2, SendsQuiet
<1> QED BY Zenon, <1>1, <1>2, SendsAsk, SendsMail, SendsSave, SendsAbort DEF RegistrationNext

-----------------------------------------------------------------------------
\* The inductive invariant of both.
RegistrationInv ==
  RegistrationTypeOK /\ CodesHeld /\ AccountsHold /\ AddressesApart /\ SendsInv

LEMMA RegistrationInvariant == RegistrationSpec => []RegistrationInv
<1>1. RegistrationInit => RegistrationInv
  <2> SUFFICES ASSUME RegistrationInit PROVE RegistrationInv
    OBVIOUS
  <2>1. CodesHeld /\ AccountsHold /\ AddressesApart
    BY DEF RegistrationInit, CodesHeld, AccountsHold, AddressesApart, NoTask
  <2> QED BY <2>1, SendsInvInit DEF RegistrationInv
<1>2. RegistrationInv /\ [RegistrationNext]_registrationVars => RegistrationInv'
  <2>1. ASSUME RegistrationInv, RegistrationNext PROVE RegistrationInv'
    <3>1. RegistrationTypeOK /\ CodesHeld /\ AccountsHold /\ AddressesApart /\ SendsInv
      BY <2>1 DEF RegistrationInv
    <3>2. RowsHaveMails
      BY <3>1 DEF SendsInv
    <3>3. RegistrationTypeOK' /\ RowsStay
      BY <2>1, <3>1, <3>2, RegistrationTypeStep, RowsStayStep
    <3>4. CodesHeld' /\ AccountsHold' /\ AddressesApart'
      BY <2>1, <3>1, <3>3, CodesHeldStep, AccountsStep
    <3>5. SendsInv'
      BY <2>1, <3>1, <3>3, SendsInvStep
    <3> QED BY <3>3, <3>4, <3>5 DEF RegistrationInv
  <2>2. ASSUME RegistrationInv, UNCHANGED registrationVars PROVE RegistrationInv'
    <3>1. /\ instant' = instant /\ codes' = codes /\ handler' = handler
          /\ person' = person /\ mailed' = mailed /\ unsaved' = unsaved
      BY <2>2 DEF registrationVars
    <3>2. RegistrationTypeOK'
      BY Zenon, <2>2, <3>1 DEF RegistrationInv, RegistrationTypeOK
    <3>3. CodesHeld' /\ AccountsHold' /\ AddressesApart'
      BY Zenon, <2>2, <3>1 DEF RegistrationInv, CodesHeld, AccountsHold, AddressesApart
    <3>4. Quiet
      BY <3>1 DEF Quiet, Saving, Sending, Mailed, Rows, Doing, MailsOf, RowsOf
    <3> QED BY <2>2, <3>2, <3>3, <3>4, SendsQuiet DEF RegistrationInv
  <2> QED BY <2>1, <2>2
<1> QED BY <1>1, <1>2, PTL DEF RegistrationSpec

\* A verified code serves one account at a time, however many requests hold
\* it: registration refuses an address that has an account (auth/service.py,
\* register), and two accounts of one code would share its address.
THEOREM CodeServesOneAccount == RegistrationSpec => []OneAccountPerCode
<1>1. RegistrationInv => OneAccountPerCode
  BY DEF RegistrationInv, AccountsHold, AddressesApart, OneAccountPerCode
<1> QED BY <1>1, RegistrationInvariant, PTL

\* However requests overlap, the mails of a day to one address and those of an
\* hour exceed their limits by at most one per other handler and one per lost
\* row (auth/email_verification.py, send_code).
THEOREM MailsAreBounded == RegistrationSpec => []MailsBounded
<1>1. RegistrationInv => MailsBounded
  <2> SUFFICES ASSUME RegistrationInv PROVE MailsBounded
    OBVIOUS
  <2>t. RegistrationTypeOK /\ SendsInv
    BY DEF RegistrationInv
  <2>0. \A M, s, span : MailsWithin(M, s, span) = Mailed(M, s, s + span)
    BY DEF MailsWithin, Mailed, MailsOf
  <2>1. ASSUME NEW s \in 0 .. MaxNow, NEW e \in Emails
        PROVE  MailsWithin({e}, s, Day) <= DailyLimit + Cardinality(Handlers) - 1 + unsaved
    <3>1. s \in Nat
      BY Limits
    <3>2. Mailed({e}, s, s + Day) + Sending({e}, s, s + Day)
            <= DailyLimit + Cardinality(Handlers) - 1 + unsaved
      BY Zenon, <2>t, <3>1, SendsCounts
    <3>3. Mailed({e}, s, s + Day) \in Nat /\ Sending({e}, s, s + Day) \in Nat /\ unsaved \in Nat
      BY <2>t, Counted DEF RegistrationTypeOK
    <3>4. DailyLimit \in Nat /\ Cardinality(Handlers) \in Nat
      BY Limits, FS_CardinalityType
    <3> QED BY <2>0, <3>2, <3>3, <3>4
  <2>2. ASSUME NEW s \in 0 .. MaxNow
        PROVE  MailsWithin(Emails, s, Hour) <= HourlyLimit + Cardinality(Handlers) - 1 + unsaved
    <3>1. s \in Nat
      BY Limits
    <3>2. Mailed(Emails, s, s + Hour) + Sending(Emails, s, s + Hour)
            <= HourlyLimit + Cardinality(Handlers) - 1 + unsaved
      BY Zenon, <2>t, <3>1, SendsCounts
    <3>3. Mailed(Emails, s, s + Hour) \in Nat /\ Sending(Emails, s, s + Hour) \in Nat /\ unsaved \in Nat
      BY <2>t, Counted DEF RegistrationTypeOK
    <3>4. HourlyLimit \in Nat /\ Cardinality(Handlers) \in Nat
      BY Limits, FS_CardinalityType
    <3> QED BY <2>0, <3>2, <3>3, <3>4
  <2> QED BY Zenon, <2>1, <2>2 DEF MailsBounded
<1> QED BY <1>1, RegistrationInvariant, PTL

\* The types of the records and of the requests in progress hold throughout.
THEOREM RegistrationTypes == RegistrationSpec => []RegistrationTypeOK
<1>1. RegistrationInv => RegistrationTypeOK
  BY DEF RegistrationInv
<1> QED BY <1>1, RegistrationInvariant, PTL

-----------------------------------------------------------------------------
(***************************************************************************)
(* Accounts: roles and permissions.                                        *)
(***************************************************************************)

USE AccountsAssumption DEF Roles, SystemRoles, Permissions

\* What the migrations hand out and the system roles start with.
AtFirst == {"users:write", "system:write", "image-generation:use"}

\* A request of a delegate only carries what is known to be given away; roles
\* are created by owners.
Delegated ==
  \A q \in AdminRequests :
    /\ request[q].op = "update_role" /\ ~request[q].owner => request[q].permissions \subseteq granted
    /\ request[q].op = "create_role" => request[q].owner

\* The migrations are over before any request is served.
Migrated == serving \/ edited => migrated = {"admin", "image"}

\* The inductive invariant.
Governed ==
  /\ AccountsTypeOK
  /\ OwnerRetained
  /\ AtFirst \subseteq granted
  /\ PermissionsTraceToOwner
  /\ Delegated
  /\ Migrated

-----------------------------------------------------------------------------
(* What a request may be.                                                  *)

LEMMA RequestFields ==
  ASSUME NEW r \in RequestType
  PROVE  /\ r.op = "set_role" => r.user \in Users /\ r.role \in Roles
         /\ r.op = "set_status" => r.user \in Users /\ r.status \in {"active", "disabled"}
         /\ r.op = "delete_user" => r.user \in Users
         /\ r.op \in {"create_role", "update_role"} =>
              r.role \in Roles /\ r.permissions \in SUBSET Permissions /\ r.owner \in BOOLEAN
         /\ r.op = "delete_role" => r.role \in Roles
BY DEF RequestType, Idle

\* What a user may do is among what there is, and traces to an owner unless he
\* is one himself.
LEMMA PermissionsKnown ==
  ASSUME Governed, NEW a \in Users
  PROVE  /\ PermissionsOf(a) \subseteq Permissions
         /\ ~Owner(a) => PermissionsOf(a) \subseteq granted
<1>1. account[a].role \in Roles
  BY DEF Governed, AccountsTypeOK, AccountType
<1>2. catalogue[account[a].role].permissions \in SUBSET Permissions
  BY <1>1 DEF Governed, AccountsTypeOK, RoleType
<1> QED BY <1>1, <1>2 DEF PermissionsOf, Owner, Governed, PermissionsTraceToOwner

-----------------------------------------------------------------------------
(* The steps.                                                              *)

LEMMA GovernedInit == AccountsInit => Governed
<1> SUFFICES ASSUME AccountsInit PROVE Governed OBVIOUS
<1>1. AccountsTypeOK
  BY DEF AccountsInit, AccountsTypeOK, AccountType, RoleType, RequestType, Idle, Role, NoRole
<1>2. OwnerRetained
  BY DEF AccountsInit, OwnerRetained, HasUsers, Exists
<1>3. PermissionsTraceToOwner
  BY DEF AccountsInit, PermissionsTraceToOwner, Role, NoRole
<1>4. Delegated /\ Migrated /\ AtFirst \subseteq granted
  BY DEF AccountsInit, Delegated, Migrated, AtFirst, Idle
<1> QED BY <1>1, <1>2, <1>3, <1>4 DEF Governed

\* A role that gets what its migration adds.
LEMMA GovernedMigrateRole ==
  ASSUME Governed, NEW m \in {"admin", "image"}, NEW r \in Receivers(m), MigrateRole(m, r)
  PROVE  Governed'
<1>1. r \in Roles /\ Addition(m) \subseteq AtFirst /\ Addition(m) \subseteq Permissions
  BY DEF Receivers, Addition, AtFirst
<1>2. PICK R \in RoleType : R = catalogue[r]
  BY <1>1 DEF Governed, AccountsTypeOK
<1>3. PICK S : S = [R EXCEPT !.permissions = @ \cup Addition(m)]
  OBVIOUS
<1>4. S \in RoleType /\ S.permissions = R.permissions \cup Addition(m)
  BY <1>1, <1>2, <1>3 DEF RoleType
<1>5. catalogue' = [catalogue EXCEPT ![r] = S]
  BY <1>2, <1>3 DEF MigrateRole
<1>6. AccountsTypeOK'
  <2>1. UNCHANGED <<account, request, serving, migrated, granted, edited>>
    BY DEF MigrateRole
  <2>2. catalogue' \in [Roles -> RoleType]
    BY <1>1, <1>4, <1>5 DEF Governed, AccountsTypeOK
  <2> QED BY <2>1, <2>2 DEF Governed, AccountsTypeOK
<1>7. PermissionsTraceToOwner'
  BY <1>1, <1>2, <1>4, <1>5 DEF MigrateRole, Governed, AccountsTypeOK, PermissionsTraceToOwner
<1>8. OwnerRetained' /\ Delegated' /\ Migrated' /\ (AtFirst \subseteq granted)'
  BY DEF MigrateRole, Governed, OwnerRetained, HasUsers, Exists, ActiveOwner, Delegated, Migrated
<1> QED BY <1>6, <1>7, <1>8 DEF Governed

\* Steps of the process: nothing but flags and lost handlers.
LEMMA GovernedProcess ==
  ASSUME Governed, Serve \/ StopServing \/ \E m \in {"admin", "image"} : FinishMigration(m)
  PROVE  Governed'
<1>1. CASE Serve
  BY <1>1 DEF Serve, Governed, AccountsTypeOK, OwnerRetained, HasUsers, Exists, ActiveOwner,
              PermissionsTraceToOwner, Delegated, Migrated
<1>2. CASE StopServing
  BY <1>2 DEF StopServing, Governed, AccountsTypeOK, RequestType, Idle, OwnerRetained, HasUsers, Exists,
              ActiveOwner, PermissionsTraceToOwner, Delegated, Migrated
<1>3. ASSUME NEW m \in {"admin", "image"}, FinishMigration(m) PROVE Governed'
  <2>1. migrated' \subseteq {"admin", "image"} /\ migrated \subseteq migrated'
    BY <1>3 DEF FinishMigration, Governed, AccountsTypeOK
  <2> QED
    BY <1>3, <2>1 DEF FinishMigration, Governed, AccountsTypeOK, OwnerRetained, HasUsers, Exists, ActiveOwner,
                PermissionsTraceToOwner, Delegated, Migrated
<1> QED BY <1>1, <1>2, <1>3

\* A decision changes one request only.
LEMMA GovernedDecide ==
  ASSUME Governed, NEW q \in AdminRequests, NEW r \in RequestType, Decide(q, r),
         r.op = "update_role" /\ ~r.owner => r.permissions \subseteq granted,
         r.op = "create_role" => r.owner
  PROVE  Governed'
<1>1. AccountsTypeOK' /\ Delegated'
  BY DEF Decide, Governed, AccountsTypeOK, Delegated
<1> QED
  BY <1>1 DEF Decide, Governed, OwnerRetained, HasUsers, Exists, ActiveOwner, PermissionsTraceToOwner, Migrated

\* The handlers' decisions.
LEMMA GovernedAsk ==
  ASSUME Governed, NEW q \in AdminRequests, NEW a \in Users,
         \/ \E u \in Users : \/ \E r \in Roles : AskRole(q, a, u, r)
                             \/ \E s \in {"active", "disabled"} : AskStatus(q, a, u, s)
                             \/ AskDelete(q, a, u)
         \/ \E r \in Roles : \/ \E P \in Payloads : AskCreateRole(q, a, r, P)
                             \/ \E P \in Payloads \cup {catalogue[r].permissions} : AskUpdateRole(q, a, r, P)
                             \/ AskDeleteRole(q, a, r)
  PROVE  Governed'
<1>1. ASSUME NEW u \in Users, NEW r \in Roles, AskRole(q, a, u, r) PROVE Governed'
  <2>1. PICK x : x = [op |-> "set_role", user |-> u, role |-> r] OBVIOUS
  <2>2. x \in RequestType /\ x.op = "set_role" BY <2>1 DEF RequestType
  <2> QED BY <1>1, <2>1, <2>2, GovernedDecide DEF AskRole
<1>2. ASSUME NEW u \in Users, NEW s \in {"active", "disabled"}, AskStatus(q, a, u, s) PROVE Governed'
  <2>1. PICK x : x = [op |-> "set_status", user |-> u, status |-> s] OBVIOUS
  <2>2. x \in RequestType /\ x.op = "set_status" BY <2>1 DEF RequestType
  <2> QED BY <1>2, <2>1, <2>2, GovernedDecide DEF AskStatus
<1>3. ASSUME NEW u \in Users, AskDelete(q, a, u) PROVE Governed'
  <2>1. PICK x : x = [op |-> "delete_user", user |-> u] OBVIOUS
  <2>2. x \in RequestType /\ x.op = "delete_user" BY <2>1 DEF RequestType
  <2> QED BY <1>3, <2>1, <2>2, GovernedDecide DEF AskDelete
<1>4. ASSUME NEW r \in Roles, NEW P \in Payloads, AskCreateRole(q, a, r, P) PROVE Governed'
  <2>1. PICK x : x = [op |-> "create_role", role |-> r, permissions |-> P, owner |-> TRUE] OBVIOUS
  <2>2. x \in RequestType /\ x.op = "create_role" /\ x.owner BY <2>1 DEF RequestType
  <2> QED BY <1>4, <2>1, <2>2, GovernedDecide DEF AskCreateRole
<1>5. ASSUME NEW r \in Roles, NEW P \in Payloads \cup {catalogue[r].permissions}, AskUpdateRole(q, a, r, P)
      PROVE  Governed'
  <2>1. PICK x : x = [op |-> "update_role", role |-> r, permissions |-> P, owner |-> Owner(a)] OBVIOUS
  <2>2. catalogue[r] \in RoleType BY DEF Governed, AccountsTypeOK
  <2>3. P \in SUBSET Permissions BY <2>2 DEF RoleType
  <2>4. Owner(a) \in BOOLEAN BY DEF Owner
  <2>5. x \in RequestType /\ x.op = "update_role" /\ x.owner = Owner(a) /\ x.permissions = P
    BY <2>1, <2>3, <2>4 DEF RequestType
  <2>6. ~Owner(a) => P \subseteq granted
    BY <1>5, PermissionsKnown DEF AskUpdateRole, WithinOwn
  <2> QED BY <1>5, <2>1, <2>5, <2>6, GovernedDecide DEF AskUpdateRole
<1>6. ASSUME NEW r \in Roles, AskDeleteRole(q, a, r) PROVE Governed'
  <2>1. PICK x : x = [op |-> "delete_role", role |-> r] OBVIOUS
  <2>2. x \in RequestType /\ x.op = "delete_role" BY <2>1 DEF RequestType
  <2> QED BY <1>6, <2>1, <2>2, GovernedDecide DEF AskDeleteRole
<1> QED BY <1>1, <1>2, <1>3, <1>4, <1>5, <1>6

\* A new account: the first one owns the system.
LEMMA GovernedRegister ==
  ASSUME Governed, NEW u \in Users, Register(u)
  PROVE  Governed'
<1>1. PICK x : x = [status |-> "active", role |-> IF HasUsers THEN "user" ELSE "superadmin"]
  OBVIOUS
<1>2. x \in AccountType
  BY <1>1 DEF AccountType
<1>3. account' = [account EXCEPT ![u] = x] /\ account \in [Users -> AccountType]
  BY <1>1 DEF Register, Governed, AccountsTypeOK
<1>4. AccountsTypeOK'
  BY <1>2, <1>3 DEF Register, Governed, AccountsTypeOK
<1>5. OwnerRetained'
  <2>1. CASE HasUsers
    <3>1. PICK v \in Users : ActiveOwner(v)
      BY <2>1 DEF Governed, OwnerRetained
    <3>2. v # u
      BY <3>1 DEF ActiveOwner, Register, Exists
    <3> QED BY <1>3, <3>1, <3>2 DEF OwnerRetained, ActiveOwner
  <2>2. CASE ~HasUsers
    <3>1. x = [status |-> "active", role |-> "superadmin"]
      BY <1>1, <2>2
    <3> QED BY <1>3, <3>1 DEF OwnerRetained, ActiveOwner
  <2> QED BY <2>1, <2>2
<1>6. PermissionsTraceToOwner' /\ Delegated' /\ Migrated' /\ (AtFirst \subseteq granted)'
  BY DEF Register, Governed, PermissionsTraceToOwner, Delegated, Migrated
<1> QED BY <1>4, <1>5, <1>6 DEF Governed

\* A change of an account: the last owner is refused.
LEMMA GovernedWriteAccount ==
  ASSUME Governed, NEW q \in AdminRequests, WriteAccount(q)
  PROVE  Governed'
<1>1. PICK r \in RequestType : r = request[q]
  BY DEF Governed, AccountsTypeOK
<1>2. r.op \in {"set_role", "set_status", "delete_user"}
  BY <1>1 DEF WriteAccount
<1>3. PICK u \in Users : u = r.user
  BY <1>1, <1>2, RequestFields
<1>4. PICK x \in AccountType : x = account[u]
  BY DEF Governed, AccountsTypeOK
<1>5. PICK y : y = RowAfter(r, x)
  OBVIOUS
<1>6. y \in AccountType
  <2>1. CASE r.op = "set_role"
    <3>1. r.role \in Roles BY <2>1, RequestFields
    <3> QED BY <1>4, <1>5, <2>1, <3>1 DEF RowAfter, AccountType
  <2>2. CASE r.op = "set_status"
    <3>1. r.status \in {"active", "disabled"} BY <2>2, RequestFields
    <3> QED BY <1>4, <1>5, <2>2, <3>1 DEF RowAfter, AccountType
  <2>3. CASE r.op = "delete_user"
    BY <1>5, <2>3 DEF RowAfter, AccountType
  <2> QED BY <1>2, <2>1, <2>2, <2>3
<1>7. account' = IF Exists(u) /\ OwnerStays(u, y.role, y.status)
                 THEN [account EXCEPT ![u] = y] ELSE account
  BY <1>1, <1>3, <1>4, <1>5 DEF WriteAccount
<1>8. request' = [request EXCEPT ![q] = Idle]
      /\ UNCHANGED <<catalogue, serving, migrated, granted, edited>>
  BY DEF WriteAccount
<1>9. AccountsTypeOK'
  BY <1>6, <1>7, <1>8 DEF Governed, AccountsTypeOK, RequestType
<1>10. OwnerRetained'
  <2>1. CASE account' = account
    BY <2>1 DEF Governed, OwnerRetained, HasUsers, Exists, ActiveOwner
  <2>2. CASE account' # account
    <3>1. Exists(u) /\ OwnerStays(u, y.role, y.status) /\ account' = [account EXCEPT ![u] = y]
      BY <1>7, <2>2
    <3>2. PICK v \in Users : ActiveOwner(v)
      BY <3>1 DEF Governed, OwnerRetained, HasUsers
    <3>3. CASE ~ActiveOwner(u)
      <4>1. v # u BY <3>2, <3>3
      <4> QED BY <3>1, <3>2, <4>1 DEF OwnerRetained, ActiveOwner, Governed, AccountsTypeOK
    <3>4. CASE y.role = "superadmin" /\ y.status = "active"
      <4>1. y = [status |-> "active", role |-> "superadmin"]
        BY <1>6, <3>4 DEF AccountType
      <4> QED BY <3>1, <4>1 DEF OwnerRetained, ActiveOwner, Governed, AccountsTypeOK
    <3>5. CASE \E w \in Users \ {u} : ActiveOwner(w)
      BY <3>1, <3>5 DEF OwnerRetained, ActiveOwner, Governed, AccountsTypeOK
    <3> QED BY <3>1, <3>3, <3>4, <3>5 DEF OwnerStays
  <2> QED BY <2>1, <2>2
<1>11. Delegated'
  BY <1>8 DEF Governed, AccountsTypeOK, Delegated, Idle
<1>12. PermissionsTraceToOwner' /\ Migrated' /\ (AtFirst \subseteq granted)'
  BY <1>8 DEF Governed, PermissionsTraceToOwner, Migrated
<1> QED BY <1>9, <1>10, <1>11, <1>12 DEF Governed

\* A role is written: what it gets was given away, or is now.
LEMMA GovernedSaveRole ==
  ASSUME Governed, NEW q \in AdminRequests, SaveRole(q)
  PROVE  Governed'
<1>1. PICK r \in RequestType : r = request[q]
  BY DEF Governed, AccountsTypeOK
<1>2. r.op \in {"create_role", "update_role"}
  BY <1>1 DEF SaveRole
<1>3. r.role \in Roles /\ r.permissions \in SUBSET Permissions /\ r.owner \in BOOLEAN
  BY <1>2, RequestFields
<1>4. PICK saved \in BOOLEAN : saved = ~(r.op = "create_role" /\ catalogue[r.role].known)
  OBVIOUS
<1>5. PICK y \in RoleType : y = Role(r.permissions) /\ y.permissions = r.permissions
  <2>1. Role(r.permissions) \in RoleType
    BY <1>3 DEF RoleType, Role
  <2>2. Role(r.permissions).permissions = r.permissions
    BY DEF Role
  <2> QED BY <2>1, <2>2
<1>6. /\ catalogue' = IF saved THEN [catalogue EXCEPT ![r.role] = y] ELSE catalogue
      /\ granted' = IF saved /\ r.owner THEN granted \cup r.permissions ELSE granted
      /\ edited' = (edited \/ saved)
      /\ request' = [request EXCEPT ![q] = Idle]
      /\ serving
      /\ UNCHANGED <<account, serving, migrated>>
  BY <1>1, <1>4, <1>5 DEF SaveRole
<1>7. granted \subseteq granted' /\ (saved => r.permissions \subseteq granted')
  BY <1>1, <1>2, <1>3, <1>6 DEF Governed, Delegated
<1>8. AccountsTypeOK'
  BY <1>3, <1>5, <1>6 DEF Governed, AccountsTypeOK, RequestType
<1>9. PermissionsTraceToOwner'
  BY <1>5, <1>6, <1>7 DEF Governed, AccountsTypeOK, PermissionsTraceToOwner
<1>10. Delegated'
  BY <1>6, <1>7 DEF Governed, AccountsTypeOK, Delegated, Idle
<1>11. OwnerRetained' /\ Migrated' /\ (AtFirst \subseteq granted)'
  BY <1>6, <1>7 DEF Governed, OwnerRetained, HasUsers, Exists, ActiveOwner, Migrated
<1> QED BY <1>8, <1>9, <1>10, <1>11 DEF Governed

\* A role without users is dropped.
LEMMA GovernedDropRole ==
  ASSUME Governed, NEW q \in AdminRequests, DropRole(q)
  PROVE  Governed'
<1>1. PICK r \in RequestType : r = request[q]
  BY DEF Governed, AccountsTypeOK
<1>2. r.op = "delete_role" /\ r.role \in Roles
  BY <1>1, RequestFields DEF DropRole
<1>3. NoRole \in RoleType /\ NoRole.permissions = {}
  BY DEF NoRole, RoleType
<1>4. /\ catalogue' = IF Assigned(r.role) THEN catalogue ELSE [catalogue EXCEPT ![r.role] = NoRole]
      /\ request' = [request EXCEPT ![q] = Idle]
      /\ edited' = (edited \/ ~Assigned(r.role))
      /\ serving
      /\ UNCHANGED <<account, serving, migrated, granted>>
  BY <1>1 DEF DropRole
<1>5. edited' \in BOOLEAN
  BY <1>4
<1>6. AccountsTypeOK'
  BY <1>2, <1>3, <1>4, <1>5 DEF Governed, AccountsTypeOK, RequestType
<1>7. PermissionsTraceToOwner'
  BY <1>2, <1>3, <1>4 DEF Governed, AccountsTypeOK, PermissionsTraceToOwner
<1>8. Delegated'
  BY <1>4 DEF Governed, AccountsTypeOK, Delegated, Idle
<1>9. OwnerRetained' /\ Migrated' /\ (AtFirst \subseteq granted)'
  BY <1>4 DEF Governed, OwnerRetained, HasUsers, Exists, ActiveOwner, Migrated
<1> QED BY <1>6, <1>7, <1>8, <1>9 DEF Governed

LEMMA GovernedNext == Governed /\ [AccountsNext]_accountsVars => Governed'
<1> SUFFICES ASSUME Governed, [AccountsNext]_accountsVars PROVE Governed' OBVIOUS
<1>1. CASE UNCHANGED accountsVars
  BY <1>1 DEF accountsVars, Governed, AccountsTypeOK, OwnerRetained, HasUsers, Exists, ActiveOwner,
              PermissionsTraceToOwner, Delegated, Migrated
<1>2. ASSUME NEW m \in {"admin", "image"}, NEW r \in Receivers(m), MigrateRole(m, r) PROVE Governed'
  BY <1>2, GovernedMigrateRole
<1>3. CASE Serve \/ StopServing \/ \E m \in {"admin", "image"} : FinishMigration(m)
  BY <1>3, GovernedProcess
<1>4. ASSUME NEW u \in Users, Register(u) PROVE Governed'
  BY <1>4, GovernedRegister
<1>5. ASSUME NEW q \in AdminRequests, AdminStep(q) PROVE Governed'
  BY <1>5, GovernedAsk, GovernedWriteAccount, GovernedSaveRole, GovernedDropRole DEF AdminStep
<1> QED BY <1>1, <1>2, <1>3, <1>4, <1>5 DEF AccountsNext

\* Every reachable state satisfies the invariant.
THEOREM AccountsGoverned == AccountsSpec => []Governed
<1> QED BY GovernedInit, GovernedNext, PTL DEF AccountsSpec

-----------------------------------------------------------------------------
\* Accounts, roles and requests are well formed at all times.
THEOREM AccountsTyped == AccountsSpec => []AccountsTypeOK
<1>1. Governed => AccountsTypeOK BY DEF Governed
<1> QED BY <1>1, AccountsGoverned, PTL

\* However many administrators demote, disable and delete accounts at the same
\* time, once there are accounts an active superadmin is among them
\* (assert_system_owner_retained, auth/service.py:294).
THEOREM OwnerAlwaysRetained == AccountsSpec => []OwnerRetained
<1>1. Governed => OwnerRetained BY DEF Governed
<1> QED BY <1>1, AccountsGoverned, PTL

\* Delegated role administration never puts into a role what no owner and no
\* system role gave away (update_role, platform/permissions/service.py:250).
THEOREM PermissionsTrace == AccountsSpec => []PermissionsTraceToOwner
<1>1. Governed => PermissionsTraceToOwner BY DEF Governed
<1> QED BY <1>1, AccountsGoverned, PTL

\* A start never undoes an edit of a role: the one-time migrations are over
\* before the first request and do not run again.
THEOREM EditsKept == AccountsSpec => StartsKeepEdits
<1>1. Governed /\ [AccountsNext]_accountsVars => [~serving /\ edited => UNCHANGED catalogue]_accountsVars
  <2> SUFFICES ASSUME Governed, AccountsNext, ~serving, edited PROVE catalogue' = catalogue
    OBVIOUS
  <2>1. \A m \in {"admin", "image"} : ~Due(m)
    BY DEF Due, Governed, Migrated
  <2>2. \A m \in {"admin", "image"} : ~FinishMigration(m) /\ \A r \in Receivers(m) : ~MigrateRole(m, r)
    BY <2>1 DEF FinishMigration, MigrateRole
  <2>3. \A u \in Users : ~Register(u)
    BY DEF Register
  <2>4. ASSUME NEW q \in AdminRequests, AdminStep(q) PROVE FALSE
    <3>1. ~WriteAccount(q) /\ ~SaveRole(q) /\ ~DropRole(q) /\ \A r : ~Decide(q, r)
      BY DEF WriteAccount, SaveRole, DropRole, Decide
    <3> QED
      BY <2>4, <3>1 DEF AdminStep, AskRole, AskStatus, AskDelete, AskCreateRole, AskUpdateRole, AskDeleteRole
  <2> QED BY <2>2, <2>3, <2>4 DEF AccountsNext, Serve, StopServing
<1> QED BY <1>1, AccountsGoverned, PTL DEF AccountsSpec, StartsKeepEdits

-----------------------------------------------------------------------------
(***************************************************************************)
(* Sessions: a change of the password ends those before it.                *)
(***************************************************************************)

USE SessionsAssumption

SomeSession == [live : {TRUE}, end : Nat, issued : Nat, epoch : Nat]

\* The part of the types the argument uses.
SessionsShaped ==
  /\ time \in Nat /\ epoch \in Nat /\ indexEnd \in Nat /\ tokens \subseteq Tokens
  /\ session \in [Tokens -> SomeSession \cup {NoSession}]

Recent(t) == session[t].live /\ time < session[t].issued + DefaultTTL

\* A session was issued in the past, of this epoch or an earlier one, ...
IssuedBefore == \A t \in Tokens : session[t].live => session[t].issued <= time /\ session[t].epoch <= epoch
\* ... and while it is recent it is in the index, which does not end before it.
RecentIndexed ==
  \A t \in Tokens :
    Recent(t) /\ session[t].epoch = epoch => t \in tokens /\ indexEnd >= session[t].issued + DefaultTTL
\* A recent session of an earlier epoch is gone.
RecentRevoked == \A t \in Tokens : Recent(t) => session[t].epoch = epoch

\* The inductive invariant.
Revocable == SessionsShaped /\ IssuedBefore /\ RecentIndexed /\ RecentRevoked

LEMMA RevocableInit == SessionsInit => Revocable
  BY DEF SessionsInit, Revocable, SessionsShaped, IssuedBefore, RecentIndexed, RecentRevoked, Recent,
         NoSession

\* What a live session looks like.
LEMMA SessionShape ==
  ASSUME SessionsShaped, NEW t \in Tokens
  PROVE  \/ session[t] = NoSession /\ ~session[t].live
         \/ /\ session[t].live /\ session[t].end \in Nat
            /\ session[t].issued \in Nat /\ session[t].epoch \in Nat
<1>1. PICK s : s = session[t]
  OBVIOUS
<1>2. s \in SomeSession \/ s = NoSession
  BY <1>1 DEF SessionsShaped
<1>3. CASE s \in SomeSession
  BY <1>1, <1>3 DEF SomeSession
<1>4. CASE s = NoSession
  BY <1>1, <1>4 DEF NoSession
<1> QED BY <1>2, <1>3, <1>4

\* A step that deletes sessions and takes from the index only what is deleted
\* or has not been recent for long.
LEMMA RevocableDeletes ==
  ASSUME Revocable, NEW T \in SUBSET Tokens, session' = Deleted(T), tokens' = Indexed \ T,
         UNCHANGED <<time, epoch, indexEnd>>
  PROVE  Revocable'
<1>1. \A t \in Tokens : session'[t] = IF t \in T THEN NoSession ELSE session[t]
  BY DEF Deleted
<1>2. SessionsShaped'
  BY <1>1 DEF Revocable, SessionsShaped, Deleted, Indexed
<1>3. IssuedBefore' /\ RecentRevoked'
  BY <1>1 DEF Revocable, IssuedBefore, RecentRevoked, Recent, NoSession
<1>4. RecentIndexed'
  <2> SUFFICES ASSUME NEW t \in Tokens, Recent(t)', session'[t].epoch = epoch'
               PROVE  t \in tokens' /\ indexEnd' >= session'[t].issued + DefaultTTL
    BY DEF RecentIndexed
  <2>1. t \notin T /\ session'[t] = session[t]
    BY <1>1 DEF Recent, NoSession
  <2>2. t \in tokens /\ indexEnd >= session[t].issued + DefaultTTL /\ time < session[t].issued + DefaultTTL
    BY <2>1 DEF Recent, Revocable, RecentIndexed
  <2>3. session[t].issued \in Nat
    BY <2>1, SessionShape DEF Recent, Revocable
  <2>4. time < indexEnd
    BY <2>2, <2>3 DEF Revocable, SessionsShaped
  <2> QED BY <2>1, <2>2, <2>4 DEF Indexed
<1> QED BY <1>2, <1>3, <1>4 DEF Revocable

\* A revocation deletes every recent session: they are all in the index.
LEMMA RevocableRevoke ==
  ASSUME Revocable, Revoke, UNCHANGED time
  PROVE  Revocable'
<1>1. /\ epoch' = epoch + 1 /\ tokens' = {} /\ indexEnd' = 0
      /\ \A t \in Tokens : session'[t] = IF t \in Indexed THEN NoSession ELSE session[t]
  BY DEF Revoke, Revoked, Deleted
<1>2. SessionsShaped'
  BY <1>1 DEF Revocable, SessionsShaped, Revoke, Deleted, Revoked
<1>3. IssuedBefore'
  <2> SUFFICES ASSUME NEW t \in Tokens, session'[t].live
               PROVE  session'[t].issued <= time' /\ session'[t].epoch <= epoch'
    BY DEF IssuedBefore
  <2>1. session'[t] = session[t]
    BY <1>1 DEF NoSession
  <2>2. session[t].issued <= time /\ session[t].epoch <= epoch
    BY <2>1 DEF Revocable, IssuedBefore
  <2>3. session[t].epoch \in Nat
    BY <2>1, SessionShape DEF Revocable
  <2> QED BY <1>1, <2>1, <2>2, <2>3 DEF Revocable, SessionsShaped
<1>4. \A t \in Tokens : ~Recent(t)'
  <2> SUFFICES ASSUME NEW t \in Tokens, Recent(t)' PROVE FALSE OBVIOUS
  <2>1. t \notin Indexed /\ session'[t] = session[t] /\ Recent(t)
    BY <1>1 DEF Recent, NoSession
  <2>2. t \in tokens /\ indexEnd >= session[t].issued + DefaultTTL /\ time < session[t].issued + DefaultTTL
    BY <2>1 DEF Recent, Revocable, RecentIndexed, RecentRevoked
  <2>3. session[t].issued \in Nat
    BY <2>1, SessionShape DEF Recent, Revocable
  <2>4. time < indexEnd
    BY <2>2, <2>3 DEF Revocable, SessionsShaped
  <2> QED BY <2>1, <2>2, <2>4 DEF Indexed
<1> QED BY <1>2, <1>3, <1>4 DEF Revocable, RecentIndexed, RecentRevoked

\* A log-in keeps the index as long as its newest session, so no recent one
\* drops out.
LEMMA RevocableLogin ==
  ASSUME Revocable, NEW t \in Tokens, NEW remember \in BOOLEAN, Login(t, remember)
  PROVE  Revocable'
<1>1. PICK ttl \in Nat : /\ ttl = IF remember THEN RememberTTL ELSE DefaultTTL
                         /\ ttl >= DefaultTTL
  BY DEF Login
<1>2. /\ session' = [session EXCEPT ![t] =
                        [live |-> TRUE, end |-> time + ttl, issued |-> time, epoch |-> epoch]]
      /\ tokens' = Indexed \cup {t} /\ indexEnd' = time + ttl
      /\ UNCHANGED <<time, epoch>>
  BY <1>1 DEF Login, IndexEnd
<1>3. time \in Nat /\ epoch \in Nat /\ time + ttl \in Nat
  BY <1>1 DEF Revocable, SessionsShaped
<1>4. [live |-> TRUE, end |-> time + ttl, issued |-> time, epoch |-> epoch] \in SomeSession
  BY <1>3 DEF SomeSession
<1>5. SessionsShaped'
  BY <1>2, <1>3, <1>4 DEF Revocable, SessionsShaped, Indexed
<1>6. /\ session'[t].issued = time /\ session'[t].epoch = epoch
      /\ \A u \in Tokens \ {t} : session'[u] = session[u]
  BY <1>2 DEF Revocable, SessionsShaped
<1>7. IssuedBefore' /\ RecentRevoked'
  BY <1>2, <1>3, <1>6 DEF Revocable, IssuedBefore, RecentRevoked, Recent
<1>8. RecentIndexed'
  <2> SUFFICES ASSUME NEW u \in Tokens, Recent(u)', session'[u].epoch = epoch'
               PROVE  u \in tokens' /\ indexEnd' >= session'[u].issued + DefaultTTL
    BY DEF RecentIndexed
  <2>1. CASE u = t
    BY <1>1, <1>2, <1>3, <1>6, <2>1
  <2>2. CASE u # t
    <3>1. session'[u] = session[u] /\ Recent(u) /\ session[u].epoch = epoch /\ session[u].live
      BY <1>2, <1>6, <2>2 DEF Recent
    <3>2. u \in tokens /\ indexEnd >= session[u].issued + DefaultTTL
          /\ time < session[u].issued + DefaultTTL /\ session[u].issued <= time
      BY <3>1 DEF Recent, Revocable, RecentIndexed, IssuedBefore
    <3>3. session[u].issued \in Nat
      BY <3>1, SessionShape DEF Revocable
    <3>4. time < indexEnd
      BY <3>2, <3>3 DEF Revocable, SessionsShaped
    <3> QED BY <1>1, <1>2, <1>3, <3>1, <3>2, <3>3, <3>4 DEF Indexed
  <2> QED BY <2>1, <2>2
<1> QED BY <1>5, <1>7, <1>8 DEF Revocable

LEMMA RevocableTime ==
  ASSUME Revocable, time' = time + 1, UNCHANGED <<epoch, session, tokens, indexEnd>>
  PROVE  Revocable'
<1>1. \A t \in Tokens : Recent(t)' => Recent(t)
  BY SessionShape DEF Recent, Revocable, SessionsShaped
<1>2. \A t \in Tokens : session[t].live => session[t].issued <= time + 1
  BY SessionShape DEF Revocable, SessionsShaped, IssuedBefore
<1> QED BY <1>1, <1>2 DEF Revocable, SessionsShaped, IssuedBefore, RecentIndexed, RecentRevoked

LEMMA RevocableSame ==
  ASSUME Revocable, UNCHANGED <<time, epoch, session, tokens, indexEnd>>
  PROVE  Revocable'
  BY DEF Revocable, SessionsShaped, IssuedBefore, RecentIndexed, RecentRevoked, Recent

LEMMA RevocableNext == Revocable /\ [SessionsNext]_sessionsVars => Revocable'
<1> SUFFICES ASSUME Revocable, [SessionsNext]_sessionsVars PROVE Revocable'
  OBVIOUS
<1>1. CASE TimeGoesOn
  BY <1>1, RevocableTime DEF TimeGoesOn
<1>2. CASE WrongPassword \/ RefuseDisabled \/ RegisterAgain \/ CreateReset
  BY <1>2, RevocableSame DEF WrongPassword, RefuseDisabled, RegisterAgain, CreateReset
<1>3. ASSUME NEW t \in Tokens, NEW remember \in BOOLEAN, Login(t, remember) PROVE Revocable'
  BY <1>3, RevocableLogin
<1>4. ASSUME NEW t \in Tokens, Logout(t) PROVE Revocable'
  BY <1>4, RevocableDeletes DEF Logout
<1>5. ASSUME NEW t \in Tokens, ReadSession(t) PROVE Revocable'
  BY <1>5, RevocableSame DEF ReadSession
<1>6. ASSUME NEW t \in Tokens, ReadAccount(t) PROVE Revocable'
  <2>1. CASE status = "active"
    BY <1>6, <2>1, RevocableSame DEF ReadAccount
  <2>2. CASE status # "active"
    BY <1>6, <2>2, RevocableDeletes DEF ReadAccount
  <2> QED BY <2>1, <2>2
<1>7. CASE ChangePassword \/ DeleteUser \/ ConfirmReset
  BY <1>7, RevocableRevoke DEF ChangePassword, DeleteUser, ConfirmReset
<1>8. ASSUME NEW s \in {"active", "disabled"}, SetStatus(s) PROVE Revocable'
  <2>1. CASE s = "disabled"
    BY <1>8, <2>1, RevocableRevoke DEF SetStatus
  <2>2. CASE s = "active"
    BY <1>8, <2>2, RevocableSame DEF SetStatus
  <2> QED BY <2>1, <2>2
<1>9. CASE UNCHANGED sessionsVars
  BY <1>9, RevocableSame DEF sessionsVars
<1> QED BY <1>1, <1>2, <1>3, <1>4, <1>5, <1>6, <1>7, <1>8, <1>9 DEF SessionsNext

\* However log-ins, log-outs, resolutions and the two expiries interleave, a
\* revocation leaves no session issued less than DefaultTTL ago.
THEOREM RevocationsReachRecentSessions == SessionsSpec => []RecentSessionsRevoked
<1>1. Revocable => RecentSessionsRevoked
  <2> SUFFICES ASSUME Revocable, NEW t \in Tokens, Live(t), session[t].epoch < epoch
               PROVE  time - session[t].issued >= DefaultTTL
    BY DEF RecentSessionsRevoked
  <2>1. /\ time \in Nat /\ epoch \in Nat /\ session[t].live
        /\ session[t].issued \in Nat /\ session[t].epoch \in Nat
    BY SessionShape DEF Revocable, SessionsShaped, Live
  <2>2. ~(time < session[t].issued + DefaultTTL)
    BY <2>1 DEF Revocable, RecentRevoked, Recent
  <2> QED BY <2>1, <2>2
<1> QED BY <1>1, RevocableInit, RevocableNext, PTL DEF SessionsSpec

-----------------------------------------------------------------------------
(***************************************************************************)
(* Sessions: the throttle on wrong passwords.                              *)
(***************************************************************************)

\* The wrong passwords of the record of now begin here; without a record, the
\* next one will begin there.
Begin == Len(tried) + 1 - failure.count

\* Between the Begin of a record and the passwords of its window are at most
\* MaxFailures - 2 of the record before.
Apart == MaxFailures - 1

AttemptsShaped ==
  /\ time \in Nat /\ tried \in Seq(Nat)
  /\ failure \in [first : Nat, count : 0..MaxFailures, lockedUntil : Nat]
  /\ failure.count <= Len(tried)

\* Wrong passwords were looked at one after the other.
TriedInOrder ==
  /\ \A i \in 1..Len(tried) : tried[i] <= time
  /\ \A i, j \in 1..Len(tried) : i <= j => tried[i] <= tried[j]

\* What the record says of them, and what of those before it.
RecordTells ==
  /\ failure.count > 0 =>
       /\ tried[Begin] = failure.first
       /\ \A i \in 1..Len(tried) : i <= Begin - Apart => tried[i] + ThrottleWindow < failure.first
  /\ failure.count = 0 =>
       \A i \in 1..Len(tried) : i <= Begin - Apart => tried[i] + ThrottleWindow < time
  /\ failure.count = MaxFailures => failure.lockedUntil >= tried[Len(tried)] + ThrottleLock

\* Of 2 * MaxFailures - 1 in a row, the last is beyond the window of the first.
WindowsApart ==
  \A i, k \in 1..Len(tried) : k >= i + 2 * Apart => tried[k] > tried[i] + ThrottleWindow

AttemptsInv == AttemptsShaped /\ TriedInOrder /\ RecordTells /\ WindowsApart

LEMMA Numbers ==
  /\ MaxFailures \in Nat /\ MaxFailures >= 2 /\ ThrottleWindow \in Nat /\ ThrottleLock \in Nat
  /\ ThrottleWindow < ThrottleLock /\ Apart \in Nat /\ Apart = MaxFailures - 1
  BY DEF Apart

\* Over the window, and with no lock on it, a record and all before it are old.
LEMMA FadedIsOld ==
  ASSUME AttemptsInv, ~Locked, failure.count = 0 \/ Faded
  PROVE  \A i \in 1..Len(tried) : i <= Len(tried) + 1 - Apart => tried[i] + ThrottleWindow < time
<1> DEFINE n == Len(tried)
<1>0. /\ n \in Nat /\ time \in Nat /\ \A i \in 1..n : tried[i] \in Nat
      /\ failure.count \in 0..MaxFailures /\ failure.count <= n
      /\ failure.first \in Nat /\ failure.lockedUntil \in Nat
      /\ Begin = n + 1 - failure.count
  BY DEF AttemptsInv, AttemptsShaped, Begin
<1> SUFFICES ASSUME NEW i \in 1..n, i <= n + 1 - Apart
             PROVE  tried[i] + ThrottleWindow < time
  OBVIOUS
<1>1. CASE failure.count = 0
  <2>1. i <= Begin - Apart
    BY <1>0, <1>1, Numbers
  <2> QED BY <1>1, <2>1 DEF AttemptsInv, RecordTells
<1>2. CASE failure.count > 0 /\ failure.count < MaxFailures
  <2>1. failure.first + ThrottleWindow < time
    BY <1>0, <1>2, Numbers DEF Faded
  <2>2. Begin \in 1..n /\ i <= Begin
    BY <1>0, <1>2, Numbers
  <2>3. tried[i] <= tried[Begin] /\ tried[Begin] = failure.first
    BY <1>2, <2>2 DEF AttemptsInv, TriedInOrder, RecordTells
  <2> QED BY <1>0, <2>1, <2>3, Numbers
<1>3. CASE failure.count = MaxFailures
  <2>1. n \in 1..n /\ failure.lockedUntil <= time
    BY <1>0, <1>3, Numbers DEF Locked
  <2>2. tried[i] <= tried[n] /\ failure.lockedUntil >= tried[n] + ThrottleLock
    BY <1>3, <2>1 DEF AttemptsInv, TriedInOrder, RecordTells
  <2>3. tried[n] \in Nat /\ tried[i] \in Nat
    BY <1>0, <2>1
  <2> QED BY <1>0, <2>1, <2>2, <2>3, Numbers
<1> QED BY <1>0, <1>1, <1>2, <1>3, Numbers

LEMMA OneMoreTried ==
  ASSUME AttemptsInv, tried' = Append(tried, time), time' = time
  PROVE  /\ tried' \in Seq(Nat) /\ Len(tried') = Len(tried) + 1 /\ Len(tried) \in Nat
         /\ tried'[Len(tried) + 1] = time
         /\ \A i \in 1..Len(tried) : tried'[i] = tried[i] /\ tried[i] \in Nat
         /\ TriedInOrder'
<1>0. tried \in Seq(Nat) /\ time \in Nat /\ Len(tried) \in Nat /\ \A i \in 1..Len(tried) : tried[i] \in Nat
  BY DEF AttemptsInv, AttemptsShaped
<1>1. /\ tried' \in Seq(Nat) /\ Len(tried') = Len(tried) + 1
      /\ tried'[Len(tried) + 1] = time
      /\ \A i \in 1..Len(tried) : tried'[i] = tried[i]
  BY <1>0
<1>2. \A i \in 1..Len(tried') : i \in 1..Len(tried) \/ i = Len(tried) + 1
  BY <1>0, <1>1
<1>3. TriedInOrder'
  <2>1. \A i \in 1..Len(tried') : tried'[i] <= time'
    BY <1>0, <1>1, <1>2 DEF AttemptsInv, TriedInOrder
  <2>2. ASSUME NEW i \in 1..Len(tried'), NEW j \in 1..Len(tried'), i <= j
        PROVE  tried'[i] <= tried'[j]
    <3>1. CASE j = Len(tried) + 1
      BY <1>1, <2>1, <3>1
    <3>2. CASE j \in 1..Len(tried)
      <4>1. i \in 1..Len(tried)
        BY <1>0, <2>2, <3>2
      <4> QED BY <1>1, <2>2, <3>2, <4>1 DEF AttemptsInv, TriedInOrder
    <3> QED BY <1>2, <3>1, <3>2
  <2> QED BY <2>1, <2>2 DEF TriedInOrder
<1> QED BY <1>0, <1>1, <1>3

\* One more wrong password: those far before it are beyond its window.
LEMMA OneMoreApart ==
  ASSUME AttemptsInv, tried' = Append(tried, time), time' = time,
         \A i \in 1..Len(tried) : i <= Len(tried) + 1 - 2 * Apart => tried[i] + ThrottleWindow < time
  PROVE  WindowsApart'
<1>0. /\ Len(tried') = Len(tried) + 1 /\ Len(tried) \in Nat /\ tried'[Len(tried) + 1] = time
      /\ \A i \in 1..Len(tried) : tried'[i] = tried[i] /\ tried[i] \in Nat
  BY OneMoreTried
<1> SUFFICES ASSUME NEW i \in 1..Len(tried'), NEW k \in 1..Len(tried'), k >= i + 2 * Apart
             PROVE  tried'[k] > tried'[i] + ThrottleWindow
  BY DEF WindowsApart
<1>1. i \in 1..Len(tried)
  BY <1>0, Numbers
<1>2. CASE k \in 1..Len(tried)
  BY <1>0, <1>1, <1>2 DEF AttemptsInv, WindowsApart
<1>3. CASE k = Len(tried) + 1
  <2>1. i <= Len(tried) + 1 - 2 * Apart
    BY <1>0, <1>1, <1>3, Numbers
  <2>2. tried[i] + ThrottleWindow < time
    BY <1>1, <2>1
  <2>3. time \in Nat
    BY DEF AttemptsInv, AttemptsShaped
  <2> QED BY <1>0, <1>1, <1>3, <2>2, <2>3, Numbers
<1> QED BY <1>0, <1>2, <1>3

LEMMA WrongPasswordAttempts ==
  ASSUME AttemptsInv, WrongPassword
  PROVE  AttemptsInv'
<1> DEFINE n == Len(tried)
<1>0. /\ ~Locked /\ failure' = AfterFailure /\ tried' = Append(tried, time) /\ time' = time
      /\ time \in Nat
  BY DEF WrongPassword, AttemptsInv, AttemptsShaped
<1>1. /\ tried' \in Seq(Nat) /\ Len(tried') = n + 1 /\ n \in Nat
      /\ tried'[n + 1] = time
      /\ \A i \in 1..n : tried'[i] = tried[i] /\ tried[i] \in Nat
      /\ TriedInOrder'
  BY <1>0, OneMoreTried
<1>2. PICK f : f = failure
  OBVIOUS
<1>3. f \in [first : Nat, count : 0..MaxFailures, lockedUntil : Nat] /\ f.count <= n
  BY <1>2 DEF AttemptsInv, AttemptsShaped
<1>4. CASE failure.count = 0 \/ Faded
  <2>1. failure' = [first |-> time, count |-> 1, lockedUntil |-> 0]
    BY Zenon, <1>0, <1>4 DEF AfterFailure
  <2>2. /\ failure'.first = time /\ failure'.count = 1 /\ failure'.lockedUntil = 0
        /\ failure' \in [first : Nat, count : 0..MaxFailures, lockedUntil : Nat]
    BY <1>0, <2>1, Numbers
  <2>3. \A i \in 1..n : i <= n + 1 - Apart => tried[i] + ThrottleWindow < time
    BY <1>0, <1>4, FadedIsOld
  <2>4. Begin' = n + 1
    BY <1>1, <2>2 DEF Begin
  <2>5. WindowsApart'
    <3>1. \A i \in 1..n : i <= n + 1 - 2 * Apart => i <= n + 1 - Apart
      BY <1>1, Numbers
    <3> QED BY <1>0, <2>3, <3>1, OneMoreApart
  <2>6. ASSUME NEW i \in 1..Len(tried'), i <= Begin' - Apart
        PROVE  tried'[i] + ThrottleWindow < failure'.first
    <3>1. i \in 1..n
      BY <1>1, <2>4, <2>6, Numbers
    <3>2. i <= n + 1 - Apart
      BY <1>1, <2>4, <2>6, <3>1, Numbers
    <3>3. tried[i] + ThrottleWindow < time
      BY <2>3, <3>1, <3>2
    <3> QED BY <1>1, <2>2, <3>1, <3>3
  <2>7. RecordTells'
    <3>1. failure'.count > 0 /\ failure'.count /= 0 /\ failure'.count /= MaxFailures
      BY <2>2, Numbers
    <3>2. tried'[Begin'] = failure'.first
      BY <1>1, <2>2, <2>4
    <3>3. Apart' = Apart
      BY DEF Apart
    <3> QED BY <2>6, <3>1, <3>2, <3>3 DEF RecordTells
  <2>8. AttemptsShaped'
    BY <1>0, <1>1, <2>2 DEF AttemptsShaped
  <2> QED BY <1>1, <2>5, <2>7, <2>8 DEF AttemptsInv
<1>5. CASE ~(failure.count = 0 \/ Faded)
  <2>0. f.count > 0 /\ time <= f.first + ThrottleWindow
    BY <1>0, <1>2, <1>3, <1>5, Numbers DEF Faded
  <2>1. PICK u : u = IF f.count + 1 >= MaxFailures THEN time + ThrottleLock ELSE f.lockedUntil
    OBVIOUS
  <2>2. PICK g : g = [f EXCEPT !.count = f.count + 1]
    OBVIOUS
  <2>3. g = [first |-> f.first, count |-> f.count + 1, lockedUntil |-> f.lockedUntil]
    BY <1>3, <2>2
  <2>4. [g EXCEPT !.lockedUntil = u] = [first |-> f.first, count |-> f.count + 1, lockedUntil |-> u]
    BY <2>3
  <2>5. failure' = [g EXCEPT !.lockedUntil = u]
    BY Zenon, <1>0, <1>2, <1>5, <2>1, <2>2 DEF AfterFailure
  <2>6. failure' = [first |-> f.first, count |-> f.count + 1, lockedUntil |-> u]
    BY Zenon, <2>4, <2>5
  <2>7. failure'.first = f.first /\ failure'.count = f.count + 1 /\ failure'.lockedUntil = u
    BY <2>6
  <2>8. f.count + 1 <= MaxFailures
    <3> SUFFICES ASSUME f.count = MaxFailures PROVE FALSE
      BY <1>3, Numbers
    <3>1. n \in 1..n /\ f.lockedUntil <= time
      BY <1>0, <1>1, <1>2, <1>3, Numbers DEF Locked
    <3>2. f.lockedUntil >= tried[n] + ThrottleLock
      BY <1>2 DEF AttemptsInv, RecordTells
    <3>3. Begin \in 1..n /\ Begin <= n
      BY <1>1, <1>2, <1>3, Numbers DEF Begin
    <3>4. tried[Begin] <= tried[n] /\ tried[Begin] = f.first
      BY <1>2, <2>0, <3>1, <3>3 DEF AttemptsInv, TriedInOrder, RecordTells
    <3>5. tried[n] \in Nat /\ f.first \in Nat /\ f.lockedUntil \in Nat
      BY <1>1, <1>3, <3>1
    <3> QED BY <1>0, <2>0, <3>1, <3>2, <3>4, <3>5, Numbers
  <2>9. Begin' = Begin /\ Begin = n + 1 - f.count /\ Begin \in 1..n
    BY <1>1, <1>2, <1>3, <2>0, <2>7 DEF Begin
  <2>10. \A i \in 1..n : i <= Begin - Apart => tried[i] + ThrottleWindow < f.first
    BY <1>2, <2>0 DEF AttemptsInv, RecordTells
  <2>11. tried[Begin] = f.first /\ f.first <= time
    BY <1>2, <2>0, <2>9 DEF AttemptsInv, RecordTells, TriedInOrder
  <2>12. WindowsApart'
    <3>1. ASSUME NEW i \in 1..n, i <= n + 1 - 2 * Apart PROVE tried[i] + ThrottleWindow < time
      <4>1. i <= Begin - Apart
        BY <1>1, <1>3, <2>8, <2>9, <3>1, Numbers
      <4>2. tried[i] + ThrottleWindow < f.first
        BY <2>10, <4>1
      <4> QED BY <1>0, <1>1, <1>3, <2>11, <4>2, Numbers
    <3> QED BY <1>0, <3>1, OneMoreApart
  <2>13. AttemptsShaped'
    <3>1. u \in Nat
      BY <1>0, <1>3, <2>1, Numbers
    <3>2. failure' \in [first : Nat, count : 0..MaxFailures, lockedUntil : Nat]
      BY <1>3, <2>6, <2>8, <3>1, Numbers
    <3> QED BY <1>0, <1>1, <1>3, <2>7, <3>2 DEF AttemptsShaped
  <2>14. RecordTells'
    <3>1. failure'.count > 0 /\ failure'.count /= 0
      BY <1>3, <2>7
    <3>2. tried'[Begin'] = failure'.first
      BY <1>1, <2>7, <2>9, <2>11
    <3>3. ASSUME NEW i \in 1..Len(tried'), i <= Begin' - Apart
          PROVE  tried'[i] + ThrottleWindow < failure'.first
      <4>1. i \in 1..n
        BY <1>1, <2>9, <3>3, Numbers
      <4> QED BY <1>1, <2>7, <2>9, <2>10, <3>3, <4>1
    <3>4. failure'.count = MaxFailures => failure'.lockedUntil >= tried'[Len(tried')] + ThrottleLock
      BY <1>0, <1>1, <2>1, <2>7, Numbers
    <3>5. Apart' = Apart
      BY DEF Apart
    <3> QED BY <3>1, <3>2, <3>3, <3>4, <3>5 DEF RecordTells
  <2> QED BY <1>1, <2>12, <2>13, <2>14 DEF AttemptsInv
<1> QED BY <1>4, <1>5

\* A record that was dropped, over its window, is old.
LEMMA RefuseDisabledAttempts ==
  ASSUME AttemptsInv, RefuseDisabled
  PROVE  AttemptsInv'
<1>0. /\ ~Locked /\ tried' = tried /\ time' = time
      /\ failure' = IF Faded THEN NoFailure ELSE failure
  BY DEF RefuseDisabled
<1>1. CASE Faded
  <2>1. failure' = NoFailure
    BY <1>0, <1>1
  <2>2. /\ failure'.count = 0 /\ failure' \in [first : Nat, count : 0..MaxFailures, lockedUntil : Nat]
    BY <2>1, Numbers DEF NoFailure
  <2>3. \A i \in 1..Len(tried) : i <= Len(tried) + 1 - Apart => tried[i] + ThrottleWindow < time
    BY <1>0, <1>1, FadedIsOld
  <2>4. Begin' = Len(tried) + 1 /\ Len(tried) \in Nat
    BY <1>0, <2>2 DEF Begin, AttemptsInv, AttemptsShaped
  <2>5. RecordTells'
    <3>1. Apart' = Apart /\ MaxFailures /= 0
      BY Numbers DEF Apart
    <3>2. ASSUME NEW i \in 1..Len(tried'), i <= Begin' - Apart'
          PROVE  tried'[i] + ThrottleWindow < time'
      <4>1. i \in 1..Len(tried) /\ i <= Len(tried) + 1 - Apart
        BY <1>0, <2>4, <3>1, <3>2, Numbers
      <4> QED BY <1>0, <2>3, <4>1
    <3> QED BY <2>2, <3>1, <3>2 DEF RecordTells
  <2> QED BY <1>0, <2>2, <2>4, <2>5 DEF AttemptsInv, AttemptsShaped, TriedInOrder, WindowsApart, Apart
<1>2. CASE ~Faded
  <2>1. failure' = failure
    BY <1>0, <1>2
  <2> QED BY <1>0, <2>1 DEF AttemptsInv, AttemptsShaped, TriedInOrder, RecordTells, WindowsApart, Apart, Begin
<1> QED BY <1>1, <1>2

\* A step that leaves the record as it is, or ends it with all that was tried.
LEMMA AttemptsGoOn ==
  ASSUME AttemptsInv, time' \in {time, time + 1},
         \/ failure' = failure /\ tried' = tried
         \/ failure' = NoFailure /\ tried' = <<>>
  PROVE  AttemptsInv'
<1>0. time \in Nat /\ time' \in Nat /\ time' >= time
  BY DEF AttemptsInv, AttemptsShaped
<1>1. CASE failure' = failure /\ tried' = tried
  <2>1. AttemptsShaped' /\ WindowsApart' /\ TriedInOrder'
    <3>1. \A i \in 1..Len(tried) : tried[i] \in Nat
      BY DEF AttemptsInv, AttemptsShaped
    <3> QED BY <1>0, <1>1, <3>1 DEF AttemptsInv, AttemptsShaped, WindowsApart, TriedInOrder, Apart
  <2>2. Begin' = Begin /\ Apart' = Apart
    BY <1>1 DEF Begin, Apart
  <2>3. ASSUME failure.count = 0, NEW i \in 1..Len(tried), i <= Begin - Apart
        PROVE  tried[i] + ThrottleWindow < time'
    <3>1. tried[i] + ThrottleWindow < time
      BY <2>3 DEF AttemptsInv, RecordTells
    <3>2. tried[i] \in Nat
      BY DEF AttemptsInv, AttemptsShaped
    <3> QED BY <1>0, <3>1, <3>2, Numbers
  <2>4. RecordTells'
    BY <1>1, <2>2, <2>3 DEF AttemptsInv, RecordTells
  <2> QED BY <2>1, <2>4 DEF AttemptsInv
<1>2. CASE failure' = NoFailure /\ tried' = <<>>
  <2>1. /\ failure'.count = 0 /\ failure' \in [first : Nat, count : 0..MaxFailures, lockedUntil : Nat]
        /\ Len(tried') = 0 /\ 1..Len(tried') = {} /\ tried' \in Seq(Nat)
    BY <1>2, Numbers DEF NoFailure
  <2> QED BY <1>0, <2>1, Numbers DEF AttemptsInv, AttemptsShaped, TriedInOrder, RecordTells, WindowsApart
<1> QED BY <1>1, <1>2

LEMMA AttemptsNext == AttemptsInv /\ [SessionsNext]_sessionsVars => AttemptsInv'
<1> SUFFICES ASSUME AttemptsInv, [SessionsNext]_sessionsVars PROVE AttemptsInv'
  OBVIOUS
<1>1. CASE TimeGoesOn
  BY <1>1, AttemptsGoOn DEF TimeGoesOn
<1>2. CASE RegisterAgain \/ CreateReset \/ ChangePassword \/ DeleteUser \/ ConfirmReset
  BY <1>2, AttemptsGoOn DEF RegisterAgain, CreateReset, ChangePassword, DeleteUser, ConfirmReset
<1>3. ASSUME NEW t \in Tokens, NEW remember \in BOOLEAN, Login(t, remember) PROVE AttemptsInv'
  BY <1>3, AttemptsGoOn DEF Login
<1>4. ASSUME NEW t \in Tokens, Logout(t) \/ ReadSession(t) \/ ReadAccount(t) PROVE AttemptsInv'
  BY <1>4, AttemptsGoOn DEF Logout, ReadSession, ReadAccount
<1>5. ASSUME NEW s \in {"active", "disabled"}, SetStatus(s) PROVE AttemptsInv'
  BY <1>5, AttemptsGoOn DEF SetStatus
<1>6. CASE UNCHANGED sessionsVars
  BY <1>6, AttemptsGoOn DEF sessionsVars
<1> QED
  BY <1>1, <1>2, <1>3, <1>4, <1>5, <1>6, WrongPasswordAttempts, RefuseDisabledAttempts DEF SessionsNext

\* A set of places of which no two are D apart has at most D of them.
LEMMA CloseTogether ==
  ASSUME NEW D \in Nat \ {0}, NEW S \in SUBSET Nat, NEW i \in S,
         \A j, k \in S : k < j + D
  PROVE  Cardinality(S) <= D
<1>1. PICK f : f = [j \in S |-> IF j >= i THEN j - i ELSE j - i + D]
  OBVIOUS
<1>2. f \in [S -> 0..(D - 1)]
  <2> SUFFICES ASSUME NEW j \in S PROVE (IF j >= i THEN j - i ELSE j - i + D) \in 0..(D - 1)
    BY <1>1
  <2>1. j \in Nat /\ i \in Nat /\ j < i + D /\ i < j + D
    OBVIOUS
  <2> QED BY <2>1
<1>3. ASSUME NEW j \in S, NEW k \in S, f[j] = f[k] PROVE j = k
  <2>1. j \in Nat /\ k \in Nat /\ i \in Nat /\ j < k + D /\ k < j + D
    OBVIOUS
  <2>2. /\ f[j] = IF j >= i THEN j - i ELSE j - i + D
        /\ f[k] = IF k >= i THEN k - i ELSE k - i + D
    BY <1>1
  <2>3. f[j] = f[k]
    BY <1>3
  <2>4. CASE j >= i /\ k >= i
    BY <2>1, <2>2, <2>3, <2>4
  <2>5. CASE j >= i /\ ~(k >= i)
    BY <2>1, <2>2, <2>3, <2>5
  <2>6. CASE ~(j >= i) /\ k >= i
    BY <2>1, <2>2, <2>3, <2>6
  <2>7. CASE ~(j >= i) /\ ~(k >= i)
    BY <2>1, <2>2, <2>3, <2>7
  <2> QED BY <2>4, <2>5, <2>6, <2>7
<1>4. IsInjective(f)
  BY <1>2, <1>3 DEF IsInjective
<1>5. f \in Injection(S, 0..(D - 1))
  BY <1>2, <1>4 DEF Injection
<1>6. IsFiniteSet(0..(D - 1)) /\ Cardinality(0..(D - 1)) = D
  BY FS_Interval
<1> QED BY <1>5, <1>6, FS_Injection

(* Of wrong passwords for a name, at most 2 * MaxFailures - 2 are looked at    *)
(* within one window of time since the last success, however log-ins, the      *)
(* state of the account and the clock interleave (auth/security.py,             *)
(* assert_not_locked and record_failure).                                       *)
THEOREM WrongPasswordsBounded == SessionsSpec => []AttemptsBounded
<1>1. SessionsInit => AttemptsInv
  <2> SUFFICES ASSUME SessionsInit PROVE AttemptsInv
    OBVIOUS
  <2>1. /\ failure.count = 0 /\ failure \in [first : Nat, count : 0..MaxFailures, lockedUntil : Nat]
        /\ Len(tried) = 0 /\ 1..Len(tried) = {} /\ tried \in Seq(Nat) /\ time \in Nat
    BY Numbers DEF SessionsInit, NoFailure
  <2> QED BY <2>1, Numbers DEF AttemptsInv, AttemptsShaped, TriedInOrder, RecordTells, WindowsApart
<1>2. AttemptsInv => AttemptsBounded
  <2> SUFFICES ASSUME AttemptsInv, NEW i \in DOMAIN tried
               PROVE  Cardinality({j \in DOMAIN tried : tried[j] \in tried[i] .. tried[i] + ThrottleWindow})
                        <= 2 * MaxFailures - 2
    BY DEF AttemptsBounded
  <2>1. PICK S : S = {j \in DOMAIN tried : tried[j] \in tried[i] .. tried[i] + ThrottleWindow}
    OBVIOUS
  <2>2. /\ DOMAIN tried = 1..Len(tried) /\ Len(tried) \in Nat
        /\ \A j \in 1..Len(tried) : tried[j] \in Nat
    BY DEF AttemptsInv, AttemptsShaped
  <2>3. i \in S /\ S \in SUBSET Nat
    BY <2>1, <2>2, Numbers
  <2>4. ASSUME NEW j \in S, NEW k \in S PROVE k < j + 2 * Apart
    <3>1. /\ j \in 1..Len(tried) /\ k \in 1..Len(tried)
          /\ tried[j] >= tried[i] /\ tried[k] <= tried[i] + ThrottleWindow
      BY <2>1, <2>2
    <3>2. k >= j + 2 * Apart => tried[k] > tried[j] + ThrottleWindow
      BY <3>1 DEF AttemptsInv, WindowsApart
    <3>3. tried[k] \in Nat /\ tried[j] \in Nat /\ tried[i] \in Nat
      BY <2>2, <3>1
    <3>4. ~(k >= j + 2 * Apart)
      BY <3>1, <3>2, <3>3, Numbers
    <3> QED BY <3>1, <3>4, <2>2, Numbers
  <2>5. 2 * Apart \in Nat \ {0} /\ 2 * Apart = 2 * MaxFailures - 2
    BY Numbers
  <2>6. PICK D : D = 2 * Apart
    OBVIOUS
  <2>7. Cardinality(S) <= D
    BY <2>3, <2>4, <2>5, <2>6, CloseTogether
  <2> QED BY <2>1, <2>5, <2>6, <2>7
<1> QED BY <1>1, <1>2, AttemptsNext, PTL DEF SessionsSpec
==============================================================================
