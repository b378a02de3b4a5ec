---------------------------- MODULE AccountsProofs ----------------------------
(***************************************************************************)
(* Theorems about Accounts, for every set of calls, emails, passwords and  *)
(* admins, and every choice of the failures.                               *)
(*                                                                         *)
(* As in SessionsProofs, Effect says call by call what a step does; it is  *)
(* proved action by action, and the invariants from Effect alone.          *)
(***************************************************************************)
EXTENDS Accounts, TLAPS

Codes ==
  /\ BadRequest = 400 /\ Unauthorized = 401 /\ Forbidden = 403 /\ Conflict = 409
  /\ Unprocessable = 422 /\ InternalServerError = 500 /\ NoAnswer = 0 /\ Aborted = 1

LEMMA CodesHold == Codes
BY DEF Codes, BadRequest, Unauthorized, Forbidden, Conflict, Unprocessable,
   InternalServerError, NoAnswer, Aborted

(* What MakeHandler makes of the errors of the handlers, and of a body that *)
(* is not sound.                                                            *)
LEMMA Outcomes ==
  /\ MakeHandler(ServerError(Conflict)) = 409
  /\ MakeHandler(ServerError(Unauthorized)) = 401
  /\ MakeHandler(OtherError) = 500
  /\ \A body \in Bodies \ {"valid"} : Refusal(body) \in {400, 422, 1}
<1>1. /\ MakeHandler(ServerError(Conflict)) = 409
      /\ MakeHandler(ServerError(Unauthorized)) = 401
      /\ MakeHandler(ServerError(BadRequest)) = 400
      /\ MakeHandler(ServerError(Unprocessable)) = 422
      /\ MakeHandler(OtherError) = 500
  BY CodesHold DEF Codes, MakeHandler, ServerError, OtherError
<1> QED
  BY <1>1, CodesHold DEF Codes, Refusal

LEMMA StatusesAre == Statuses = {200, 201, 400, 401, 403, 409, 422, 500, 0, 1}
BY CodesHold DEF Codes, Statuses

LEMMA StepsAndKinds ==
  /\ "new" \in Steps /\ "find" \in Steps /\ "insert" \in Steps /\ "enter" \in Steps
  /\ "create" \in Steps /\ "done" \in Steps
  /\ "register" \in Kinds /\ "login" \in Kinds /\ "loginAdmin" \in Kinds
  /\ "create" \in Kinds
BY DEF Steps, Kinds

-----------------------------------------------------------------------------
(* Types.                                                                   *)

LEMMA GoType ==
  ASSUME TypeOK, NEW k \in Calls, NEW step \in Steps, Go(k, step)
  PROVE  at' \in [Calls -> Steps] /\ reply' \in [Calls -> Statuses]
BY DEF TypeOK, Go

LEMMA AnswerType ==
  ASSUME TypeOK, NEW k \in Calls, NEW status \in Statuses, Answer(k, status)
  PROVE  at' \in [Calls -> Steps] /\ reply' \in [Calls -> Statuses]
<1>1. at' \in [Calls -> Steps]
  BY StepsAndKinds DEF TypeOK, Answer
<1>2. reply' \in [Calls -> Statuses]
  BY DEF TypeOK, Answer
<1> QED
  BY <1>1, <1>2

LEMMA FaultType ==
  ASSUME TypeOK, NEW k \in Calls, NEW f \in {"unreadable", "failed", "missed"},
         Fault(k, f) \/ UNCHANGED fault
  PROVE  fault' \in [Calls -> SUBSET {"unreadable", "failed", "missed"}]
BY DEF TypeOK, Fault

LEMMA BeginType ==
  ASSUME TypeOK, NEW k \in Calls, NEW what \in Kinds, Begin(k, what)
  PROVE  /\ kind' \in [Calls -> Kinds]
         /\ before' \in [Calls -> SUBSET Calls]
         /\ users' = users /\ expired' = expired /\ found' = found
<1>1. kind' \in [Calls -> Kinds]
  BY DEF TypeOK, Begin
<1>2. {j \in Calls : reply[j] # NoAnswer} \in SUBSET Calls
  OBVIOUS
<1>3. before' \in [Calls -> SUBSET Calls]
  BY <1>2 DEF TypeOK, Begin
<1> QED
  BY <1>1, <1>3 DEF Begin

LEMMA GiveType ==
  ASSUME TypeOK, NEW k \in Calls, NEW e \in Emails, NEW p \in Passwords, Give(k, e, p)
  PROVE  /\ email' \in [Calls -> Emails] /\ password' \in [Calls -> Passwords]
         /\ token' = token /\ actsAs' = actsAs
<1>1. email' \in [Calls -> Emails]
  BY DEF TypeOK, Give
<1>2. password' \in [Calls -> Passwords]
  BY DEF TypeOK, Give
<1> QED
  BY <1>1, <1>2 DEF Give

LEMMA InitType == Init => TypeOK
<1> SUFFICES ASSUME Init PROVE TypeOK
  OBVIOUS
<1>1. (CHOOSE e \in Emails : TRUE) \in Emails /\ (CHOOSE p \in Passwords : TRUE) \in Passwords
  BY AccountsAssumption
<1> QED
  BY <1>1, StepsAndKinds, StatusesAre, CodesHold DEF Init, TypeOK, Codes

LEMMA FindType ==
  ASSUME TypeOK, NEW k \in Calls, NEW next, FindByEmail(k, next),
         next => at' \in [Calls -> Steps] /\ reply' \in [Calls -> Statuses]
  PROVE  TypeOK'
<1>1. at' \in [Calls -> Steps] /\ reply' \in [Calls -> Statuses]
  <2>1. CASE next
    BY <2>1
  <2>2. CASE StatementFails(k)
    BY <2>2, AnswerType, Outcomes, StatusesAre DEF StatementFails
  <2> QED
    BY <2>1, <2>2 DEF FindByEmail
<1>2. found' \in [Calls -> Accounts \cup {Nobody}]
  BY DEF TypeOK, FindByEmail, Rows, Accounts
<1>3. fault' \in [Calls -> SUBSET {"unreadable", "failed", "missed"}]
  BY FaultType DEF FindByEmail, StatementFails
<1> QED
  BY <1>1, <1>2, <1>3 DEF TypeOK, FindByEmail, payload

LEMMA StepType == TypeOK /\ [Next]_vars => TypeOK'
<1> SUFFICES ASSUME TypeOK, [Next]_vars PROVE TypeOK'
  OBVIOUS
<1> USE StepsAndKinds, StatusesAre, Outcomes
<1>1. ASSUME NEW j \in Calls, Expire(j) PROVE TypeOK'
  BY <1>1 DEF TypeOK, Expire, payload
<1>2. ASSUME NEW k \in Calls, NEW what \in Kinds, NEW e \in Emails, NEW p \in Passwords,
             Begin(k, what), Give(k, e, p), Go(k, "find"), UNCHANGED fault
      PROVE  TypeOK'
  BY <1>2, BeginType, GiveType, GoType DEF TypeOK
<1>3. ASSUME NEW k \in Calls, NEW what \in Kinds, NEW status \in Statuses,
             Begin(k, what), Answer(k, status), Fault(k, "unreadable") \/ UNCHANGED fault,
             UNCHANGED <<email, password, token, actsAs>>
      PROVE  TypeOK'
  BY <1>3, BeginType, AnswerType, FaultType DEF TypeOK
<1>4. ASSUME NEW k \in Calls, NEW j \in Calls, NEW body \in Bodies, CreateProduct(k, j, body)
      PROVE  TypeOK'
  <2>1. at' \in [Calls -> Steps] /\ reply' \in [Calls -> Statuses]
    BY <1>4, GoType, AnswerType DEF CreateProduct
  <2>2. token' \in [Calls -> Calls \cup {Nobody}]
    BY <1>4 DEF TypeOK, CreateProduct
  <2>3. actsAs' \in [Calls -> Accounts \cup {Nobody}]
    BY <1>4 DEF TypeOK, CreateProduct
  <2>4. fault' \in [Calls -> SUBSET {"unreadable", "failed", "missed"}]
    BY <1>4, FaultType DEF CreateProduct
  <2> QED
    BY <1>4, <2>1, <2>2, <2>3, <2>4, BeginType DEF TypeOK, CreateProduct
<1>5. ASSUME NEW k \in Calls, LookUp(k) PROVE TypeOK'
  BY <1>5, FindType, GoType, AnswerType DEF LookUp
<1>6. ASSUME NEW k \in Calls, LogIn(k) PROVE TypeOK'
  BY <1>6, FindType, GoType, AnswerType DEF LogIn
<1>7. ASSUME NEW k \in Calls, NEW status \in Statuses,
             Answer(k, status), Fault(k, "failed") \/ UNCHANGED fault,
             users' \subseteq users \cup {k}, UNCHANGED <<expired, payload, found, actsAs>>
      PROVE  TypeOK'
  BY <1>7, AnswerType, FaultType DEF TypeOK, payload
<1>8. ASSUME NEW k \in Calls, Insert(k) \/ Enter(k) \/ Created(k) PROVE TypeOK'
  BY <1>7, <1>8 DEF Insert, Enter, Created, StatementFails
<1>9. ASSUME NEW k \in Calls, Arrive(k) PROVE TypeOK'
  <2>1. ASSUME NEW e \in Emails, NEW p \in Passwords, Register(k, e, p) PROVE TypeOK'
    BY <1>2, <2>1 DEF Register
  <2>2. ASSUME NEW e \in Emails, NEW p \in Passwords, NEW what \in {"login", "loginAdmin"},
               Login(k, what, e, p)
        PROVE  TypeOK'
    BY <1>2, <2>2 DEF Login
  <2>3. ASSUME NEW body \in Bodies \ {"valid"}, RegisterRefused(k, body) PROVE TypeOK'
    BY <1>3, <2>3 DEF RegisterRefused
  <2>4. ASSUME NEW what \in {"login", "loginAdmin"}, NEW body, LoginRefused(k, what, body)
        PROVE  TypeOK'
    BY <1>3, <2>4, CodesHold DEF LoginRefused, Codes
  <2>5. ASSUME NEW cookie, CreateWithoutToken(k, cookie) PROVE TypeOK'
    BY <1>3, <2>5 DEF CreateWithoutToken
  <2> QED
    BY <1>4, <1>9, <2>1, <2>2, <2>3, <2>4, <2>5 DEF Arrive
<1>10. CASE UNCHANGED vars
  BY <1>10 DEF TypeOK, vars, payload
<1> QED
  BY <1>1, <1>5, <1>6, <1>8, <1>9, <1>10 DEF Next, Step, Terminating

(* Every variable has its type in every reachable state.                    *)
THEOREM TypeCorrect == Spec => []TypeOK
BY InitType, StepType, PTL DEF Spec

-----------------------------------------------------------------------------
(***************************************************************************)
(* What a step does, call by call.                                         *)
(***************************************************************************)

Kept ==
  \A k \in Calls :
    /\ fault[k] \subseteq fault'[k]
    /\ at[k] # "new" =>
         /\ at'[k] # "new" /\ kind'[k] = kind[k]
         /\ email'[k] = email[k] /\ password'[k] = password[k]
         /\ token'[k] = token[k] /\ before'[k] = before[k]

Frozen ==
  \A k \in Calls : at[k] = "done" =>
    /\ at'[k] = "done" /\ reply'[k] = reply[k]
    /\ found'[k] = found[k] /\ actsAs'[k] = actsAs[k]

Stays(k) ==
  at'[k] = at[k] /\ reply'[k] = reply[k] /\ found'[k] = found[k] /\ actsAs'[k] = actsAs[k]

Goes(k, step) == at'[k] = step /\ reply'[k] = reply[k] /\ actsAs'[k] = actsAs[k]

Answers(k, status) == at'[k] = "done" /\ reply'[k] = status /\ actsAs'[k] = actsAs[k]

(* An answer that a statement's failure is behind.                          *)
Fails(k) == Answers(k, 500) /\ found'[k] = found[k] /\ "failed" \in fault'[k]

Begun ==
  \A k \in Calls : at[k] = "new" =>
    \/ Stays(k) /\ before'[k] = before[k] /\ kind'[k] = kind[k]
    \/ /\ found'[k] = found[k]
       /\ before'[k] = {j \in Calls : reply[j] # NoAnswer}
       /\ \/ Goes(k, "find") /\ kind'[k] \in {"register", "login", "loginAdmin"}
          \/ /\ \E status \in {400, 422, 500, 1} : Answers(k, status)
             /\ "unreadable" \in fault'[k]
          \/ Answers(k, 401) /\ kind'[k] = "create"
          \/ /\ kind'[k] = "create"
             /\ token'[k] \in Calls /\ at[token'[k]] = "done" /\ reply[token'[k]] = 201
             /\ kind[token'[k]] = "loginAdmin"
             /\ actsAs'[k] = found[token'[k]]
             /\ \/ at'[k] = "create" /\ reply'[k] = reply[k]
                \/ /\ at'[k] = "done" /\ reply'[k] \in {400, 422, 1}
                   /\ "unreadable" \in fault'[k]

Tables ==
  /\ users \subseteq users'
  /\ \A j \in users' \ users : at[j] = "insert" /\ at'[j] = "done"

Finds(k) ==
  at[k] = "find" =>
    \/ Stays(k) \/ Fails(k)
    \/ /\ \/ found'[k] \in Rows(k)
          \/ found'[k] = found[k] /\ (Rows(k) = {} \/ "missed" \in fault'[k])
       /\ \/ kind[k] = "register" /\ Goes(k, "insert") /\ found'[k] = Nobody
          \/ kind[k] = "register" /\ Answers(k, 409)
          \/ /\ kind[k] \in {"login", "loginAdmin"}
             /\ Goes(k, "enter") /\ PasswordMatches(k, found'[k])
          \/ /\ kind[k] \in {"login", "loginAdmin"}
             /\ Answers(k, 401) /\ ~PasswordMatches(k, found'[k])

Finishes(k) ==
  /\ at[k] = "insert" =>
       Stays(k) \/ Fails(k) \/ (Answers(k, 201) /\ found'[k] = found[k] /\ k \in users')
  /\ at[k] = "enter" => Stays(k) \/ Fails(k) \/ (Answers(k, 201) /\ found'[k] = found[k])
  /\ at[k] = "create" =>
       \/ Stays(k) \/ Fails(k)
       \/ found'[k] = found[k] /\ (Answers(k, 200) \/ Answers(k, 409))

Effect ==
  /\ Kept /\ Frozen /\ Begun /\ Tables
  /\ \A k \in Calls : Finds(k) /\ Finishes(k)

LEMMA StutterEffect ==
  ASSUME TypeOK,
         UNCHANGED <<users, at, kind, email, password, token, before, found, actsAs, reply, fault>>
  PROVE  Effect
BY DEF Effect, Kept, Frozen, Begun, Tables, Finds, Finishes, Stays

(* A step that is the beginning of one call.                                *)
LEMMA BeginEffect ==
  ASSUME TypeOK, NEW k \in Calls, NEW what \in Kinds, Begin(k, what),
         \A i \in Calls \ {k} :
           /\ Stays(i) /\ fault'[i] = fault[i]
           /\ email'[i] = email[i] /\ password'[i] = password[i] /\ token'[i] = token[i],
         fault[k] \subseteq fault'[k],
         Begun
  PROVE  Effect
<1>1. Kept
  BY DEF TypeOK, Kept, Stays, Begin
<1>2. Frozen /\ Tables
  BY DEF TypeOK, Frozen, Tables, Stays, Begin
<1>3. \A i \in Calls : Finds(i) /\ Finishes(i)
  BY DEF TypeOK, Finds, Finishes, Stays, Begin
<1> QED
  BY <1>1, <1>2, <1>3 DEF Effect

LEMMA RegisterOrLoginEffect ==
  ASSUME TypeOK, NEW k \in Calls, NEW what \in {"register", "login", "loginAdmin"},
         NEW e \in Emails, NEW p \in Passwords,
         Begin(k, what), Give(k, e, p), Go(k, "find"), UNCHANGED fault
  PROVE  Effect
<1>1. Begun
  BY DEF TypeOK, Begun, Stays, Goes, Begin, Give, Go
<1>2. \A i \in Calls \ {k} :
        /\ Stays(i) /\ fault'[i] = fault[i]
        /\ email'[i] = email[i] /\ password'[i] = password[i] /\ token'[i] = token[i]
  BY DEF TypeOK, Stays, Begin, Give, Go
<1> QED
  BY <1>1, <1>2, BeginEffect, StepsAndKinds

LEMMA RefusedEffect ==
  ASSUME TypeOK, NEW k \in Calls, NEW what \in Kinds, NEW status,
         \/ status \in {400, 422, 500, 1} /\ Fault(k, "unreadable")
         \/ status = 401 /\ what = "create" /\ UNCHANGED fault,
         Begin(k, what), Answer(k, status),
         UNCHANGED <<email, password, token, actsAs>>
  PROVE  Effect
<1>1. Begun
  BY DEF TypeOK, Begun, Stays, Answers, Begin, Answer, Fault
<1>2. \A i \in Calls \ {k} :
        /\ Stays(i) /\ fault'[i] = fault[i]
        /\ email'[i] = email[i] /\ password'[i] = password[i] /\ token'[i] = token[i]
  BY DEF TypeOK, Stays, Begin, Answer, Fault
<1>3. fault[k] \subseteq fault'[k]
  BY DEF TypeOK, Fault
<1> QED
  BY <1>1, <1>2, <1>3, BeginEffect

Replied == \A k \in Calls : reply[k] # NoAnswer <=> at[k] = "done"

LEMMA CreateProductEffect ==
  ASSUME TypeOK, Replied, NEW k \in Calls, NEW j \in Calls, NEW body \in Bodies,
         CreateProduct(k, j, body)
  PROVE  Effect
<1>1. k # j /\ at[j] = "done" /\ reply[j] = 201
  BY CodesHold DEF CreateProduct, Tokens, Begin, Replied, Codes
<1>2. Begin(k, "create") /\ token' = [token EXCEPT ![k] = j]
  BY DEF CreateProduct
<1>3. CASE Admits(j)
  <2>1. kind[j] = "loginAdmin"
    BY <1>3 DEF Admits, EntityType
  <2>2. \/ at'[k] = "create" /\ reply'[k] = reply[k]
        \/ at'[k] = "done" /\ reply'[k] \in {400, 422, 1} /\ "unreadable" \in fault'[k]
    BY <1>3, Outcomes DEF TypeOK, CreateProduct, Go, Answer, Fault
  <2>3. \A i \in Calls \ {k} :
          /\ Stays(i) /\ fault'[i] = fault[i]
          /\ email'[i] = email[i] /\ password'[i] = password[i] /\ token'[i] = token[i]
    BY <1>3 DEF TypeOK, Stays, CreateProduct, Begin, Go, Answer, Fault
  <2>4. Begun
    BY <1>1, <1>2, <1>3, <2>1, <2>2, <2>3 DEF TypeOK, Begun, CreateProduct, Begin
  <2>5. fault[k] \subseteq fault'[k]
    BY <1>3 DEF TypeOK, CreateProduct, Fault
  <2> QED
    BY <1>2, <2>3, <2>4, <2>5, BeginEffect, StepsAndKinds
<1>4. CASE ~Admits(j)
  <2>1. Answer(k, 401) /\ UNCHANGED <<email, password, actsAs, fault>>
    BY <1>4, Outcomes DEF CreateProduct
  <2>2. Begun
    BY <1>2, <2>1 DEF TypeOK, Begun, Stays, Answers, Begin, Answer
  <2>3. \A i \in Calls \ {k} :
          /\ Stays(i) /\ fault'[i] = fault[i]
          /\ email'[i] = email[i] /\ password'[i] = password[i] /\ token'[i] = token[i]
    BY <1>2, <2>1 DEF TypeOK, Stays, Begin, Answer
  <2> QED
    BY <1>2, <2>1, <2>2, <2>3, BeginEffect, StepsAndKinds
<1> QED
  BY <1>3, <1>4

LEMMA ArriveEffect ==
  ASSUME TypeOK, Replied, NEW k \in Calls, Arrive(k)
  PROVE  Effect
<1>1. ASSUME NEW e \in Emails, NEW p \in Passwords, Register(k, e, p) PROVE Effect
  BY <1>1, RegisterOrLoginEffect DEF Register
<1>2. ASSUME NEW e \in Emails, NEW p \in Passwords, NEW what \in {"login", "loginAdmin"},
             Login(k, what, e, p)
      PROVE  Effect
  BY <1>2, RegisterOrLoginEffect DEF Login
<1>3. ASSUME NEW body \in Bodies \ {"valid"}, RegisterRefused(k, body) PROVE Effect
  BY <1>3, RefusedEffect, Outcomes, StepsAndKinds DEF RegisterRefused
<1>4. ASSUME NEW what \in {"login", "loginAdmin"}, NEW body, LoginRefused(k, what, body)
      PROVE  Effect
  BY <1>4, RefusedEffect, Outcomes, StepsAndKinds, CodesHold DEF LoginRefused, Codes
<1>5. ASSUME NEW cookie, CreateWithoutToken(k, cookie) PROVE Effect
  BY <1>5, RefusedEffect, Outcomes, StepsAndKinds DEF CreateWithoutToken
<1> QED
  BY <1>1, <1>2, <1>3, <1>4, <1>5, CreateProductEffect DEF Arrive

(* A look-up: one row, none, or a failure, and what its caller does next.   *)
LEMMA FindEffect ==
  ASSUME TypeOK, NEW k \in Calls, NEW next, FindByEmail(k, next),
         next => /\ at' = [at EXCEPT ![k] = at'[k]]
                 /\ reply' = [reply EXCEPT ![k] = reply'[k]]
                 /\ at'[k] # "new"
                 /\ \/ kind[k] = "register" /\ Goes(k, "insert") /\ found'[k] = Nobody
                    \/ kind[k] = "register" /\ Answers(k, 409)
                    \/ /\ kind[k] \in {"login", "loginAdmin"}
                       /\ Goes(k, "enter") /\ PasswordMatches(k, found'[k])
                    \/ /\ kind[k] \in {"login", "loginAdmin"}
                       /\ Answers(k, 401) /\ ~PasswordMatches(k, found'[k])
  PROVE  Effect
<1>1. \/ next
      \/ Answer(k, 500) /\ Fault(k, "failed") /\ UNCHANGED found
  BY Outcomes DEF FindByEmail, StatementFails
<1>2. at[k] = "find" /\ UNCHANGED <<users, kind, email, password, token, before, actsAs>>
  BY DEF FindByEmail, payload
<1>3. \A i \in Calls \ {k} : Stays(i) /\ fault'[i] = fault[i]
  BY <1>1, <1>2 DEF TypeOK, Stays, FindByEmail, Answer, Fault, StatementFails
<1>4. at'[k] # "new" /\ fault[k] \subseteq fault'[k]
  BY <1>1 DEF TypeOK, FindByEmail, Answer, Fault, StatementFails
<1>5. Kept
  BY <1>2, <1>3, <1>4 DEF Kept, Stays
<1>6. Frozen /\ Begun /\ Tables
  BY <1>2, <1>3 DEF Frozen, Begun, Tables, Stays
<1>7. Finds(k)
  <2>1. CASE next
    <3>1. \/ found'[k] \in Rows(k)
          \/ found'[k] = found[k] /\ (Rows(k) = {} \/ "missed" \in fault'[k])
          \/ Fails(k)
      BY <1>2, Outcomes DEF TypeOK, FindByEmail, StatementFails, Fault, Fails, Answer, Answers
    <3> QED
      BY <2>1, <3>1 DEF Finds
  <2>2. CASE Answer(k, 500) /\ Fault(k, "failed") /\ UNCHANGED found
    BY <1>2, <2>2 DEF TypeOK, Finds, Fails, Answers, Answer, Fault
  <2> QED
    BY <1>1, <2>1, <2>2
<1>8. \A i \in Calls : Finds(i) /\ Finishes(i)
  BY <1>2, <1>3, <1>7 DEF Finds, Finishes
<1> QED
  BY <1>5, <1>6, <1>8 DEF Effect

LEMMA LookUpEffect == ASSUME TypeOK, NEW k \in Calls, LookUp(k) PROVE Effect
<1> DEFINE next == IF found'[k] = Nobody
                   THEN Go(k, "insert")
                   ELSE Answer(k, MakeHandler(ServerError(Conflict)))
<1>1. kind[k] = "register" /\ FindByEmail(k, next) /\ actsAs' = actsAs
  BY DEF LookUp, FindByEmail
<1>2. ASSUME next
      PROVE  /\ at' = [at EXCEPT ![k] = at'[k]]
             /\ reply' = [reply EXCEPT ![k] = reply'[k]]
             /\ at'[k] # "new"
             /\ \/ Goes(k, "insert") /\ found'[k] = Nobody
                \/ Answers(k, 409)
  BY <1>1, <1>2, Outcomes DEF TypeOK, Goes, Answers, Go, Answer
<1> HIDE DEF next
<1> QED
  BY <1>1, <1>2, FindEffect

LEMMA LogInEffect == ASSUME TypeOK, NEW k \in Calls, LogIn(k) PROVE Effect
<1> DEFINE next == IF PasswordMatches(k, found'[k])
                   THEN Go(k, "enter")
                   ELSE Answer(k, MakeHandler(ServerError(Unauthorized)))
<1>1. kind[k] \in {"login", "loginAdmin"} /\ FindByEmail(k, next) /\ actsAs' = actsAs
  BY DEF LogIn, FindByEmail
<1>2. ASSUME next
      PROVE  /\ at' = [at EXCEPT ![k] = at'[k]]
             /\ reply' = [reply EXCEPT ![k] = reply'[k]]
             /\ at'[k] # "new"
             /\ \/ Goes(k, "enter") /\ PasswordMatches(k, found'[k])
                \/ Answers(k, 401) /\ ~PasswordMatches(k, found'[k])
  BY <1>1, <1>2, Outcomes DEF TypeOK, Goes, Answers, Go, Answer
<1> HIDE DEF next
<1> QED
  BY <1>1, <1>2, FindEffect

LEMMA FinishEffect ==
  ASSUME TypeOK, NEW k \in Calls, Insert(k) \/ Enter(k) \/ Created(k)
  PROVE  Effect
<1>1. /\ at[k] \in {"insert", "enter", "create"}
      /\ UNCHANGED <<kind, email, password, token, before, found, actsAs>>
  BY DEF Insert, Enter, Created, payload
<1>2. PICK status \in {200, 201, 409, 500} : Answer(k, status)
  BY Outcomes DEF Insert, Enter, Created, StatementFails
<1>3. \A i \in Calls \ {k} : Stays(i) /\ fault'[i] = fault[i]
  BY <1>1, <1>2 DEF TypeOK, Stays, Answer, Insert, Enter, Created, StatementFails, Fault
<1>4. at'[k] = "done" /\ fault[k] \subseteq fault'[k]
  BY <1>2 DEF TypeOK, Answer, Insert, Enter, Created, StatementFails, Fault
<1>5. Kept
  BY <1>1, <1>3, <1>4 DEF Kept, Stays
<1>6. Frozen /\ Begun /\ Tables
  BY <1>1, <1>3, <1>4 DEF Frozen, Begun, Tables, Stays, Insert, Enter, Created
<1>7. Finishes(k)
  BY <1>1, Outcomes DEF TypeOK, Finishes, Fails, Answers, Answer, Insert, Enter, Created,
     StatementFails, Fault
<1>8. \A i \in Calls : Finds(i) /\ Finishes(i)
  BY <1>1, <1>3, <1>7 DEF Finds, Finishes
<1> QED
  BY <1>5, <1>6, <1>8 DEF Effect

LEMMA StepEffect ==
  ASSUME TypeOK, Replied, [Next]_vars
  PROVE  Effect
<1>1. ASSUME NEW j \in Calls, Expire(j) PROVE Effect
  BY <1>1, StutterEffect DEF Expire, payload
<1>2. CASE UNCHANGED vars
  BY <1>2, StutterEffect DEF vars, payload
<1> QED
  BY <1>1, <1>2, ArriveEffect, LookUpEffect, LogInEffect, FinishEffect
  DEF Next, Step, Terminating

-----------------------------------------------------------------------------
(* The inductive invariant.                                                 *)

LoggingIn(k) == kind[k] \in {"login", "loginAdmin"}

(* Each step belongs to a kind of call, and nothing is found before it.     *)
Placed ==
  \A k \in Calls :
    /\ at[k] = "new" => before[k] = {} /\ actsAs[k] = Nobody
    /\ at[k] = "new" \/ at[k] = "find" => found[k] = Nobody
    /\ at[k] = "insert" => kind[k] = "register"
    /\ at[k] = "enter" => LoggingIn(k)
    /\ at[k] = "create" => kind[k] = "create"

BeforeDone == \A k \in Calls : \A j \in before[k] : at[j] = "done"

(* A row is of a registration that is over.                                 *)
Rowed == \A k \in users : at[k] = "done" /\ kind[k] = "register"

(* While a registration hashes the password after looking its email up, a   *)
(* row with that email can only come from a call it overlaps with.          *)
Looked ==
  \A k \in Calls : at[k] = "insert" /\ "missed" \notin fault[k] =>
    \A j \in users : email[j] = email[k] => j \notin before[k]

Told == \A k \in Calls : kind[k] = "register" /\ reply[k] = 201 => k \in users

ProvedAdmin(j) ==
  /\ found[j] \in Admins
  /\ AdminEmail[found[j]] = email[j] /\ AdminPassword[found[j]] = password[j]

(* A login of the admin feature that got past the comparison had an admin's *)
(* email and password.                                                      *)
AdminLogins ==
  \A j \in Calls : kind[j] = "loginAdmin" /\ (at[j] = "enter" \/ reply[j] = 201) =>
    ProvedAdmin(j)

(* Whoever acts does so with the token of a login of an admin.              *)
Authorised ==
  \A k \in Calls :
    kind[k] = "create" /\ (actsAs[k] # Nobody \/ at[k] = "create" \/ reply[k] \in {200, 409}) =>
      /\ token[k] \in Calls /\ at[token[k]] = "done"
      /\ ProvedAdmin(token[k]) /\ actsAs[k] = found[token[k]]

IInv ==
  /\ TypeOK
  /\ Replied /\ Placed /\ BeforeDone
  /\ Rowed /\ Looked /\ OneAccountPerEmail
  /\ Told /\ CredentialsWork
  /\ AdminLogins /\ Authorised
  /\ ServerErrorsProvoked

LEMMA InitIInv == Init => IInv
<1> SUFFICES ASSUME Init PROVE IInv
  OBVIOUS
<1>1. TypeOK
  BY InitType
<1>2. Replied /\ Placed /\ BeforeDone
  BY DEF Init, Replied, Placed, BeforeDone
<1>3. Rowed /\ Looked /\ OneAccountPerEmail
  BY DEF Init, Rowed, Looked, OneAccountPerEmail
<1>4. Told /\ CredentialsWork /\ AdminLogins /\ Authorised
  BY CodesHold DEF Init, Told, CredentialsWork, AdminLogins, Authorised, Codes
<1>5. ServerErrorsProvoked
  BY CodesHold DEF Init, ServerErrorsProvoked, Codes
<1> QED
  BY <1>1, <1>2, <1>3, <1>4, <1>5 DEF IInv

(* What becomes of a call that is not new.                                  *)
LEMMA StepReplied ==
  ASSUME TypeOK, Replied, Effect
  PROVE  Replied'
<1> SUFFICES ASSUME NEW k \in Calls PROVE (reply[k] # NoAnswer <=> at[k] = "done")'
  BY DEF Replied
<1>1. at[k] \in Steps
  BY DEF TypeOK
<1> QED
  BY <1>1, CodesHold DEF Effect, Replied, Frozen, Begun, Finds, Finishes, Stays, Goes,
     Answers, Fails, Steps, Codes

LEMMA StepPlaced ==
  ASSUME TypeOK, Placed, Effect
  PROVE  Placed'
<1> SUFFICES ASSUME NEW k \in Calls
             PROVE  /\ at'[k] = "new" => before'[k] = {} /\ actsAs'[k] = Nobody
                    /\ at'[k] = "new" \/ at'[k] = "find" => found'[k] = Nobody
                    /\ at'[k] = "insert" => kind'[k] = "register"
                    /\ at'[k] = "enter" => kind'[k] \in {"login", "loginAdmin"}
                    /\ at'[k] = "create" => kind'[k] = "create"
  BY DEF Placed, LoggingIn
<1>1. at[k] \in Steps
  BY DEF TypeOK
<1> QED
  BY <1>1 DEF Effect, Placed, LoggingIn, Kept, Frozen, Begun, Finds, Finishes, Stays,
     Goes, Answers, Fails, Steps

LEMMA StepBeforeDone ==
  ASSUME TypeOK, Replied, Placed, BeforeDone, Effect
  PROVE  BeforeDone'
<1>1. \A j \in Calls : at[j] = "done" => at'[j] = "done"
  BY DEF Effect, Frozen
<1> SUFFICES ASSUME NEW k \in Calls, NEW j \in before'[k] PROVE at'[j] = "done"
  BY DEF BeforeDone
<1>2. CASE before'[k] = before[k]
  BY <1>1, <1>2 DEF BeforeDone, TypeOK
<1>3. CASE before'[k] = {i \in Calls : reply[i] # NoAnswer}
  BY <1>1, <1>3 DEF Replied
<1> QED
  BY <1>2, <1>3 DEF Effect, Kept, Begun

LEMMA StepRowed ==
  ASSUME TypeOK, TypeOK', Placed, Rowed, Effect
  PROVE  Rowed'
BY DEF TypeOK, Effect, Tables, Kept, Frozen, Placed, Rowed

(* Rows and the calls that made them stay as they are.                      *)
LEMMA RowsStay ==
  ASSUME TypeOK, TypeOK', Rowed, Effect, NEW j \in users'
  PROVE  /\ j \in Calls /\ at[j] # "new"
         /\ email'[j] = email[j] /\ password'[j] = password[j] /\ before'[j] = before[j]
         /\ j \notin users => at[j] = "insert"
BY DEF TypeOK, Rowed, Effect, Tables, Kept

LEMMA StepLooked ==
  ASSUME TypeOK, TypeOK', Placed, BeforeDone, Rowed, Looked, Effect
  PROVE  Looked'
<1> SUFFICES ASSUME NEW k \in Calls, at'[k] = "insert", "missed" \notin fault'[k],
                    NEW j \in users', email'[j] = email'[k]
             PROVE  j \notin before'[k]
  BY DEF Looked
<1>1. at[k] \in Steps
  BY DEF TypeOK
<1>2. at[k] = "insert" \/ at[k] = "find"
  BY <1>1 DEF Effect, Frozen, Begun, Finds, Finishes, Stays, Goes, Answers, Fails, Steps
<1>3. /\ email'[k] = email[k] /\ before'[k] = before[k] /\ kind'[k] = kind[k]
      /\ "missed" \notin fault[k]
  BY <1>2 DEF Effect, Kept
<1>4. j \in Calls /\ email[j] = email[k] /\ (j \notin users => at[j] = "insert")
  BY <1>3, RowsStay
<1>5. CASE j \notin users
  BY <1>3, <1>4, <1>5 DEF BeforeDone
<1>6. CASE j \in users /\ at[k] = "insert"
  BY <1>3, <1>4, <1>6 DEF Looked
<1>7. CASE j \in users /\ at[k] = "find"
  <2>1. kind[k] = "register"
    BY <1>7 DEF Effect, Finds, Stays, Goes, Answers, Fails
  <2>2. j \in Rows(k)
    BY <1>4, <1>7, <2>1, AccountsAssumption DEF Rows, EmailOf
  <2>3. found[k] = Nobody /\ Nobody \notin users
    BY <1>7, AccountsAssumption DEF Placed, TypeOK
  <2> QED
    BY <1>3, <1>7, <2>1, <2>2, <2>3
    DEF Effect, Finds, Stays, Goes, Answers, Fails, Rows
<1> QED
  BY <1>2, <1>5, <1>6, <1>7

LEMMA StepOneAccountPerEmail ==
  ASSUME TypeOK, TypeOK', Placed, BeforeDone, Rowed, Looked, OneAccountPerEmail, Effect
  PROVE  OneAccountPerEmail'
<1> SUFFICES ASSUME NEW j \in users', NEW k \in users', j # k, email'[j] = email'[k],
                    "missed" \notin fault'[j] \cup fault'[k]
             PROVE  j \notin before'[k] /\ k \notin before'[j]
  BY DEF OneAccountPerEmail, Overlap
<1>1. /\ j \in Calls /\ k \in Calls /\ email[j] = email[k]
      /\ before'[j] = before[j] /\ before'[k] = before[k]
      /\ j \notin users => at[j] = "insert"
      /\ k \notin users => at[k] = "insert"
  BY RowsStay
<1>2. "missed" \notin fault[j] /\ "missed" \notin fault[k]
  BY <1>1 DEF Effect, Kept
<1>3. CASE j \in users /\ k \in users
  BY <1>1, <1>2, <1>3 DEF OneAccountPerEmail, Overlap
<1>4. CASE j \notin users /\ k \in users
  BY <1>1, <1>2, <1>4 DEF Looked, BeforeDone
<1>5. CASE j \in users /\ k \notin users
  BY <1>1, <1>2, <1>5 DEF Looked, BeforeDone
<1>6. CASE j \notin users /\ k \notin users
  BY <1>1, <1>6 DEF BeforeDone
<1> QED
  BY <1>3, <1>4, <1>5, <1>6

LEMMA StepTold ==
  ASSUME TypeOK, Replied, Placed, Told, Effect
  PROVE  Told'
<1> SUFFICES ASSUME NEW k \in Calls, kind'[k] = "register", reply'[k] = 201
             PROVE  k \in users'
  BY DEF Told
<1>1. at[k] \in Steps
  BY DEF TypeOK
<1>2. at[k] # "new"
  BY CodesHold DEF Effect, Begun, Stays, Goes, Answers, Replied, Codes
<1>3. kind[k] = "register"
  BY <1>2 DEF Effect, Kept
<1>4. \/ reply[k] = 201
      \/ at[k] = "insert" /\ k \in users'
  BY <1>1, <1>2, <1>3 DEF Effect, Frozen, Finds, Finishes, Placed, LoggingIn, Stays, Goes,
     Answers, Fails, Steps
<1> QED
  BY <1>3, <1>4 DEF Told, Effect, Tables

LEMMA StepCredentialsWork ==
  ASSUME TypeOK, TypeOK', Replied, Placed, BeforeDone, Rowed, Told, CredentialsWork, Effect
  PROVE  CredentialsWork'
<1> SUFFICES ASSUME NEW j \in Calls, NEW k \in Calls,
                    kind'[j] = "register", reply'[j] = 201, j \in before'[k],
                    kind'[k] = "login", reply'[k] = 401, fault'[k] = {},
                    email'[k] = email'[j], password'[k] = password'[j]
             PROVE  \E i \in users' \ {j} : email'[i] = email'[j]
  BY CodesHold DEF CredentialsWork, Codes
<1>1. at[k] \in Steps /\ at[j] \in Steps
  BY DEF TypeOK
<1>2. at[k] # "new"
  BY CodesHold DEF Effect, Begun, Stays, Goes, Answers, Replied, Codes
<1>3. /\ kind[k] = "login" /\ before'[k] = before[k]
      /\ email'[k] = email[k] /\ password'[k] = password[k]
  BY <1>2 DEF Effect, Kept
<1>4. fault[k] = {}
  BY DEF Effect, Kept
<1>5. at[j] = "done"
  BY <1>3 DEF BeforeDone
<1>6. /\ kind[j] = "register" /\ reply[j] = 201
      /\ email'[j] = email[j] /\ password'[j] = password[j]
  BY <1>5 DEF Effect, Kept, Frozen
<1>7. j \in users
  BY <1>6 DEF Told
<1>8. CASE reply[k] = 401
  <2> j \in before[k] /\ email[k] = email[j] /\ password[k] = password[j]
    BY ZenonT(60), <1>3, <1>6
  <2>1. PICK i \in users \ {j} : email[i] = email[j]
    <3>1. reply[k] = Unauthorized
      BY <1>8, CodesHold DEF Codes
    <3> QED
      BY <1>3, <1>4, <1>6, <3>1 DEF CredentialsWork
  <2>2. i \in users' /\ email'[i] = email[i]
    BY <2>1, RowsStay DEF Effect, Tables
  <2> QED
    BY <1>6, <2>1, <2>2
<1>9. CASE reply[k] # 401
  <2>1. at[k] = "find" /\ ~PasswordMatches(k, found'[k])
        /\ (found'[k] \in Rows(k) \/ Rows(k) = {})
    BY <1>1, <1>2, <1>9 DEF Effect, Frozen, Finds, Finishes, Placed, Stays, Goes,
       Answers, Fails, Steps
  <2>2. j \in Rows(k)
    BY ZenonT(60), <1>3, <1>6, <1>7, AccountsAssumption DEF Rows, EmailOf
  <2>3. found'[k] \in users /\ email[found'[k]] = email[k]
    BY <1>3, <2>1, <2>2, AccountsAssumption DEF Rows, EmailOf, TypeOK
  <2>4. found'[k] # j
    <3>0. password[k] = password[j]
      BY <1>3, <1>6
    <3>1. j # Nobody /\ PasswordOf(j) = password[j]
      BY AccountsAssumption DEF PasswordOf
    <3>2. PasswordMatches(k, j)
      BY <3>0, <3>1 DEF PasswordMatches
    <3> QED
      BY <2>1, <3>2
  <2>5. found'[k] \in users' /\ email'[found'[k]] = email[found'[k]]
    BY <2>3, RowsStay DEF Effect, Tables
  <2> QED
    BY <1>3, <1>6, <2>3, <2>4, <2>5
<1> QED
  BY <1>8, <1>9

LEMMA StepAdminLogins ==
  ASSUME TypeOK, Replied, Placed, AdminLogins, Effect
  PROVE  AdminLogins'
<1> SUFFICES ASSUME NEW j \in Calls, kind'[j] = "loginAdmin",
                    at'[j] = "enter" \/ reply'[j] = 201
             PROVE  ProvedAdmin(j)'
  BY DEF AdminLogins
<1>1. at[j] \in Steps
  BY DEF TypeOK
<1>2. at[j] # "new"
  BY CodesHold DEF Effect, Begun, Stays, Goes, Answers, Replied, Codes
<1>3. kind[j] = "loginAdmin" /\ email'[j] = email[j] /\ password'[j] = password[j]
  BY <1>2 DEF Effect, Kept
<1>4. CASE (at[j] = "enter" \/ reply[j] = 201) /\ found'[j] = found[j]
  BY <1>3, <1>4 DEF AdminLogins, ProvedAdmin
<1>5. CASE at[j] = "find"
  <2>1. PasswordMatches(j, found'[j])
    BY <1>3, <1>5, CodesHold DEF Effect, Finds, Stays, Goes, Answers, Fails, Replied, Codes
  <2>2. found'[j] \in Rows(j)
    <3>1. found[j] = Nobody
      BY <1>5 DEF Placed
    <3>2. found'[j] # found[j]
      BY <2>1, <3>1 DEF PasswordMatches
    <3> QED
      BY <1>5, <3>2 DEF Effect, Finds, Stays, Fails
  <2> QED
    BY <1>3, <2>1, <2>2 DEF ProvedAdmin, Rows, EmailOf, PasswordMatches, PasswordOf
<1>6. \/ at[j] = "find"
      \/ (at[j] = "enter" \/ reply[j] = 201) /\ found'[j] = found[j]
  BY <1>1, <1>2, <1>3 DEF Effect, Frozen, Finishes, Placed, Stays, Goes, Answers, Fails,
     Steps
<1> QED
  BY <1>4, <1>5, <1>6

LEMMA StepAuthorised ==
  ASSUME TypeOK, Replied, Placed, AdminLogins, Authorised, Effect
  PROVE  Authorised'
<1> SUFFICES ASSUME NEW k \in Calls, kind'[k] = "create",
                    actsAs'[k] # Nobody \/ at'[k] = "create" \/ reply'[k] \in {200, 409}
             PROVE  /\ token'[k] \in Calls /\ at'[token'[k]] = "done"
                    /\ ProvedAdmin(token[k])' /\ actsAs'[k] = found'[token'[k]]
  BY DEF Authorised
<1>1. at[k] \in Steps
  BY DEF TypeOK
<1>2. ASSUME NEW j \in Calls, at[j] = "done", ProvedAdmin(j)
      PROVE  at'[j] = "done" /\ ProvedAdmin(j)' /\ found'[j] = found[j]
  BY <1>2 DEF Effect, Kept, Frozen, ProvedAdmin
<1>3. CASE at[k] = "new"
  <2>1. /\ token'[k] \in Calls /\ at[token'[k]] = "done" /\ reply[token'[k]] = 201
        /\ kind[token'[k]] = "loginAdmin" /\ actsAs'[k] = found[token'[k]]
    BY <1>3, CodesHold DEF Effect, Begun, Placed, Replied, Stays, Goes, Answers, Codes
  <2>2. ProvedAdmin(token'[k])
    BY <2>1 DEF AdminLogins
  <2> QED
    BY <1>2, <2>1, <2>2 DEF ProvedAdmin
<1>4. CASE at[k] # "new"
  <2>1. kind[k] = "create" /\ token'[k] = token[k]
    BY <1>4 DEF Effect, Kept
  <2>2. /\ actsAs'[k] = actsAs[k]
        /\ actsAs[k] # Nobody \/ at[k] = "create" \/ reply[k] \in {200, 409}
    BY <1>1, <1>4, <2>1 DEF Effect, Frozen, Finds, Finishes, Placed, LoggingIn, Stays,
       Goes, Answers, Fails, Steps
  <2>3. /\ token[k] \in Calls /\ at[token[k]] = "done"
        /\ ProvedAdmin(token[k]) /\ actsAs[k] = found[token[k]]
    BY <2>1, <2>2 DEF Authorised
  <2> QED
    BY <1>2, <2>1, <2>2, <2>3 DEF ProvedAdmin
<1> QED
  BY <1>3, <1>4

LEMMA StepServerErrorsProvoked ==
  ASSUME TypeOK, Replied, ServerErrorsProvoked, Effect
  PROVE  ServerErrorsProvoked'
<1> SUFFICES ASSUME NEW k \in Calls, reply'[k] \in {500, 1}
             PROVE  fault'[k] \cap {"unreadable", "failed"} # {}
  BY CodesHold DEF ServerErrorsProvoked, Codes
<1>1. at[k] \in Steps
  BY DEF TypeOK
<1>2. CASE reply[k] \in {500, 1}
  <2>1. fault[k] \cap {"unreadable", "failed"} # {}
    BY <1>2, CodesHold DEF ServerErrorsProvoked, Codes
  <2> QED
    BY <2>1 DEF Effect, Kept
<1>3. CASE reply[k] \notin {500, 1}
  BY <1>1, <1>3 DEF Effect, Frozen, Begun, Finds, Finishes, Stays, Goes, Answers, Fails, Steps
<1> QED
  BY <1>2, <1>3

LEMMA StepIInv == IInv /\ [Next]_vars => IInv'
<1> SUFFICES ASSUME IInv, [Next]_vars PROVE IInv'
  OBVIOUS
<1> USE DEF IInv
<1>1. TypeOK'
  BY StepType
<1>2. Effect
  BY StepEffect
<1>3. Replied' /\ Placed' /\ BeforeDone'
  BY <1>2, StepReplied, StepPlaced, StepBeforeDone
<1>4. Rowed' /\ Looked' /\ OneAccountPerEmail'
  BY <1>1, <1>2, StepRowed, StepLooked, StepOneAccountPerEmail
<1>5. Told' /\ CredentialsWork'
  BY <1>1, <1>2, StepTold, StepCredentialsWork
<1>6. AdminLogins' /\ Authorised'
  BY <1>2, StepAdminLogins, StepAuthorised
<1>7. ServerErrorsProvoked'
  BY <1>2, StepServerErrorsProvoked
<1> QED
  BY <1>1, <1>3, <1>4, <1>5, <1>6, <1>7

LEMMA Invariance == Spec => []IInv
BY InitIInv, StepIInv, PTL DEF Spec

-----------------------------------------------------------------------------
(* Two users with one email come of registrations that overlapped, or of a  *)
(* look-up that lost its rows: findByEmail and insertOne of the user store  *)
(* are two statements.                                                      *)
THEOREM EmailsKeptApart == Spec => []OneAccountPerEmail
<1>1. IInv => OneAccountPerEmail
  BY DEF IInv
<1> QED
  BY <1>1, Invariance, PTL

(* A registered user's email and password are good for a login later on, as *)
(* long as the email is not another account's too.                          *)
THEOREM CredentialsGood == Spec => []CredentialsWork
<1>1. IInv => CredentialsWork
  BY DEF IInv
<1> QED
  BY <1>1, Invariance, PTL

(* AuthWithContext lets nobody through to POST /products but an admin whose *)
(* email and password were given to the admin feature's login.              *)
THEOREM AdminsOnly == Spec => []OnlyAdminsCreate
<1>1. IInv => OnlyAdminsCreate
  BY CodesHold DEF IInv, OnlyAdminsCreate, Authorised, ProvedAdmin, Codes
<1> QED
  BY <1>1, Invariance, PTL

(* Behind every 500, and every answer cut off, is a failed statement or a   *)
(* body or cookie that does not parse.                                      *)
THEOREM ErrorsProvoked == Spec => []ServerErrorsProvoked
<1>1. IInv => ServerErrorsProvoked
  BY DEF IInv
<1> QED
  BY <1>1, Invariance, PTL
=============================================================================
