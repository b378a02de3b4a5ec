---------------------------- MODULE SessionsProofs ----------------------------
(***************************************************************************)
(* Theorems about Sessions, for every set of clients, calls and addresses. *)
(*                                                                         *)
(* Effect says, call by call, what a step does to the calls, the table and *)
(* the cookie jars.  It is proved action by action; the invariants are then*)
(* proved from Effect alone.                                               *)
(***************************************************************************)
EXTENDS Sessions, FiniteSetTheorems, TLAPS

LEMMA Addresses == AnyAddress \in IPs \X Ports
<1>1. PICK ip \in IPs, port \in Ports : TRUE
  BY SessionsAssumption
<1>2. <<ip, port>> \in IPs \X Ports
  OBVIOUS
<1> QED
  BY <1>2 DEF AnyAddress

LEMMA StepsAndReplies ==
  /\ "new" \in Steps /\ "find" \in Steps /\ "drop" \in Steps /\ "rotate" \in Steps
  /\ "reject" \in Steps /\ "purge" \in Steps /\ "create" \in Steps
  /\ "answered" \in Steps /\ "done" \in Steps
  /\ "none" \in Replies /\ "ok" \in Replies /\ "invalid" \in Replies
  /\ "unknown" \in Replies /\ "error" \in Replies
  /\ "login" \in Kinds /\ "renew" \in Kinds /\ "logout" \in Kinds
BY DEF Steps, Replies, Kinds

LEMMA GoType ==
  ASSUME TypeOK, NEW k \in Calls, NEW step \in Steps, Go(k, step)
  PROVE  at' \in [Calls -> Steps]
BY DEF TypeOK, Go

LEMMA AnswerType ==
  ASSUME TypeOK, NEW k \in Calls, NEW a \in Replies, Answer(k, a)
  PROVE  /\ at' \in [Calls -> Steps]
         /\ reply' \in [Calls -> Replies]
<1>1. at' \in [Calls -> Steps]
  BY StepsAndReplies DEF TypeOK, Answer, Go
<1>2. reply' \in [Calls -> Replies]
  BY DEF TypeOK, Answer
<1> QED
  BY <1>1, <1>2

LEMMA DeleteFailsType ==
  ASSUME TypeOK, NEW k \in Calls, NEW gone, DeleteFails(k, gone)
  PROVE  /\ sessions' \subseteq sessions
         /\ opener' = opener /\ clientIP' = clientIP
         /\ at' \in [Calls -> Steps]
         /\ reply' \in [Calls -> Replies]
BY AnswerType, StepsAndReplies DEF DeleteFails, Delete, tableVars

LEMMA InitType == Init => TypeOK
<1> SUFFICES ASSUME Init PROVE TypeOK
  OBVIOUS
<1>1. AnyClient \in Clients
  BY SessionsAssumption DEF AnyClient
<1> QED
  BY <1>1, Addresses, StepsAndReplies DEF Init, TypeOK

LEMMA StepType == TypeOK /\ [Next]_vars => TypeOK'
<1> SUFFICES ASSUME TypeOK, [Next]_vars PROVE TypeOK'
  OBVIOUS
<1> USE StepsAndReplies
<1>1. ASSUME NEW s \in Calls, Expire(s) PROVE TypeOK'
  BY <1>1 DEF TypeOK, Expire, tableVars, callVars
<1>2. ASSUME NEW k \in Calls, NEW c \in Clients, NEW what \in Kinds, Begin(k, what, c),
             \/ Go(k, "find") /\ UNCHANGED reply
             \/ Answer(k, "invalid")
      PROVE  TypeOK'
  <2>1. from' \in [Calls -> IPs \X Ports]
    BY <1>2, Addresses DEF TypeOK, Begin, GetClientIP
  <2>2. at' \in [Calls -> Steps] /\ reply' \in [Calls -> Replies]
    BY <1>2, GoType, AnswerType DEF TypeOK
  <2>3. before' \in [Calls -> SUBSET Calls]
    <3>1. {j \in Calls : reply[j] # "none"} \in SUBSET Calls
      OBVIOUS
    <3> QED
      BY <1>2, <3>1 DEF TypeOK, Begin
  <2>4. /\ kind' \in [Calls -> Kinds] /\ client' \in [Calls -> Clients]
        /\ token' \in [Calls -> Calls \cup {NoSession}]
    BY <1>2 DEF TypeOK, Begin
  <2> QED
    BY <1>2, <2>1, <2>2, <2>3, <2>4 DEF TypeOK, Begin, tableVars
<1>3. ASSUME NEW k \in Calls, FindForLogin(k) PROVE TypeOK'
  <2>1. at' \in [Calls -> Steps] /\ reply' \in [Calls -> Replies]
    BY <1>3, GoType, AnswerType DEF FindForLogin, SelectFails, TypeOK
  <2>2. found' \in [Calls -> Calls \cup {NoSession}]
    BY <1>3 DEF TypeOK, FindForLogin, Matching
  <2> QED
    BY <1>3, <2>1, <2>2 DEF TypeOK, FindForLogin, tableVars, callVars
<1>4. ASSUME NEW k \in Calls, DropExpired(k) PROVE TypeOK'
  BY <1>4, GoType DEF TypeOK, DropExpired, Delete, tableVars, callVars
<1>5. ASSUME NEW k \in Calls, FindByID(k) PROVE TypeOK'
  <2>1. at' \in [Calls -> Steps] /\ reply' \in [Calls -> Replies]
    BY <1>5, GoType, AnswerType DEF FindByID, SelectFails, TypeOK
  <2> QED
    BY <1>5, <2>1 DEF TypeOK, FindByID, tableVars, callVars
<1>6. ASSUME NEW k \in Calls, DeleteAllByEntityID(k) PROVE TypeOK'
  <2>1. at' \in [Calls -> Steps] /\ reply' \in [Calls -> Replies]
    BY <1>6, AnswerType, DeleteFailsType DEF DeleteAllByEntityID, TypeOK
  <2>2. sessions' \subseteq sessions /\ opener' = opener /\ clientIP' = clientIP
    BY <1>6, DeleteFailsType DEF DeleteAllByEntityID, Delete
  <2> QED
    BY <1>6, <2>1, <2>2 DEF TypeOK, DeleteAllByEntityID, callVars
<1>7. ASSUME NEW k \in Calls, Reject(k) PROVE TypeOK'
  <2>1. at' \in [Calls -> Steps] /\ reply' \in [Calls -> Replies]
    BY <1>7, AnswerType, DeleteFailsType DEF Reject, TypeOK
  <2>2. sessions' \subseteq sessions /\ opener' = opener /\ clientIP' = clientIP
    BY <1>7, DeleteFailsType DEF Reject, Delete
  <2> QED
    BY <1>7, <2>1, <2>2 DEF TypeOK, Reject, callVars
<1>8. ASSUME NEW k \in Calls, Rotate(k) PROVE TypeOK'
  <2>1. at' \in [Calls -> Steps] /\ reply' \in [Calls -> Replies]
    BY <1>8, GoType, AnswerType, DeleteFailsType DEF Rotate, TypeOK
  <2>2. sessions' \subseteq sessions /\ opener' = opener /\ clientIP' = clientIP
    BY <1>8, DeleteFailsType DEF Rotate, Delete
  <2> QED
    BY <1>8, <2>1, <2>2 DEF TypeOK, Rotate, callVars
<1>9. ASSUME NEW k \in Calls, DeleteOnLogout(k) PROVE TypeOK'
  <2>1. at' \in [Calls -> Steps] /\ reply' \in [Calls -> Replies]
    BY <1>9, AnswerType, DeleteFailsType DEF DeleteOnLogout, TypeOK
  <2>2. sessions' \subseteq sessions /\ opener' = opener /\ clientIP' = clientIP
    BY <1>9, DeleteFailsType DEF DeleteOnLogout, Delete
  <2> QED
    BY <1>9, <2>1, <2>2 DEF TypeOK, DeleteOnLogout, callVars
<1>10. ASSUME NEW k \in Calls, Create(k) PROVE TypeOK'
  <2>1. at' \in [Calls -> Steps] /\ reply' \in [Calls -> Replies]
    BY <1>10, AnswerType DEF Create
  <2>2. opener' \in [Calls -> Clients] /\ clientIP' \in [Calls -> IPs \X Ports]
    <3>1. \/ Insert(k)
          \/ UNCHANGED tableVars
      BY <1>10 DEF Create
    <3>2. opener' \in [Calls -> Clients]
      BY <3>1 DEF Insert, tableVars, TypeOK
    <3>3. clientIP' \in [Calls -> IPs \X Ports]
      BY SMTT(60), <3>1 DEF Insert, tableVars, TypeOK
    <3> QED
      BY <3>2, <3>3
  <2>3. found' \in [Calls -> Calls \cup {NoSession}] /\ sessions' \subseteq Calls
    BY SMTT(60), <1>10 DEF TypeOK, Create, Insert, tableVars
  <2> QED
    BY <1>10, <2>1, <2>2, <2>3 DEF TypeOK, Create, callVars
<1>11. ASSUME NEW k \in Calls, Deliver(k) PROVE TypeOK'
  <2>1. at' \in [Calls -> Steps]
    BY <1>11, GoType DEF Deliver
  <2>2. jar' \in [Clients -> Calls \cup {NoSession}]
    BY <1>11 DEF Deliver, TypeOK
  <2> QED
    BY <1>11, <2>1, <2>2 DEF TypeOK, Deliver, tableVars, callVars
<1>12. ASSUME NEW k \in Calls, LoseAnswer(k) PROVE TypeOK'
  BY <1>12, GoType DEF TypeOK, LoseAnswer, tableVars, callVars
<1>13. CASE UNCHANGED vars
  BY <1>13 DEF TypeOK, vars, tableVars, callVars
<1> QED
  BY <1>1, <1>2, <1>3, <1>4, <1>5, <1>6, <1>7, <1>8, <1>9, <1>10, <1>11, <1>12, <1>13
  DEF Next, Step, Login, Renew, Logout, Terminating

(* Every variable has its type in every reachable state.                    *)
THEOREM TypeCorrect == Spec => []TypeOK
BY InitType, StepType, PTL DEF Spec

-----------------------------------------------------------------------------
(***************************************************************************)
(* What a step does, call by call.                                         *)
(***************************************************************************)

Issued(k) == at[k] \in {"answered", "done"}

(* What a call has been asked stays.                                        *)
Kept ==
  \A k \in Calls : at[k] # "new" =>
    /\ at'[k] # "new" /\ kind'[k] = kind[k] /\ client'[k] = client[k]
    /\ token'[k] = token[k] /\ before'[k] = before[k]

(* A call that has been answered does nothing any more.                     *)
Frozen ==
  \A k \in Calls : Issued(k) =>
    /\ Issued(k)' /\ reply'[k] = reply[k]
    /\ found'[k] = found[k] /\ opener'[k] = opener[k]

(* A new call stays new, or begins with the token in its client's jar.      *)
Begun ==
  \A k \in Calls : at[k] = "new" =>
    /\ found'[k] = found[k] /\ opener'[k] = opener[k]
    /\ \/ /\ at'[k] = "new" /\ reply'[k] = reply[k]
          /\ before'[k] = before[k] /\ token'[k] = token[k]
       \/ /\ \/ at'[k] = "find" /\ reply'[k] = reply[k]
             \/ at'[k] = "answered" /\ reply'[k] = "invalid"
          /\ before'[k] = {j \in Calls : reply[j] # "none"}
          /\ token'[k] = IF kind'[k] = "login" THEN NoSession ELSE jar[client'[k]]
          /\ kind'[k] # "login" => token'[k] # NoSession

Inserted ==
  \A s \in sessions' \ sessions :
    at[s] = "create" /\ Issued(s)' /\ opener'[s] = client[s]

Stays(k) == at'[k] = at[k] /\ reply'[k] = reply[k] /\ found'[k] = found[k]

Goes(k, step) == at'[k] = step /\ reply'[k] = reply[k]

Answers(k, a) == at'[k] = "answered" /\ reply'[k] = a

Found(k) ==
  at[k] = "find" =>
    \/ Stays(k)
    \/ /\ kind[k] = "login" /\ sessions' = sessions
       /\ \/ \E s \in Matching(k) :
               found'[k] = s /\ ((s \in expired /\ Goes(k, "drop")) \/ Answers(k, "ok"))
          \/ /\ found'[k] = found[k] /\ Goes(k, "drop")
             /\ Matching(k) = {} \/ k \in swallowed'
          \/ found'[k] = found[k] /\ Answers(k, "error")
    \/ /\ kind[k] # "login" /\ sessions' = sessions /\ found'[k] = found[k]
       /\ \/ /\ token[k] \in sessions
             /\ \/ Goes(k, "drop") \/ Goes(k, "reject")
                \/ /\ Goes(k, "rotate") /\ kind[k] = "renew"
                   /\ SameAgent(opener[token[k]], client[k])
          \/ Goes(k, "purge") /\ (token[k] \notin sessions \/ Unread)
          \/ Answers(k, "error")

Dropped(k) ==
  at[k] = "drop" =>
    \/ Stays(k)
    \/ /\ kind[k] = "login" /\ found'[k] = found[k] /\ Goes(k, "create")
       /\ sessions' = sessions \ {found[k]} \/ k \in swallowed'
    \/ /\ kind[k] # "login" /\ found'[k] = found[k]
       /\ (Answers(k, "ok") /\ token[k] \notin sessions') \/ Answers(k, "error")

Rotated(k) ==
  at[k] = "rotate" =>
    \/ Stays(k)
    \/ Goes(k, "create") /\ found'[k] = found[k] /\ sessions' = sessions \ {token[k]}
    \/ Answers(k, "error") /\ found'[k] = found[k]

Rejected(k) ==
  at[k] = "reject" =>
    \/ Stays(k)
    \/ Answers(k, "invalid") /\ found'[k] = found[k]
    \/ Answers(k, "error") /\ found'[k] = found[k]

Purged(k) ==
  at[k] = "purge" =>
    \/ Stays(k)
    \/ /\ Answers(k, "unknown") /\ found'[k] = found[k]
       /\ sessions' = {s \in sessions : EntityOf[opener[s]] # Entity(k)}
    \/ Answers(k, "error") /\ found'[k] = found[k]

Created(k) ==
  at[k] = "create" =>
    \/ Stays(k)
    \/ /\ Answers(k, "ok") /\ found'[k] = k
       /\ opener'[k] = client[k] /\ sessions' = sessions \cup {k}
    \/ Answers(k, "error") /\ found'[k] = found[k]

Deleted ==
  \A s \in sessions \ sessions' :
    \E k \in Calls :
      /\ at'[k] # at[k]
      /\ \/ at[k] \in {"drop", "rotate", "reject"} /\ s \in {found[k], token[k]}
         \/ at[k] = "purge" /\ EntityOf[opener[s]] = Entity(k)

Jars ==
  \A c \in Clients :
    \/ jar'[c] \in {jar[c], NoSession}
    \/ \E k \in Calls : Issued(k) /\ client[k] = c /\ jar'[c] = found[k]

Grown ==
  /\ swallowed \subseteq swallowed' /\ expired \subseteq expired'
  /\ \A k \in swallowed' \ swallowed : at[k] # "new"

Moves ==
  /\ \A k \in Calls : Found(k)
  /\ \A k \in Calls : Dropped(k) /\ Rotated(k) /\ Rejected(k) /\ Purged(k) /\ Created(k)

Effect ==
  /\ Kept /\ Frozen /\ Begun
  /\ Inserted /\ Deleted
  /\ Jars /\ Grown
  /\ Moves

LEMMA FindForLoginEffect ==
  ASSUME TypeOK, NEW k \in Calls, FindForLogin(k)
  PROVE  Effect
<1>1. Kept /\ Frozen /\ Begun
  BY DEF TypeOK, Kept, Frozen, Begun, Issued, FindForLogin, SelectFails, Answer, Go,
     tableVars, callVars
<1>2. Inserted /\ Deleted
  BY DEF TypeOK, Inserted, Deleted, Issued, Entity, FindForLogin, SelectFails, Answer,
     Go, tableVars, callVars
<1>3. Jars /\ Grown
  BY DEF TypeOK, Jars, Grown, Issued, FindForLogin, SelectFails, Answer, Go, tableVars,
     callVars
<1>4. \A j \in Calls : Found(j)
  <2>1. ASSUME NEW j \in Calls, j # k PROVE Stays(j)
    BY <2>1 DEF TypeOK, Stays, FindForLogin, SelectFails, Answer, Go
  <2>2. Found(k)
    <3>1. CASE \E s \in Matching(k) :
                 /\ found' = [found EXCEPT ![k] = s]
                 /\ IF s \in expired THEN Go(k, "drop") /\ UNCHANGED reply
                                     ELSE Answer(k, "ok")
      BY <3>1 DEF TypeOK, Found, Goes, Answers, FindForLogin, Answer, Go, Matching,
         tableVars
    <3>2. CASE /\ Matching(k) = {} \/ Unread
               /\ Go(k, "drop")
               /\ swallowed' = IF Matching(k) = {} THEN swallowed ELSE swallowed \cup {k}
               /\ UNCHANGED <<found, reply>>
      <4>1. Matching(k) = {} \/ k \in swallowed'
        BY <3>2
      <4> QED
        BY <3>2, <4>1 DEF TypeOK, Found, Goes, FindForLogin, Go, tableVars
    <3>3. CASE SelectFails(k) /\ UNCHANGED <<found, swallowed>>
      BY <3>3 DEF TypeOK, Found, Answers, FindForLogin, SelectFails, Answer, Go, tableVars
    <3> QED
      BY <3>1, <3>2, <3>3 DEF FindForLogin
  <2> QED
    BY <2>1, <2>2 DEF Found
<1>5. \A j \in Calls : Dropped(j) /\ Rotated(j) /\ Rejected(j) /\ Purged(j) /\ Created(j)
  BY DEF TypeOK, Dropped, Rotated, Rejected, Purged, Created, Stays, Goes, Answers,
     Entity, FindForLogin, SelectFails, Answer, Go, tableVars, callVars
<1> QED
  BY <1>1, <1>2, <1>3, <1>4, <1>5 DEF Effect, Moves

LEMMA DropExpiredEffect ==
  ASSUME TypeOK, NEW k \in Calls, DropExpired(k)
  PROVE  Effect
<1>1. Kept /\ Frozen /\ Begun
  BY DEF TypeOK, Kept, Frozen, Begun, Issued, DropExpired, Delete, Go, tableVars, callVars
<1>2. Inserted /\ Deleted
  BY DEF TypeOK, Inserted, Deleted, Issued, Entity, DropExpired, Delete, Go, tableVars,
     callVars
<1>3. Jars /\ Grown
  BY DEF TypeOK, Jars, Grown, Issued, DropExpired, Delete, Go, tableVars, callVars
<1>4. \A j \in Calls : Found(j)
  BY DEF TypeOK, Found, Stays, Goes, Answers, Matching, SameAgent, DropExpired, Delete,
     Go, tableVars, callVars
<1>5. \A j \in Calls : Dropped(j) /\ Rotated(j) /\ Rejected(j) /\ Purged(j) /\ Created(j)
  BY DEF TypeOK, Dropped, Rotated, Rejected, Purged, Created, Stays, Goes, Answers,
     Entity, DropExpired, Delete, Go, tableVars, callVars
<1> QED
  BY <1>1, <1>2, <1>3, <1>4, <1>5 DEF Effect, Moves

LEMMA FindByIDEffect ==
  ASSUME TypeOK, NEW k \in Calls, FindByID(k)
  PROVE  Effect
<1>1. Kept /\ Frozen /\ Begun
  BY DEF TypeOK, Kept, Frozen, Begun, Issued, FindByID, Mismatch, SelectFails, Answer,
     Go, tableVars, callVars
<1>2. Inserted /\ Deleted
  BY DEF TypeOK, Inserted, Deleted, Issued, Entity, FindByID, Mismatch, SelectFails,
     Answer, Go, tableVars, callVars
<1>3. Jars /\ Grown
  BY DEF TypeOK, Jars, Grown, Issued, FindByID, Mismatch, SelectFails, Answer, Go,
     tableVars, callVars
<1>4. \A j \in Calls : Found(j)
  <2>1. ASSUME NEW j \in Calls, j # k PROVE Stays(j)
    BY <2>1 DEF TypeOK, Stays, FindByID, SelectFails, Answer, Go
  <2>2. Found(k)
    BY DEF TypeOK, Found, Goes, Answers, FindByID, Mismatch, SelectFails, Answer, Go,
       tableVars, Kinds
  <2> QED
    BY <2>1, <2>2 DEF Found
<1>5. \A j \in Calls : Dropped(j) /\ Rotated(j) /\ Rejected(j) /\ Purged(j) /\ Created(j)
  BY DEF TypeOK, Dropped, Rotated, Rejected, Purged, Created, Stays, Goes, Answers,
     Entity, FindByID, Mismatch, SelectFails, Answer, Go, tableVars, callVars
<1> QED
  BY <1>1, <1>2, <1>3, <1>4, <1>5 DEF Effect, Moves

LEMMA DeleteAllByEntityIDEffect ==
  ASSUME TypeOK, NEW k \in Calls, DeleteAllByEntityID(k)
  PROVE  Effect
<1>1. Kept /\ Frozen /\ Begun
  BY DEF TypeOK, Kept, Frozen, Begun, Issued, DeleteAllByEntityID, Delete, DeleteFails,
     Answer, Go, tableVars, callVars
<1>2. Inserted /\ Deleted
  BY DEF TypeOK, Inserted, Deleted, Issued, Entity, DeleteAllByEntityID, Delete,
     DeleteFails, Answer, Go, tableVars, callVars
<1>3. Jars /\ Grown
  BY DEF TypeOK, Jars, Grown, Issued, DeleteAllByEntityID, Delete, DeleteFails, Answer,
     Go, tableVars, callVars
<1>4. \A j \in Calls : Found(j)
  BY DEF TypeOK, Found, Stays, Goes, Answers, Matching, SameAgent, DeleteAllByEntityID,
     Delete, DeleteFails, Answer, Go, tableVars, callVars
<1>5. \A j \in Calls : Dropped(j) /\ Rotated(j) /\ Rejected(j) /\ Purged(j) /\ Created(j)
  BY DEF TypeOK, Dropped, Rotated, Rejected, Purged, Created, Stays, Goes, Answers,
     Entity, DeleteAllByEntityID, Delete, DeleteFails, Answer, Go, tableVars, callVars
<1> QED
  BY <1>1, <1>2, <1>3, <1>4, <1>5 DEF Effect, Moves

LEMMA RejectEffect ==
  ASSUME TypeOK, NEW k \in Calls, Reject(k)
  PROVE  Effect
<1>1. Kept /\ Frozen /\ Begun
  BY DEF TypeOK, Kept, Frozen, Begun, Issued, Reject, Delete, DeleteFails, Answer, Go,
     tableVars, callVars
<1>2. Inserted /\ Deleted
  BY DEF TypeOK, Inserted, Deleted, Issued, Entity, Reject, Delete, DeleteFails, Answer,
     Go, tableVars, callVars
<1>3. Jars /\ Grown
  BY DEF TypeOK, Jars, Grown, Issued, Reject, Delete, DeleteFails, Answer, Go, tableVars,
     callVars
<1>4. \A j \in Calls : Found(j)
  BY DEF TypeOK, Found, Stays, Goes, Answers, Matching, SameAgent, Reject, Delete,
     DeleteFails, Answer, Go, tableVars, callVars
<1>5. \A j \in Calls : Dropped(j) /\ Rotated(j) /\ Rejected(j) /\ Purged(j) /\ Created(j)
  BY DEF TypeOK, Dropped, Rotated, Rejected, Purged, Created, Stays, Goes, Answers,
     Entity, Reject, Delete, DeleteFails, Answer, Go, tableVars, callVars
<1> QED
  BY <1>1, <1>2, <1>3, <1>4, <1>5 DEF Effect, Moves

LEMMA RotateEffect ==
  ASSUME TypeOK, NEW k \in Calls, Rotate(k)
  PROVE  Effect
<1>1. Kept /\ Frozen /\ Begun
  BY DEF TypeOK, Kept, Frozen, Begun, Issued, Rotate, Delete, DeleteFails, Answer, Go,
     tableVars, callVars
<1>2. Inserted /\ Deleted
  BY DEF TypeOK, Inserted, Deleted, Issued, Entity, Rotate, Delete, DeleteFails, Answer,
     Go, tableVars, callVars
<1>3. Jars /\ Grown
  BY DEF TypeOK, Jars, Grown, Issued, Rotate, Delete, DeleteFails, Answer, Go, tableVars,
     callVars
<1>4. \A j \in Calls : Found(j)
  BY DEF TypeOK, Found, Stays, Goes, Answers, Matching, SameAgent, Rotate, Delete,
     DeleteFails, Answer, Go, tableVars, callVars
<1>5. \A j \in Calls : Dropped(j) /\ Rotated(j) /\ Rejected(j) /\ Purged(j) /\ Created(j)
  BY DEF TypeOK, Dropped, Rotated, Rejected, Purged, Created, Stays, Goes, Answers,
     Entity, Rotate, Delete, DeleteFails, Answer, Go, tableVars, callVars
<1> QED
  BY <1>1, <1>2, <1>3, <1>4, <1>5 DEF Effect, Moves

LEMMA DeleteOnLogoutEffect ==
  ASSUME TypeOK, NEW k \in Calls, DeleteOnLogout(k)
  PROVE  Effect
<1>1. Kept /\ Frozen /\ Begun
  BY DEF TypeOK, Kept, Frozen, Begun, Issued, DeleteOnLogout, Delete, DeleteFails,
     Answer, Go, tableVars, callVars
<1>2. Inserted /\ Deleted
  BY DEF TypeOK, Inserted, Deleted, Issued, Entity, DeleteOnLogout, Delete, DeleteFails,
     Answer, Go, tableVars, callVars
<1>3. Jars /\ Grown
  BY DEF TypeOK, Jars, Grown, Issued, DeleteOnLogout, Delete, DeleteFails, Answer, Go,
     tableVars, callVars
<1>4. \A j \in Calls : Found(j)
  BY DEF TypeOK, Found, Stays, Goes, Answers, Matching, SameAgent, DeleteOnLogout,
     Delete, DeleteFails, Answer, Go, tableVars, callVars
<1>5. \A j \in Calls : Dropped(j) /\ Rotated(j) /\ Rejected(j) /\ Purged(j) /\ Created(j)
  BY DEF TypeOK, Dropped, Rotated, Rejected, Purged, Created, Stays, Goes, Answers,
     Entity, DeleteOnLogout, Delete, DeleteFails, Answer, Go, tableVars, callVars
<1> QED
  BY <1>1, <1>2, <1>3, <1>4, <1>5 DEF Effect, Moves

LEMMA CreateEffect ==
  ASSUME TypeOK, NEW k \in Calls, Create(k)
  PROVE  Effect
<1>1. Kept /\ Frozen /\ Begun
  BY DEF TypeOK, Kept, Frozen, Begun, Issued, Create, Insert, Answer, Go, tableVars,
     callVars
<1>2. Inserted /\ Deleted
  BY DEF TypeOK, Inserted, Deleted, Issued, Entity, Create, Insert, Answer, Go,
     tableVars, callVars
<1>3. Jars /\ Grown
  BY DEF TypeOK, Jars, Grown, Issued, Create, Insert, Answer, Go, tableVars, callVars
<1>4. \A j \in Calls : Found(j)
  BY DEF TypeOK, Found, Stays, Goes, Answers, Matching, SameAgent, Create, Insert,
     Answer, Go, tableVars, callVars
<1>5. \A j \in Calls : Dropped(j) /\ Rotated(j) /\ Rejected(j) /\ Purged(j) /\ Created(j)
  BY DEF TypeOK, Dropped, Rotated, Rejected, Purged, Created, Stays, Goes, Answers,
     Entity, Create, Insert, Answer, Go, tableVars, callVars
<1> QED
  BY <1>1, <1>2, <1>3, <1>4, <1>5 DEF Effect, Moves

LEMMA DeliverEffect ==
  ASSUME TypeOK, NEW k \in Calls, Deliver(k)
  PROVE  Effect
<1>1. Kept /\ Frozen /\ Begun
  BY DEF TypeOK, Kept, Frozen, Begun, Issued, Deliver, Go, tableVars, callVars
<1>2. Inserted /\ Deleted
  BY DEF TypeOK, Inserted, Deleted, Issued, Entity, Deliver, Go, tableVars, callVars
<1>3. Jars /\ Grown
  BY DEF TypeOK, Jars, Grown, Issued, Deliver, Go, tableVars, callVars
<1>4. \A j \in Calls : Found(j)
  BY DEF TypeOK, Found, Stays, Goes, Answers, Matching, SameAgent, Deliver, Go,
     tableVars, callVars
<1>5. \A j \in Calls : Dropped(j) /\ Rotated(j) /\ Rejected(j) /\ Purged(j) /\ Created(j)
  BY DEF TypeOK, Dropped, Rotated, Rejected, Purged, Created, Stays, Goes, Answers,
     Entity, Deliver, Go, tableVars, callVars
<1> QED
  BY <1>1, <1>2, <1>3, <1>4, <1>5 DEF Effect, Moves

LEMMA LoseAnswerEffect ==
  ASSUME TypeOK, NEW k \in Calls, LoseAnswer(k)
  PROVE  Effect
<1>1. Kept /\ Frozen /\ Begun
  BY DEF TypeOK, Kept, Frozen, Begun, Issued, LoseAnswer, Go, tableVars, callVars
<1>2. Inserted /\ Deleted
  BY DEF TypeOK, Inserted, Deleted, Issued, Entity, LoseAnswer, Go, tableVars, callVars
<1>3. Jars /\ Grown
  BY DEF TypeOK, Jars, Grown, Issued, LoseAnswer, Go, tableVars, callVars
<1>4. \A j \in Calls : Found(j)
  BY DEF TypeOK, Found, Stays, Goes, Answers, Matching, SameAgent, LoseAnswer, Go,
     tableVars, callVars
<1>5. \A j \in Calls : Dropped(j) /\ Rotated(j) /\ Rejected(j) /\ Purged(j) /\ Created(j)
  BY DEF TypeOK, Dropped, Rotated, Rejected, Purged, Created, Stays, Goes, Answers,
     Entity, LoseAnswer, Go, tableVars, callVars
<1> QED
  BY <1>1, <1>2, <1>3, <1>4, <1>5 DEF Effect, Moves

LEMMA LoginEffect ==
  ASSUME TypeOK, NEW k \in Calls, NEW c \in Clients, Login(k, c)
  PROVE  Effect
<1>1. Kept /\ Frozen /\ Begun
  BY DEF TypeOK, Kept, Frozen, Begun, Issued, Login, Begin, Go, tableVars
<1>2. Inserted /\ Deleted
  BY DEF TypeOK, Inserted, Deleted, Issued, Entity, Login, Begin, Go, tableVars
<1>3. Jars /\ Grown
  BY DEF TypeOK, Jars, Grown, Issued, Login, Begin, Go, tableVars
<1>4. \A j \in Calls : Found(j)
  BY DEF TypeOK, Found, Stays, Goes, Answers, Matching, SameAgent, Login, Begin, Go,
     tableVars
<1>5. \A j \in Calls : Dropped(j) /\ Rotated(j) /\ Rejected(j) /\ Purged(j) /\ Created(j)
  BY DEF TypeOK, Dropped, Rotated, Rejected, Purged, Created, Stays, Goes, Answers,
     Entity, Login, Begin, Go, tableVars
<1> QED
  BY <1>1, <1>2, <1>3, <1>4, <1>5 DEF Effect, Moves

LEMMA RenewEffect ==
  ASSUME TypeOK, NEW k \in Calls, NEW c \in Clients, Renew(k, c)
  PROVE  Effect
<1>1. Kept /\ Frozen /\ Begun
  BY DEF TypeOK, Kept, Frozen, Begun, Issued, Renew, Begin, Answer, Go, tableVars
<1>2. Inserted /\ Deleted
  BY DEF TypeOK, Inserted, Deleted, Issued, Entity, Renew, Begin, Answer, Go, tableVars
<1>3. Jars /\ Grown
  BY DEF TypeOK, Jars, Grown, Issued, Renew, Begin, Answer, Go, tableVars
<1>4. \A j \in Calls : Found(j)
  BY DEF TypeOK, Found, Stays, Goes, Answers, Matching, SameAgent, Renew, Begin, Answer,
     Go, tableVars
<1>5. \A j \in Calls : Dropped(j) /\ Rotated(j) /\ Rejected(j) /\ Purged(j) /\ Created(j)
  BY DEF TypeOK, Dropped, Rotated, Rejected, Purged, Created, Stays, Goes, Answers,
     Entity, Renew, Begin, Answer, Go, tableVars
<1> QED
  BY <1>1, <1>2, <1>3, <1>4, <1>5 DEF Effect, Moves

LEMMA LogoutEffect ==
  ASSUME TypeOK, NEW k \in Calls, NEW c \in Clients, Logout(k, c)
  PROVE  Effect
<1>1. Kept /\ Frozen /\ Begun
  BY DEF TypeOK, Kept, Frozen, Begun, Issued, Logout, Begin, Answer, Go, tableVars
<1>2. Inserted /\ Deleted
  BY DEF TypeOK, Inserted, Deleted, Issued, Entity, Logout, Begin, Answer, Go, tableVars
<1>3. Jars /\ Grown
  BY DEF TypeOK, Jars, Grown, Issued, Logout, Begin, Answer, Go, tableVars
<1>4. \A j \in Calls : Found(j)
  BY DEF TypeOK, Found, Stays, Goes, Answers, Matching, SameAgent, Logout, Begin, Answer,
     Go, tableVars
<1>5. \A j \in Calls : Dropped(j) /\ Rotated(j) /\ Rejected(j) /\ Purged(j) /\ Created(j)
  BY DEF TypeOK, Dropped, Rotated, Rejected, Purged, Created, Stays, Goes, Answers,
     Entity, Logout, Begin, Answer, Go, tableVars
<1> QED
  BY <1>1, <1>2, <1>3, <1>4, <1>5 DEF Effect, Moves

(* A step does to the calls and the table what its action says, and a step  *)
(* of time, or none, does nothing to them.                                  *)
LEMMA StepEffect ==
  ASSUME TypeOK, [Next]_vars
  PROVE  Effect
<1>1. ASSUME NEW s \in Calls, Expire(s) PROVE Effect
  BY <1>1 DEF Expire, Effect, Kept, Frozen, Begun, Inserted, Deleted, Jars, Grown, Moves,
              Found, Dropped, Rotated, Rejected, Purged, Created, Stays, Issued,
              callVars, tableVars
<1>2. CASE UNCHANGED vars
  BY <1>2 DEF vars, Effect, Kept, Frozen, Begun, Inserted, Deleted, Jars, Grown, Moves,
              Found, Dropped, Rotated, Rejected, Purged, Created, Stays, Issued,
              callVars, tableVars
<1>3. ASSUME NEW k \in Calls, NEW c \in Clients, Login(k, c) \/ Renew(k, c) \/ Logout(k, c)
      PROVE  Effect
  BY <1>3, LoginEffect, RenewEffect, LogoutEffect
<1>4. ASSUME NEW k \in Calls, Step(k) PROVE Effect
  BY <1>4, FindForLoginEffect, DropExpiredEffect, FindByIDEffect, DeleteAllByEntityIDEffect,
     RejectEffect, RotateEffect, DeleteOnLogoutEffect, CreateEffect, DeliverEffect,
     LoseAnswerEffect
  DEF Step
<1> QED
  BY <1>1, <1>2, <1>3, <1>4 DEF Next, Terminating

-----------------------------------------------------------------------------
(* The inductive invariant.                                                 *)

Replied == \A k \in Calls : reply[k] = "none" <=> ~Issued(k)

Fresh == \A k \in Calls : at[k] = "new" => found[k] = NoSession /\ before[k] = {}

(* A session that is anywhere belongs to a call that has been answered.     *)
KnownIssued ==
  /\ \A s \in sessions : Issued(s)
  /\ \A c \in Clients : jar[c] # NoSession => Issued(jar[c])
  /\ \A k \in Calls : found[k] # NoSession => Issued(found[k])
  /\ \A k \in Calls : at[k] # "new" /\ token[k] # NoSession => Issued(token[k])

BeforeAnswered == \A k \in Calls : \A j \in before[k] : Issued(j)

Swallowers == \A k \in swallowed : at[k] # "new"

(* Until a login has looked, it has found nothing; only a renewal rotates.  *)
Seeking ==
  \A k \in Calls : /\ at[k] = "find" => found[k] = NoSession
                   /\ at[k] = "rotate" => kind[k] # "login"

(* A renewal or a logout has a token.                                       *)
Bearing == \A k \in Calls : at[k] # "new" /\ kind[k] # "login" => token[k] \in Calls

(* Nobody comes by a session of another entity.                             *)
Owned ==
  /\ \A c \in Clients : jar[c] # NoSession => EntityOf[opener[jar[c]]] = EntityOf[c]
  /\ \A k \in Calls : found[k] # NoSession => EntityOf[opener[found[k]]] = Entity(k)
  /\ \A k \in Calls :
       at[k] # "new" /\ token[k] # NoSession => EntityOf[opener[token[k]]] = Entity(k)

(* A renewal about to create a session has deleted its old one for good.    *)
Rotating == \A k \in Calls : at[k] = "create" /\ kind[k] # "login" => token[k] \notin sessions

Consumed(k) == kind[k] # "login" /\ reply[k] = "ok"

Used == \A k \in Calls : Consumed(k) => token[k] \notin sessions

(* A call that began after its token had been used up gets nowhere.         *)
Repeated ==
  \A k \in Calls : \A j \in before[k] :
    Consumed(j) /\ kind[k] # "login" /\ token[j] = token[k] =>
      at[k] \in {"find", "purge", "answered", "done"} /\ reply[k] # "ok"

IInv ==
  /\ TypeOK
  /\ Replied /\ Fresh /\ KnownIssued /\ BeforeAnswered
  /\ Swallowers /\ Seeking /\ Bearing /\ Owned
  /\ Rotating /\ OldTokenGone
  /\ Used /\ Repeated
  /\ ReuseEndsSessions

(* Where a call's session and token come from.                              *)
LEMMA FoundStep ==
  ASSUME TypeOK, Effect, NEW k \in Calls
  PROVE  \/ found'[k] = found[k]
         \/ /\ at[k] # "new" /\ found'[k] \in sessions
            /\ SameAgent(opener[found'[k]], client[k])
         \/ /\ at[k] = "create" /\ Issued(k)'
            /\ found'[k] = k /\ opener'[k] = client[k]
<1>1. at[k] \in Steps
  BY DEF TypeOK
<1> QED
  BY <1>1 DEF Effect, Frozen, Begun, Moves, Found, Dropped, Rotated, Rejected, Purged,
     Created, Stays, Goes, Answers, Matching, Issued, Steps

LEMMA TokenStep ==
  ASSUME TypeOK, Effect, NEW k \in Calls, at'[k] # "new"
  PROVE  \/ at[k] # "new" /\ token'[k] = token[k] /\ client'[k] = client[k] /\ kind'[k] = kind[k]
         \/ at[k] = "new" /\ token'[k] = IF kind'[k] = "login" THEN NoSession ELSE jar[client'[k]]
BY DEF Effect, Kept, Begun

LEMMA StepReplied == ASSUME TypeOK, Replied, Effect PROVE Replied'
<1> SUFFICES ASSUME NEW k \in Calls PROVE (reply[k] = "none" <=> ~Issued(k))'
  BY DEF Replied
<1>1. at[k] \in Steps
  BY DEF TypeOK
<1> QED
  BY <1>1 DEF Effect, Replied, Frozen, Begun, Moves, Found, Dropped, Rotated, Rejected,
     Purged, Created, Stays, Goes, Answers, Issued, Steps

LEMMA StepFresh == ASSUME TypeOK, Fresh, Effect PROVE Fresh'
BY DEF Effect, Fresh, Kept, Begun

LEMMA StepKnownIssued ==
  ASSUME TypeOK, TypeOK', Fresh, KnownIssued, Effect
  PROVE  KnownIssued'
<1>1. \A s \in Calls : Issued(s) => Issued(s)'
  BY DEF Effect, Frozen
<1>2. \A s \in sessions' : Issued(s)'
  BY <1>1 DEF TypeOK, Effect, Inserted, KnownIssued
<1>3. ASSUME NEW k \in Calls, found'[k] # NoSession PROVE Issued(found[k])'
  BY ZenonT(60), <1>1, <1>3, FoundStep DEF TypeOK, KnownIssued
<1>4. ASSUME NEW c \in Clients, jar'[c] # NoSession PROVE Issued(jar[c])'
  BY ZenonT(60), <1>1, <1>4 DEF TypeOK, Effect, Jars, KnownIssued
<1>5. ASSUME NEW k \in Calls, at'[k] # "new", token'[k] # NoSession PROVE Issued(token[k])'
  BY ZenonT(60), <1>1, <1>5, TokenStep DEF TypeOK, KnownIssued
<1> QED
  BY <1>2, <1>3, <1>4, <1>5 DEF KnownIssued

LEMMA StepBeforeAnswered ==
  ASSUME TypeOK, Replied, Fresh, BeforeAnswered, Effect
  PROVE  BeforeAnswered'
<1>1. \A j \in Calls : Issued(j) => Issued(j)'
  BY DEF Effect, Frozen
<1> SUFFICES ASSUME NEW k \in Calls, NEW j \in before'[k] PROVE Issued(j)'
  BY DEF BeforeAnswered
<1>2. CASE before'[k] = before[k]
  BY <1>1, <1>2 DEF BeforeAnswered, TypeOK
<1>3. CASE before'[k] = {i \in Calls : reply[i] # "none"}
  BY <1>1, <1>3 DEF Replied
<1> QED
  BY <1>2, <1>3 DEF Effect, Kept, Begun

LEMMA StepSwallowers == ASSUME TypeOK', Swallowers, Effect PROVE Swallowers'
BY DEF TypeOK, Swallowers, Effect, Kept, Grown

LEMMA StepSeeking == ASSUME TypeOK, Fresh, Seeking, Effect PROVE Seeking'
<1> SUFFICES ASSUME NEW k \in Calls
             PROVE  /\ at'[k] = "find" => found'[k] = NoSession
                    /\ at'[k] = "rotate" => kind'[k] # "login"
  BY DEF Seeking
<1>1. at[k] \in Steps
  BY DEF TypeOK
<1> QED
  BY <1>1 DEF Effect, Fresh, Seeking, Kept, Frozen, Begun, Moves, Found, Dropped, Rotated,
     Rejected, Purged, Created, Stays, Goes, Answers, Issued, Steps

LEMMA StepBearing == ASSUME TypeOK', Bearing, Effect PROVE Bearing'
BY DEF TypeOK, Bearing, Effect, Kept, Begun

LEMMA StepOwned ==
  ASSUME TypeOK, TypeOK', Fresh, KnownIssued, Owned, Effect
  PROVE  Owned'
<1>1. \A s \in Calls : Issued(s) => opener'[s] = opener[s]
  BY DEF Effect, Frozen
<1>2. \A k \in Calls : at[k] # "new" => client'[k] = client[k]
  BY DEF Effect, Kept
<1>3. ASSUME NEW c \in Clients, jar'[c] # NoSession
      PROVE  EntityOf[opener'[jar'[c]]] = EntityOf[c]
  BY SMTT(60), <1>1, <1>3 DEF TypeOK, Effect, Jars, KnownIssued, Owned, Entity
<1>4. ASSUME NEW k \in Calls, found'[k] # NoSession
      PROVE  EntityOf[opener'[found'[k]]] = EntityOf[client'[k]]
  <2>1. CASE found'[k] = found[k]
    BY <1>1, <1>2, <1>4, <2>1 DEF TypeOK, Fresh, KnownIssued, Owned, Entity
  <2>2. CASE /\ at[k] # "new" /\ found'[k] \in sessions
             /\ SameAgent(opener[found'[k]], client[k])
    BY <1>1, <1>2, <2>2 DEF TypeOK, KnownIssued, SameAgent
  <2>3. CASE at[k] = "create" /\ found'[k] = k /\ opener'[k] = client[k]
    BY <1>2, <2>3
  <2> QED
    BY <2>1, <2>2, <2>3, FoundStep
<1>5. ASSUME NEW k \in Calls, at'[k] # "new", token'[k] # NoSession
      PROVE  EntityOf[opener'[token'[k]]] = EntityOf[client'[k]]
  <2>1. CASE at[k] # "new" /\ token'[k] = token[k] /\ client'[k] = client[k]
    BY <1>1, <1>5, <2>1 DEF TypeOK, KnownIssued, Owned, Entity
  <2>2. CASE token'[k] = jar[client'[k]]
    BY <1>1, <1>5, <2>2 DEF TypeOK, KnownIssued, Owned
  <2> QED
    BY <1>5, <2>1, <2>2, TokenStep
<1> QED
  BY <1>3, <1>4, <1>5 DEF Owned, Entity

(* Nothing brings a session back.                                           *)
LEMMA NoReturn ==
  ASSUME TypeOK', Effect, NEW s, s \notin sessions, s \in Calls => Issued(s)
  PROVE  s \notin sessions'
BY DEF TypeOK, Effect, Inserted, Issued

LEMMA StepRotating ==
  ASSUME TypeOK, TypeOK', KnownIssued, Rotating, Effect
  PROVE  Rotating'
<1> SUFFICES ASSUME NEW k \in Calls, at'[k] = "create", kind'[k] # "login"
             PROVE  token'[k] \notin sessions'
  BY DEF Rotating
<1>1. at[k] # "new" /\ kind[k] # "login" /\ token'[k] = token[k]
  BY DEF Effect, Kept, Begun
<1>2. token[k] \in Calls => Issued(token[k])
  BY <1>1, SessionsAssumption DEF TypeOK, KnownIssued
<1>3. at[k] \in Steps
  BY DEF TypeOK
<1>4. at[k] = "create" \/ (at[k] = "rotate" /\ sessions' = sessions \ {token[k]})
  BY <1>1, <1>3 DEF Effect, Frozen, Moves, Found, Dropped, Rotated, Rejected, Purged,
     Created, Stays, Goes, Answers, Issued, Steps
<1> QED
  BY <1>1, <1>2, <1>4, NoReturn DEF Rotating

LEMMA StepOldTokenGone ==
  ASSUME TypeOK, TypeOK', KnownIssued, Rotating, OldTokenGone, Effect
  PROVE  OldTokenGone'
<1> SUFFICES ASSUME NEW k \in sessions', kind'[k] = "renew"
             PROVE  token'[k] \notin sessions'
  BY DEF OldTokenGone
<1>1. k \in Calls /\ at[k] # "new"
  BY DEF TypeOK, Effect, Inserted, KnownIssued, Issued
<1>2. kind[k] = "renew" /\ token'[k] = token[k]
  BY <1>1 DEF Effect, Kept
<1>3. token[k] \notin sessions
  BY <1>1, <1>2 DEF Effect, Inserted, OldTokenGone, Rotating
<1>4. token[k] \in Calls => Issued(token[k])
  BY <1>1, SessionsAssumption DEF TypeOK, KnownIssued
<1> QED
  BY <1>2, <1>3, <1>4, NoReturn

LEMMA StepUsed ==
  ASSUME TypeOK, TypeOK', Replied, KnownIssued, Rotating, Used, Effect
  PROVE  Used'
<1> SUFFICES ASSUME NEW k \in Calls, kind'[k] # "login", reply'[k] = "ok"
             PROVE  token'[k] \notin sessions'
  BY DEF Used, Consumed
<1>1. at[k] # "new"
  BY DEF Effect, Begun, Replied, Issued
<1>2. kind[k] # "login" /\ token'[k] = token[k]
  BY <1>1 DEF Effect, Kept
<1>3. token[k] \in Calls => Issued(token[k])
  BY <1>1, SessionsAssumption DEF TypeOK, KnownIssued
<1>4. at[k] \in Steps /\ kind[k] \in Kinds
  BY DEF TypeOK
<1>5. CASE Issued(k)
  BY <1>2, <1>3, <1>5, NoReturn DEF Effect, Frozen, Used, Consumed
<1>6. CASE at[k] = "drop"
  BY <1>2, <1>6 DEF Effect, Moves, Dropped, Stays, Goes, Answers, Replied, Issued
<1>7. CASE at[k] = "create"
  <2>1. reply[k] # "ok"
    BY <1>7 DEF Replied, Issued
  <2>2. sessions' = sessions \cup {k}
    BY <1>7, <2>1 DEF Effect, Moves, Created, Stays, Goes, Answers
  <2>3. token[k] # k
    BY <1>3, <1>7 DEF Issued
  <2>4. token[k] \notin sessions
    BY <1>2, <1>7 DEF Rotating
  <2> QED
    BY <1>2, <2>2, <2>3, <2>4
<1>8. CASE at[k] \in {"find", "rotate", "reject", "purge"}
  BY <1>2, <1>8 DEF Effect, Moves, Found, Rotated, Rejected, Purged, Stays, Goes, Answers,
     Replied, Issued
<1> QED
  BY <1>1, <1>4, <1>5, <1>6, <1>7, <1>8 DEF Steps, Issued

LEMMA StepRepeated ==
  ASSUME TypeOK, TypeOK', Replied, Fresh, KnownIssued, BeforeAnswered, Used, Repeated, Effect
  PROVE  Repeated'
<1> SUFFICES ASSUME NEW k \in Calls, NEW j \in before'[k],
                    kind'[j] # "login", reply'[j] = "ok",
                    kind'[k] # "login", token'[j] = token'[k]
             PROVE  at'[k] \in {"find", "purge", "answered", "done"} /\ reply'[k] # "ok"
  BY DEF Repeated, Consumed
<1>1. CASE at[k] = "new"
  BY <1>1 DEF Effect, Begun, Fresh, Replied, Issued
<1>2. CASE at[k] # "new"
  <2>1. /\ j \in before[k] /\ kind[k] # "login" /\ token'[k] = token[k]
    BY <1>2 DEF Effect, Kept
  <2>2. j \in Calls /\ Issued(j)
    BY <2>1 DEF TypeOK, BeforeAnswered
  <2>3. kind[j] # "login" /\ reply[j] = "ok" /\ token'[j] = token[j]
    BY <2>2 DEF Effect, Kept, Frozen, Issued
  <2>4. at[k] \in {"find", "purge", "answered", "done"} /\ reply[k] # "ok"
    BY <2>1, <2>3 DEF Repeated, Consumed
  <2>5. token[k] \notin sessions
    BY <2>1, <2>2, <2>3 DEF Used, Consumed
  <2> QED
    BY <2>1, <2>4, <2>5 DEF Effect, Frozen, Moves, Found, Purged, Stays, Goes, Answers,
       Issued
<1> QED
  BY <1>1, <1>2

LEMMA StepReuseEndsSessions ==
  ASSUME TypeOK, TypeOK', Replied, Fresh, KnownIssued, BeforeAnswered, ReuseEndsSessions, Effect
  PROVE  ReuseEndsSessions'
<1> SUFFICES ASSUME NEW k \in Calls, reply'[k] = "unknown", NEW s \in sessions',
                    EntityOf[opener'[s]] = EntityOf[client'[k]]
             PROVE  s \notin before'[k]
  BY DEF ReuseEndsSessions, Entity
<1>1. at[k] # "new"
  BY DEF Effect, Begun, Replied, Issued
<1>2. before'[k] = before[k] /\ client'[k] = client[k]
  BY <1>1 DEF Effect, Kept
<1>3. CASE s \notin sessions
  BY <1>2, <1>3 DEF Effect, Inserted, BeforeAnswered, Issued
<1>4. CASE s \in sessions
  <2>1. opener'[s] = opener[s]
    BY <1>4 DEF TypeOK, KnownIssued, Effect, Frozen
  <2>2. CASE reply[k] = "unknown"
    BY <1>2, <1>4, <2>1, <2>2 DEF ReuseEndsSessions, Entity
  <2>3. CASE reply[k] # "unknown"
    <3>1. at[k] \in Steps
      BY DEF TypeOK
    <3>2. sessions' = {t \in sessions : EntityOf[opener[t]] # Entity(k)}
      BY <1>1, <2>3, <3>1 DEF Effect, Frozen, Moves, Found, Dropped, Rotated, Rejected,
         Purged,
         Created, Stays, Goes, Answers, Issued, Steps
    <3> QED
      BY <1>2, <2>1, <3>2 DEF Entity
  <2> QED
    BY <2>2, <2>3
<1> QED
  BY <1>3, <1>4

LEMMA InitIInv == Init => IInv
BY InitType DEF Init, IInv, Replied, Fresh, KnownIssued, BeforeAnswered,
   Swallowers, Seeking, Bearing, Owned, Rotating, OldTokenGone, Used, Consumed, Repeated, ReuseEndsSessions, Issued

LEMMA StepIInv == IInv /\ [Next]_vars => IInv'
<1> SUFFICES ASSUME IInv, [Next]_vars PROVE IInv'
  OBVIOUS
<1>1. TypeOK /\ TypeOK' /\ Effect
  BY StepType, StepEffect DEF IInv
<1> QED
  BY <1>1, StepReplied, StepFresh, StepKnownIssued, StepBeforeAnswered,
     StepSwallowers, StepSeeking, StepBearing, StepOwned, StepRotating, StepOldTokenGone, StepUsed, StepRepeated, StepReuseEndsSessions DEF IInv

LEMMA Invariance == Spec => []IInv
BY InitIInv, StepIInv, PTL DEF Spec

(* A refresh token and the one it was exchanged for are never both good.    *)
THEOREM OldTokensGo == Spec => []OldTokenGone
<1>1. IInv => OldTokenGone
  BY DEF IInv
<1> QED
  BY <1>1, Invariance, PTL

(* A token is exchanged twice, or after a logout with it, only by calls     *)
(* that were in progress together: a call that began later finds no session.*)
THEOREM ReuseTakesOverlap == Spec => []ReuseOnlyByOverlap
<1>1. IInv => ReuseOnlyByOverlap
  BY DEF IInv, Repeated, ReuseOnlyByOverlap, Answered, Consumed, Overlap
<1> QED
  BY <1>1, Invariance, PTL

(* When reuse has been answered, the entity's older sessions are gone.      *)
THEOREM ReuseEnds == Spec => []ReuseEndsSessions
<1>1. IInv => ReuseEndsSessions
  BY DEF IInv
<1> QED
  BY <1>1, Invariance, PTL

(* Only a call of the entity itself ends one of its sessions.               *)
THEOREM OnlyOwnSessions == Spec => OwnSessionsOnly
<1>1. ASSUME IInv, [Next]_vars
      PROVE  [\A s \in sessions \ sessions' :
                \E k \in Calls : at[k] # at'[k] /\ Entity(k) = EntityOf[opener[s]]]_vars
  <2>1. Effect /\ TypeOK /\ Owned /\ Fresh
    BY <1>1, StepEffect DEF IInv
  <2> SUFFICES ASSUME NEW s \in sessions \ sessions'
               PROVE  \E k \in Calls : at[k] # at'[k] /\ Entity(k) = EntityOf[opener[s]]
    OBVIOUS
  <2>2. PICK k \in Calls :
          /\ at'[k] # at[k]
          /\ \/ at[k] \in {"drop", "rotate", "reject"} /\ s \in {found[k], token[k]}
             \/ at[k] = "purge" /\ EntityOf[opener[s]] = Entity(k)
    BY <2>1 DEF Effect, Deleted
  <2>3. s # NoSession
    BY <2>1, SessionsAssumption DEF TypeOK
  <2> QED
    BY <2>1, <2>2, <2>3 DEF Owned
<1> QED
  BY <1>1, Invariance, PTL DEF Spec, OwnSessionsOnly

-----------------------------------------------------------------------------
(* One session for each agent of an entity whose calls come one by one.     *)

Entities == {EntityOf[c] : c \in Clients}

(* What a call in progress relies on.                                       *)
Relied(k) ==
  /\ at[k] = "drop" /\ kind[k] = "login" =>
       Matching(k) = {found[k]} \ {NoSession} /\ Matching(k) \subseteq expired
  /\ at[k] = "create" =>
       /\ Matching(k) = {}
       /\ \A s \in Held(k) : /\ s \in Calls /\ SameAgent(opener[s], client[k])
                             /\ kind[k] = "login" => s \in expired
  /\ at[k] = "rotate" => token[k] \in sessions /\ SameAgent(opener[token[k]], client[k])
  /\ at[k] = "reject" \/ (at[k] = "drop" /\ kind[k] # "login") => token[k] \in sessions
  /\ at[k] = "purge" => kind[k] # "login" /\ (token[k] \notin sessions \/ Unread)

OneEach(e) ==
  \A s, t \in sessions :
    EntityOf[opener[s]] = e /\ SameAgent(opener[s], opener[t]) => s = t

OneInv ==
  \A e \in Entities :
    OneByOne(e) => OneEach(e) /\ \A k \in Calls : Entity(k) = e => Relied(k)

LEMMA EntityKnown == ASSUME TypeOK, NEW k \in Calls PROVE Entity(k) \in Entities
BY DEF TypeOK, Entity, Entities

LEMMA OneByOneBefore ==
  ASSUME IInv, TypeOK', Effect, NEW e, OneByOne(e)'
  PROVE  OneByOne(e)
<1>1. \A k \in Calls : at[k] # "new" => at'[k] # "new" /\ Entity(k)' = Entity(k) /\ before'[k] = before[k]
  BY DEF Effect, Kept, Entity
<1>2. \A j, k \in {i \in Calls : at[i] # "new" /\ Entity(i) = e} : j # k => ~Overlap(j, k)
  BY <1>1 DEF OneByOne, Overlap
<1>3. \A k \in swallowed : Entity(k) # e
  BY <1>1 DEF OneByOne, Effect, Grown, IInv, TypeOK, Swallowers
<1> QED
  BY <1>2, <1>3 DEF OneByOne

(* Of an entity's calls one at most is in progress.                         *)
LEMMA Alone ==
  ASSUME IInv, NEW j \in Calls, NEW k \in Calls, j # k, at[j] # "new", at[k] # "new",
         Entity(j) = Entity(k), OneByOne(Entity(k))
  PROVE  Issued(j) \/ Issued(k)
BY DEF IInv, BeforeAnswered, OneByOne, Overlap

(* The entity's rows are changed only by the one call in progress.          *)
LEMMA SameTable ==
  ASSUME IInv, TypeOK', Effect, NEW k \in Calls, at[k] # "new", ~Issued(k), at'[k] = at[k],
         OneByOne(Entity(k))
  PROVE  {s \in sessions' : EntityOf[opener'[s]] = Entity(k)}
           = {s \in sessions : EntityOf[opener[s]] = Entity(k)}
<1>1. \A s \in sessions : opener'[s] = opener[s]
  BY DEF IInv, TypeOK, KnownIssued, Effect, Frozen
<1>2. ASSUME NEW s \in sessions' \ sessions, EntityOf[opener'[s]] = Entity(k) PROVE FALSE
  <2>1. s \in Calls /\ at[s] = "create" /\ Issued(s)' /\ Entity(s) = Entity(k)
    BY <1>2 DEF TypeOK, Effect, Inserted, Entity
  <2>2. s # k
    BY <2>1 DEF Issued
  <2> QED
    BY <2>1, <2>2, Alone DEF Issued
<1>3. ASSUME NEW s \in sessions \ sessions', EntityOf[opener[s]] = Entity(k) PROVE FALSE
  <2>1. PICK j \in Calls :
          /\ at'[j] # at[j]
          /\ \/ at[j] \in {"drop", "rotate", "reject"} /\ s \in {found[j], token[j]}
             \/ at[j] = "purge" /\ EntityOf[opener[s]] = Entity(j)
    BY DEF Effect, Deleted
  <2>2. s # NoSession
    BY SessionsAssumption DEF IInv, TypeOK
  <2>3. Entity(j) = Entity(k)
    BY <1>3, <2>1, <2>2 DEF IInv, Owned
  <2> QED
    BY <2>1, <2>3, Alone DEF Issued
<1> QED
  BY <1>1, <1>2, <1>3

LEMMA StepOneEach ==
  ASSUME IInv, TypeOK', Effect, NEW e \in Entities, OneByOne(e), OneEach(e),
         \A k \in Calls : Entity(k) = e => Relied(k)
  PROVE  OneEach(e)'
<1> SUFFICES ASSUME NEW s \in sessions', NEW t \in sessions',
                    EntityOf[opener'[s]] = e, SameAgent(opener'[s], opener'[t])
             PROVE  s = t
  BY DEF OneEach, SameAgent
<1>1. \A r \in sessions : opener'[r] = opener[r]
  BY DEF IInv, TypeOK, KnownIssued, Effect, Frozen
<1>2. \A r \in sessions' \ sessions : r \in Calls /\ at[r] = "create" /\ opener'[r] = client[r]
  BY DEF TypeOK, Effect, Inserted
<1>3. ASSUME NEW q \in sessions' \ sessions, NEW r \in sessions, EntityOf[opener'[q]] = e
      PROVE  ~SameAgent(opener'[q], opener'[r])
  <2>1. q \in Calls /\ at[q] = "create" /\ opener'[q] = client[q] /\ Entity(q) = e
    BY <1>2, <1>3 DEF Entity
  <2>2. Matching(q) = {}
    BY <2>1 DEF Relied
  <2> QED
    BY <1>1, <2>1, <2>2 DEF Matching, SameAgent
<1>4. ASSUME NEW q \in sessions' \ sessions, NEW r \in sessions' \ sessions,
             EntityOf[opener'[q]] = e, EntityOf[opener'[r]] = e
      PROVE  q = r
  BY <1>2, <1>4, Alone DEF Issued, Entity
<1>5. EntityOf[opener'[t]] = e
  BY DEF SameAgent
<1>6. CASE s \in sessions /\ t \in sessions
  BY <1>1, <1>6 DEF OneEach
<1>7. CASE s \notin sessions /\ t \in sessions
  BY <1>3, <1>7
<1>8. CASE s \in sessions /\ t \notin sessions
  BY <1>3, <1>5, <1>8 DEF SameAgent
<1> QED
  BY <1>4, <1>5, <1>6, <1>7, <1>8

(* What a call knows of its entity's rows holds until its next step.        *)
LEMMA StaysRelied ==
  ASSUME IInv, TypeOK', Effect, NEW k \in Calls, Relied(k), OneByOne(Entity(k)),
         at[k] # "new", ~Issued(k), Stays(k)
  PROVE  Relied(k)'
<1>1. /\ kind'[k] = kind[k] /\ client'[k] = client[k] /\ token'[k] = token[k]
      /\ at'[k] = at[k] /\ found'[k] = found[k] /\ expired \subseteq expired'
  BY DEF Effect, Kept, Stays, Grown
<1>2. \A s \in Calls : Issued(s) => opener'[s] = opener[s]
  BY DEF Effect, Frozen
<1>3. {s \in sessions' : EntityOf[opener'[s]] = Entity(k)}
        = {s \in sessions : EntityOf[opener[s]] = Entity(k)}
  BY <1>1, SameTable
<1>4. \A s \in sessions : s \in Calls /\ Issued(s) /\ opener'[s] = opener[s]
  BY <1>2 DEF IInv, TypeOK, KnownIssued
<1>5. Matching(k)' = Matching(k)
  BY <1>1, <1>3, <1>4 DEF Matching, SameAgent, Entity
<1>6. Held(k)' = Held(k) /\ \A s \in Held(k) : s \in Calls => Issued(s)
  BY <1>1 DEF Held, IInv, KnownIssued
<1>7. token[k] \in sessions => token[k] \in sessions'
  <2> SUFFICES ASSUME token[k] \in sessions PROVE token[k] \in sessions'
    OBVIOUS
  <2>1. EntityOf[opener[token[k]]] = Entity(k)
    BY SessionsAssumption DEF IInv, TypeOK, Owned
  <2> QED
    BY <1>3, <2>1
<1>8. kind[k] # "login" /\ token[k] \notin sessions => token[k] \notin sessions'
  <2> SUFFICES ASSUME kind[k] # "login", token[k] \notin sessions
               PROVE  token[k] \notin sessions'
    OBVIOUS
  <2>1. Issued(token[k])
    BY SessionsAssumption DEF IInv, Bearing, KnownIssued
  <2> QED
    BY <2>1, NoReturn
<1>9. at[k] = "drop" /\ kind[k] = "login" =>
        Matching(k) = {found[k]} \ {NoSession} /\ Matching(k)' \subseteq expired'
  BY <1>1, <1>5 DEF Relied
<1>10. at[k] = "create" =>
         /\ Matching(k)' = {}
         /\ \A s \in Held(k)' : /\ s \in Calls /\ SameAgent(opener[s], client[k])'
                                /\ kind[k] = "login" => s \in expired'
  BY <1>1, <1>2, <1>5, <1>6 DEF Relied, SameAgent
<1>11. at[k] = "rotate" => token[k] \in sessions' /\ SameAgent(opener'[token[k]], client[k])
  BY <1>4, <1>7 DEF Relied
<1>12. at[k] = "purge" => kind[k] # "login" /\ (token[k] \notin sessions' \/ Unread)
  BY <1>1, <1>8 DEF Relied
<1> QED
  BY <1>1, <1>5, <1>7, <1>9, <1>10, <1>11, <1>12 DEF Relied, SameAgent

LEMMA StepRelied ==
  ASSUME IInv, TypeOK', Effect, NEW k \in Calls, Relied(k), OneByOne(Entity(k)),
         OneByOne(Entity(k))', Entity(k)' = Entity(k), OneEach(Entity(k)), at[k] # "new"
  PROVE  Relied(k)'
<1>1. CASE at'[k] \notin {"drop", "create", "rotate", "reject", "purge"}
  BY <1>1 DEF Relied
<1>2. CASE at'[k] \in {"drop", "create", "rotate", "reject", "purge"} /\ ~Stays(k)
  <2>1. /\ ~Issued(k) /\ at[k] \in Steps
        /\ kind'[k] = kind[k] /\ client'[k] = client[k] /\ token'[k] = token[k]
        /\ k \notin swallowed' /\ expired \subseteq expired'
    BY <1>2 DEF IInv, TypeOK, Effect, Frozen, Kept, Issued, OneByOne, Grown
  <2>2. \A s \in Calls : Issued(s) => opener'[s] = opener[s]
    BY DEF Effect, Frozen
  <2>3. \A s \in sessions : s \in Calls /\ Issued(s) /\ opener'[s] = opener[s]
    BY <2>2 DEF IInv, TypeOK, KnownIssued
  <2>4. CASE at[k] = "find"
    <3>1. sessions' = sessions /\ Matching(k)' = Matching(k)
      BY <1>2, <2>1, <2>3, <2>4 DEF Effect, Moves, Found, Matching, SameAgent
    <3>2. CASE at'[k] = "drop" /\ kind[k] = "login"
      <4>1. \/ \E s \in Matching(k) : found'[k] = s /\ s \in expired
            \/ found'[k] = found[k] /\ Matching(k) = {}
        BY <1>2, <2>1, <2>4, <3>2 DEF Effect, Moves, Found, Goes, Answers
      <4>2. \A s, t \in Matching(k) : s = t
        BY DEF OneEach, Matching, SameAgent, Entity
      <4>3. found[k] = NoSession
        BY <2>4 DEF IInv, Seeking
      <4>4. NoSession \notin Matching(k)
        BY SessionsAssumption DEF Matching, IInv, TypeOK
      <4>5. Matching(k) = {found'[k]} \ {NoSession} /\ Matching(k) \subseteq expired
        BY <4>1, <4>2, <4>3, <4>4
      <4> QED
        BY <2>1, <3>1, <3>2, <4>5 DEF Relied
    <3>3. CASE kind[k] # "login"
      <4>1. \/ /\ token[k] \in sessions
               /\ \/ at'[k] = "drop" \/ at'[k] = "reject"
                  \/ at'[k] = "rotate" /\ SameAgent(opener[token[k]], client[k])
            \/ at'[k] = "purge" /\ (token[k] \notin sessions \/ Unread)
        BY <1>2, <2>1, <2>4, <3>3 DEF Effect, Moves, Found, Goes, Answers
      <4> QED
        BY <2>1, <2>3, <3>1, <3>3, <4>1 DEF Relied, SameAgent
    <3>4. kind[k] = "login" => at'[k] = "drop"
      BY <1>2, <2>4 DEF Effect, Moves, Found, Goes, Answers
    <3> QED
      BY <3>2, <3>3, <3>4
  <2>5. CASE at[k] = "drop"
    <3>1. /\ at'[k] = "create" /\ kind[k] = "login" /\ found'[k] = found[k]
          /\ sessions' = sessions \ {found[k]}
      BY <1>2, <2>1, <2>5 DEF Effect, Moves, Dropped, Goes, Answers
    <3>2. Matching(k) = {found[k]} \ {NoSession} /\ Matching(k) \subseteq expired
      BY <2>5, <3>1 DEF Relied
    <3>3. Matching(k)' = {}
      <4>1. \A s \in sessions' : SameAgent(opener'[s], client[k]) => s \in Matching(k) /\ s # found[k]
        BY <2>3, <3>1 DEF Matching
      <4> QED
        BY <2>1, <3>2, <4>1 DEF Matching, SameAgent
    <3>4. \A s \in Held(k)' : s \in Matching(k)
      BY <2>1, <3>1, <3>2 DEF Held
    <3>5. \A s \in Held(k)' : /\ s \in Calls /\ SameAgent(opener[s], client[k])'
                              /\ s \in expired'
      BY <2>1, <2>3, <3>2, <3>4 DEF Matching, SameAgent
    <3> QED
      BY <3>1, <3>3, <3>5 DEF Relied
  <2>6. CASE at[k] = "rotate"
    <3>1. at'[k] = "create" /\ sessions' = sessions \ {token[k]}
      BY <1>2, <2>6 DEF Effect, Moves, Rotated, Goes, Answers
    <3>2. token[k] \in sessions /\ SameAgent(opener[token[k]], client[k])
      BY <2>6 DEF Relied
    <3>3. kind[k] # "login"
      BY <2>6 DEF IInv, Seeking
    <3>4. Matching(k)' = {}
      BY <2>1, <2>3, <3>1, <3>2 DEF Matching, SameAgent, OneEach, Entity
    <3>5. \A s \in Held(k)' : s = token[k]
      BY <2>1, <3>3 DEF Held
    <3>6. \A s \in Held(k)' : s \in Calls /\ SameAgent(opener[s], client[k])'
      BY <2>1, <2>3, <3>2, <3>5 DEF SameAgent
    <3> QED
      BY <2>1, <3>1, <3>3, <3>4, <3>6 DEF Relied
  <2>7. CASE at[k] \in {"reject", "purge", "create"}
    BY <1>2, <2>7 DEF Effect, Moves, Rejected, Purged, Created, Goes, Answers
  <2> QED
    BY <2>1, <2>4, <2>5, <2>6, <2>7 DEF Steps, Issued
<1>3. CASE at'[k] \in {"drop", "create", "rotate", "reject", "purge"} /\ Stays(k)
  BY <1>3, StaysRelied DEF Stays, Issued
<1> QED
  BY <1>1, <1>2, <1>3

LEMMA InitOneInv == Init => OneInv
<1> SUFFICES ASSUME Init, NEW e \in Entities
             PROVE  OneEach(e) /\ \A k \in Calls : Relied(k)
  BY DEF OneInv
<1> QED
  BY DEF Init, OneEach, Relied

LEMMA StepOneInv == IInv /\ OneInv /\ [Next]_vars => OneInv'
<1> SUFFICES ASSUME IInv, OneInv, [Next]_vars, NEW e \in Entities, OneByOne(e)'
             PROVE  OneEach(e)' /\ \A k \in Calls : Entity(k)' = e => Relied(k)'
  BY DEF OneInv
<1>1. Effect /\ TypeOK'
  BY StepEffect, StepType DEF IInv
<1>2. OneByOne(e) /\ OneEach(e) /\ \A k \in Calls : Entity(k) = e => Relied(k)
  BY <1>1, OneByOneBefore DEF OneInv
<1>3. ASSUME NEW k \in Calls, Entity(k)' = e, at[k] # "new" PROVE Relied(k)'
  <2>1. Entity(k)' = Entity(k)
    BY <1>1, <1>3 DEF Effect, Kept, Entity
  <2> QED
    BY <1>1, <1>2, <1>3, <2>1, StepRelied
<1>4. ASSUME NEW k \in Calls, at[k] = "new" PROVE Relied(k)'
  BY <1>1, <1>4 DEF Effect, Begun, Relied
<1> QED
  BY <1>1, <1>2, <1>3, <1>4, StepOneEach

LEMMA OneInvariance == Spec => []OneInv
BY InitOneInv, StepOneInv, Invariance, PTL DEF Spec

(* As long as an entity's calls come one by one, it has one unexpired       *)
(* session at most for each User-Agent.                                     *)
THEOREM OneSession == Spec => []OneSessionPerAgent
<1>1. OneInv => OneSessionPerAgent
  <2> SUFFICES ASSUME OneInv, NEW c \in Clients, OneByOne(EntityOf[c])
               PROVE  Cardinality({s \in sessions \ expired : SameAgent(opener[s], c)}) <= 1
    BY DEF OneSessionPerAgent
  <2> DEFINE S == {s \in sessions \ expired : SameAgent(opener[s], c)}
  <2>1. \A s, t \in S : s = t
    BY DEF OneInv, OneEach, Entities, SameAgent
  <2>2. CASE S = {}
    BY <2>2, FS_EmptySet
  <2>3. CASE S # {}
    <3>1. PICK s \in S : TRUE
      BY <2>3
    <3>2. S = {s}
      BY <2>1, <3>1
    <3> QED
      BY <3>2, FS_Singleton
  <2> QED
    BY <2>2, <2>3
<1> QED
  BY <1>1, OneInvariance, PTL

-----------------------------------------------------------------------------
(* A call is one step of SessionService, the one that answers it.           *)

Quiet == \A e \in Entities : OneByOne(e)

Rows == sessions \cup UNION {Held(k) : k \in Calls}

(* The rows that the other calls are about to replace.                      *)
HeldByOthers(k) == UNION {Held(j) : j \in Calls \ {k}}

LEMMA RowsOf ==
  ASSUME NEW k \in Calls
  PROVE  Rows = sessions \cup Held(k) \cup HeldByOthers(k)
BY DEF Rows, HeldByOthers

(* Those belong to other entities than that of a call in progress.          *)
LEMMA OthersForeign ==
  ASSUME IInv, Quiet, NEW k \in Calls, at[k] # "new", ~Issued(k), NEW s \in HeldByOthers(k)
  PROVE  /\ s \in Calls /\ Issued(s)
         /\ EntityOf[opener[s]] # Entity(k)
<1>1. PICK j \in Calls \ {k} : s \in Held(j)
  BY DEF HeldByOthers
<1>2. /\ at[j] = "create" /\ s # NoSession
      /\ s = found[j] \/ s = token[j]
  BY <1>1 DEF Held
<1>3. s \in Calls /\ Issued(s) /\ EntityOf[opener[s]] = Entity(j)
  BY <1>1, <1>2 DEF IInv, TypeOK, KnownIssued, Owned
<1>4. Entity(j) # Entity(k)
  BY <1>2, Alone, EntityKnown DEF Quiet, Issued, IInv
<1> QED
  BY <1>3, <1>4

(* So what a call sees of the rows is what it and the table hold.           *)
LEMMA Sees ==
  ASSUME IInv, OneInv, Quiet, NEW k \in Calls, at[k] # "new", ~Issued(k)
  PROVE  /\ Service!OfAgent(client[k]) = Matching(k) \cup Held(k)
         /\ Service!OfEntity(client[k])
              = {s \in sessions : EntityOf[opener[s]] = Entity(k)} \cup Held(k)
         /\ Relied(k)
         /\ reply[k] = "none"
<1>1. Relied(k) /\ reply[k] = "none"
  BY EntityKnown DEF OneInv, Quiet, IInv, Replied
<1>2. \A s \in Held(k) : SameAgent(opener[s], client[k])
  BY <1>1 DEF Relied, Held
<1>3. Service!OfAgent(client[k]) = {s \in Rows : SameAgent(opener[s], client[k])}
  BY DEF Service!OfAgent, Service!SameAgent, SameAgent, Rows
<1>4. Service!OfEntity(client[k]) = {s \in Rows : EntityOf[opener[s]] = Entity(k)}
  BY DEF Service!OfEntity, Entity, Rows
<1>5. Rows = sessions \cup Held(k) \cup HeldByOthers(k)
  BY RowsOf
<1>6. \A s \in HeldByOthers(k) : EntityOf[opener[s]] # Entity(k)
  BY OthersForeign
<1>7. {s \in Rows : SameAgent(opener[s], client[k])} = Matching(k) \cup Held(k)
  BY <1>2, <1>5, <1>6 DEF Matching, SameAgent, Entity
<1>8. {s \in Rows : EntityOf[opener[s]] = Entity(k)}
        = {s \in sessions : EntityOf[opener[s]] = Entity(k)} \cup Held(k)
  BY <1>2, <1>5, <1>6 DEF SameAgent, Entity
<1> QED
  BY <1>1, <1>3, <1>4, <1>7, <1>8

(* The rows after a step of k.                                              *)
LEMMA RowsAfter ==
  ASSUME IInv, NEW k \in Calls,
         \A j \in Calls \ {k} : /\ at'[j] = at[j] /\ found'[j] = found[j]
                                /\ kind'[j] = kind[j] /\ token'[j] = token[j]
  PROVE  Rows' = sessions' \cup Held(k)' \cup HeldByOthers(k)
<1>1. \A j \in Calls \ {k} : Held(j)' = Held(j)
  BY DEF Held
<1>2. HeldByOthers(k)' = HeldByOthers(k)
  BY <1>1 DEF HeldByOthers
<1>3. Rows' = sessions' \cup Held(k)' \cup HeldByOthers(k)'
  BY DEF Rows, HeldByOthers
<1> QED
  BY <1>2, <1>3

LEMMA AnswersGiven ==
  ASSUME NEW k, NEW answers, NEW a \in answers, reply[k] = "none", Answer(k, a)
  PROVE  Service!Answer(k, answers)
BY DEF Service!Answer, Answer

LEMMA Serves ==
  ASSUME TypeOK, NEW k \in Calls, NEW c \in Clients, NEW s \in Calls,
         Service!Renew(k, c, s) \/ Service!Logout(k, c, s)
  PROVE  Service!ServiceNext
BY DEF Service!ServiceNext

LEMMA ServesLogin ==
  ASSUME TypeOK, NEW k \in Calls, NEW c \in Clients, Service!Login(k, c)
  PROVE  Service!ServiceNext
BY DEF Service!ServiceNext

LEMMA RowsStay ==
  ASSUME Rows' = Rows, expired' = expired, opener' = opener
  PROVE  /\ Service!Remove({})
         /\ reply' = reply => UNCHANGED Service!serviceVars
BY DEF Service!Remove, Service!serviceVars, Rows

(* An expired session is found again by the token, which is refused.        *)
LEMMA BeginServes ==
  ASSUME IInv, NEW k \in Calls, NEW c \in Clients, Login(k, c) \/ Renew(k, c) \/ Logout(k, c)
  PROVE  Service!ServiceNext \/ UNCHANGED Service!serviceVars
<1>1. PICK what : Begin(k, what, c)
  BY DEF Login, Renew, Logout
<1>2. /\ at[k] = "new" /\ found' = found /\ sessions' = sessions
      /\ expired' = expired /\ opener' = opener
      /\ \A j \in Calls \ {k} : kind'[j] = kind[j] /\ token'[j] = token[j]
  BY <1>1 DEF Begin, tableVars, IInv, TypeOK
<1>3. /\ at'[k] # "create" /\ \A j \in Calls \ {k} : at'[j] = at[j]
      /\ \/ reply' = reply
         \/ Answer(k, "invalid") /\ jar[c] \in expired
  BY DEF Login, Renew, Logout, Go, Answer, IInv, TypeOK
<1>4. Rows' = sessions' \cup Held(k)' \cup HeldByOthers(k)
  BY <1>2, <1>3, RowsAfter
<1>5. Rows' = Rows
  BY <1>2, <1>3, <1>4, RowsOf DEF Held
<1>6. CASE reply' = reply
  BY <1>2, <1>5, <1>6, RowsStay
<1>7. CASE Answer(k, "invalid") /\ jar[c] \in expired
  <2>1. jar[c] \in Calls
    BY <1>7 DEF IInv, TypeOK
  <2>2. reply[k] = "none"
    BY <1>2 DEF IInv, Replied, Issued
  <2>3. Service!Answer(k, {"invalid"}) /\ Service!Remove({})
    BY <1>2, <1>5, <1>7, <2>2, AnswersGiven, RowsStay
  <2>4. Service!Refuse(k, c, jar[c])
    BY <1>7, <2>3 DEF Service!Refuse
  <2> QED
    BY <2>1, <2>4, Serves DEF Service!Renew, IInv
<1> QED
  BY <1>3, <1>6, <1>7

(* A statement of k that leaves the rows alone and k without an answer.     *)
LEMMA OwnStep ==
  ASSUME IInv, NEW k \in Calls, NEW step,
         Go(k, step), kind' = kind, token' = token,
         \A j \in Calls \ {k} : found'[j] = found[j]
  PROVE  /\ Rows' = sessions' \cup Held(k)' \cup HeldByOthers(k)
         /\ at'[k] = step
<1>1. at'[k] = step /\ \A j \in Calls \ {k} : at'[j] = at[j]
  BY DEF Go, IInv, TypeOK
<1> QED
  BY <1>1, RowsAfter

LEMMA FindForLoginServes ==
  ASSUME IInv, OneInv, Quiet, NEW k \in Calls, FindForLogin(k)
  PROVE  Service!ServiceNext \/ UNCHANGED Service!serviceVars
<1>1. /\ at[k] = "find" /\ sessions' = sessions /\ expired' = expired /\ opener' = opener
      /\ kind' = kind /\ token' = token /\ Held(k) = {} /\ client[k] \in Clients
      /\ \A j \in Calls \ {k} : found'[j] = found[j]
  BY DEF FindForLogin, tableVars, callVars, Held, IInv, TypeOK
<1>2. /\ Service!OfAgent(client[k]) = Matching(k) /\ reply[k] = "none"
  BY <1>1, Sees DEF Issued
<1>3. \/ \E s \in Matching(k) : s \notin expired /\ Answer(k, "ok")
      \/ Go(k, "drop") /\ reply' = reply
      \/ Answer(k, "error")
  BY DEF FindForLogin, SelectFails
<1>4. \E step \in {"drop", "answered"} : Go(k, step)
  BY <1>3 DEF Answer
<1>5. Rows' = Rows
  BY <1>1, <1>4, OwnStep, RowsOf DEF Held
<1>6. CASE \E s \in Matching(k) : s \notin expired /\ Answer(k, "ok")
  <2>1. Service!OfAgent(client[k]) \ expired # {}
    BY <1>2, <1>6
  <2>2. Service!Answer(k, {"ok"})
    BY <1>2, <1>6, AnswersGiven
  <2>3. Service!Login(k, client[k])
    BY <1>1, <1>5, <2>1, <2>2 DEF Service!Login, Rows
  <2> QED
    BY <1>1, <2>3, ServesLogin DEF IInv
<1>7. CASE Go(k, "drop") /\ reply' = reply
  BY <1>1, <1>5, <1>7, RowsStay
<1>8. CASE Answer(k, "error")
  <2>1. Service!Answer(k, {"error"}) /\ Service!Remove({})
    BY <1>1, <1>2, <1>5, <1>8, AnswersGiven, RowsStay
  <2> QED
    BY <1>1, <2>1, ServesLogin DEF Service!Login, IInv
<1> QED
  BY <1>3, <1>6, <1>7, <1>8

LEMMA DropExpiredServes ==
  ASSUME IInv, OneInv, Quiet, NEW k \in Calls, DropExpired(k), k \notin swallowed'
  PROVE  Service!ServiceNext \/ UNCHANGED Service!serviceVars
<1>1. /\ at[k] = "drop" /\ kind[k] = "login" /\ Go(k, "create") /\ reply' = reply
      /\ sessions' = sessions \ {found[k]} /\ expired' = expired /\ opener' = opener
      /\ kind' = kind /\ token' = token /\ found' = found
  BY DEF DropExpired, Delete, callVars
<1>2. Matching(k) = {found[k]} \ {NoSession}
  BY <1>1, Sees DEF Issued, Relied
<1>3. Held(k) = {} /\ Rows' = sessions' \cup Held(k)' \cup HeldByOthers(k) /\ at'[k] = "create"
  BY <1>1, OwnStep DEF Held
<1>4. Held(k)' = {found[k]} \ {NoSession}
  BY <1>1, <1>3 DEF Held
<1>5. Held(k)' \subseteq sessions /\ NoSession \notin sessions
  BY <1>2, <1>4, SessionsAssumption DEF Matching, IInv, TypeOK
<1>6. Rows' = Rows
  BY <1>1, <1>3, <1>4, <1>5, RowsOf
<1> QED
  BY <1>1, <1>6, RowsStay

(* An error before any change answers a renewal and a logout alike.         *)
LEMMA FindByIDServes ==
  ASSUME IInv, OneInv, Quiet, NEW k \in Calls, FindByID(k)
  PROVE  Service!ServiceNext \/ UNCHANGED Service!serviceVars
<1>1. /\ at[k] = "find" /\ kind[k] # "login" /\ sessions' = sessions
      /\ expired' = expired /\ opener' = opener
      /\ kind' = kind /\ token' = token /\ found' = found
      /\ Held(k) = {} /\ client[k] \in Clients /\ token[k] \in Calls
  BY DEF FindByID, tableVars, callVars, Held, IInv, TypeOK, Bearing
<1>2. reply[k] = "none"
  BY <1>1, Sees DEF Issued
<1>3. \/ \E step \in {"drop", "reject", "rotate", "purge"} : Go(k, step) /\ reply' = reply
      \/ Answer(k, "error")
  BY DEF FindByID, SelectFails
<1>4. \E step \in {"drop", "reject", "rotate", "purge", "answered"} : Go(k, step)
  BY <1>3 DEF Answer
<1>5. Rows' = Rows
  BY <1>1, <1>4, OwnStep, RowsOf DEF Held
<1>6. CASE Answer(k, "error")
  <2>1. Service!Answer(k, {"error"}) /\ Service!Remove({})
    BY <1>1, <1>2, <1>5, <1>6, AnswersGiven, RowsStay
  <2>2. Service!Renew(k, client[k], token[k])
    BY <2>1 DEF Service!Renew, Service!Refuse
  <2> QED
    BY <1>1, <2>2, Serves DEF IInv
<1>7. CASE reply' = reply
  BY <1>1, <1>5, <1>7, RowsStay
<1> QED
  BY <1>3, <1>6, <1>7

(* What k deletes in the table, it deletes from the rows.                   *)
LEMMA DeletedRows ==
  ASSUME IInv, OneInv, Quiet, NEW k \in Calls, Go(k, "answered"),
         at[k] \in {"drop", "reject", "rotate", "purge"},
         NEW gone \in SUBSET {s \in sessions : EntityOf[opener[s]] = Entity(k)},
         kind' = kind, token' = token, found' = found
  PROVE  /\ sessions' = sessions \ gone => Rows' = Rows \ gone
         /\ sessions' = sessions => Rows' = Rows
<1>1. Rows' = sessions' \cup Held(k)' \cup HeldByOthers(k) /\ at'[k] = "answered"
  BY OwnStep
<1>2. Held(k) = {} /\ Held(k)' = {}
  BY <1>1 DEF Held
<1>3. \A s \in HeldByOthers(k) : s \notin gone
  BY OthersForeign DEF Issued
<1> QED
  BY <1>1, <1>2, <1>3, RowsOf

LEMMA PurgeServes ==
  ASSUME IInv, OneInv, Quiet, NEW k \in Calls, DeleteAllByEntityID(k)
  PROVE  Service!ServiceNext
<1>1. PICK gone : gone = {s \in sessions : EntityOf[opener[s]] = Entity(k)}
  OBVIOUS
<1>2. /\ at[k] = "purge" /\ client[k] \in Clients /\ Held(k) = {}
      /\ opener' = opener /\ expired' = expired
      /\ \/ sessions' = sessions \ gone /\ (Answer(k, "unknown") \/ Answer(k, "error"))
         \/ sessions' = sessions /\ Answer(k, "error")
      /\ kind' = kind /\ token' = token /\ found' = found
  BY <1>1 DEF DeleteAllByEntityID, Delete, DeleteFails, tableVars, callVars, IInv, TypeOK, Held
<1>3. /\ kind[k] # "login" /\ (token[k] \notin sessions \/ Unread) /\ reply[k] = "none"
      /\ Service!OfEntity(client[k]) = gone
  BY <1>1, <1>2, Sees DEF Issued, Relied
<1>4. token[k] \in Calls /\ EntityOf[opener[token[k]]] = Entity(k)
  BY <1>2, <1>3, SessionsAssumption DEF IInv, Bearing, Owned
<1>5. token[k] \notin Rows \/ Unread
  BY <1>2, <1>3, <1>4, RowsOf, OthersForeign DEF Issued
<1>6. Go(k, "answered")
  BY <1>2 DEF Answer
<1>7. /\ sessions' = sessions \ gone => Rows' = Rows \ gone
      /\ sessions' = sessions => Rows' = Rows
  BY <1>1, <1>2, <1>6, DeletedRows
<1>8. CASE sessions' = sessions \ gone /\ (Answer(k, "unknown") \/ Answer(k, "error"))
  <2>1. Service!Answer(k, {"unknown", "error"})
    BY <1>3, <1>8, AnswersGiven
  <2>2. Service!Remove(Service!OfEntity(client[k]))
    BY <1>2, <1>3, <1>7, <1>8 DEF Service!Remove, Rows
  <2>3. Service!Refuse(k, client[k], token[k])
    BY <1>5, <2>1, <2>2 DEF Service!Refuse, Rows
  <2> QED
    BY <1>2, <1>4, <2>3, Serves DEF Service!Renew, IInv
<1>9. CASE sessions' = sessions /\ Answer(k, "error")
  <2>1. Service!Answer(k, {"error"}) /\ Service!Remove({})
    BY <1>2, <1>3, <1>7, <1>9, AnswersGiven, RowsStay
  <2> QED
    BY <1>2, <1>4, <2>1, Serves DEF Service!Refuse, Service!Renew, IInv
<1> QED
  BY <1>2, <1>8, <1>9

(* The session of the token that k deletes.                                 *)
LEMMA TokenServes ==
  ASSUME IInv, OneInv, Quiet, NEW k \in Calls, NEW a,
         at[k] \in {"reject", "rotate"} \/ (at[k] = "drop" /\ kind[k] # "login"),
         \/ sessions' = sessions \ {token[k]} /\ (Answer(k, a) \/ Answer(k, "error"))
         \/ sessions' = sessions /\ Answer(k, "error"),
         opener' = opener, expired' = expired, kind' = kind, token' = token, found' = found
  PROVE  /\ token[k] \in Calls /\ client[k] \in Clients
         /\ \/ /\ token[k] \in Service!OfEntity(client[k])
               /\ Service!Remove({token[k]}) /\ Service!Answer(k, {a, "error"})
            \/ Service!Refuse(k, client[k], token[k])
<1>1. PICK gone : gone = {token[k]}
  OBVIOUS
<1>2. token[k] \in sessions /\ reply[k] = "none"
  BY Sees DEF Issued, Relied
<1>3. token[k] \in Calls /\ client[k] \in Clients /\ token[k] # NoSession
  BY <1>2, SessionsAssumption DEF IInv, TypeOK
<1>4. EntityOf[opener[token[k]]] = Entity(k)
  BY <1>3 DEF IInv, Owned
<1>5. token[k] \in Service!OfEntity(client[k])
  BY <1>2, <1>4, Sees DEF Issued
<1>6. Go(k, "answered")
  BY DEF Answer
<1>7. /\ gone \in SUBSET {s \in sessions : EntityOf[opener[s]] = Entity(k)}
      /\ at[k] \in {"drop", "reject", "rotate", "purge"}
  BY <1>1, <1>2, <1>4
<1>8. /\ sessions' = sessions \ gone => Rows' = Rows \ gone
      /\ sessions' = sessions => Rows' = Rows
  BY <1>6, <1>7, DeletedRows
<1>9. CASE sessions' = sessions \ gone /\ (Answer(k, a) \/ Answer(k, "error"))
  <2>1. Service!Answer(k, {a, "error"})
    BY <1>2, <1>9, AnswersGiven
  <2>2. Service!Remove({token[k]})
    BY <1>1, <1>8, <1>9 DEF Service!Remove, Rows
  <2> QED
    BY <1>3, <1>5, <2>1, <2>2
<1>10. CASE sessions' = sessions /\ Answer(k, "error")
  <2>1. Service!Answer(k, {"error"}) /\ Service!Remove({})
    BY <1>2, <1>8, <1>10, AnswersGiven, RowsStay
  <2> QED
    BY <1>3, <2>1 DEF Service!Refuse
<1> QED
  BY <1>1, <1>9, <1>10

LEMMA RejectServes ==
  ASSUME IInv, OneInv, Quiet, NEW k \in Calls, Reject(k)
  PROVE  Service!ServiceNext
<1>1. /\ at[k] = "reject"
      /\ \/ sessions' = sessions \ {token[k]} /\ (Answer(k, "invalid") \/ Answer(k, "error"))
         \/ sessions' = sessions /\ Answer(k, "error")
      /\ opener' = opener /\ expired' = expired
      /\ kind' = kind /\ token' = token /\ found' = found
  BY DEF Reject, Delete, DeleteFails, tableVars, callVars
<1>2. Service!Renew(k, client[k], token[k]) /\ token[k] \in Calls /\ client[k] \in Clients
  BY <1>1, TokenServes DEF Service!Renew
<1> QED
  BY <1>2, Serves DEF IInv

LEMMA DeleteOnLogoutServes ==
  ASSUME IInv, OneInv, Quiet, NEW k \in Calls, DeleteOnLogout(k)
  PROVE  Service!ServiceNext
<1>1. /\ at[k] = "drop" /\ kind[k] # "login"
      /\ \/ sessions' = sessions \ {token[k]} /\ (Answer(k, "ok") \/ Answer(k, "error"))
         \/ sessions' = sessions /\ Answer(k, "error")
      /\ opener' = opener /\ expired' = expired
      /\ kind' = kind /\ token' = token /\ found' = found
  BY DEF DeleteOnLogout, Delete, DeleteFails, tableVars, callVars
<1>2. Service!Logout(k, client[k], token[k]) /\ token[k] \in Calls /\ client[k] \in Clients
  BY <1>1, TokenServes DEF Service!Logout
<1> QED
  BY <1>2, Serves DEF IInv

(* The old session is held from its deletion to the insertion of the new.   *)
LEMMA RotateServes ==
  ASSUME IInv, OneInv, Quiet, NEW k \in Calls, Rotate(k)
  PROVE  Service!ServiceNext \/ UNCHANGED Service!serviceVars
<1>1. /\ at[k] = "rotate" /\ opener' = opener /\ expired' = expired
      /\ kind' = kind /\ token' = token /\ found' = found
      /\ \/ sessions' = sessions \ {token[k]} /\ Go(k, "create") /\ reply' = reply
         \/ sessions' = sessions \ {token[k]} /\ Answer(k, "error")
         \/ sessions' = sessions /\ Answer(k, "error")
  BY DEF Rotate, Delete, DeleteFails, tableVars, callVars
<1>2. CASE sessions' = sessions \ {token[k]} /\ Go(k, "create") /\ reply' = reply
  <2>0. Relied(k) /\ kind[k] # "login"
    BY <1>1, Sees DEF IInv, Seeking, Issued
  <2>1. token[k] \in sessions /\ kind[k] # "login" /\ token[k] # NoSession
    BY <1>1, <2>0, SessionsAssumption DEF Relied, IInv, TypeOK
  <2>2. Rows' = sessions' \cup Held(k)' \cup HeldByOthers(k) /\ at'[k] = "create"
    BY <1>1, <1>2, OwnStep
  <2>3. Held(k) = {} /\ Held(k)' = {token[k]}
    BY <1>1, <2>1, <2>2 DEF Held
  <2>4. Rows' = Rows
    BY <1>2, <2>1, <2>2, <2>3, RowsOf
  <2> QED
    BY <1>1, <1>2, <2>4, RowsStay
<1>3. CASE \/ sessions' = sessions \ {token[k]} /\ (Answer(k, "invalid") \/ Answer(k, "error"))
           \/ sessions' = sessions /\ Answer(k, "error")
  <2>1. Service!Renew(k, client[k], token[k]) /\ token[k] \in Calls /\ client[k] \in Clients
    BY <1>1, <1>3, TokenServes DEF Service!Renew
  <2> QED
    BY <2>1, Serves DEF IInv
<1> QED
  BY <1>1, <1>2, <1>3

(* The insertion puts the new session in the place of the held one.         *)
LEMMA CreateServes ==
  ASSUME IInv, OneInv, Quiet, NEW k \in Calls, Create(k)
  PROVE  Service!ServiceNext
<1>1. /\ at[k] = "create" /\ kind' = kind /\ token' = token /\ expired' = expired
      /\ \A j \in Calls \ {k} : found'[j] = found[j]
      /\ client[k] \in Clients
      /\ \/ /\ sessions' = sessions \cup {k} /\ opener' = [opener EXCEPT ![k] = client[k]]
            /\ Answer(k, "ok") \/ Answer(k, "error")
         \/ /\ sessions' = sessions /\ opener' = opener
            /\ Answer(k, "error")
  BY DEF Create, Insert, tableVars, callVars, IInv, TypeOK
<1>2. /\ Service!OfAgent(client[k]) = Held(k) /\ reply[k] = "none"
      /\ Matching(k) = {} /\ Held(k) \subseteq Service!OfEntity(client[k])
      /\ \A s \in Held(k) : /\ s \in Calls /\ SameAgent(opener[s], client[k])
                            /\ kind[k] = "login" => s \in expired
  BY <1>1, Sees DEF Issued, Relied
<1>3. Go(k, "answered")
  BY <1>1 DEF Answer
<1>4. Rows' = sessions' \cup Held(k)' \cup HeldByOthers(k) /\ at'[k] = "answered"
  BY <1>1, <1>3, OwnStep
<1>5. Held(k)' = {}
  BY <1>4 DEF Held
<1>6. \A s \in Held(k) : s \notin sessions /\ s \notin HeldByOthers(k)
  BY <1>1, <1>2, OthersForeign DEF Matching, SameAgent, Entity, Issued
<1>7. Rows = sessions \cup Held(k) \cup HeldByOthers(k)
  BY RowsOf
<1>8. \/ /\ Service!Replace(Held(k), k, client[k]) /\ Service!Answer(k, {"ok", "error"})
      \/ /\ Service!Remove(Held(k)) /\ Service!Answer(k, {"error"})
  <2>1. CASE /\ sessions' = sessions \cup {k} /\ opener' = [opener EXCEPT ![k] = client[k]]
             /\ Answer(k, "ok") \/ Answer(k, "error")
    <3>1. Rows' = (Rows \ Held(k)) \cup {k}
      BY <1>4, <1>5, <1>6, <1>7, <2>1
    <3>2. Service!Answer(k, {"ok", "error"})
      BY <1>2, <2>1, AnswersGiven
    <3> QED
      BY <1>1, <2>1, <3>1, <3>2 DEF Service!Replace, Rows
  <2>2. CASE sessions' = sessions /\ opener' = opener /\ Answer(k, "error")
    <3>1. Rows' = Rows \ Held(k)
      BY <1>4, <1>5, <1>6, <1>7, <2>2
    <3>2. Service!Answer(k, {"error"})
      BY <1>2, <2>2, AnswersGiven
    <3> QED
      BY <1>1, <2>2, <3>1, <3>2 DEF Service!Remove, Rows
  <2> QED
    BY <1>1, <2>1, <2>2
<1>9. CASE kind[k] = "login"
  <2>1. Service!OfAgent(client[k]) \subseteq expired
    BY <1>2, <1>9
  <2>2. Service!Login(k, client[k])
    BY <1>2, <1>8, <2>1 DEF Service!Login
  <2> QED
    BY <1>1, <2>2, ServesLogin DEF IInv
<1>10. CASE kind[k] # "login"
  <2>1. token[k] \in Calls /\ Held(k) = {token[k]}
    BY <1>1, <1>10, SessionsAssumption DEF IInv, Bearing, Held
  <2>2. Service!Answer(k, {"error"}) => Service!Answer(k, {"invalid", "error"})
    BY DEF Service!Answer
  <2>3. token[k] \in Service!OfAgent(client[k]) /\ token[k] \in Service!OfEntity(client[k])
    BY <1>2, <2>1
  <2>4. Service!Renew(k, client[k], token[k])
    BY <1>8, <2>1, <2>2, <2>3 DEF Service!Renew
  <2> QED
    BY <1>1, <2>1, <2>4, Serves DEF IInv
<1> QED
  BY <1>9, <1>10

LEMMA DeliveryServes ==
  ASSUME IInv, NEW k \in Calls, Deliver(k) \/ LoseAnswer(k)
  PROVE  UNCHANGED Service!serviceVars
<1>1. /\ at[k] = "answered" /\ Go(k, "done") /\ sessions' = sessions /\ opener' = opener
      /\ kind' = kind /\ token' = token /\ found' = found /\ expired' = expired /\ reply' = reply
  BY DEF Deliver, LoseAnswer, tableVars, callVars
<1>2. Rows' = sessions' \cup Held(k)' \cup HeldByOthers(k) /\ at'[k] = "done"
  BY <1>1, OwnStep
<1>3. Rows' = Rows
  BY <1>1, <1>2, RowsOf DEF Held
<1> QED
  BY <1>1, <1>3, RowsStay

LEMMA ExpireServes ==
  ASSUME NEW s \in Calls, Expire(s)
  PROVE  Service!ServiceNext
<1>1. /\ s \in sessions \ expired /\ expired' = expired \cup {s} /\ reply' = reply
      /\ sessions' = sessions /\ opener' = opener
      /\ at' = at /\ kind' = kind /\ token' = token /\ found' = found
  BY DEF Expire, tableVars, callVars
<1>2. Rows' = Rows /\ s \in Rows
  BY <1>1 DEF Rows, Held
<1>3. Service!Expire(s)
  BY <1>1, <1>2 DEF Service!Expire, Rows
<1> QED
  BY <1>2, <1>3 DEF Service!ServiceNext, Rows

(* As long as the calls of each entity come one by one, the statements of   *)
(* a login, a renewal or a logout amount to one step of SessionService.     *)
THEOREM CallsServe == Spec => CallsAreAtomic
<1>1. Init => Service!ServiceInit
  <2> SUFFICES ASSUME Init PROVE Service!ServiceInit
    OBVIOUS
  <2>1. \A k \in Calls : Held(k) = {}
    BY DEF Init, Held
  <2>2. opener \in [Calls -> Clients]
    BY InitType DEF TypeOK
  <2> QED
    BY <2>1, <2>2 DEF Init, Service!ServiceInit
<1>2. IInv /\ OneInv /\ [Next]_vars 
        => [(\A c \in Clients : OneByOne(EntityOf[c])') => Service!ServiceNext]_(Service!serviceVars)
  <2> SUFFICES ASSUME IInv, OneInv, [Next]_vars, \A c \in Clients : OneByOne(EntityOf[c])'
               PROVE  Service!ServiceNext \/ UNCHANGED Service!serviceVars
    OBVIOUS
  <2>1. \A e \in Entities : OneByOne(e)'
    BY DEF Entities
  <2>2. Effect /\ TypeOK /\ TypeOK'
    BY StepEffect, StepType DEF IInv
  <2>3. Quiet
    BY <2>1, <2>2, OneByOneBefore DEF Quiet
  <2>4. \A k \in Calls : k \notin swallowed'
    BY <2>1, <2>2 DEF OneByOne, TypeOK, Entity, Entities
  <2>5. ASSUME NEW k \in Calls, Step(k)
        PROVE  Service!ServiceNext \/ UNCHANGED Service!serviceVars
    BY <2>3, <2>4, <2>5, FindForLoginServes, DropExpiredServes, FindByIDServes, PurgeServes,
       RejectServes, RotateServes, DeleteOnLogoutServes, CreateServes, DeliveryServes
    DEF Step
  <2>6. CASE UNCHANGED vars
    BY <2>6 DEF vars, tableVars, callVars, Service!serviceVars, Held
  <2> QED
    BY <2>5, <2>6, BeginServes, ExpireServes DEF Next, Terminating
<1> QED
  BY <1>1, <1>2, Invariance, OneInvariance, PTL DEF Spec, CallsAreAtomic
=============================================================================
