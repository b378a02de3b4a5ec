------------------------------- MODULE Accounts -------------------------------
(***************************************************************************)
(* Accounts and what they open: registerUser, loginUser and loginAdmin up  *)
(* to the point where they call the session service, and AuthWithContext,  *)
(* which lets an admin's access token through to POST /products.           *)
(*                                                                         *)
(* A registration looks its email up in the table users, hashes the        *)
(* password (slowly, by design) and inserts a row, in separate statements. *)
(* The row's user_id is drawn by the database: the call that inserts it is *)
(* its id.  Nothing inserts admins: their rows are there from the start.   *)
(* A login finds the row of its email, the zero one if there is none, and  *)
(* compares passwords; a comparison is equality of the passwords hashed.   *)
(*                                                                         *)
(* The access token of a login names the account and its type.  No table   *)
(* knows it: it is good until it expires.  Sessions (the module) says what *)
(* becomes of the refresh token.                                           *)
(***************************************************************************)
EXTENDS Responses, FiniteSets

CONSTANTS
  Calls,              \* the requests, each made at most once
  Emails, Passwords,
  Admins,             \* admin_ids of the rows of table admins
  AdminEmail, AdminPassword,
  Failures,           \* of a statement: "fail", "lost" (after its effect), "unread"
  Nobody              \* uuid.Nil, also the zero row's id

ASSUME AccountsAssumption ==
  /\ Emails # {} /\ Passwords # {}
  /\ Calls \cap Admins = {}
  /\ Nobody \notin Calls \cup Admins
  /\ AdminEmail \in [Admins -> Emails]
  /\ AdminPassword \in [Admins -> Passwords]
  /\ Failures \subseteq {"fail", "lost", "unread"}

VARIABLES
  users,      \* the user_ids in the table
  expired,    \* the logins whose access token has expired
  at,         \* at[k]: the next step of call k
  kind, email, password, \* of call k: what, and its payload
  found,      \* found[k]: the account k has looked up
  token,      \* token[k]: the login whose access token k carries
  actsAs,     \* actsAs[k]: the entity that the middleware put into k's context
  reply,      \* reply[k]: the status of k's answer
  before,     \* history: before[k], the calls answered when k began
  fault       \* history: fault[k], what went wrong beneath k

payload == <<kind, email, password, token, before>>
vars == <<users, expired, at, payload, found, actsAs, reply, fault>>

Kinds    == {"register", "login", "loginAdmin", "create"}
Steps    == {"new", "find", "insert", "enter", "create", "done"}
Accounts == Calls \cup Admins

TypeOK ==
  /\ users \subseteq Calls
  /\ expired \subseteq Calls
  /\ at \in [Calls -> Steps]
  /\ kind \in [Calls -> Kinds]
  /\ email \in [Calls -> Emails]
  /\ password \in [Calls -> Passwords]
  /\ found \in [Calls -> Accounts \cup {Nobody}]
  /\ token \in [Calls -> Calls \cup {Nobody}]
  /\ actsAs \in [Calls -> Accounts \cup {Nobody}]
  /\ reply \in [Calls -> Statuses]
  /\ before \in [Calls -> SUBSET Calls]
  /\ fault \in [Calls -> SUBSET {"unreadable", "failed", "missed"}]

Init ==
  /\ users = {}
  /\ expired = {}
  /\ at = [k \in Calls |-> "new"]
  /\ kind = [k \in Calls |-> "register"]
  /\ email = [k \in Calls |-> CHOOSE e \in Emails : TRUE]
  /\ password = [k \in Calls |-> CHOOSE p \in Passwords : TRUE]
  /\ found = [k \in Calls |-> Nobody]
  /\ token = [k \in Calls |-> Nobody]
  /\ actsAs = [k \in Calls |-> Nobody]
  /\ reply = [k \in Calls |-> NoAnswer]
  /\ before = [k \in Calls |-> {}]
  /\ fault = [k \in Calls |-> {}]

-----------------------------------------------------------------------------
Go(k, step) == at' = [at EXCEPT ![k] = step] /\ UNCHANGED reply

Answer(k, status) ==
  /\ at' = [at EXCEPT ![k] = "done"]
  /\ reply' = [reply EXCEPT ![k] = status]

Fault(k, f) == fault' = [fault EXCEPT ![k] = @ \cup {f}]

Begin(k, what) ==
  /\ at[k] = "new"
  /\ kind' = [kind EXCEPT ![k] = what]
  /\ before' = [before EXCEPT ![k] = {j \in Calls : reply[j] # NoAnswer}]
  /\ UNCHANGED <<users, expired, found>>

Give(k, e, p) ==
  /\ email' = [email EXCEPT ![k] = e]
  /\ password' = [password EXCEPT ![k] = p]
  /\ UNCHANGED <<token, actsAs>>

(* registerUserHandler: parse, validate, then the service.                  *)
Register(k, e, p) ==
  /\ Begin(k, "register")
  /\ Give(k, e, p)
  /\ Go(k, "find")
  /\ UNCHANGED fault

RegisterRefused(k, body) ==
  /\ Begin(k, "register")
  /\ Answer(k, Refusal(body))
  /\ Fault(k, "unreadable")
  /\ UNCHANGED <<email, password, token, actsAs>>

(* loginUserHandler of both features: nothing is validated, and an error of *)
(* ParseJSON is passed on as it is.                                         *)
Login(k, what, e, p) ==
  /\ Begin(k, what)
  /\ Give(k, e, p)
  /\ Go(k, "find")
  /\ UNCHANGED fault

LoginRefused(k, what, body) ==
  /\ Begin(k, what)
  /\ Answer(k, IF ParseJSON(body) THEN Aborted ELSE MakeHandler(OtherError))
  /\ Fault(k, "unreadable")
  /\ UNCHANGED <<email, password, token, actsAs>>

-----------------------------------------------------------------------------
(* The tables.                                                              *)

EmailOf(a)    == IF a \in Admins THEN AdminEmail[a] ELSE email[a]
PasswordOf(a) == IF a \in Admins THEN AdminPassword[a] ELSE password[a]

(* Mutant: the users are searched whatever feature asks.                    *)
RowsOfUsers(k) == {a \in users \cup Admins : EmailOf(a) = email[k]}

(* SELECT ... WHERE email = $1, on the table of the feature.                *)
Rows(k) ==
  {a \in (IF kind[k] = "loginAdmin" THEN Admins ELSE users) : EmailOf(a) = email[k]}

StatementFails(k) ==
  /\ Failures \cap {"fail", "lost"} # {}
  /\ Answer(k, MakeHandler(OtherError))
  /\ Fault(k, "failed")

(* findByEmail: the row scanned last, in any order, or the zero one.  When  *)
(* fetching breaks off rows.Err is not asked: what has been scanned counts. *)
FindByEmail(k, next) ==
  /\ at[k] = "find"
  /\ \/ /\ \/ \E a \in Rows(k) : found' = [found EXCEPT ![k] = a]
           \/ Rows(k) = {} /\ UNCHANGED found
        /\ next
        /\ UNCHANGED fault
     \/ /\ "unread" \in Failures /\ Rows(k) # {}
        /\ UNCHANGED found
        /\ next
        /\ Fault(k, "missed")
     \/ StatementFails(k) /\ UNCHANGED found
  /\ UNCHANGED <<users, expired, payload, actsAs>>

(* Mutant: the row is inserted even if the email has been found.            *)
LookUpIgnored(k) ==
  /\ kind[k] = "register"
  /\ FindByEmail(k, Go(k, "insert"))

(* Mutant: the service's own error reaches MakeHandler as it is.            *)
LookUpUnmapped(k) ==
  /\ kind[k] = "register"
  /\ FindByEmail(k, IF found'[k] = Nobody THEN Go(k, "insert")
                                          ELSE Answer(k, MakeHandler(OtherError)))

(* registerUser: an email that is there is a conflict.                      *)
LookUp(k) ==
  /\ kind[k] = "register"
  /\ FindByEmail(k, IF found'[k] = Nobody
                    THEN Go(k, "insert")
                    ELSE Answer(k, MakeHandler(ServerError(Conflict))))

(* The password has been hashed; INSERT INTO users.                         *)
Insert(k) ==
  /\ at[k] = "insert"
  /\ \/ /\ users' = users \cup {k}
        /\ Answer(k, 201)
        /\ UNCHANGED fault
     \/ /\ StatementFails(k)
        /\ \/ "fail" \in Failures /\ UNCHANGED users
           \/ "lost" \in Failures /\ users' = users \cup {k}
  /\ UNCHANGED <<expired, payload, found, actsAs>>

(* comparePassword: no password matches the zero row's empty hash.          *)
PasswordMatches(k, a) == a # Nobody /\ PasswordOf(a) = password[k]

LogIn(k) ==
  /\ kind[k] \in {"login", "loginAdmin"}
  /\ FindByEmail(k, IF PasswordMatches(k, found'[k])
                    THEN Go(k, "enter")
                    ELSE Answer(k, MakeHandler(ServerError(Unauthorized))))

(* LoginEntity (see Sessions): cookies with an access token, or an error.   *)
Enter(k) ==
  /\ at[k] = "enter"
  /\ \/ Answer(k, 201) /\ UNCHANGED fault
     \/ StatementFails(k)
  /\ UNCHANGED <<users, expired, payload, found, actsAs>>

-----------------------------------------------------------------------------
(* Access tokens.                                                           *)

Tokens == {j \in Calls : kind[j] \in {"login", "loginAdmin"} /\ reply[j] = 201}

EntityType(j) == IF kind[j] = "loginAdmin" THEN "admin" ELSE "user"

Expire(j) ==
  /\ j \in Tokens \ expired
  /\ expired' = expired \cup {j}
  /\ UNCHANGED <<users, at, payload, found, actsAs, reply, fault>>

(* Mutant: the entity's type is not compared.                               *)
AdmitsAnyone(j) == j \notin expired

(* ValidateAccessToken and the type that the route asks for.                *)
Admits(j) == j \notin expired /\ EntityType(j) = "admin"

(* AuthWithContext(createProductHandler, "admin"), with the token of j.     *)
CreateProduct(k, j, body) ==
  /\ Begin(k, "create")
  /\ j \in Tokens
  /\ token' = [token EXCEPT ![k] = j]
  /\ IF Admits(j)
     THEN /\ actsAs' = [actsAs EXCEPT ![k] = found[j]]
          /\ IF body = "valid" THEN Go(k, "create") ELSE Answer(k, Refusal(body))
     ELSE Answer(k, MakeHandler(ServerError(Unauthorized))) /\ UNCHANGED actsAs
  /\ IF Admits(j) /\ body # "valid" THEN Fault(k, "unreadable") ELSE UNCHANGED fault
  /\ UNCHANGED <<email, password>>

(* No cookie, or one that does not parse, which is answered as any error.   *)
CreateWithoutToken(k, cookie) ==
  /\ Begin(k, "create")
  /\ IF cookie = "none"
     THEN Answer(k, MakeHandler(ServerError(Unauthorized))) /\ UNCHANGED fault
     ELSE Answer(k, MakeHandler(OtherError)) /\ Fault(k, "unreadable")
  /\ UNCHANGED <<email, password, token, actsAs>>

(* service.createProduct (see ProductCatalog).                              *)
Created(k) ==
  /\ at[k] = "create"
  /\ \/ Answer(k, 200) /\ UNCHANGED fault
     \/ Answer(k, MakeHandler(ServerError(Conflict))) /\ UNCHANGED fault
     \/ StatementFails(k)
  /\ UNCHANGED <<users, expired, payload, found, actsAs>>

-----------------------------------------------------------------------------
Arrive(k) ==
  \/ \E e \in Emails, p \in Passwords :
       \/ Register(k, e, p)
       \/ \E what \in {"login", "loginAdmin"} : Login(k, what, e, p)
  \/ \E body \in Bodies \ {"valid"} : RegisterRefused(k, body)
  \/ \E body \in {"malformed", "null"}, what \in {"login", "loginAdmin"} :
       LoginRefused(k, what, body)
  \/ \E j \in Calls, body \in Bodies : CreateProduct(k, j, body)
  \/ \E cookie \in {"none", "garbage"} : CreateWithoutToken(k, cookie)

Step(k) ==
  \/ LookUp(k)
  \/ Insert(k)
  \/ LogIn(k)
  \/ Enter(k)
  \/ Created(k)

Terminating == (\A k \in Calls : at[k] = "done") /\ UNCHANGED vars

Next ==
  \/ \E k \in Calls : Arrive(k) \/ Step(k) \/ Expire(k)
  \/ Terminating

Spec == Init /\ [][Next]_vars

-----------------------------------------------------------------------------
(* Properties.                                                              *)

Overlap(j, k) == j \notin before[k] /\ k \notin before[j]

(* Two accounts share an email only if their registrations overlapped, each *)
(* looking the email up before the other had inserted it, or if the look-up *)
(* of one of them lost its rows on the way.  The code has nothing else to   *)
(* keep emails apart.                                                       *)
OneAccountPerEmail ==
  \A j, k \in users :
    j # k /\ email[j] = email[k] =>
      Overlap(j, k) \/ "missed" \in fault[j] \cup fault[k]

(* A user who was told "user created" gets in with that email and password  *)
(* later on, unless the email has come to have a second account (of which a *)
(* login picks any) or the login's look-up lost its rows.                   *)
CredentialsWork ==
  \A j, k \in Calls :
    /\ kind[j] = "register" /\ reply[j] = 201 /\ j \in before[k]
    /\ kind[k] = "login" /\ reply[k] = Unauthorized /\ fault[k] = {}
    /\ email[k] = email[j] /\ password[k] = password[j]
    => \E i \in users \ {j} : email[i] = email[j]

(* Whoever reaches POST /products acts as an admin whose email and password *)
(* were given when its token was issued: no user, no zero id and no token   *)
(* of the other feature gets there, though an id may be anything by then.   *)
OnlyAdminsCreate ==
  \A k \in Calls :
    kind[k] = "create" /\ (actsAs[k] # Nobody \/ reply[k] \in {200, Conflict}) =>
      /\ actsAs[k] \in Admins
      /\ AdminEmail[actsAs[k]] = email[token[k]]
      /\ AdminPassword[actsAs[k]] = password[token[k]]

(* Of the requests that can be read, "something went wrong" (500) is said   *)
(* only of those of which a statement failed, and none is cut off: every    *)
(* error of the services that means the client is mapped on its way through *)
(* the layers.                                                              *)
ServerErrorsProvoked ==
  \A k \in Calls : reply[k] \in {InternalServerError, Aborted} =>
    fault[k] \cap {"unreadable", "failed"} # {}
=============================================================================
