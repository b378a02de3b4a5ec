------------------------------ MODULE Sessions ------------------------------
(***************************************************************************)
(* The session feature: LoginEntity, renewTokens and LogoutEntity of       *)
(* session/service.go as the steps of concurrent requests on the table     *)
(* sessions, one SQL statement at a time and no transaction around them.   *)
(*                                                                         *)
(* A client is a browser of one entity (a user or an admin).  Its          *)
(* cookie jar holds the refresh token of a session; the token carries the  *)
(* session's id and entity and expires when the row does, so the id stands *)
(* for the token.  A call creates one session at most: the call itself is  *)
(* the id, which GenerateToken draws afresh.                               *)
(*                                                                         *)
(* is_revoked has no writer and stays false.  Logging in starts after the  *)
(* password has been accepted.                                             *)
(***************************************************************************)
EXTENDS Naturals, FiniteSets

CONSTANTS
  Clients,    \* browsers, each with a cookie jar and used by one entity
  EntityOf,   \* EntityOf[c]: who uses c
  AgentOf,    \* AgentOf[c]: what c sends as User-Agent, which others may share
  Calls,      \* the requests, each made at most once
  IPs, Ports, \* what RemoteAddr is made of, <<ip, port>>
  Roaming,    \* the clients whose RemoteAddr changes between requests
  Failures,   \* of a statement: "fail", "lost" (after its effect), "unread"
  NoSession

ASSUME SessionsAssumption ==
  /\ Clients # {} /\ IPs # {} /\ Ports # {}
  /\ DOMAIN EntityOf = Clients
  /\ DOMAIN AgentOf = Clients
  /\ Roaming \subseteq Clients
  /\ NoSession \notin Calls
  /\ Failures \subseteq {"fail", "lost", "unread"}

VARIABLES
  jar,        \* jar[c]: the session whose refresh token c holds
  sessions,   \* the session_ids in the table
  opener,     \* opener[s]: the client of s: columns entity_id, user_agent
  clientIP,   \* clientIP[s]: column client_ip
  expired,    \* the sessions whose expires_at has passed
  at,         \* at[k]: the next step of call k
  kind, client, token, from,  \* of call k: what, whose, with what, wherefrom
  found,      \* found[k]: the session k has looked up
  reply,      \* reply[k]: the answer of k, or "none"
  before,     \* history: before[k], the calls answered when k began
  swallowed   \* history: the logins that passed over an error and missed a row

tableVars  == <<sessions, opener, clientIP>>
callVars   == <<kind, client, token, from, before>>
vars == <<jar, tableVars, expired, at, callVars, found, reply, swallowed>>

Kinds   == {"login", "renew", "logout"}
Steps   == {"new", "find", "drop", "rotate", "reject", "purge", "create", "answered", "done"}
Replies == {"none", "ok", "invalid", "unknown", "error"}

TypeOK ==
  /\ jar \in [Clients -> Calls \cup {NoSession}]
  /\ sessions \subseteq Calls
  /\ opener \in [Calls -> Clients]
  /\ clientIP \in [Calls -> IPs \X Ports]
  /\ expired \subseteq Calls
  /\ at \in [Calls -> Steps]
  /\ kind \in [Calls -> Kinds]
  /\ client \in [Calls -> Clients]
  /\ token \in [Calls -> Calls \cup {NoSession}]
  /\ from \in [Calls -> IPs \X Ports]
  /\ found \in [Calls -> Calls \cup {NoSession}]
  /\ reply \in [Calls -> Replies]
  /\ before \in [Calls -> SUBSET Calls]
  /\ swallowed \subseteq Calls

AnyClient  == CHOOSE c \in Clients : TRUE
AnyAddress == CHOOSE a \in IPs \X Ports : TRUE

Init ==
  /\ jar = [c \in Clients |-> NoSession]
  /\ sessions = {}
  /\ opener = [k \in Calls |-> AnyClient]
  /\ clientIP = [k \in Calls |-> AnyAddress]
  /\ expired = {}
  /\ at = [k \in Calls |-> "new"]
  /\ kind = [k \in Calls |-> "login"]
  /\ client = [k \in Calls |-> AnyClient]
  /\ token = [k \in Calls |-> NoSession]
  /\ from = [k \in Calls |-> AnyAddress]
  /\ found = [k \in Calls |-> NoSession]
  /\ reply = [k \in Calls |-> "none"]
  /\ before = [k \in Calls |-> {}]
  /\ swallowed = {}

Entity(k) == EntityOf[client[k]]

SameAgent(c, d) == EntityOf[c] = EntityOf[d] /\ AgentOf[c] = AgentOf[d]

-----------------------------------------------------------------------------
(* Clients and time.                                                        *)

Expire(s) ==
  /\ s \in sessions \ expired
  /\ expired' = expired \cup {s}
  /\ UNCHANGED <<jar, tableVars, at, callVars, found, reply, swallowed>>

(* GetClientIP: without the headers of a proxy, RemoteAddr, port included.  *)
(* A new connection comes from another port, or from another network.       *)
GetClientIP(c) == IF c \in Roaming THEN IPs \X Ports ELSE {AnyAddress}

Go(k, step) == at' = [at EXCEPT ![k] = step]

Answer(k, a) ==
  /\ Go(k, "answered")
  /\ reply' = [reply EXCEPT ![k] = a]

Begin(k, what, c) ==
  /\ at[k] = "new"
  /\ kind' = [kind EXCEPT ![k] = what]
  /\ client' = [client EXCEPT ![k] = c]
  /\ token' = [token EXCEPT ![k] = IF what = "login" THEN NoSession ELSE jar[c]]
  /\ \E a \in GetClientIP(c) : from' = [from EXCEPT ![k] = a]
  /\ before' = [before EXCEPT ![k] = {j \in Calls : reply[j] # "none"}]
  /\ UNCHANGED <<jar, tableVars, expired, found, swallowed>>

Login(k, c) ==
  /\ Begin(k, "login", c)
  /\ Go(k, "find")
  /\ UNCHANGED reply

(* ValidateRefreshToken: an expired token is refused.                       *)
Renew(k, c) ==
  /\ jar[c] # NoSession
  /\ Begin(k, "renew", c)
  /\ IF jar[c] \in expired THEN Answer(k, "invalid")
                           ELSE Go(k, "find") /\ UNCHANGED reply

Logout(k, c) ==
  /\ jar[c] # NoSession
  /\ Begin(k, "logout", c)
  /\ IF jar[c] \in expired THEN Answer(k, "invalid")
                           ELSE Go(k, "find") /\ UNCHANGED reply

(* The answer reaches the client, or is lost.  Logging out clears the       *)
(* cookies whatever the answer.                                             *)
Deliver(k) ==
  /\ at[k] = "answered"
  /\ Go(k, "done")
  /\ jar' = [jar EXCEPT ![client[k]] =
               IF kind[k] = "logout" THEN NoSession
               ELSE IF reply[k] = "ok" THEN found[k] ELSE @]
  /\ UNCHANGED <<tableVars, expired, callVars, found, reply, swallowed>>

LoseAnswer(k) ==
  /\ at[k] = "answered"
  /\ Go(k, "done")
  /\ UNCHANGED <<jar, tableVars, expired, callVars, found, reply, swallowed>>

-----------------------------------------------------------------------------
(* The statements.  One may fail without effect or after it.  A select also *)
(* comes back empty when fetching its rows fails: rows.Err is never asked.  *)

(* DELETE of the rows in gone; the caller goes on with Then.                *)
Delete(gone) ==
  /\ sessions' = sessions \ gone
  /\ UNCHANGED <<opener, clientIP>>

DeleteFails(k, gone) ==
  /\ Answer(k, "error")
  /\ \/ "fail" \in Failures /\ UNCHANGED tableVars
     \/ "lost" \in Failures /\ Delete(gone)

(* Mutant: the entity is not compared.                                      *)
MatchingAgent(k) == {s \in sessions : AgentOf[opener[s]] = AgentOf[client[k]]}

(* findByEntityIDAndUserAgent: the row scanned last, in any order.          *)
Matching(k) == {s \in sessions : SameAgent(opener[s], client[k])}

Unread == "unread" \in Failures

SelectFails(k) == Failures \cap {"fail", "lost"} # {} /\ Answer(k, "error")

(* Mutant: a session that has not expired is not reused.                    *)
FindForLoginUnused(k) ==
  /\ at[k] = "find" /\ kind[k] = "login"
  /\ \/ \E s \in Matching(k) :
          /\ found' = [found EXCEPT ![k] = s]
          /\ Go(k, IF s \in expired THEN "drop" ELSE "create")
          /\ UNCHANGED reply
     \/ Matching(k) = {} /\ Go(k, "drop") /\ UNCHANGED <<found, reply>>
  /\ UNCHANGED <<jar, tableVars, expired, callVars, swallowed>>

FindForLogin(k) ==
  /\ at[k] = "find" /\ kind[k] = "login"
  /\ \/ \E s \in Matching(k) :
          /\ found' = [found EXCEPT ![k] = s]
          /\ IF s \in expired THEN Go(k, "drop") /\ UNCHANGED reply
                              ELSE Answer(k, "ok")
          /\ UNCHANGED swallowed
     \/ /\ Matching(k) = {} \/ Unread
        /\ Go(k, "drop")
        /\ swallowed' = IF Matching(k) = {} THEN swallowed ELSE swallowed \cup {k}
        /\ UNCHANGED <<found, reply>>
     \/ SelectFails(k) /\ UNCHANGED <<found, swallowed>>
  /\ UNCHANGED <<jar, tableVars, expired, callVars>>

(* Without a row the session looked up is the zero one, which counts as     *)
(* expired; this deletion then finds nothing.  Its error is ignored.        *)
DropExpired(k) ==
  /\ at[k] = "drop" /\ kind[k] = "login"
  /\ \/ Delete({found[k]}) /\ UNCHANGED swallowed
     \/ /\ "fail" \in Failures /\ found[k] \in sessions
        /\ swallowed' = swallowed \cup {k}
        /\ UNCHANGED tableVars
  /\ Go(k, "create")
  /\ UNCHANGED <<jar, expired, callVars, found, reply>>

(* findByID, then the checks of renewTokens and LogoutEntity.               *)
Mismatch(k) ==
  \/ token[k] \in expired
  \/ ~SameAgent(opener[token[k]], client[k])
  \/ clientIP[token[k]] # from[k]

FindByID(k) ==
  /\ at[k] = "find" /\ kind[k] # "login"
  /\ \/ /\ token[k] \in sessions
        /\ Go(k, IF kind[k] = "logout" THEN "drop"
                 ELSE IF Mismatch(k) THEN "reject" ELSE "rotate")
        /\ UNCHANGED reply
     \/ (token[k] \notin sessions \/ Unread) /\ Go(k, "purge") /\ UNCHANGED reply
     \/ SelectFails(k)
  /\ UNCHANGED <<jar, tableVars, expired, callVars, found, swallowed>>

(* Mutant: only the client's own sessions are deleted.                      *)
DeleteAllOfAgent(k) ==
  LET gone == {s \in sessions : opener[s] = client[k]}
  IN  /\ at[k] = "purge"
      /\ \/ Delete(gone) /\ Answer(k, "unknown")
         \/ DeleteFails(k, gone)
      /\ UNCHANGED <<jar, expired, callVars, found, swallowed>>

(* No such session: "delete all sessions for the user".                     *)
DeleteAllByEntityID(k) ==
  LET gone == {s \in sessions : EntityOf[opener[s]] = Entity(k)}
  IN  /\ at[k] = "purge"
      /\ \/ Delete(gone) /\ Answer(k, "unknown")
         \/ DeleteFails(k, gone)
      /\ UNCHANGED <<jar, expired, callVars, found, swallowed>>

(* The checks failed: the session is given up as compromised.               *)
Reject(k) ==
  /\ at[k] = "reject"
  /\ \/ Delete({token[k]}) /\ Answer(k, "invalid")
     \/ DeleteFails(k, {token[k]})
  /\ UNCHANGED <<jar, expired, callVars, found, swallowed>>

(* Mutant: the old session stays.                                           *)
RotateKept(k) ==
  /\ at[k] = "rotate"
  /\ Go(k, "create")
  /\ UNCHANGED <<jar, tableVars, expired, callVars, found, reply, swallowed>>

(* Mutant: an error of the deletion is ignored, as it is on login.          *)
RotateRegardless(k) ==
  /\ at[k] = "rotate"
  /\ Delete({token[k]}) \/ ("fail" \in Failures /\ UNCHANGED tableVars)
  /\ Go(k, "create")
  /\ UNCHANGED <<jar, expired, callVars, found, reply, swallowed>>

Rotate(k) ==
  /\ at[k] = "rotate"
  /\ \/ Delete({token[k]}) /\ Go(k, "create") /\ UNCHANGED reply
     \/ DeleteFails(k, {token[k]})
  /\ UNCHANGED <<jar, expired, callVars, found, swallowed>>

DeleteOnLogout(k) ==
  /\ at[k] = "drop" /\ kind[k] = "logout"
  /\ \/ Delete({token[k]}) /\ Answer(k, "ok")
     \/ DeleteFails(k, {token[k]})
  /\ UNCHANGED <<jar, expired, callVars, found, swallowed>>

(* INSERT of the new session; its token is in the answer.                   *)
Insert(k) ==
  /\ sessions' = sessions \cup {k}
  /\ opener' = [opener EXCEPT ![k] = client[k]]
  /\ clientIP' = [clientIP EXCEPT ![k] = from[k]]

Create(k) ==
  /\ at[k] = "create"
  /\ \/ /\ Insert(k)
        /\ found' = [found EXCEPT ![k] = k]
        /\ Answer(k, "ok")
     \/ /\ Answer(k, "error")
        /\ \/ "fail" \in Failures /\ UNCHANGED tableVars
           \/ "lost" \in Failures /\ Insert(k)
        /\ UNCHANGED found
  /\ UNCHANGED <<jar, expired, callVars, swallowed>>

-----------------------------------------------------------------------------
Step(k) ==
  \/ FindForLogin(k)
  \/ DropExpired(k)
  \/ FindByID(k)
  \/ DeleteAllByEntityID(k)
  \/ Reject(k)
  \/ Rotate(k)
  \/ DeleteOnLogout(k)
  \/ Create(k)
  \/ Deliver(k)
  \/ LoseAnswer(k)

Terminating == (\A k \in Calls : at[k] = "done") /\ UNCHANGED vars

Next ==
  \/ \E s \in Calls : Expire(s)
  \/ \E k \in Calls, c \in Clients : Login(k, c) \/ Renew(k, c) \/ Logout(k, c)
  \/ \E k \in Calls : Step(k)
  \/ Terminating

Spec == Init /\ [][Next]_vars

-----------------------------------------------------------------------------
(* Properties.                                                              *)

Answered(k, what, a) == kind[k] = what /\ reply[k] = a

Overlap(j, k) == j \notin before[k] /\ k \notin before[j]

(* A refresh token and the one it was exchanged for are never both good:    *)
(* renewTokens deletes the old session before it creates the new one, and   *)
(* nothing brings a deleted session back.                                   *)
OldTokenGone ==
  \A k \in sessions : kind[k] = "renew" => token[k] \notin sessions

(* A refresh token is exchanged twice, or after a logout with it, only by   *)
(* calls that were in progress at the same time.                            *)
ReuseOnlyByOverlap ==
  \A j, k \in Calls :
    /\ j # k
    /\ Answered(j, "renew", "ok")
    /\ Answered(k, "renew", "ok") \/ Answered(k, "logout", "ok")
    /\ token[j] = token[k]
    => Overlap(j, k)

(* "if there is no session with that session id, delete all sessions for    *)
(* the user. Detect token reuse" (service.go:71-72): a refresh token buys   *)
(* new tokens once.                                                         *)
TokenRenewedOnce ==
  \A j, k \in Calls :
    Answered(j, "renew", "ok") /\ Answered(k, "renew", "ok") /\ token[j] = token[k]
      => j = k

(* When reuse has been answered, every session of the entity that a call    *)
(* answered earlier had created is gone, whatever ran in between.           *)
ReuseEndsSessions ==
  \A k \in Calls :
    reply[k] = "unknown" =>
      \A s \in sessions : EntityOf[opener[s]] = Entity(k) => s \notin before[k]

(* Only a call of the entity itself ends one of its sessions.               *)
OwnSessionsOnly ==
  [][\A s \in sessions \ sessions' :
       \E k \in Calls : at[k] # at'[k] /\ Entity(k) = EntityOf[opener[s]]]_vars

(* The calls of entity e come one at a time, and none of its logins passes  *)
(* over an error (rows that broke off, the deletion of an expired session). *)
OneByOne(e) ==
  /\ \A j, k \in {i \in Calls : at[i] # "new" /\ Entity(i) = e} : j # k => ~Overlap(j, k)
  /\ \A k \in swallowed : Entity(k) # e

(* As long as an entity's calls come one by one, it has one unexpired       *)
(* session at most for each User-Agent it uses, whatever fails and whatever *)
(* the calls of others do.                                                  *)
OneSessionPerAgent ==
  \A c \in Clients :
    OneByOne(EntityOf[c]) =>
      Cardinality({s \in sessions \ expired : SameAgent(opener[s], c)}) <= 1

(* A row that call k has deleted to put another in its place.               *)
Held(k) ==
  IF at[k] # "create" THEN {}
  ELSE {IF kind[k] = "login" THEN found[k] ELSE token[k]} \ {NoSession}

Service == INSTANCE SessionService WITH
  rows <- sessions \cup UNION {Held(k) : k \in Calls}, owner <- opener

(* The statements of a login, a renewal or a logout amount to one step, as  *)
(* long as the calls of each entity come one by one; calls of different     *)
(* entities may interleave as they like.                                    *)
CallsAreAtomic ==
  /\ Service!ServiceInit
  /\ [][(\A c \in Clients : OneByOne(EntityOf[c])') => Service!ServiceNext]_(Service!serviceVars)

(* "GetClientIP returns the IP of the request" (utils.go:130): a renewal    *)
(* that comes alone, with the token of a session that is in the table and   *)
(* has not expired, from its user agent and its IP, is not refused as       *)
(* compromised.                                                             *)
SameIPAccepted ==
  [][\A k \in Calls :
       /\ at[k] = "find" /\ kind[k] = "renew"
       /\ token[k] \in sessions \ expired
       /\ SameAgent(opener[token[k]], client[k])
       /\ clientIP[token[k]][1] = from[k][1]
       => at'[k] # "reject"]_vars
=============================================================================
