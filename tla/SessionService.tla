--------------------------- MODULE SessionService ---------------------------
(***************************************************************************)
(* What the session feature promises the user and admin features: a login, *)
(* a renewal and a logout each read and change the table of sessions in    *)
(* one step, the one in which they are answered.  Then an entity has one   *)
(* session at most for each User-Agent.  Sessions implements this as long  *)
(* as the calls of one entity do not overlap.                              *)
(***************************************************************************)
CONSTANTS Clients, EntityOf, AgentOf, Calls, Unread

VARIABLES
  rows,      \* the sessions of which there is a row
  expired,   \* those whose time has passed
  owner,     \* owner[s]: the client s was made for
  reply      \* reply[k]: the answer of call k, or "none"

serviceVars == <<rows, expired, owner, reply>>

ServiceInit ==
  /\ rows = {}
  /\ expired = {}
  /\ owner \in [Calls -> Clients]
  /\ reply = [k \in Calls |-> "none"]

SameAgent(c, d) == EntityOf[c] = EntityOf[d] /\ AgentOf[c] = AgentOf[d]

OfAgent(c)  == {s \in rows : SameAgent(owner[s], c)}
OfEntity(c) == {s \in rows : EntityOf[owner[s]] = EntityOf[c]}

Answer(k, answers) ==
  /\ reply[k] = "none"
  /\ \E a \in answers : reply' = [reply EXCEPT ![k] = a]

Remove(gone) == rows' = rows \ gone /\ UNCHANGED <<expired, owner>>

(* Session k of client c takes the place of others.                         *)
Replace(gone, k, c) ==
  /\ rows' = (rows \ gone) \cup {k}
  /\ owner' = [owner EXCEPT ![k] = c]
  /\ UNCHANGED expired

(* An unexpired session of the same agent is used again, an expired one is  *)
(* replaced.  A failing statement leaves no trace, or the expired session   *)
(* gone, or a new one that the client never learns of.                      *)
Login(k, c) ==
  \/ Answer(k, {"ok"}) /\ OfAgent(c) \ expired # {} /\ UNCHANGED <<rows, expired, owner>>
  \/ Answer(k, {"ok", "error"}) /\ OfAgent(c) \subseteq expired /\ Replace(OfAgent(c), k, c)
  \/ Answer(k, {"error"}) /\ Remove({})
  \/ Answer(k, {"error"}) /\ OfAgent(c) \subseteq expired /\ Remove(OfAgent(c))

(* A token without a row costs the entity all its sessions.                 *)
Refuse(k, c, s) ==
  \/ Answer(k, {"unknown", "error"}) /\ (s \notin rows \/ Unread) /\ Remove(OfEntity(c))
  \/ Answer(k, {"invalid"}) /\ s \in expired /\ Remove({})
  \/ Answer(k, {"error"}) /\ Remove({})

(* Session s is replaced, or removed when its checks fail or a statement    *)
(* does.                                                                    *)
Renew(k, c, s) ==
  \/ Answer(k, {"ok", "error"}) /\ s \in OfAgent(c) /\ Replace({s}, k, c)
  \/ Answer(k, {"invalid", "error"}) /\ s \in OfEntity(c) /\ Remove({s})
  \/ Refuse(k, c, s)

Logout(k, c, s) ==
  \/ Answer(k, {"ok", "error"}) /\ s \in OfEntity(c) /\ Remove({s})
  \/ Refuse(k, c, s)

Expire(s) ==
  /\ s \in rows \ expired
  /\ expired' = expired \cup {s}
  /\ UNCHANGED <<rows, owner, reply>>

ServiceNext ==
  \/ \E k \in Calls, c \in Clients :
       Login(k, c) \/ \E s \in Calls : Renew(k, c, s) \/ Logout(k, c, s)
  \/ \E s \in rows : Expire(s)
=============================================================================
