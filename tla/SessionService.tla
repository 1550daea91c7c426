--------------------------- MODULE SessionService ---------------------------
(***************************************************************************)
(* The HTTP requests that issue and end sessions (backend/internal/app:    *)
(* http_handlers.go, session_helpers.go), over the sessions in memory and  *)
(* the users table, which SaveSession of the PostgreSQL store writes.      *)
(*                                                                         *)
(* A request that issues a session revokes the one its cookie names,       *)
(* creates the new one in memory, saves it, and sets the cookie, or        *)
(* forgets the session again if the saving failed; other requests run      *)
(* between these steps.  What a revocation does to the player's WebSocket  *)
(* connections is Revoke of TableService; the wallet of a new player is    *)
(* its OpenSession.                                                        *)
(***************************************************************************)
EXTENDS SessionStore

CONSTANTS
    Requests,         \* the requests for a session, each made once
    Guests,           \* the ids newID makes up for guests
    PostgresEnabled,  \* cfg.PostgresEnabled
    SaveMayFail       \* whether SaveSession may end in an error of its own

ASSUME GuestsAssumption == Guests \subseteq PlayerIds
ASSUME PostgresEnabledAssumption == PostgresEnabled \in BOOLEAN
ASSUME SaveMayFailAssumption == SaveMayFail \in BOOLEAN

\* The ids of verified accounts (authUserToPlayerID).
Accounts == PlayerIds \ Guests

\* A session id is that of the request it was created for.
ASSUME SessionIdsAssumption == SessionIds = Requests

VARIABLES
    expired,   \* the sessions whose ExpiresAt is past
    found,     \* the expired sessions a FindValid looked up and is to delete
    cookies,   \* the sessions some browser was given the cookie of
    users,     \* the canonical nickname in each player's row of users
    pc,        \* where each request is
    reg,       \* the player and nickname a request is for
    born,      \* the guest ids made up so far
    twice      \* history: the players that ever had two sessions at once

vars == <<sessions, nicknameOwners, playerNicknames, expired, found, cookies,
          users, pc, reg, born, twice>>

Registers == [player : PlayerIds \cup {NoPlayer}, nickname : Nicknames]

TypeOK ==
    /\ SessionTypeOK
    /\ expired \subseteq SessionIds
    /\ cookies \subseteq SessionIds
    /\ found \subseteq cookies
    /\ users \in [PlayerIds -> Names \cup {NoName}]
    /\ pc \in [Requests -> {"new", "create", "save", "forget", "grant", "done"}]
    /\ reg \in [Requests -> Registers]
    /\ born \subseteq Guests
    /\ twice \subseteq PlayerIds

Init ==
    /\ SessionInit
    /\ expired = {}
    /\ found = {}
    /\ cookies = {}
    /\ users = [p \in PlayerIds |-> NoName]
    /\ pc = [r \in Requests |-> "new"]
    /\ reg = [r \in Requests |->
                [player |-> NoPlayer, nickname |-> CHOOSE x \in Nicknames : TRUE]]
    /\ born = {}
    /\ twice = {}

At(r, label) == pc[r] = label
Goto(r, label) == pc' = [pc EXCEPT ![r] = label]

-----------------------------------------------------------------------------

\* revokeSessionFromCookie: FindValid and Delete of the session the cookie
\* names, if the request has one; the request goes on for player p.  Whatever
\* FindValid saw, the session is deleted under one lock, if it is there by then.
RevokeCookie(r, p, nickname) ==
    /\ At(r, "new")
    /\ \/ UNCHANGED sessionVars
       \/ \E s \in cookies : Delete(s)
    /\ reg' = [reg EXCEPT ![r] = [player |-> p, nickname |-> nickname]]
    /\ Goto(r, "create")
    /\ UNCHANGED <<expired, found, cookies, users, twice>>

\* handleGuestSession: a player nobody has been before.
GuestSession(r, p, nickname) ==
    /\ p \in Guests \ born
    /\ born' = born \cup {p}
    /\ RevokeCookie(r, p, nickname)

\* handleAuthExchange of a token that was verified.
AuthExchange(r, p, nickname) ==
    /\ p \in Accounts
    /\ RevokeCookie(r, p, nickname)
    /\ UNCHANGED born

CreateSession(r) ==
    LET p == reg[r].player
    IN  /\ At(r, "create")
        /\ \/ /\ Create(r, p, reg[r].nickname)
              /\ twice' = IF SessionsOf(p) = {} THEN twice ELSE twice \cup {p}
              /\ Goto(r, IF PostgresEnabled THEN "save" ELSE "grant")
           \/ /\ NicknameTaken(p, reg[r].nickname)
              /\ Goto(r, "done")
              /\ UNCHANGED <<sessionVars, twice>>
        /\ UNCHANGED <<expired, found, cookies, users, reg, born>>

\* persistSession: the player's row is written unless another row has the
\* nickname (idx_users_nickname_unique_ci).  An error may come before the
\* commit, or after it.
PersistSession(r) ==
    LET p == reg[r].player
        canonical == Canonical[reg[r].nickname]
        unique == \A q \in PlayerIds \ {p} : users[q] # canonical
    IN  /\ At(r, "save")
        /\ \/ /\ unique
              /\ users' = [users EXCEPT ![p] = canonical]
              /\ \/ Goto(r, "grant")
                 \/ SaveMayFail /\ Goto(r, "forget")
           \/ /\ ~ unique \/ SaveMayFail
              /\ Goto(r, "forget")
              /\ UNCHANGED users
        /\ UNCHANGED <<sessionVars, expired, found, cookies, reg, born, twice>>

\* A request that sets the cookie although the session was not saved.
ForgetNothing(r) ==
    /\ At(r, "forget")
    /\ Goto(r, "grant")
    /\ UNCHANGED <<sessionVars, expired, found, cookies, users, reg, born, twice>>

\* The session that could not be saved is deleted.
Forget(r) ==
    /\ At(r, "forget")
    /\ Delete(r)
    /\ Goto(r, "done")
    /\ UNCHANGED <<expired, found, cookies, users, reg, born, twice>>

\* setSessionCookie.
Grant(r) ==
    /\ At(r, "grant")
    /\ cookies' = cookies \cup {r}
    /\ Goto(r, "done")
    /\ UNCHANGED <<sessionVars, expired, found, users, reg, born, twice>>

-----------------------------------------------------------------------------

\* handleAuthLogout.
Logout(s) ==
    /\ s \in cookies
    /\ Exists(s)
    /\ Delete(s)
    /\ UNCHANGED <<expired, found, cookies, users, pc, reg, born, twice>>

Expire(s) ==
    /\ Exists(s)
    /\ s \notin expired
    /\ expired' = expired \cup {s}
    /\ UNCHANGED <<sessionVars, found, cookies, users, pc, reg, born, twice>>

\* FindValid of an expired session, by any request that carries its cookie: it
\* is looked up under one lock ...
FindExpired(s) ==
    /\ s \in cookies
    /\ s \in expired
    /\ Exists(s)
    /\ found' = found \cup {s}
    /\ UNCHANGED <<sessionVars, expired, cookies, users, pc, reg, born, twice>>

\* ... and deleted under another, where it may be gone already.  (A second
\* request that had looked it up finds it gone: a step that changes nothing.)
DeleteExpired(s) ==
    /\ s \in found
    /\ Delete(s)
    /\ found' = found \ {s}
    /\ UNCHANGED <<expired, cookies, users, pc, reg, born, twice>>

\* The process is killed and started again: the memory is lost, with the
\* requests that were under way; browsers keep their cookies.
Restart ==
    /\ sessions' = [s \in SessionIds |-> NoSession]
    /\ ReleaseAll
    /\ playerNicknames' = [p \in PlayerIds |-> NoName]
    /\ found' = {}
    /\ pc' = [r \in Requests |-> IF At(r, "new") THEN "new" ELSE "done"]
    /\ UNCHANGED <<expired, cookies, users, reg, born, twice>>

-----------------------------------------------------------------------------

Step(r) == CreateSession(r) \/ PersistSession(r) \/ Forget(r) \/ Grant(r)

Next ==
    \/ \E r \in Requests :
        \/ \E p \in PlayerIds, nickname \in Nicknames :
                GuestSession(r, p, nickname) \/ AuthExchange(r, p, nickname)
        \/ Step(r)
    \/ \E s \in SessionIds :
        Logout(s) \/ Expire(s) \/ FindExpired(s) \/ DeleteExpired(s)
    \/ Restart

Spec == Init /\ [][Next]_vars
=============================================================================
