---------------------- MODULE SessionServiceProperties ----------------------
(* What the session store and the requests over it promise.                *)
EXTENDS SessionService

\* The two indices are one relation read from both ends, whatever sequence of
\* creates, nickname changes, deletions and failed savings led here
\* (store.go 104-117, 189-206).
IndexesAgree ==
    \A p \in PlayerIds, n \in Names :
        nicknameOwners[n] = p <=> playerNicknames[p] = n

\* A player owns a nickname exactly as long as he has a session: a deletion
\* frees it with the last one and not before (store.go 189-206).
NicknameHeldInSession ==
    \A p \in PlayerIds :
        playerNicknames[p] # NoName <=> SessionsOf(p) # {}

\* Two players in session go by different nicknames, in any spelling, if
\* neither ever had two sessions at once (http_handlers.go 65-199).
NicknamesUniqueOnce ==
    \A s, u \in SessionIds :
        LET p == sessions[s].player
            q == sessions[u].player
        IN  Exists(s) /\ Exists(u) /\ p # q /\ {p, q} \cap twice = {}
                => Canonical[sessions[s].nickname] # Canonical[sessions[u].nickname]

\* A session whose cookie was handed out, of a player who never had two at
\* once, is under the nickname the database has for him: whatever failed
\* between the memory and the database, the two agree (http_handlers.go 92-99,
\* 177-187).
CookieMeansSaved ==
    \A s \in cookies :
        Exists(s) /\ PostgresEnabled /\ sessions[s].player \notin twice
            => users[sessions[s].player] = Canonical[sessions[s].nickname]

\* Creates, deletions, failures and restarts change owners the way the
\* nickname policy allows and no other.
ImplementsRegistry == RegistrySpec

\* docs/commits/commit-20260307-0730-feat-enforce-unique-nickname-policy.md:5:
\* nicknames are unique, globally.  No two players who were given a cookie and
\* are in session go by the same.
NicknamesUnique ==
    \A s, u \in cookies :
        Exists(s) /\ Exists(u) /\ sessions[s].player # sessions[u].player
            => Canonical[sessions[s].nickname] # Canonical[sessions[u].nickname]
=============================================================================
