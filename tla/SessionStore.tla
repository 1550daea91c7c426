---------------------------- MODULE SessionStore ----------------------------
(***************************************************************************)
(* The sessions in memory and the two nickname indices beside them         *)
(* (backend/internal/session/store.go, Store), each operation one step, as *)
(* it runs under the store's mutex.                                        *)
(***************************************************************************)
EXTENDS NicknameRegistry

CONSTANTS
    NoName,          \* the absence of a nickname
    Nicknames,       \* nicknames as players write them
    Canonical,       \* Canonical[x]: canonicalizeNickname of nickname x
    SessionIds

ASSUME NoNameAssumption == NoName \notin Names
ASSUME NicknamesAssumption == Nicknames # {}
ASSUME CanonicalAssumption == Canonical \in [Nicknames -> Names]

VARIABLES
    sessions,          \* the session of each id, NoSession if there is none
    playerNicknames    \* the canonical nickname of each player with a session

sessionVars == <<sessions, nicknameOwners, playerNicknames>>

PlayerSession == [player : PlayerIds, nickname : Nicknames]

NoSession == [player |-> NoPlayer]

SessionTypeOK ==
    /\ sessions \in [SessionIds -> PlayerSession \cup {NoSession}]
    /\ nicknameOwners \in [Names -> PlayerIds \cup {NoPlayer}]
    /\ playerNicknames \in [PlayerIds -> Names \cup {NoName}]

SessionInit ==
    /\ sessions = [s \in SessionIds |-> NoSession]
    /\ RegistryInit
    /\ playerNicknames = [p \in PlayerIds |-> NoName]

Exists(s) == sessions[s] # NoSession

SessionsOf(p) == {s \in SessionIds : sessions[s].player = p}

\* ErrNicknameTaken.
NicknameTaken(p, nickname) ==
    nicknameOwners[Canonical[nickname]] \notin {NoPlayer, p}

\* A create that keeps the player's previous nickname in the index of owners.
CreateKeepsPrevious(s, p, nickname) ==
    LET canonical == Canonical[nickname]
    IN  /\ ~ NicknameTaken(p, nickname)
        /\ nicknameOwners' = [nicknameOwners EXCEPT ![canonical] = p]
        /\ playerNicknames' = [playerNicknames EXCEPT ![p] = canonical]
        /\ sessions' = [sessions EXCEPT ![s] =
                                    [player |-> p, nickname |-> nickname]]

\* A create that does not ask whether the nickname is taken.
CreateUnchecked(s, p, nickname) ==
    LET canonical == Canonical[nickname]
        previous == playerNicknames[p]
    IN  /\ nicknameOwners' = [n \in Names |->
                IF n = canonical THEN p
                ELSE IF n = previous THEN NoPlayer
                ELSE nicknameOwners[n]]
        /\ playerNicknames' = [playerNicknames EXCEPT ![p] = canonical]
        /\ sessions' = [sessions EXCEPT ![s] =
                                    [player |-> p, nickname |-> nickname]]

\* A create that remembers the nickname as it was written.
CreateRaw(s, p, nickname) ==
    /\ ~ NicknameTaken(p, nickname)
    /\ nicknameOwners' = [n \in Names |->
            IF n = Canonical[nickname] THEN p
            ELSE IF n = playerNicknames[p] THEN NoPlayer
            ELSE nicknameOwners[n]]
    /\ playerNicknames' = [playerNicknames EXCEPT ![p] = nickname]
    /\ sessions' = [sessions EXCEPT ![s] = [player |-> p, nickname |-> nickname]]

\* create under a session id nobody has: the player's previous nickname, if it
\* is another one, is free from now on.
Create(s, p, nickname) ==
    LET canonical == Canonical[nickname]
        previous == playerNicknames[p]
    IN  /\ ~ NicknameTaken(p, nickname)
        /\ nicknameOwners' = [n \in Names |->
                IF n = canonical THEN p
                ELSE IF n = previous THEN NoPlayer
                ELSE nicknameOwners[n]]
        /\ playerNicknames' = [playerNicknames EXCEPT ![p] = canonical]
        /\ sessions' = [sessions EXCEPT ![s] =
                                    [player |-> p, nickname |-> nickname]]

\* A release that does not look for the player's other sessions.
ReleaseAnyway(s, p) ==
    /\ nicknameOwners' = [n \in Names |->
            IF n = playerNicknames[p] /\ nicknameOwners[n] = p THEN NoPlayer
            ELSE nicknameOwners[n]]
    /\ playerNicknames' = [playerNicknames EXCEPT ![p] = NoName]

\* releaseNicknameIfUnusedLocked, once session s of player p is gone.
ReleaseIfUnused(s, p) ==
    IF SessionsOf(p) \subseteq {s}
    THEN /\ nicknameOwners' = [n \in Names |->
                IF n = playerNicknames[p] /\ nicknameOwners[n] = p THEN NoPlayer
                ELSE nicknameOwners[n]]
         /\ playerNicknames' = [playerNicknames EXCEPT ![p] = NoName]
    ELSE UNCHANGED <<nicknameOwners, playerNicknames>>

\* Delete, and FindValid of an expired session.
Delete(s) ==
    IF Exists(s)
    THEN /\ sessions' = [sessions EXCEPT ![s] = NoSession]
         /\ ReleaseIfUnused(s, sessions[s].player)
    ELSE UNCHANGED sessionVars
=============================================================================
