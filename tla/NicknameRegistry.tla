-------------------------- MODULE NicknameRegistry --------------------------
(***************************************************************************)
(* The nickname policy: a nickname has at most one owner, a player owns at *)
(* most one nickname, and nobody loses a nickname but by taking another or *)
(* by giving his up.                                                       *)
(***************************************************************************)
EXTENDS Identities

CONSTANT Names       \* canonical nicknames: trimmed and in lower case

VARIABLE nicknameOwners   \* the owner of each nickname, NoPlayer if it is free

RegistryInit == nicknameOwners = [n \in Names |-> NoPlayer]

Take(p, n) ==
    /\ nicknameOwners[n] \in {NoPlayer, p}
    /\ nicknameOwners' = [m \in Names |->
            IF m = n THEN p
            ELSE IF nicknameOwners[m] = p THEN NoPlayer
            ELSE nicknameOwners[m]]

Release(p) ==
    nicknameOwners' = [m \in Names |->
            IF nicknameOwners[m] = p THEN NoPlayer ELSE nicknameOwners[m]]

\* Everybody's at once: the server is started anew.
ReleaseAll == nicknameOwners' = [n \in Names |-> NoPlayer]

RegistryNext ==
    \/ \E p \in PlayerIds, n \in Names : Take(p, n)
    \/ \E p \in PlayerIds : Release(p)
    \/ ReleaseAll

RegistrySpec == RegistryInit /\ [][RegistryNext]_nicknameOwners
=============================================================================
