------------------------ MODULE SessionServiceProofs ------------------------
(***************************************************************************)
(* Proofs about the sessions: the two nickname indices always agree, a     *)
(* nickname is held exactly as long as there is a session, players with    *)
(* one session at a time have nicknames of their own, what a cookie stands *)
(* for is saved, and the store implements the nickname policy.             *)
(*                                                                         *)
(* IInv is inductive.  Its parts beyond the properties say what a request  *)
(* under way may count on: its session id is still unused before the       *)
(* create, its session is there and in nobody's cookie before the grant,   *)
(* and a player who never had two sessions goes by the nickname of his     *)
(* only one.                                                               *)
(***************************************************************************)
EXTENDS SessionServiceProperties, TLAPS

StoreInv == SessionTypeOK /\ IndexesAgree /\ NicknameHeldInSession

\* A request that has not created its session yet finds its id unused, and
\* knows its player.
IdsFresh ==
    \A r \in Requests :
        /\ pc[r] \in {"new", "create"} => sessions[r] = NoSession /\ r \notin cookies
        /\ pc[r] = "create" => reg[r].player \in PlayerIds

\* Between create and grant nobody else can name the session.
UnderWay ==
    \A r \in Requests : pc[r] \in {"save", "forget", "grant"} =>
        /\ reg[r].player \in PlayerIds
        /\ r \notin cookies
        /\ sessions[r] = [player |-> reg[r].player, nickname |-> reg[r].nickname]

\* The only session of a player bears the nickname he holds.
OnlySession ==
    \A s \in SessionIds : \A p \in PlayerIds :
        sessions[s].player = p /\ p \notin twice =>
            /\ \A u \in SessionIds : sessions[u].player = p => u = s
            /\ playerNicknames[p] = Canonical[sessions[s].nickname]

\* From its saving on, the database knows the nickname of the session.
SavedNickname ==
    PostgresEnabled =>
        \A s \in SessionIds : \A p \in PlayerIds :
            /\ sessions[s].player = p
            /\ p \notin twice
            /\ pc[s] = "grant" \/ s \in cookies
            => users[p] = Canonical[sessions[s].nickname]

IInv == TypeOK /\ StoreInv /\ IdsFresh /\ UnderWay /\ OnlySession /\ SavedNickname

-----------------------------------------------------------------------------
(* The store's operations.                                                 *)

\* A session that exists has a player; one that does not has none.
LEMMA SessionShape ==
    ASSUME SessionTypeOK, NEW s \in SessionIds
    PROVE  /\ Exists(s) => sessions[s] \in PlayerSession
           /\ Exists(s) <=> sessions[s].player \in PlayerIds
           /\ ~ Exists(s) => sessions[s].player = NoPlayer
<1>1. sessions[s] \in PlayerSession \cup {NoSession}
  BY DEF SessionTypeOK
<1>2. NoSession.player = NoPlayer /\ NoPlayer \notin PlayerIds
  BY NoPlayerAssumption DEF NoSession
<1> QED
  BY <1>1, <1>2 DEF Exists, PlayerSession

\* create keeps the indices in step, and is the Take of the nickname policy.
LEMMA CreateKeepsStore ==
    ASSUME StoreInv, NEW s \in SessionIds, NEW p \in PlayerIds,
           NEW x \in Nicknames, sessions[s] = NoSession, Create(s, p, x)
    PROVE  StoreInv' /\ Take(p, Canonical[x])
<1> DEFINE canonical == Canonical[x]
           session == [player |-> p, nickname |-> x]
<1>1. canonical \in Names /\ NoName \notin Names /\ NoPlayer \notin PlayerIds
  BY CanonicalAssumption, NoNameAssumption, NoPlayerAssumption
<1>2. SessionTypeOK
  BY DEF StoreInv
<1>3. /\ nicknameOwners[canonical] \in {NoPlayer, p}
      /\ nicknameOwners' = [n \in Names |->
                IF n = canonical THEN p
                ELSE IF n = playerNicknames[p] THEN NoPlayer
                ELSE nicknameOwners[n]]
      /\ playerNicknames' = [playerNicknames EXCEPT ![p] = canonical]
      /\ sessions' = [sessions EXCEPT ![s] = session]
  BY DEF Create, NicknameTaken
<1>4. SessionTypeOK'
  <2>1. session \in PlayerSession
    BY DEF PlayerSession
  <2>2. sessions' \in [SessionIds -> PlayerSession \cup {NoSession}]
    BY <1>2, <1>3, <2>1 DEF SessionTypeOK
  <2>3. nicknameOwners' \in [Names -> PlayerIds \cup {NoPlayer}]
    BY <1>2, <1>3 DEF SessionTypeOK
  <2>4. playerNicknames' \in [PlayerIds -> Names \cup {NoName}]
    BY <1>1, <1>2, <1>3 DEF SessionTypeOK
  <2> QED
    BY <2>2, <2>3, <2>4 DEF SessionTypeOK
<1>5. IndexesAgree'
  <2> SUFFICES ASSUME NEW q \in PlayerIds, NEW n \in Names
               PROVE  nicknameOwners'[n] = q <=> playerNicknames'[q] = n
    BY DEF IndexesAgree
  <2>1. \A m \in Names : \A o \in PlayerIds :
            nicknameOwners[m] = o <=> playerNicknames[o] = m
    BY DEF StoreInv, IndexesAgree
  <2>2. playerNicknames'[q] = IF q = p THEN canonical ELSE playerNicknames[q]
    BY <1>2, <1>3 DEF SessionTypeOK
  <2>3. nicknameOwners'[n] = IF n = canonical THEN p
                             ELSE IF n = playerNicknames[p] THEN NoPlayer
                             ELSE nicknameOwners[n]
    BY <1>3
  <2>4. CASE n = canonical
    BY <1>1, <1>3, <2>1, <2>2, <2>3, <2>4
  <2>5. CASE n # canonical /\ n = playerNicknames[p]
    BY <1>1, <2>1, <2>2, <2>3, <2>5
  <2>6. CASE n # canonical /\ n # playerNicknames[p]
    BY <1>1, <2>1, <2>2, <2>3, <2>6
  <2> QED
    BY <2>4, <2>5, <2>6
<1>6. NicknameHeldInSession'
  <2> SUFFICES ASSUME NEW q \in PlayerIds
               PROVE  playerNicknames'[q] # NoName <=> SessionsOf(q)' # {}
    BY DEF NicknameHeldInSession
  <2>1. playerNicknames[q] # NoName <=> SessionsOf(q) # {}
    BY DEF StoreInv, NicknameHeldInSession
  <2>2. \A u \in SessionIds : sessions'[u] = IF u = s THEN session ELSE sessions[u]
    BY <1>2, <1>3 DEF SessionTypeOK
  <2>3. sessions[s].player \notin PlayerIds
    BY <1>1 DEF NoSession
  <2>4. CASE q = p
    <3>1. s \in SessionsOf(q)'
      BY <2>2, <2>4 DEF SessionsOf
    <3>2. playerNicknames'[q] = canonical
      BY <1>2, <1>3, <2>4 DEF SessionTypeOK
    <3> QED
      BY <1>1, <3>1, <3>2
  <2>5. CASE q # p
    <3>1. SessionsOf(q)' = SessionsOf(q)
      BY <2>2, <2>3, <2>5 DEF SessionsOf
    <3>2. playerNicknames'[q] = playerNicknames[q]
      BY <1>2, <1>3, <2>5 DEF SessionTypeOK
    <3> QED
      BY <2>1, <3>1, <3>2
  <2> QED
    BY <2>4, <2>5
<1>7. Take(p, canonical)
  <2>1. \A m \in Names : nicknameOwners[m] = p <=> playerNicknames[p] = m
    BY DEF StoreInv, IndexesAgree
  <2>2. nicknameOwners' = [m \in Names |->
            IF m = canonical THEN p
            ELSE IF nicknameOwners[m] = p THEN NoPlayer
            ELSE nicknameOwners[m]]
    BY <1>3, <2>1
  <2> QED
    BY <1>3, <2>2 DEF Take
<1> QED
  BY <1>4, <1>5, <1>6, <1>7 DEF StoreInv

\* Delete keeps the indices in step, and is a Release or changes no owner.
LEMMA DeleteKeepsStore ==
    ASSUME StoreInv, NEW s \in SessionIds, Delete(s)
    PROVE  /\ StoreInv'
           /\ (\E p \in PlayerIds : Release(p)) \/ UNCHANGED nicknameOwners
           /\ sessions' = [sessions EXCEPT ![s] = NoSession]
           /\ \A p \in PlayerIds : (\E u \in SessionIds \ {s} : sessions[u].player = p)
                    => playerNicknames'[p] = playerNicknames[p]
<1> DEFINE p == sessions[s].player
<1>1. SessionTypeOK /\ NoName \notin Names /\ NoPlayer \notin PlayerIds
  BY NoNameAssumption, NoPlayerAssumption DEF StoreInv
<1>2. CASE ~ Exists(s)
  <2>1. UNCHANGED sessionVars /\ sessions[s] = NoSession
    BY <1>2 DEF Delete, Exists
  <2>2. StoreInv'
    BY <2>1 DEF sessionVars, StoreInv, SessionTypeOK, IndexesAgree,
                NicknameHeldInSession, SessionsOf
  <2>3. sessions' = [sessions EXCEPT ![s] = NoSession]
    BY <1>1, <2>1 DEF sessionVars, SessionTypeOK
  <2> QED
    BY <2>1, <2>2, <2>3 DEF sessionVars
<1>3. CASE Exists(s)
  <2>1. p \in PlayerIds
    BY <1>1, <1>3, SessionShape
  <2>2. sessions' = [sessions EXCEPT ![s] = NoSession] /\ ReleaseIfUnused(s, p)
    BY <1>3 DEF Delete
  <2>3. \A u \in SessionIds : sessions'[u] = IF u = s THEN NoSession ELSE sessions[u]
    BY <1>1, <2>2 DEF SessionTypeOK
  <2>4. sessions' \in [SessionIds -> PlayerSession \cup {NoSession}]
    BY <1>1, <2>2 DEF SessionTypeOK
  <2>5. \A q \in PlayerIds : SessionsOf(q)' = SessionsOf(q) \ {s}
    BY <1>1, <2>3 DEF SessionsOf, NoSession
  <2>6. \A q \in PlayerIds : q # p => SessionsOf(q)' = SessionsOf(q)
    BY <2>5 DEF SessionsOf
  <2>7. CASE SessionsOf(p) \subseteq {s}
    <3>1. /\ nicknameOwners' = [n \in Names |->
                IF n = playerNicknames[p] /\ nicknameOwners[n] = p THEN NoPlayer
                ELSE nicknameOwners[n]]
          /\ playerNicknames' = [playerNicknames EXCEPT ![p] = NoName]
      BY <2>2, <2>7 DEF ReleaseIfUnused
    <3>2. \A n \in Names, q \in PlayerIds :
            nicknameOwners[n] = q <=> playerNicknames[q] = n
      BY DEF StoreInv, IndexesAgree
    <3>3. \A q \in PlayerIds : playerNicknames'[q] =
                IF q = p THEN NoName ELSE playerNicknames[q]
      BY <1>1, <3>1 DEF SessionTypeOK
    <3>4. SessionTypeOK'
      <4>1. nicknameOwners' \in [Names -> PlayerIds \cup {NoPlayer}]
        BY <1>1, <3>1 DEF SessionTypeOK
      <4>2. playerNicknames' \in [PlayerIds -> Names \cup {NoName}]
        BY <1>1, <3>1 DEF SessionTypeOK
      <4> QED
        BY <2>4, <4>1, <4>2 DEF SessionTypeOK
    <3>5. IndexesAgree'
      <4> SUFFICES ASSUME NEW q \in PlayerIds, NEW n \in Names
                   PROVE  nicknameOwners'[n] = q <=> playerNicknames'[q] = n
        BY DEF IndexesAgree
      <4>1. nicknameOwners'[n] =
                IF n = playerNicknames[p] /\ nicknameOwners[n] = p THEN NoPlayer
                ELSE nicknameOwners[n]
        BY <3>1
      <4> QED
        BY <1>1, <2>1, <3>2, <3>3, <4>1
    <3>6. NicknameHeldInSession'
      <4> SUFFICES ASSUME NEW q \in PlayerIds
                   PROVE  playerNicknames'[q] # NoName <=> SessionsOf(q)' # {}
        BY DEF NicknameHeldInSession
      <4>1. playerNicknames[q] # NoName <=> SessionsOf(q) # {}
        BY DEF StoreInv, NicknameHeldInSession
      <4>2. CASE q = p
        BY <2>1, <2>5, <2>7, <3>3, <4>2
      <4>3. CASE q # p
        BY <2>6, <3>3, <4>1, <4>3
      <4> QED
        BY <4>2, <4>3
    <3>7. Release(p)
      <4>1. nicknameOwners' = [m \in Names |->
                IF nicknameOwners[m] = p THEN NoPlayer ELSE nicknameOwners[m]]
        BY <2>1, <3>1, <3>2
      <4> QED
        BY <4>1 DEF Release
    <3>8. \A q \in PlayerIds : (\E u \in SessionIds \ {s} : sessions[u].player = q)
                => playerNicknames'[q] = playerNicknames[q]
      BY <2>7, <3>3 DEF SessionsOf
    <3> QED
      BY <2>1, <2>2, <3>4, <3>5, <3>6, <3>7, <3>8 DEF StoreInv
  <2>8. CASE ~ (SessionsOf(p) \subseteq {s})
    <3>1. UNCHANGED <<nicknameOwners, playerNicknames>>
      BY <2>2, <2>8 DEF ReleaseIfUnused
    <3>2. SessionTypeOK'
      BY <1>1, <2>4, <3>1 DEF SessionTypeOK
    <3>3. IndexesAgree'
      BY <3>1 DEF StoreInv, IndexesAgree
    <3>4. NicknameHeldInSession'
      <4> SUFFICES ASSUME NEW q \in PlayerIds
                   PROVE  playerNicknames'[q] # NoName <=> SessionsOf(q)' # {}
        BY DEF NicknameHeldInSession
      <4>1. playerNicknames[q] # NoName <=> SessionsOf(q) # {}
        BY DEF StoreInv, NicknameHeldInSession
      <4>2. SessionsOf(q)' # {} <=> SessionsOf(q) # {}
        BY <2>1, <2>5, <2>6, <2>8
      <4> QED
        BY <3>1, <4>1, <4>2
    <3> QED
      BY <2>2, <3>1, <3>2, <3>3, <3>4 DEF StoreInv
  <2> QED
    BY <2>7, <2>8
<1> QED
  BY <1>2, <1>3

-----------------------------------------------------------------------------
(* The steps of the service.                                               *)

LEMMA InitIInv == Init => IInv
<1> SUFFICES ASSUME Init PROVE IInv
  OBVIOUS
<1> USE DEF Init, SessionInit, RegistryInit
<1>1. (CHOOSE x \in Nicknames : TRUE) \in Nicknames
  BY NicknamesAssumption
<1>2. SessionTypeOK
  BY DEF SessionTypeOK
<1>3. \A s \in SessionIds : sessions[s].player = NoPlayer
  BY DEF NoSession
<1>4. NoPlayer \notin PlayerIds /\ NoName \notin Names
  BY NoPlayerAssumption, NoNameAssumption
<1>5. TypeOK
  BY <1>1, <1>2 DEF TypeOK, Registers
<1>6. IndexesAgree /\ NicknameHeldInSession
  BY <1>3, <1>4 DEF IndexesAgree, NicknameHeldInSession, SessionsOf
<1>7. IdsFresh /\ UnderWay
  BY SessionIdsAssumption DEF IdsFresh, UnderWay
<1>8. OnlySession /\ SavedNickname
  BY <1>3, <1>4 DEF OnlySession, SavedNickname
<1> QED
  BY <1>2, <1>5, <1>6, <1>7, <1>8 DEF IInv, StoreInv

\* A deletion leaves the other sessions what they were.
LEMMA DeleteKeepsRest ==
    ASSUME IInv, NEW s \in SessionIds, Delete(s),
           UNCHANGED <<cookies, users, twice>>,
           \A u \in SessionIds : pc'[u] = "grant" => pc[u] = "grant"
    PROVE  /\ OnlySession' /\ SavedNickname'
           /\ \A u \in SessionIds :
                    sessions'[u] = IF u = s THEN NoSession ELSE sessions[u]
<1>1. StoreInv /\ OnlySession /\ SavedNickname /\ NoPlayer \notin PlayerIds
  BY NoPlayerAssumption DEF IInv
<1>2. /\ sessions' = [sessions EXCEPT ![s] = NoSession]
      /\ \A p \in PlayerIds : (\E u \in SessionIds \ {s} : sessions[u].player = p)
                    => playerNicknames'[p] = playerNicknames[p]
  BY <1>1, DeleteKeepsStore
<1>3. \A u \in SessionIds : sessions'[u] = IF u = s THEN NoSession ELSE sessions[u]
  BY <1>1, <1>2 DEF StoreInv, SessionTypeOK
<1>4. \A u \in SessionIds, p \in PlayerIds :
        sessions'[u].player = p => u # s /\ sessions'[u] = sessions[u]
  BY <1>1, <1>3 DEF NoSession
<1>5. OnlySession'
  BY <1>1, <1>2, <1>4 DEF OnlySession
<1>6. SavedNickname'
  BY <1>1, <1>4 DEF SavedNickname
<1> QED
  BY <1>3, <1>5, <1>6

LEMMA RevokeKeepsIInv ==
    ASSUME IInv, NEW r \in Requests, NEW p \in PlayerIds, NEW x \in Nicknames,
           RevokeCookie(r, p, x), born' \subseteq Guests
    PROVE  IInv'
<1> USE SessionIdsAssumption
<1>1. /\ TypeOK /\ StoreInv /\ IdsFresh /\ UnderWay /\ OnlySession /\ SavedNickname
  BY DEF IInv
<1>2. /\ pc[r] = "new"
      /\ reg' = [reg EXCEPT ![r] = [player |-> p, nickname |-> x]]
      /\ pc' = [pc EXCEPT ![r] = "create"]
      /\ UNCHANGED <<expired, found, cookies, users, twice>>
  BY DEF RevokeCookie, At, Goto
<1>3. /\ \A u \in Requests : pc'[u] = IF u = r THEN "create" ELSE pc[u]
      /\ \A u \in Requests : reg'[u] =
                IF u = r THEN [player |-> p, nickname |-> x] ELSE reg[u]
  BY <1>1, <1>2 DEF TypeOK
<1>4. /\ pc' \in [Requests -> {"new", "create", "save", "forget", "grant", "done"}]
      /\ reg' \in [Requests -> Registers]
  BY <1>1, <1>2 DEF TypeOK, Registers
<1>5. CASE UNCHANGED sessionVars
  <2>1. StoreInv' /\ OnlySession'
    BY <1>1, <1>2, <1>5 DEF StoreInv, sessionVars, SessionTypeOK, IndexesAgree,
       NicknameHeldInSession, SessionsOf, OnlySession
  <2>2. IdsFresh' /\ UnderWay'
    BY <1>1, <1>2, <1>3, <1>5 DEF IdsFresh, UnderWay, sessionVars
  <2>3. SavedNickname'
    BY <1>1, <1>2, <1>3, <1>5 DEF SavedNickname, sessionVars
  <2>4. TypeOK'
    BY <1>1, <1>2, <1>4, <2>1 DEF TypeOK, StoreInv
  <2> QED
    BY <2>1, <2>2, <2>3, <2>4 DEF IInv
<1>6. CASE \E s \in cookies : Delete(s)
  <2> PICK s \in cookies : Delete(s)
    BY <1>6
  <2>1. s \in SessionIds /\ s # r
    BY <1>1, <1>2 DEF TypeOK, IdsFresh
  <2>2. StoreInv'
    BY <1>1, <2>1, DeleteKeepsStore
  <2>3. /\ OnlySession' /\ SavedNickname'
        /\ \A u \in SessionIds :
                sessions'[u] = IF u = s THEN NoSession ELSE sessions[u]
    BY <1>2, <1>3, <2>1, DeleteKeepsRest
  <2>4. IdsFresh'
    BY <1>1, <1>2, <1>3, <2>3 DEF IdsFresh
  <2>5. UnderWay'
    BY <1>1, <1>2, <1>3, <2>3 DEF UnderWay
  <2>6. TypeOK'
    BY <1>1, <1>2, <1>4, <2>2 DEF TypeOK, StoreInv
  <2> QED
    BY <2>2, <2>3, <2>4, <2>5, <2>6 DEF IInv
<1> QED
  BY <1>5, <1>6 DEF RevokeCookie

\* Logout, DeleteExpired.
LEMMA DeleteKeepsIInv ==
    ASSUME IInv, NEW s \in cookies, Delete(s), found' \subseteq cookies,
           UNCHANGED <<expired, cookies, users, pc, reg, born, twice>>
    PROVE  IInv'
<1> USE SessionIdsAssumption
<1>1. /\ TypeOK /\ StoreInv /\ IdsFresh /\ UnderWay
  BY DEF IInv
<1>2. s \in SessionIds
  BY <1>1 DEF TypeOK
<1>3. StoreInv'
  BY <1>1, <1>2, DeleteKeepsStore
<1>4. /\ OnlySession' /\ SavedNickname'
      /\ \A u \in SessionIds :
            sessions'[u] = IF u = s THEN NoSession ELSE sessions[u]
  BY <1>2, DeleteKeepsRest
<1>5. IdsFresh' /\ UnderWay'
  BY <1>1, <1>4 DEF IdsFresh, UnderWay
<1>6. TypeOK'
  BY <1>1, <1>3 DEF TypeOK, StoreInv
<1> QED
  BY <1>3, <1>4, <1>5, <1>6 DEF IInv

LEMMA CreateSessionKeepsIInv ==
    ASSUME IInv, NEW r \in Requests, CreateSession(r)
    PROVE  IInv'
<1> USE SessionIdsAssumption
<1> DEFINE p == reg[r].player
           x == reg[r].nickname
           next == IF PostgresEnabled THEN "save" ELSE "grant"
<1>1. /\ TypeOK /\ StoreInv /\ IdsFresh /\ UnderWay /\ OnlySession /\ SavedNickname
  BY DEF IInv
<1>2. /\ pc[r] = "create"
      /\ UNCHANGED <<expired, found, cookies, users, reg, born>>
  BY DEF CreateSession, At
<1>3. /\ p \in PlayerIds /\ x \in Nicknames
      /\ sessions[r] = NoSession /\ r \notin cookies
      /\ NoPlayer \notin PlayerIds
  BY <1>1, <1>2, NoPlayerAssumption DEF TypeOK, IdsFresh, Registers
<1>4. CASE /\ Create(r, p, x)
           /\ twice' = IF SessionsOf(p) = {} THEN twice ELSE twice \cup {p}
           /\ Goto(r, next)
  <2>1. StoreInv'
    BY <1>1, <1>3, <1>4, CreateKeepsStore
  <2>2. pc' = [pc EXCEPT ![r] = next]
    BY <1>4 DEF Goto
  <2>3. /\ pc' \in [Requests -> {"new", "create", "save", "forget", "grant", "done"}]
        /\ \A u \in Requests : pc'[u] = IF u = r THEN next ELSE pc[u]
    BY <1>1, <2>2 DEF TypeOK
  <2>4. TypeOK'
    BY <1>1, <1>2, <1>3, <1>4, <2>1, <2>3 DEF TypeOK, StoreInv
  <2>5. \A u \in SessionIds : sessions'[u] =
            IF u = r THEN [player |-> p, nickname |-> x] ELSE sessions[u]
    BY <1>1, <1>4 DEF Create, StoreInv, SessionTypeOK
  <2>6. IdsFresh' /\ UnderWay'
    BY <1>1, <1>2, <1>3, <2>3, <2>5 DEF IdsFresh, UnderWay
  <2>7. \A q \in PlayerIds : playerNicknames'[q] =
            IF q = p THEN Canonical[x] ELSE playerNicknames[q]
    BY <1>1, <1>4 DEF Create, StoreInv, SessionTypeOK
  <2>8. p \notin twice' => \A u \in SessionIds : sessions[u].player # p
    BY <1>4 DEF SessionsOf
  <2>9. OnlySession'
    <3> SUFFICES ASSUME NEW s \in SessionIds, NEW q \in PlayerIds,
                        sessions'[s].player = q, q \notin twice'
                 PROVE  /\ \A u \in SessionIds : sessions'[u].player = q => u = s
                        /\ playerNicknames'[q] = Canonical[sessions'[s].nickname]
      BY DEF OnlySession
    <3>1. CASE q = p
      BY <2>5, <2>7, <2>8, <3>1
    <3>2. CASE q # p
      <4>1. s # r /\ sessions'[s] = sessions[s] /\ q \notin twice
        BY <1>4, <2>5, <3>2
      <4> QED
        BY <1>1, <2>5, <2>7, <3>2, <4>1 DEF OnlySession
    <3> QED
      BY <3>1, <3>2
  <2>10. SavedNickname'
    <3> SUFFICES ASSUME PostgresEnabled, NEW s \in SessionIds, NEW q \in PlayerIds,
                        sessions'[s].player = q, q \notin twice',
                        pc'[s] = "grant" \/ s \in cookies'
                 PROVE  users'[q] = Canonical[sessions'[s].nickname]
      BY DEF SavedNickname
    <3>1. s # r
      BY <1>2, <1>3, <2>3
    <3>2. sessions'[s] = sessions[s] /\ q \notin twice /\ pc'[s] = pc[s]
      BY <1>4, <2>3, <2>5, <3>1
    <3> QED
      BY <1>1, <1>2, <3>2 DEF SavedNickname
  <2> QED
    BY <2>1, <2>4, <2>6, <2>9, <2>10 DEF IInv
<1>5. CASE Goto(r, "done") /\ UNCHANGED <<sessionVars, twice>>
  <2>1. /\ pc' = [pc EXCEPT ![r] = "done"]
        /\ UNCHANGED <<sessions, nicknameOwners, playerNicknames, twice>>
    BY <1>5 DEF Goto, sessionVars
  <2>2. \A u \in Requests : pc'[u] = IF u = r THEN "done" ELSE pc[u]
    BY <1>1, <2>1 DEF TypeOK
  <2>3. TypeOK'
    BY <1>1, <1>2, <2>1 DEF TypeOK, SessionTypeOK
  <2>4. StoreInv' /\ OnlySession'
    BY <1>1, <2>1 DEF StoreInv, SessionTypeOK, IndexesAgree,
       NicknameHeldInSession, SessionsOf, OnlySession
  <2>5. IdsFresh' /\ UnderWay' /\ SavedNickname'
    BY <1>1, <1>2, <2>1, <2>2 DEF IdsFresh, UnderWay, SavedNickname
  <2> QED
    BY <2>3, <2>4, <2>5 DEF IInv
<1> QED
  BY <1>4, <1>5 DEF CreateSession

LEMMA PersistKeepsIInv ==
    ASSUME IInv, NEW r \in Requests, PersistSession(r)
    PROVE  IInv'
<1> USE SessionIdsAssumption
<1> DEFINE p == reg[r].player
           canonical == Canonical[reg[r].nickname]
<1>1. /\ TypeOK /\ StoreInv /\ IdsFresh /\ UnderWay /\ OnlySession /\ SavedNickname
  BY DEF IInv
<1>2. /\ pc[r] = "save"
      /\ UNCHANGED <<sessions, nicknameOwners, playerNicknames, expired, found,
                     cookies, reg, born, twice>>
  BY DEF PersistSession, At, sessionVars
<1>3. PICK next \in {"grant", "forget"} : pc' = [pc EXCEPT ![r] = next]
  BY DEF PersistSession, Goto
<1>4. \/ users' = [users EXCEPT ![p] = canonical]
      \/ users' = users /\ pc' = [pc EXCEPT ![r] = "forget"]
  BY DEF PersistSession, Goto
<1>5. /\ p \in PlayerIds /\ r \notin cookies /\ canonical \in Names
      /\ sessions[r] = [player |-> p, nickname |-> reg[r].nickname]
  BY <1>1, <1>2, CanonicalAssumption DEF UnderWay, TypeOK, Registers
<1>6. /\ pc' \in [Requests -> {"new", "create", "save", "forget", "grant", "done"}]
      /\ \A u \in Requests : u # r => pc'[u] = pc[u]
      /\ pc'[r] = next
  BY <1>1, <1>3 DEF TypeOK
<1>7. TypeOK'
  BY <1>1, <1>2, <1>4, <1>5, <1>6 DEF TypeOK, SessionTypeOK
<1>8. StoreInv' /\ OnlySession'
  BY <1>1, <1>2 DEF StoreInv, SessionTypeOK, IndexesAgree,
     NicknameHeldInSession, SessionsOf, OnlySession
<1>9. IdsFresh' /\ UnderWay'
  BY <1>1, <1>2, <1>5, <1>6 DEF IdsFresh, UnderWay
<1>10. SavedNickname'
  <2> SUFFICES ASSUME PostgresEnabled, NEW s \in SessionIds, NEW q \in PlayerIds,
                      sessions[s].player = q, q \notin twice,
                      pc'[s] = "grant" \/ s \in cookies
               PROVE  users'[q] = Canonical[sessions[s].nickname]
    BY <1>2 DEF SavedNickname
  <2>1. CASE s = r
    <3>1. pc'[r] = "grant"
      BY <1>5, <2>1
    <3>2. users' = [users EXCEPT ![p] = canonical]
      BY <1>1, <1>4, <3>1 DEF TypeOK
    <3> QED
      BY <1>1, <1>5, <2>1, <3>2 DEF TypeOK
  <2>2. CASE s # r
    <3>1. q # p
      BY <1>1, <1>5, <2>2 DEF OnlySession
    <3>2. users'[q] = users[q]
      BY <1>1, <1>4, <3>1 DEF TypeOK
    <3> QED
      BY <1>1, <1>6, <2>2, <3>2 DEF SavedNickname
  <2> QED
    BY <2>1, <2>2
<1> QED
  BY <1>7, <1>8, <1>9, <1>10 DEF IInv

LEMMA ForgetKeepsIInv ==
    ASSUME IInv, NEW r \in Requests, Forget(r)
    PROVE  IInv'
<1> USE SessionIdsAssumption
<1>1. /\ TypeOK /\ StoreInv /\ IdsFresh /\ UnderWay
  BY DEF IInv
<1>2. /\ Delete(r)
      /\ pc' = [pc EXCEPT ![r] = "done"]
      /\ UNCHANGED <<expired, found, cookies, users, reg, born, twice>>
  BY DEF Forget, Goto
<1>3. /\ pc' \in [Requests -> {"new", "create", "save", "forget", "grant", "done"}]
      /\ \A u \in Requests : pc'[u] = IF u = r THEN "done" ELSE pc[u]
  BY <1>1, <1>2 DEF TypeOK
<1>4. StoreInv'
  BY <1>1, <1>2, DeleteKeepsStore
<1>5. /\ OnlySession' /\ SavedNickname'
      /\ \A u \in SessionIds :
            sessions'[u] = IF u = r THEN NoSession ELSE sessions[u]
  BY <1>2, <1>3, DeleteKeepsRest
<1>6. IdsFresh' /\ UnderWay'
  BY <1>1, <1>2, <1>3, <1>5 DEF IdsFresh, UnderWay
<1>7. TypeOK'
  BY <1>1, <1>2, <1>3, <1>4 DEF TypeOK, StoreInv
<1> QED
  BY <1>4, <1>5, <1>6, <1>7 DEF IInv

LEMMA GrantKeepsIInv ==
    ASSUME IInv, NEW r \in Requests, Grant(r)
    PROVE  IInv'
<1> USE SessionIdsAssumption
<1>1. /\ TypeOK /\ StoreInv /\ IdsFresh /\ UnderWay /\ OnlySession /\ SavedNickname
  BY DEF IInv
<1>2. /\ pc[r] = "grant"
      /\ cookies' = cookies \cup {r}
      /\ pc' = [pc EXCEPT ![r] = "done"]
      /\ UNCHANGED <<sessions, nicknameOwners, playerNicknames, expired, found,
                     users, reg, born, twice>>
  BY DEF Grant, At, Goto, sessionVars
<1>3. /\ pc' \in [Requests -> {"new", "create", "save", "forget", "grant", "done"}]
      /\ \A u \in Requests : pc'[u] = IF u = r THEN "done" ELSE pc[u]
  BY <1>1, <1>2 DEF TypeOK
<1>4. TypeOK'
  BY <1>1, <1>2, <1>3 DEF TypeOK, SessionTypeOK
<1>5. StoreInv' /\ OnlySession'
  BY <1>1, <1>2 DEF StoreInv, SessionTypeOK, IndexesAgree,
     NicknameHeldInSession, SessionsOf, OnlySession
<1>6. IdsFresh' /\ UnderWay'
  BY <1>1, <1>2, <1>3 DEF IdsFresh, UnderWay
<1>7. SavedNickname'
  BY <1>1, <1>2, <1>3 DEF SavedNickname
<1> QED
  BY <1>4, <1>5, <1>6, <1>7 DEF IInv

\* After a restart nobody is in session.
LEMMA RestartKeepsIInv ==
    ASSUME IInv, Restart
    PROVE  IInv'
<1> USE SessionIdsAssumption
<1>1. /\ TypeOK /\ IdsFresh /\ NoPlayer \notin PlayerIds /\ NoName \notin Names
  BY NoPlayerAssumption, NoNameAssumption DEF IInv
<1>2. /\ sessions' = [s \in SessionIds |-> NoSession]
      /\ nicknameOwners' = [n \in Names |-> NoPlayer]
      /\ playerNicknames' = [p \in PlayerIds |-> NoName]
      /\ pc' = [r \in Requests |-> IF pc[r] = "new" THEN "new" ELSE "done"]
      /\ found' = {}
      /\ UNCHANGED <<expired, cookies, users, reg, born, twice>>
  BY DEF Restart, ReleaseAll, At
<1>3. \A s \in SessionIds : sessions'[s].player = NoPlayer
  BY <1>2 DEF NoSession
<1>4. TypeOK'
  BY <1>1, <1>2 DEF TypeOK, SessionTypeOK
<1>5. IndexesAgree' /\ NicknameHeldInSession'
  BY <1>1, <1>2, <1>3 DEF IndexesAgree, NicknameHeldInSession, SessionsOf
<1>6. IdsFresh' /\ UnderWay'
  BY <1>1, <1>2 DEF IdsFresh, UnderWay
<1>7. OnlySession' /\ SavedNickname'
  BY <1>1, <1>3 DEF OnlySession, SavedNickname
<1> QED
  BY <1>4, <1>5, <1>6, <1>7 DEF IInv, StoreInv, TypeOK

LEMMA NextIInv == IInv /\ [Next]_vars => IInv'
<1> SUFFICES ASSUME IInv, [Next]_vars PROVE IInv'
  OBVIOUS
<1> USE SessionIdsAssumption
<1>0. TypeOK
  BY DEF IInv
<1>1. ASSUME NEW r \in Requests, NEW p \in PlayerIds, NEW x \in Nicknames,
             GuestSession(r, p, x)
      PROVE  IInv'
  <2>1. born' \subseteq Guests
    BY <1>0, <1>1 DEF GuestSession, TypeOK
  <2> QED
    BY <1>1, <2>1, RevokeKeepsIInv DEF GuestSession
<1>2. ASSUME NEW r \in Requests, NEW p \in PlayerIds, NEW x \in Nicknames,
             AuthExchange(r, p, x)
      PROVE  IInv'
  BY <1>0, <1>2, RevokeKeepsIInv DEF AuthExchange, TypeOK
<1>3. ASSUME NEW r \in Requests, Step(r) PROVE IInv'
  BY <1>3, CreateSessionKeepsIInv, PersistKeepsIInv, ForgetKeepsIInv,
     GrantKeepsIInv DEF Step
<1>4. ASSUME NEW s \in SessionIds, Logout(s) \/ DeleteExpired(s)
      PROVE  IInv'
  <2>1. /\ s \in cookies /\ Delete(s) /\ found' \subseteq cookies
        /\ UNCHANGED <<expired, cookies, users, pc, reg, born, twice>>
    BY <1>0, <1>4 DEF Logout, DeleteExpired, TypeOK
  <2> QED
    BY <2>1, DeleteKeepsIInv
<1>5. ASSUME NEW s \in SessionIds, Expire(s) \/ FindExpired(s) PROVE IInv'
  <2>1. /\ expired' \subseteq SessionIds /\ found' \subseteq cookies
        /\ UNCHANGED <<sessions, nicknameOwners, playerNicknames, cookies, users,
                       pc, reg, born, twice>>
    BY <1>0, <1>5 DEF Expire, FindExpired, sessionVars, TypeOK
  <2> QED
    BY <2>1 DEF IInv, TypeOK, StoreInv, SessionTypeOK, IndexesAgree,
       NicknameHeldInSession, SessionsOf, IdsFresh, UnderWay, OnlySession,
       SavedNickname
<1>6. CASE Restart
  BY <1>6, RestartKeepsIInv
<1>7. CASE UNCHANGED vars
  BY <1>7 DEF vars, IInv, TypeOK, StoreInv, SessionTypeOK, IndexesAgree,
     NicknameHeldInSession, SessionsOf, IdsFresh, UnderWay, OnlySession,
     SavedNickname
<1> QED
  BY <1>1, <1>2, <1>3, <1>4, <1>5, <1>6, <1>7 DEF Next

LEMMA AlwaysIInv == Spec => []IInv
BY InitIInv, NextIInv, PTL DEF Spec

-----------------------------------------------------------------------------

\* Every reachable state of the sessions and of the requests over them has its
\* types (store.go, http_handlers.go).
THEOREM TypeCorrect == Spec => []TypeOK
<1>1. IInv => TypeOK
  BY DEF IInv
<1> QED
  BY <1>1, AlwaysIInv, PTL

\* The indices nicknameOwners and playerNicknames agree in every reachable
\* state (store.go 104-117, 189-206).
THEOREM IndexesAlwaysAgree == Spec => []IndexesAgree
<1>1. IInv => IndexesAgree
  BY DEF IInv, StoreInv
<1> QED
  BY <1>1, AlwaysIInv, PTL

\* A nickname is held exactly as long as its player has a session
\* (store.go 189-206).
THEOREM NicknameAlwaysHeldInSession == Spec => []NicknameHeldInSession
<1>1. IInv => NicknameHeldInSession
  BY DEF IInv, StoreInv
<1> QED
  BY <1>1, AlwaysIInv, PTL

\* Players who have one session at a time have nicknames of their own, in any
\* spelling (http_handlers.go 65-199).
THEOREM NicknamesUniqueForOne == Spec => []NicknamesUniqueOnce
<1>1. ASSUME IInv PROVE NicknamesUniqueOnce
  <2> SUFFICES ASSUME NEW s \in SessionIds, NEW u \in SessionIds,
                      Exists(s), Exists(u),
                      sessions[s].player # sessions[u].player,
                      {sessions[s].player, sessions[u].player} \cap twice = {}
               PROVE  Canonical[sessions[s].nickname] # Canonical[sessions[u].nickname]
    BY DEF NicknamesUniqueOnce
  <2> DEFINE p == sessions[s].player
             q == sessions[u].player
  <2>1. SessionTypeOK /\ IndexesAgree /\ OnlySession
    BY <1>1 DEF IInv, StoreInv
  <2>2. /\ p \in PlayerIds /\ q \in PlayerIds
        /\ sessions[s] \in PlayerSession
    BY <2>1, SessionShape
  <2>3. /\ playerNicknames[p] = Canonical[sessions[s].nickname]
        /\ playerNicknames[q] = Canonical[sessions[u].nickname]
    BY <2>1, <2>2 DEF OnlySession
  <2>4. Canonical[sessions[s].nickname] \in Names
    BY <2>2, CanonicalAssumption DEF PlayerSession
  <2> QED
    BY <2>1, <2>2, <2>3, <2>4 DEF IndexesAgree
<1> QED
  BY <1>1, AlwaysIInv, PTL

\* What a browser was given a cookie for is in the database under the same
\* nickname, for players with one session at a time (http_handlers.go 92-99).
THEOREM CookieAlwaysSaved == Spec => []CookieMeansSaved
<1>1. ASSUME IInv PROVE CookieMeansSaved
  <2>1. TypeOK /\ SessionTypeOK /\ SavedNickname
    BY <1>1 DEF IInv, StoreInv
  <2>2. \A s \in cookies : Exists(s) => sessions[s].player \in PlayerIds
    BY <2>1, SessionShape DEF TypeOK
  <2> QED
    BY <2>1, <2>2 DEF CookieMeansSaved, SavedNickname, TypeOK
<1> QED
  BY <1>1, AlwaysIInv, PTL

\* The session store, with the requests over it, implements the nickname
\* policy (store.go 104-117, 189-206).
THEOREM StoreImplementsRegistry == Spec => ImplementsRegistry
<1>1. Init => RegistryInit
  BY DEF Init, SessionInit
<1>2. ASSUME IInv, [Next]_vars PROVE [RegistryNext]_nicknameOwners
  <2>0. TypeOK /\ StoreInv /\ IdsFresh
    BY <1>2 DEF IInv
  <2>1. ASSUME NEW s \in SessionIds, Delete(s)
        PROVE  [RegistryNext]_nicknameOwners
    BY <2>0, <2>1, DeleteKeepsStore DEF RegistryNext
  <2>2. ASSUME NEW r \in Requests, NEW p \in PlayerIds, NEW x \in Nicknames,
               RevokeCookie(r, p, x)
        PROVE  [RegistryNext]_nicknameOwners
    BY <2>0, <2>1, <2>2 DEF RevokeCookie, sessionVars, TypeOK
  <2>3. ASSUME NEW r \in Requests, CreateSession(r)
        PROVE  [RegistryNext]_nicknameOwners
    <3>1. /\ reg[r].player \in PlayerIds /\ reg[r].nickname \in Nicknames
          /\ sessions[r] = NoSession /\ r \in SessionIds
      BY <2>0, <2>3, SessionIdsAssumption
         DEF CreateSession, At, IdsFresh, TypeOK, Registers
    <3>2. CASE Create(r, reg[r].player, reg[r].nickname)
      <4>1. Take(reg[r].player, Canonical[reg[r].nickname])
        BY <2>0, <3>1, <3>2, CreateKeepsStore
      <4> QED
        BY <3>1, <4>1, CanonicalAssumption DEF RegistryNext
    <3>3. CASE UNCHANGED sessionVars
      BY <3>3 DEF sessionVars
    <3> QED
      BY <2>3, <3>2, <3>3 DEF CreateSession
  <2>4. ASSUME NEW r \in Requests, Step(r)
        PROVE  [RegistryNext]_nicknameOwners
    BY <2>1, <2>3, <2>4, SessionIdsAssumption
       DEF Step, PersistSession, Forget, Grant, sessionVars
  <2>5. ASSUME NEW s \in SessionIds,
               Logout(s) \/ Expire(s) \/ FindExpired(s) \/ DeleteExpired(s)
        PROVE  [RegistryNext]_nicknameOwners
    BY <2>1, <2>5 DEF Logout, Expire, FindExpired, DeleteExpired, sessionVars
  <2>6. CASE Restart
    BY <2>6 DEF Restart, RegistryNext
  <2>7. CASE UNCHANGED vars
    BY <2>7 DEF vars
  <2> QED
    BY <1>2, <2>2, <2>4, <2>5, <2>6, <2>7 DEF Next, GuestSession, AuthExchange
<1> QED
  BY <1>1, <1>2, AlwaysIInv, PTL DEF Spec, ImplementsRegistry, RegistrySpec
=============================================================================
